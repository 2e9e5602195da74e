-------------------------------- MODULE Tail --------------------------------
(***************************************************************************)
(* The end of what a child wrote to stderr, as a failure notification       *)
(* carries it: the ring buffer of `run` (internal/supervisor) that keeps    *)
(* the last bytes while the child writes in pieces of any size, and         *)
(* tailio.Truncate, which takes the last lines or the last bytes of it,     *)
(* whichever is shorter.  A cmd check truncates everything that was written.*)
(***************************************************************************)
EXTENDS Naturals, Sequences, FiniteSets

CONSTANTS
  Bytes,       \* bytes a child may write; one of them is NL
  NL,          \* the end of a line
  BufferBytes, \* --stderr-buffer-bytes
  TailLines,   \* --stderr-tail-lines
  TailBytes,   \* --stderr-tail-bytes
  MaxPiece,    \* bound: bytes of one write
  MaxWritten   \* bound: bytes written altogether

VARIABLES
  written,  \* history: everything the child wrote
  ring      \* ringBuffer.data

tailVars == <<written, ring>>

Last(b, n) == IF Len(b) > n THEN SubSeq(b, Len(b) - n + 1, Len(b)) ELSE b

(***************************************************************************)
(* tailio.                                                                  *)
(***************************************************************************)
\* Lines from position i on: a last line without its end counts too.
LinesFrom(b, i) ==
  Cardinality({j \in i..Len(b) : b[j] = NL}) + IF b[Len(b)] = NL THEN 0 ELSE 1

\* Mutant: a last line without its end is not counted.
LastNLinesUncounted(b, n) ==
  LET cuts == {i \in 1..Len(b) :
                 b[i] = NL /\ Cardinality({j \in i..Len(b) : b[j] = NL}) > n}
  IN IF cuts = {} THEN b
     ELSE SubSeq(b, 1 + CHOOSE i \in cuts : \A j \in cuts : j <= i, Len(b))

\* The scan from the end stops at the first line end that is one too many.
LastNLines(b, n) ==
  LET cuts == {i \in 1..Len(b) : b[i] = NL /\ LinesFrom(b, i) > n}
  IN IF cuts = {} THEN b
     ELSE SubSeq(b, 1 + CHOOSE i \in cuts : \A j \in cuts : j <= i, Len(b))

\* A limit of 0 is no limit.
Truncate(b, maxLines, maxBytes) ==
  LET lineTail == IF maxLines > 0 THEN LastNLines(b, maxLines) ELSE b
      byteTail == IF maxBytes > 0 THEN Last(b, maxBytes) ELSE b
  IN IF Len(lineTail) < Len(byteTail) THEN lineTail ELSE byteTail

(***************************************************************************)
(* The ring buffer.                                                         *)
(***************************************************************************)
\* os/exec copies what the child writes, in pieces as they come.
Write(piece) ==
  /\ Len(written) + Len(piece) <= MaxWritten
  /\ written' = written \o piece
  /\ ring' = Last(ring \o piece, BufferBytes)

TailInit == written = <<>> /\ ring = <<>>

Pieces == UNION {[1..n -> Bytes] : n \in 1..MaxPiece}

TailNext == \E piece \in Pieces : Write(piece)

(***************************************************************************)
(* Properties.                                                              *)
(***************************************************************************)
TailTypeOK == written \in Seq(Bytes) /\ ring \in Seq(Bytes) /\ Len(ring) <= BufferBytes

Lines(b) ==
  Cardinality({j \in 1..Len(b) : b[j] = NL})
    + IF b # <<>> /\ b[Len(b)] # NL THEN 1 ELSE 0

\* The longest end of b that keeps both limits.
LongestTail(b, maxLines, maxBytes) ==
  LET fits(k) == /\ maxBytes = 0 \/ Len(b) - k <= maxBytes
                 /\ maxLines = 0 \/ Lines(SubSeq(b, k + 1, Len(b))) <= maxLines
      k == CHOOSE k \in 0..Len(b) : fits(k) /\ \A j \in 0..(k - 1) : ~fits(j)
  IN SubSeq(b, k + 1, Len(b))

\* The notification of `run` shows the longest end of the whole output that keeps
\* the limits on lines and bytes and fits in the buffer, in whatever pieces the
\* child wrote it; that of a cmd check shows the same without the buffer.
TailIsFaithful ==
  /\ Truncate(ring, TailLines, TailBytes)
       = LongestTail(Last(written, BufferBytes), TailLines, TailBytes)
  /\ Truncate(written, TailLines, TailBytes)
       = LongestTail(written, TailLines, TailBytes)
=============================================================================
