----------------------------- MODULE TailProofs -----------------------------
(***************************************************************************)
(* What a notification shows of the output is the longest end of it within  *)
(* the limits, for any bytes, pieces, buffer and limits.  With the other    *)
(* checks, the types of all variables.                                      *)
(***************************************************************************)
EXTENDS CheckersProofs, RequestProofs, FiniteSetTheorems, SequenceTheorems

(***************************************************************************)
(* Ends of a sequence.                                                      *)
(***************************************************************************)
\* A bounded set of natural numbers has a greatest member.
LEMMA Greatest ==
  ASSUME NEW n \in Nat, NEW S \in SUBSET (0..n), S # {}
  PROVE  \E m \in S : \A k \in S : k <= m
<1> DEFINE T == {k \in 0..n : n - k \in S}
<1>1. T \in SUBSET Nat
  OBVIOUS
<1>2. T # {}
  <2>1. PICK k \in S : TRUE
    OBVIOUS
  <2>2. n - k \in 0..n /\ n - (n - k) = k
    BY <2>1
  <2> QED  BY <2>1, <2>2
<1>3. PICK t \in T : \A k \in T : t <= k
  <2> HIDE DEF T
  <2> QED  BY <1>1, <1>2, Least
<1>4. n - t \in S
  BY <1>3
<1>5. ASSUME NEW k \in S
      PROVE  k <= n - t
  <2>1. n - k \in 0..n /\ n - (n - k) = k
    BY <1>5
  <2>2. n - k \in T
    BY <2>1
  <2>3. t <= n - k /\ t \in Nat
    BY <1>1, <1>3, <2>2
  <2> QED  BY <2>1, <2>3
<1> QED  BY <1>4, <1>5

\* What is left of b without its first k bytes.
After(b, k) == SubSeq(b, k + 1, Len(b))

\* The bytes of an end of b are those of b, moved.
LEMMA AfterFacts ==
  ASSUME NEW b \in Seq(Bytes), NEW k \in 0..Len(b)
  PROVE  /\ After(b, k) \in Seq(Bytes) /\ Len(After(b, k)) = Len(b) - k
         /\ \A i \in 1..(Len(b) - k) : After(b, k)[i] = b[k + i]
BY DEF After

\* Where the last n bytes of b begin.
Start(b, n) == IF Len(b) > n THEN Len(b) - n ELSE 0

\* Last takes the end that begins there.
LEMMA LastAfter ==
  ASSUME NEW b \in Seq(Bytes), NEW n \in Nat
  PROVE  Start(b, n) \in 0..Len(b) /\ Output!Last(b, n) = After(b, Start(b, n))
<1>1. CASE Len(b) > n
  <2>1. Len(b) - n + 1 = (Len(b) - n) + 1
    OBVIOUS
  <2> QED  BY <1>1, <2>1 DEF Start, After, Output!Last
<1>2. CASE ~(Len(b) > n)
  <2>1. After(b, 0) = b
    <3>1. After(b, 0) \in Seq(Bytes) /\ Len(After(b, 0)) = Len(b)
          /\ \A i \in 1..Len(b) : After(b, 0)[i] = b[i]
      BY AfterFacts
    <3> QED  BY <3>1, SeqEqual
  <2> QED  BY <1>2, <2>1 DEF Start, Output!Last
<1> QED  BY <1>1, <1>2

(***************************************************************************)
(* The ring buffer.                                                         *)
(***************************************************************************)
\* Bytes that are already out of the buffer make no difference.
LEMMA LastOfLast ==
  ASSUME NEW b \in Seq(Bytes), NEW piece \in Seq(Bytes), NEW n \in Nat
  PROVE  Output!Last(Output!Last(b, n) \o piece, n) = Output!Last(b \o piece, n)
<1> DEFINE c == Output!Last(b, n)
           s == Start(b, n)
<1>1. s \in 0..Len(b) /\ c \in Seq(Bytes) /\ Len(c) = Len(b) - s
      /\ \A i \in 1..Len(c) : c[i] = b[s + i]
  <2>1. s \in 0..Len(b) /\ c = After(b, s)
    BY LastAfter
  <2> HIDE DEF s, c
  <2> QED  BY <2>1, AfterFacts
<1>2. s = IF Len(b) > n THEN Len(b) - n ELSE 0
  BY DEF Start
<1> HIDE DEF c, s
<1> DEFINE whole == b \o piece
           kept == c \o piece
<1>3. /\ whole \in Seq(Bytes) /\ Len(whole) = Len(b) + Len(piece)
      /\ kept \in Seq(Bytes) /\ Len(kept) = Len(c) + Len(piece)
  BY <1>1, ConcatProperties
<1>4. \A i \in 1..Len(kept) : kept[i] = whole[s + i]
  <2> TAKE i \in 1..Len(kept)
  <2>1. /\ Len(b) \in Nat /\ Len(c) \in Nat /\ Len(piece) \in Nat
        /\ s \in Int /\ Len(b) = s + Len(c) /\ s >= 0
    BY <1>1
  <2>2. kept[i] = IF i <= Len(c) THEN c[i] ELSE piece[i - Len(c)]
    BY <1>1, <1>3, ConcatProperties
  <2>3. \A j \in 1..(Len(b) + Len(piece)) :
          whole[j] = IF j <= Len(b) THEN b[j] ELSE piece[j - Len(b)]
    BY ConcatProperties
  <2>4. i \in 1..(Len(c) + Len(piece))
    BY <1>3
  <2> HIDE DEF whole, kept
  <2>5. /\ s + i \in 1..(Len(b) + Len(piece)) /\ (s + i) - Len(b) = i - Len(c)
        /\ s + i <= Len(b) <=> i <= Len(c)
    BY <2>1, <2>4
  <2>6. whole[s + i] = IF i <= Len(c) THEN b[s + i] ELSE piece[i - Len(c)]
    BY <2>3, <2>5
  <2>7. i <= Len(c) => c[i] = b[s + i]
    BY <1>1, <2>1, <2>4
  <2> QED  BY <2>2, <2>6, <2>7
<1> DEFINE u == Start(kept, n)
           v == Start(whole, n)
<1>5. u \in 0..Len(kept) /\ v \in 0..Len(whole) /\ v = s + u
  <2>1. Len(b) \in Nat /\ Len(c) \in Nat /\ Len(piece) \in Nat
    BY <1>1
  <2> HIDE DEF whole, kept
  <2>2. CASE Len(b) > n
    <3>1. s = Len(b) - n
      BY <1>2, <2>2
    <3>2. Len(c) = n
      BY <1>1, <2>1, <3>1
    <3>3. Len(kept) = n + Len(piece) /\ Len(whole) > n
      BY <1>3, <2>1, <2>2, <3>2
    <3>4. u = Len(piece)
      BY <2>1, <3>3 DEF Start
    <3>5. v = Len(b) + Len(piece) - n
      BY <1>3, <2>1, <3>3 DEF Start
    <3> HIDE DEF u, v
    <3> QED  BY <1>3, <2>1, <2>2, <3>1, <3>3, <3>4, <3>5
  <2>3. CASE ~(Len(b) > n)
    <3>1. s = 0 /\ Len(kept) = Len(whole) /\ Len(kept) \in Nat
      BY <1>1, <1>2, <1>3, <2>1, <2>3
    <3> QED  BY <3>1 DEF Start
  <2> QED  BY <2>2, <2>3
<1>6. Len(kept) - u = Len(whole) - v
  BY <1>1, <1>3, <1>5
<1> HIDE DEF whole, kept, u, v
<1>7. After(kept, u) = After(whole, v)
  <2>1. /\ After(kept, u) \in Seq(Bytes) /\ Len(After(kept, u)) = Len(kept) - u
        /\ \A i \in 1..(Len(kept) - u) : After(kept, u)[i] = kept[u + i]
    BY <1>3, <1>5, AfterFacts
  <2>2. /\ After(whole, v) \in Seq(Bytes) /\ Len(After(whole, v)) = Len(whole) - v
        /\ \A i \in 1..(Len(whole) - v) : After(whole, v)[i] = whole[v + i]
    BY <1>3, <1>5, AfterFacts
  <2>3. \A i \in 1..(Len(kept) - u) : kept[u + i] = whole[v + i]
    <3> TAKE i \in 1..(Len(kept) - u)
    <3>1. u + i \in 1..Len(kept) /\ s + (u + i) = v + i
      BY <1>1, <1>3, <1>5
    <3> QED  BY <1>4, <3>1
  <2> QED  BY <1>6, <2>1, <2>2, <2>3, SeqEqual
<1> QED  BY <1>3, <1>7, LastAfter DEF whole, kept, u, v, c

(***************************************************************************)
(* Lines.                                                                   *)
(***************************************************************************)
\* Module Tail counts as FiniteSets does.
LEMMA SameCardinality ==
  ASSUME NEW S
  PROVE  Output!Cardinality(S) = Cardinality(S)
BY DEF Output!Cardinality, Cardinality, Output!IsFiniteSet, IsFiniteSet

\* Line ends of b from position i on.
Ends(b, i) == {j \in i..Len(b) : b[j] = NL}

\* They can be counted.
LEMMA EndsFinite ==
  ASSUME NEW b \in Seq(Bytes), NEW i \in 1..Len(b)
  PROVE  IsFiniteSet(Ends(b, i)) /\ Cardinality(Ends(b, i)) \in Nat
<1>1. IsFiniteSet(i..Len(b)) /\ Ends(b, i) \in SUBSET (i..Len(b))
  BY FS_Interval DEF Ends
<1> QED  BY <1>1, FS_Subset, FS_CardinalityType

\* The lines from a position on are its line ends and what follows the last.
LEMMA LinesFromEnds ==
  ASSUME NEW b \in Seq(Bytes), NEW i \in 1..Len(b)
  PROVE  /\ Output!LinesFrom(b, i)
              = Cardinality(Ends(b, i)) + IF b[Len(b)] = NL THEN 0 ELSE 1
         /\ Output!LinesFrom(b, i) \in Nat
<1>1. Output!LinesFrom(b, i) = Cardinality(Ends(b, i)) + IF b[Len(b)] = NL THEN 0 ELSE 1
  BY SameCardinality DEF Output!LinesFrom, Ends
<1>2. Cardinality(Ends(b, i)) \in Nat
  BY EndsFinite
<1> QED  BY <1>1, <1>2

\* What stands further back has no more lines.
LEMMA LinesShrink ==
  ASSUME NEW b \in Seq(Bytes), NEW i \in 1..Len(b), NEW j \in i..Len(b)
  PROVE  Output!LinesFrom(b, j) <= Output!LinesFrom(b, i)
<1>1. j \in 1..Len(b) /\ Ends(b, j) \in SUBSET Ends(b, i)
  BY DEF Ends
<1>2. Cardinality(Ends(b, j)) <= Cardinality(Ends(b, i))
  BY <1>1, EndsFinite, FS_Subset
<1> QED  BY <1>1, <1>2, LinesFromEnds, EndsFinite

\* Only a line end is between one number of lines and another.
LEMMA SameLines ==
  ASSUME NEW b \in Seq(Bytes), NEW i \in 1..Len(b), i < Len(b), b[i] # NL
  PROVE  Output!LinesFrom(b, i + 1) = Output!LinesFrom(b, i)
<1>1. i + 1 \in 1..Len(b) /\ Ends(b, i + 1) = Ends(b, i)
  BY DEF Ends
<1> QED  BY <1>1, LinesFromEnds

\* The last byte is in one line.
LEMMA LastLine ==
  ASSUME NEW b \in Seq(Bytes), b # <<>>
  PROVE  Output!LinesFrom(b, Len(b)) = 1
<1>1. Len(b) \in 1..Len(b)
  OBVIOUS
<1>2. CASE b[Len(b)] = NL
  <2>1. Ends(b, Len(b)) = {Len(b)}
    BY <1>1, <1>2 DEF Ends
  <2>2. Cardinality(Ends(b, Len(b))) = 1
    BY <2>1, FS_Singleton
  <2> QED  BY <1>1, <1>2, <2>2, LinesFromEnds
<1>3. CASE b[Len(b)] # NL
  <2>1. Ends(b, Len(b)) = {}
    BY <1>1, <1>3 DEF Ends
  <2>2. Cardinality(Ends(b, Len(b))) = 0
    BY <2>1, FS_EmptySet
  <2> QED  BY <1>1, <1>3, <2>2, LinesFromEnds
<1> QED  BY <1>2, <1>3

\* The lines of an end of b, counted from its own beginning.
LEMMA LinesAfter ==
  ASSUME NEW b \in Seq(Bytes), NEW k \in 0..Len(b), k < Len(b)
  PROVE  Output!Lines(After(b, k)) = Output!LinesFrom(b, k + 1)
<1> DEFINE e == After(b, k)
           S == {j \in 1..Len(e) : e[j] = NL}
           T == Ends(b, k + 1)
           f == [j \in T |-> j - k]
<1>1. /\ e \in Seq(Bytes) /\ Len(e) = Len(b) - k /\ k + 1 \in 1..Len(b)
      /\ \A i \in 1..Len(e) : e[i] = b[k + i]
  <2>1. k + 1 \in 1..Len(b)
    OBVIOUS
  <2>2. e = After(b, k)
    OBVIOUS
  <2> HIDE DEF e
  <2> QED  BY <2>1, <2>2, AfterFacts
<1> HIDE DEF e
<1>2. e # <<>> /\ e[Len(e)] = b[Len(b)]
  <2>1. Len(e) \in 1..Len(e) /\ k + Len(e) = Len(b)
    BY <1>1
  <2> QED  BY <1>1, <2>1
<1>3. f \in Bijection(T, S)
  <2>1. \A j \in T : j - k \in S /\ j \in Int
    <3> TAKE j \in T
    <3>1. j \in (k + 1)..Len(b) /\ b[j] = NL
      BY DEF Ends
    <3>2. j - k \in 1..Len(e) /\ k + (j - k) = j
      BY <1>1, <3>1
    <3> QED  BY <1>1, <3>1, <3>2
  <2>2. f \in [T -> S]
    BY <2>1
  <2>3. f \in Injection(T, S)
    BY <2>1, <2>2 DEF Injection, IsInjective
  <2>4. \A i \in S : \E j \in T : f[j] = i
    <3> TAKE i \in S
    <3>1. k + i \in (k + 1)..Len(b) /\ (k + i) - k = i
      BY <1>1
    <3>2. k + i \in T
      BY <1>1, <3>1 DEF Ends
    <3> QED  BY <3>1, <3>2
  <2>5. f \in Surjection(T, S)
    BY <2>2, <2>4 DEF Surjection
  <2> QED  BY <2>3, <2>5 DEF Bijection
<1>4. Cardinality(S) = Cardinality(T)
  <2>1. IsFiniteSet(T)
    BY <1>1, EndsFinite
  <2>2. ExistsBijection(T, S)
    BY <1>3 DEF ExistsBijection
  <2> HIDE DEF S, T
  <2> QED  BY <2>1, <2>2, FS_Bijection
<1>5. Output!Lines(e) = Cardinality(S) + IF b[Len(b)] = NL THEN 0 ELSE 1
  <2>1. Output!Lines(e) = Cardinality(S) + IF e # <<>> /\ e[Len(e)] # NL THEN 1 ELSE 0
    BY SameCardinality DEF Output!Lines
  <2> QED  BY <1>2, <2>1
<1>6. Output!LinesFrom(b, k + 1) = Cardinality(T) + IF b[Len(b)] = NL THEN 0 ELSE 1
  BY <1>1, LinesFromEnds
<1> QED  BY <1>4, <1>5, <1>6 DEF e

\* Nothing has no lines.
LEMMA NoLines ==
  ASSUME NEW b \in Seq(Bytes)
  PROVE  Output!Lines(After(b, Len(b))) = 0
<1>1. Len(b) \in 0..Len(b) /\ After(b, Len(b)) = <<>>
  BY AfterFacts
<1>2. {j \in 1..Len(<<>>) : <<>>[j] = NL} = {}
  OBVIOUS
<1> QED  BY <1>1, <1>2, SameCardinality, FS_EmptySet DEF Output!Lines

(***************************************************************************)
(* tailio.Truncate.                                                         *)
(***************************************************************************)
\* The line ends after which the lines are few enough and before which not.
Cuts(b, n) == {i \in 1..Len(b) : b[i] = NL /\ Output!LinesFrom(b, i) > n}

\* Where there are too many lines there is a line end to cut at.
LEMMA CutFollows ==
  ASSUME NEW b \in Seq(Bytes), NEW n \in Nat \ {0}, NEW i \in 1..Len(b),
         Output!LinesFrom(b, i) > n
  PROVE  \E c \in Cuts(b, n) : i <= c
<1> DEFINE S == {j \in i..Len(b) : Output!LinesFrom(b, j) > n}
<1>1. PICK m \in S : \A j \in S : j <= m
  <2>1. S \in SUBSET (0..Len(b)) /\ S # {} /\ Len(b) \in Nat
    OBVIOUS
  <2> HIDE DEF S
  <2> QED  BY <2>1, Greatest
<1>2. m \in 1..Len(b) /\ i <= m /\ Output!LinesFrom(b, m) > n
  BY <1>1
<1>3. b[m] = NL
  <2>1. SUFFICES ASSUME b[m] # NL PROVE FALSE
    OBVIOUS
  <2>2. CASE m = Len(b)
    <3>1. b # <<>>
      BY <1>2
    <3>2. Output!LinesFrom(b, m) = 1
      BY <2>2, <3>1, LastLine
    <3> QED  BY <1>2, <3>2
  <2>3. CASE m # Len(b)
    <3>1. m < Len(b)
      BY <1>2, <2>3
    <3>2. Output!LinesFrom(b, m + 1) = Output!LinesFrom(b, m)
      BY <1>2, <2>1, <3>1, SameLines
    <3>3. m + 1 \in S
      BY <1>2, <3>1, <3>2
    <3> QED  BY <1>1, <1>2, <3>3
  <2> QED  BY <2>2, <2>3
<1> QED  BY <1>2, <1>3 DEF Cuts

\* LastNLines takes the end that begins where no more than n lines are left, and no
\* longer one does.
LEMMA LastNLinesAfter ==
  ASSUME NEW b \in Seq(Bytes), NEW n \in Nat \ {0}
  PROVE  \E c \in 0..Len(b) :
           /\ Output!LastNLines(b, n) = After(b, c)
           /\ \A k \in 0..Len(b) : Output!Lines(After(b, k)) <= n <=> c <= k
<1>1. ASSUME NEW k \in 0..Len(b), Output!Lines(After(b, k)) > n
      PROVE  k + 1 \in 1..Len(b) /\ Output!LinesFrom(b, k + 1) > n
  <2>1. CASE k = Len(b)
    BY <1>1, <2>1, NoLines
  <2>2. CASE k # Len(b)
    <3>1. k < Len(b) /\ k + 1 \in 1..Len(b)
      BY <2>2
    <3> QED  BY <1>1, <3>1, LinesAfter
  <2> QED  BY <2>1, <2>2
<1>2. \A k \in 0..Len(b) : Output!Lines(After(b, k)) \in Nat
  <2> TAKE k \in 0..Len(b)
  <2>1. CASE k = Len(b)
    BY <2>1, NoLines
  <2>2. CASE k # Len(b)
    <3>1. k < Len(b) /\ k + 1 \in 1..Len(b)
      BY <2>2
    <3> QED  BY <3>1, LinesAfter, LinesFromEnds
  <2> QED  BY <2>1, <2>2
<1>3. CASE Cuts(b, n) = {}
  <2>1. Output!LastNLines(b, n) = b
    BY <1>3 DEF Output!LastNLines, Cuts
  <2>2. b = After(b, 0)
    <3>1. /\ After(b, 0) \in Seq(Bytes) /\ Len(After(b, 0)) = Len(b)
          /\ \A i \in 1..Len(b) : After(b, 0)[i] = b[i]
      BY AfterFacts
    <3> QED  BY <3>1, SeqEqual
  <2>3. \A k \in 0..Len(b) : ~(Output!Lines(After(b, k)) > n)
    BY <1>1, <1>3, CutFollows
  <2>4. \A k \in 0..Len(b) : Output!Lines(After(b, k)) <= n
    BY <1>2, <2>3
  <2> QED  BY <2>1, <2>2, <2>4
<1>4. CASE Cuts(b, n) # {}
  <2> DEFINE c == CHOOSE i \in Cuts(b, n) : \A j \in Cuts(b, n) : j <= i
  <2>1. \E i \in Cuts(b, n) : \A j \in Cuts(b, n) : j <= i
    <3>1. Cuts(b, n) \in SUBSET (0..Len(b)) /\ Len(b) \in Nat
      BY DEF Cuts
    <3> QED  BY <1>4, <3>1, Greatest
  <2>2. c \in Cuts(b, n) /\ \A j \in Cuts(b, n) : j <= c
    BY <2>1
  <2>3. Output!LastNLines(b, n) = SubSeq(b, 1 + c, Len(b))
    BY <1>4 DEF Output!LastNLines, Cuts
  <2> HIDE DEF c
  <2>4. c \in 1..Len(b) /\ Output!LinesFrom(b, c) > n
    BY <2>2 DEF Cuts
  <2>5. Output!LastNLines(b, n) = After(b, c)
    <3>1. 1 + c = c + 1
      BY <2>4
    <3> QED  BY <2>3, <3>1 DEF After
  <2>6. ASSUME NEW k \in 0..Len(b), c <= k
        PROVE  Output!Lines(After(b, k)) <= n
    <3>1. SUFFICES ASSUME Output!Lines(After(b, k)) > n PROVE FALSE
      BY <1>2
    <3>2. PICK d \in Cuts(b, n) : k + 1 <= d
      BY <1>1, <3>1, CutFollows
    <3>3. d \in Int /\ d <= c
      BY <2>2 DEF Cuts
    <3> QED  BY <2>4, <2>6, <3>2, <3>3
  <2>7. ASSUME NEW k \in 0..Len(b), ~(c <= k)
        PROVE  ~(Output!Lines(After(b, k)) <= n)
    <3>1. k < Len(b) /\ k + 1 \in 1..Len(b) /\ c \in (k + 1)..Len(b)
      BY <2>4, <2>7
    <3>2. Output!LinesFrom(b, c) <= Output!LinesFrom(b, k + 1)
      BY <3>1, LinesShrink
    <3>3. Output!Lines(After(b, k)) = Output!LinesFrom(b, k + 1)
      BY <3>1, LinesAfter
    <3>4. Output!LinesFrom(b, c) \in Nat /\ Output!LinesFrom(b, k + 1) \in Nat
      BY <2>4, <3>1, LinesFromEnds
    <3> QED  BY <2>4, <3>2, <3>3, <3>4
  <2>8. c \in 0..Len(b)
    BY <2>4
  <2> QED  BY <2>5, <2>6, <2>7, <2>8
<1> QED  BY <1>3, <1>4

\* Truncate takes the longest end within the limits.
LEMMA TruncateLongest ==
  ASSUME NEW b \in Seq(Bytes), NEW lines \in Nat, NEW bytes \in Nat
  PROVE  Output!Truncate(b, lines, bytes) = Output!LongestTail(b, lines, bytes)
<1> DEFINE lineTail == IF lines > 0 THEN Output!LastNLines(b, lines) ELSE b
           byteTail == IF bytes > 0 THEN Output!Last(b, bytes) ELSE b
           lineFits(k) == lines = 0 \/ Output!Lines(After(b, k)) <= lines
           byteFits(k) == bytes = 0 \/ Len(b) - k <= bytes
<1>1. After(b, 0) = b
  <2>1. /\ After(b, 0) \in Seq(Bytes) /\ Len(After(b, 0)) = Len(b)
        /\ \A i \in 1..Len(b) : After(b, 0)[i] = b[i]
    BY AfterFacts
  <2> QED  BY <2>1, SeqEqual
<1>2. PICK c \in 0..Len(b) : /\ lineTail = After(b, c)
                             /\ \A k \in 0..Len(b) : lineFits(k) <=> c <= k
  <2>1. CASE lines = 0
    <3>1. 0 \in 0..Len(b) /\ lineTail = b /\ \A k \in 0..Len(b) : 0 <= k
      BY <2>1
    <3> QED  BY <1>1, <2>1, <3>1
  <2>2. CASE lines # 0
    <3>1. lines \in Nat \ {0} /\ lineTail = Output!LastNLines(b, lines)
      BY <2>2
    <3> QED  BY <2>2, <3>1, LastNLinesAfter
  <2> QED  BY <2>1, <2>2
<1>3. PICK d \in 0..Len(b) : /\ byteTail = After(b, d)
                             /\ \A k \in 0..Len(b) : byteFits(k) <=> d <= k
  <2>1. CASE bytes = 0
    <3>1. 0 \in 0..Len(b) /\ byteTail = b /\ \A k \in 0..Len(b) : 0 <= k
      BY <2>1
    <3> QED  BY <1>1, <2>1, <3>1
  <2>2. CASE bytes # 0
    <3>1. byteTail = Output!Last(b, bytes)
      BY <2>2
    <3>2. \A k \in 0..Len(b) : Len(b) - k <= bytes <=> Start(b, bytes) <= k
      BY DEF Start
    <3> QED  BY <2>2, <3>1, <3>2, LastAfter
  <2> QED  BY <2>1, <2>2
<1>4. Output!Truncate(b, lines, bytes)
        = IF Len(lineTail) < Len(byteTail) THEN lineTail ELSE byteTail
  BY DEF Output!Truncate
<1> DEFINE m == IF c > d THEN c ELSE d
<1>5. m \in 0..Len(b) /\ \A k \in 0..Len(b) : (lineFits(k) /\ byteFits(k)) <=> m <= k
  <2> HIDE DEF lineFits, byteFits
  <2> QED  BY <1>2, <1>3
<1>6. Output!Truncate(b, lines, bytes) = After(b, m)
  <2> HIDE DEF lineTail, byteTail
  <2>1. Len(After(b, c)) = Len(b) - c /\ Len(After(b, d)) = Len(b) - d
    BY AfterFacts
  <2>2. Len(lineTail) < Len(byteTail) <=> c > d
    BY <1>2, <1>3, <2>1
  <2> QED  BY <1>2, <1>3, <1>4, <2>2
<1> DEFINE longest(k) == (byteFits(k) /\ lineFits(k))
                           /\ \A j \in 0..(k - 1) : ~(byteFits(j) /\ lineFits(j))
<1>7. Output!LongestTail(b, lines, bytes) = After(b, CHOOSE k \in 0..Len(b) : longest(k))
  BY DEF Output!LongestTail, After
<1>8. \A k \in 0..Len(b) : longest(k) <=> k = m
  <2> HIDE DEF lineFits, byteFits, m
  <2> TAKE k \in 0..Len(b)
  <2>1. \A j \in 0..(k - 1) : j \in 0..Len(b)
    OBVIOUS
  <2>2. CASE k < m
    BY <1>5, <2>2
  <2>3. CASE k = m
    <3>1. \A j \in 0..(k - 1) : ~(m <= j)
      BY <2>3
    <3> QED  BY <1>5, <2>1, <2>3, <3>1
  <2>4. CASE k > m
    <3>1. m \in 0..(k - 1) /\ m <= m
      BY <1>5, <2>4
    <3> QED  BY <1>5, <2>4, <3>1
  <2> QED  BY <1>5, <2>2, <2>3, <2>4
<1>9. (CHOOSE k \in 0..Len(b) : longest(k)) = m
  <2> HIDE DEF longest, m
  <2> QED  BY <1>5, <1>8
<1> QED  BY <1>6, <1>7, <1>9

(***************************************************************************)
(* The theorems.                                                            *)
(***************************************************************************)
\* The ring buffer holds the end of what was written.
OutputInv == Output!TailTypeOK /\ ring = Output!Last(written, BufferBytes)

\* A piece that is written moves the buffer on.
LEMMA PieceStep ==
  ASSUME OutputInv, [Output!TailNext]_(Output!tailVars)
  PROVE  OutputInv'
<1>1. BufferBytes \in Nat
  BY TailAssumption
<1>2. ASSUME NEW piece \in Output!Pieces, Output!Write(piece)
      PROVE  OutputInv'
  <2>1. piece \in Seq(Bytes)
    BY TailAssumption DEF Output!Pieces
  <2>2. written' = written \o piece /\ ring' = Output!Last(ring \o piece, BufferBytes)
    BY <1>2 DEF Output!Write
  <2>3. written' \in Seq(Bytes) /\ ring' = Output!Last(written', BufferBytes)
    BY <1>1, <2>1, <2>2, LastOfLast DEF OutputInv, Output!TailTypeOK
  <2>4. ring' \in Seq(Bytes) /\ Len(ring') <= BufferBytes
    <3> DEFINE k == Start(written', BufferBytes)
    <3>1. k \in 0..Len(written') /\ ring' = After(written', k)
      BY <1>1, <2>3, LastAfter
    <3>2. Len(written') \in Nat /\ Len(written') - k <= BufferBytes
      BY <1>1, <2>3 DEF Start
    <3> HIDE DEF k
    <3>3. ring' \in Seq(Bytes) /\ Len(ring') = Len(written') - k
      BY <2>3, <3>1, AfterFacts
    <3> QED  BY <3>2, <3>3
  <2> QED  BY <2>3, <2>4 DEF OutputInv, Output!TailTypeOK
<1>3. CASE UNCHANGED Output!tailVars
  BY <1>3 DEF Output!tailVars, OutputInv, Output!TailTypeOK
<1> QED  BY <1>2, <1>3 DEF Output!TailNext

\* Every state of an output has its invariant.
LEMMA OutputInvariant == Spec => [](type = "output" => OutputInv)
<1>1. Init => (type = "output" => OutputInv)
  <2> SUFFICES ASSUME Output!TailInit PROVE OutputInv
    BY DEF Init
  <2>1. written = <<>> /\ ring = <<>> /\ BufferBytes \in Nat
    BY TailAssumption DEF Output!TailInit
  <2>2. Output!Last(<<>>, BufferBytes) = <<>>
    BY <2>1 DEF Output!Last
  <2> QED  BY <2>1, <2>2 DEF OutputInv, Output!TailTypeOK
<1>2. type' = type \/ ~[Next]_vars
  BY DEF Next, Evaluate, CmdStep, FileStep, RequestStep, OutputStep, Done, vars
<1>3. ASSUME type = "output", [Next]_vars
      PROVE  [Output!TailNext]_(Output!tailVars)
  <2>1. CASE UNCHANGED vars \/ Done
    BY <2>1 DEF Done, vars, outputOnly, Output!tailVars
  <2>2. CASE Next /\ ~Done
    BY <1>3, <2>2 DEF Next, Evaluate, CmdStep, FileStep, RequestStep, OutputStep
  <2> QED  BY <1>3, <2>1, <2>2
<1>4. (type = "output" => OutputInv) /\ [Next]_vars => (type = "output" => OutputInv)'
  BY <1>2, <1>3, PieceStep
<1> QED  BY <1>1, <1>4, PTL DEF Spec

\* What a notification shows of a child's output is the longest end of it within the
\* limits, in whatever pieces it was written (tailio.go: Truncate; supervisor.go:
\* ringBuffer).
THEOREM TailFaithful == Spec => []TailIsFaithful
<1>1. (type = "output" => OutputInv) => TailIsFaithful
  <2> SUFFICES ASSUME OutputInv PROVE Output!TailIsFaithful
    BY DEF TailIsFaithful
  <2>1. TailLines \in Nat /\ TailBytes \in Nat
    BY TailAssumption
  <2>2. written \in Seq(Bytes) /\ ring \in Seq(Bytes)
        /\ ring = Output!Last(written, BufferBytes)
    BY DEF OutputInv, Output!TailTypeOK
  <2> QED  BY <2>1, <2>2, TruncateLongest DEF Output!TailIsFaithful
<1> QED  BY <1>1, OutputInvariant, PTL

\* The variables of the check that is evaluated have their types, whichever it is.
THEOREM CheckersTypes == Spec => []TypeOK
<1>1. /\ (type = "cmd" => CmdInv) /\ (type = "file" => FileInv)
      /\ (type = "request" => RequestInv) /\ (type = "output" => OutputInv)
      => TypeOK
  BY DEF CmdInv, FileInv, RequestInv, OutputInv, TypeOK
<1> QED  BY <1>1, CmdInvariant, FileInvariant, RequestInvariant, OutputInvariant, PTL
=============================================================================
