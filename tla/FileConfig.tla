----------------------------- MODULE FileConfig -----------------------------
(***************************************************************************)
(* What a file check may be configured with (filecheck.go: Parse) and what  *)
(* the files it looks at may be.                                            *)
(***************************************************************************)
EXTENDS Integers

CONSTANTS
  Names,      \* names that match; 1 is among them
  Sizes,      \* sizes a file may have
  MaxTime,    \* bound: the clock stops here
  MaxChanges, \* bound: changes of the directory during the evaluation
  FileWants,  \* configurations of the check
  None        \* no verdict, no bound, no file

Times == 0..MaxTime
AllFileWants ==
  [look : {"path", "glob", "bad glob"}, exists : {"unset", "yes", "no"},
   within : Nat, min : Nat \cup {None}, max : Nat \cup {None}]

\* Parse and validateExpect: something is expected, and the bounds are in order.
ValidWant(w) ==
  /\ w.exists # "unset" \/ w.within > 0 \/ w.min # None \/ w.max # None
  /\ (w.min \in Nat /\ w.max \in Nat) => w.min <= w.max

ASSUME NamesAssumption == 1 \in Names /\ Names \subseteq Nat
ASSUME SizesAssumption ==
  Sizes \subseteq Nat /\ 0 \in Sizes /\ MaxTime \in Nat /\ MaxChanges \in Nat
ASSUME WantsAssumption ==
  FileWants \subseteq AllFileWants /\ \A w \in FileWants : ValidWant(w)
ASSUME NoneAssumption ==
  /\ None \notin Nat \cup [mtime : Nat, size : Nat]
  /\ None \notin {"ok", "no match", "missing", "stat failed", "stale"}
=============================================================================
