------------------------------ MODULE MCRunner ------------------------------
(* Instances of Runner for TLC. *)
EXTENDS Runner, Confirm, TLC

CONSTANTS c1, c2, r1, r2, SIGINT, SIGTERM

\* c1 has no confirm field, hence a burst of three evaluations; c2 alerts at the
\* first failure.
Configured == c1 :> Parse(Absent) @@ c2 :> Parse(Bool(FALSE))

\* The same with a burst of two, for `check`.
ConfiguredShort ==
  c1 :> Parse(Object([checks |-> 2, interval |-> 0])) @@ c2 :> Parse(Bool(FALSE))

MCOneStrike == [c \in Checks |-> Configured[c].oneStrike]
MCConfirmChecks == [c \in Checks |-> Configured[c].checks]
MCConfirmChecksShort == [c \in Checks |-> ConfiguredShort[c].checks]
=============================================================================
