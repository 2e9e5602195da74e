------------------------------- MODULE Runner -------------------------------
(***************************************************************************)
(* The evaluation engine of `mitsume watch` and `mitsume check`: the main   *)
(* goroutine (cmd/mitsume/watch.go, check.go), the goroutine that captures  *)
(* the stop signal, and one goroutine per check (internal/runner) that      *)
(* evaluates, confirms a failure by a burst of re-evaluations and hands an  *)
(* alert to the notifier, all under the panic guard of internal/lifecycle.  *)
(*                                                                         *)
(* A step is the longest piece of one goroutine that touches shared state   *)
(* (the context, the signal channel, the wait groups, the process) once.    *)
(* Time is abstracted: a timer may fire at any moment.  A notification is   *)
(* recorded in `log` when Notifier.Send is called; what then happens to it  *)
(* is the subject of module Notify.                                         *)
(***************************************************************************)
EXTENDS Naturals, Sequences

CONSTANTS
  Checks,         \* the configured checks, one goroutine each
  Reasons,        \* the Results a failed evaluation can carry
  Signals,        \* SIGINT and SIGTERM
  Mode,           \* "watch" (RunLoop) or "check" (RunOnce)
  OneStrike,      \* confirm: false, per check
  ConfirmChecks,  \* confirm.checks, per check
  PanicChecks,    \* the checks whose Evaluate has a bug that may panic
  MaxCycles,      \* bound: cycles a check may begin
  MaxSignals,     \* bound: signals delivered once watch listens
  None            \* no signal, no check, no result, no exit status

ASSUME ModeAssumption == Mode \in {"watch", "check"}
ASSUME ConfirmAssumption ==
  /\ OneStrike \in [Checks -> BOOLEAN]
  /\ ConfirmChecks \in [Checks -> Nat]
  /\ \A c \in Checks : OneStrike[c] \/ ConfirmChecks[c] >= 1
ASSUME PanicAssumption == PanicChecks \subseteq Checks
ASSUME BoundAssumption == MaxCycles \in Nat \ {0} /\ MaxSignals \in Nat
ASSUME NoneAssumption ==
  /\ None \notin Checks \cup Reasons \cup Signals \cup {0, 1, 2}
  /\ "ok" \notin Reasons

VARIABLES
  main,       \* where the main goroutine is
  exit,       \* exit status of the process, None while it runs
  cancelled,  \* ctx.Err() # nil for the context the checks run under
  sigCh,      \* the one-slot channel of signal.Notify
  signals,    \* how many signals were delivered while watch listened
  early,      \* a signal came before watch called signal.Notify
  capture,    \* where the signal-capturing goroutine is
  received,   \* receivedSig
  pc,         \* where the goroutine of a check is
  cycle,      \* how many cycles (calls of evaluateWithBurst) a check began
  strikes,    \* failed evaluations of the current cycle
  last,       \* Result of the latest failed evaluation of the cycle
  seen,       \* history: every verdict of the current cycle, in order
  late,       \* history: evaluations that ended after the cancellation
  log         \* history: calls of Notifier.Send, in order

mainVars == <<main, exit>>
signalVars == <<cancelled, sigCh, signals, early, capture, received>>
burstVars == <<cycle, strikes, last, seen, late>>
vars == <<mainVars, signalVars, pc, burstVars, log>>

Ok == "ok"
Verdicts == Reasons \cup {Ok}

MainStates == {"setup", "armed", "startup", "loop", "join", "shutdown", "gone"}
CaptureStates == {"off", "waiting", "got", "cancelled", "done"}
CheckStates ==
  {"unborn", "spawned", "eval", "confirm", "alert", "sending", "interval",
   "done", "notice", "noticing", "unwinding", "crashing"}

\* A call of Notifier.Send: what it announces and whether its context was
\* alive at the call.
Message(kind, c, n, about, live) ==
  [kind |-> kind, check |-> c, cycle |-> n, about |-> about, live |-> live]

Messages ==
  [kind : {"startup", "alert", "panic", "shutdown"},
   check : Checks \cup {None},
   cycle : Nat,
   about : Reasons \cup Signals \cup {None},
   live : BOOLEAN]

Running == exit = None

Exits(status) == main' = "gone" /\ exit' = status

(***************************************************************************)
(* Signals.  main.go installs signal.NotifyContext for every subcommand     *)
(* before it dispatches.  check runs under that context; watch runs under   *)
(* its own and listens on its own channel, but only from `armed` on.        *)
(***************************************************************************)
SignalCancelsCheck ==
  /\ Running /\ Mode = "check" /\ ~cancelled
  /\ cancelled' = TRUE
  /\ UNCHANGED <<mainVars, sigCh, signals, early, capture, received, pc,
                 burstVars, log>>

SignalBeforeWatchListens ==
  /\ Running /\ Mode = "watch" /\ main = "setup" /\ ~early
  /\ early' = TRUE
  /\ UNCHANGED <<mainVars, cancelled, sigCh, signals, capture, received, pc,
                 burstVars, log>>

\* signal.Notify never blocks: a signal that finds the slot taken is dropped.
SignalArrives(s) ==
  /\ Running /\ Mode = "watch" /\ main # "setup" /\ signals < MaxSignals
  /\ signals' = signals + 1
  /\ sigCh' = IF sigCh = None THEN s ELSE sigCh
  /\ UNCHANGED <<mainVars, cancelled, early, capture, received, pc, burstVars,
                 log>>

(***************************************************************************)
(* The goroutine that captures the signal: it stores it, cancels the        *)
(* context and only then marks itself done.                                 *)
(***************************************************************************)
CaptureStores ==
  /\ Running /\ capture = "waiting" /\ sigCh # None
  /\ received' = sigCh /\ sigCh' = None
  /\ capture' = "got"
  /\ UNCHANGED <<mainVars, cancelled, signals, early, pc, burstVars, log>>

\* Mutant: the goroutine stores the signal and forgets cancel().
CaptureForgetsCancel ==
  /\ Running /\ capture = "got"
  /\ capture' = "cancelled"
  /\ UNCHANGED <<mainVars, cancelled, sigCh, signals, early, received, pc,
                 burstVars, log>>

CaptureCancels ==
  /\ Running /\ capture = "got"
  /\ cancelled' = TRUE
  /\ capture' = "cancelled"
  /\ UNCHANGED <<mainVars, sigCh, signals, early, received, pc, burstVars, log>>

CaptureDone ==
  /\ Running /\ capture = "cancelled"
  /\ capture' = "done"
  /\ UNCHANGED <<mainVars, cancelled, sigCh, signals, early, received, pc,
                 burstVars, log>>

(***************************************************************************)
(* The main goroutine.                                                      *)
(***************************************************************************)
\* setupRunner failed: exit 1 before anything is announced or evaluated.
SetupFails ==
  /\ Running /\ main = "setup"
  /\ Exits(1)
  /\ UNCHANGED <<signalVars, pc, burstVars, log>>

WatchListens ==
  /\ Running /\ Mode = "watch" /\ main = "setup"
  /\ main' = "armed" /\ capture' = "waiting"
  /\ UNCHANGED <<exit, cancelled, sigCh, signals, early, received, pc,
                 burstVars, log>>

SendStartup ==
  /\ Running /\ main = "armed"
  /\ main' = "startup"
  /\ log' = Append(log, Message("startup", None, 0, None, ~cancelled))
  /\ UNCHANGED <<exit, signalVars, pc, burstVars>>

\* The `go` statements of RunLoop (after the startup notice) and of RunOnce.
SpawnChecks ==
  /\ Running
  /\ main = IF Mode = "watch" THEN "startup" ELSE "setup"
  /\ main' = "loop"
  /\ pc' = [c \in Checks |-> "spawned"]
  /\ UNCHANGED <<exit, signalVars, burstVars, log>>

\* Mutant: wg.Add is called inside the goroutine.
WaitGroupAddInside == \A c \in Checks : pc[c] \in {"spawned", "done", "crashing"}

\* The wait group counts the goroutines whose deferred wg.Done has run.
WaitGroupDone == \A c \in Checks : pc[c] \in {"done", "crashing"}

JoinChecks ==
  /\ Running /\ main = "loop" /\ WaitGroupDone
  /\ IF Mode = "watch" THEN main' = "join" /\ UNCHANGED exit ELSE Exits(0)
  /\ UNCHANGED <<signalVars, pc, burstVars, log>>

SendShutdown ==
  /\ Running /\ main = "join" /\ capture = "done"
  /\ main' = "shutdown"
  /\ log' = Append(log, Message("shutdown", None, 0, received, TRUE))
  /\ UNCHANGED <<exit, signalVars, pc, burstVars>>

WatchExits ==
  /\ Running /\ main = "shutdown"
  /\ Exits(0)
  /\ UNCHANGED <<signalVars, pc, burstVars, log>>

(***************************************************************************)
(* The goroutine of check c.                                                *)
(***************************************************************************)
ProcessUnchanged == UNCHANGED <<mainVars, signalVars>>

\* Evaluations that end under a cancelled context, counted for the history.
CountLate(c) == late' = IF cancelled THEN [late EXCEPT ![c] = @ + 1] ELSE late

\* Entry of evaluateWithBurst.  Nothing here looks at the context.
BeginCycle(c) ==
  /\ pc' = [pc EXCEPT ![c] = "eval"]
  /\ cycle' = [cycle EXCEPT ![c] = @ + 1]
  /\ strikes' = [strikes EXCEPT ![c] = 0]
  /\ last' = [last EXCEPT ![c] = None]
  /\ seen' = [seen EXCEPT ![c] = <<>>]
  /\ UNCHANGED <<late, log>> /\ ProcessUnchanged

StartLoop(c) ==
  /\ Running /\ pc[c] = "spawned"
  /\ BeginCycle(c)

\* Where evaluateWithBurst returns to: RunOnce is finished, checkerLoop looks
\* at the context before it sleeps.
AfterCycle == IF Mode = "check" \/ cancelled THEN "done" ELSE "interval"

\* The Result of an evaluation that ends after the cancellation is discarded.
DiscardResult(c) ==
  /\ Running /\ pc[c] = "eval" /\ cancelled
  /\ pc' = [pc EXCEPT ![c] = "done"]
  /\ CountLate(c)
  /\ UNCHANGED <<cycle, strikes, last, seen, log>> /\ ProcessUnchanged

\* Mutant: the latest Result is kept whatever its verdict.
EvaluationPassesKeepsResult(c) ==
  /\ Running /\ pc[c] = "eval" /\ ~cancelled
  /\ seen' = [seen EXCEPT ![c] = Append(@, Ok)]
  /\ last' = [last EXCEPT ![c] = Ok]
  /\ pc' = [pc EXCEPT ![c] = AfterCycle]
  /\ CountLate(c)
  /\ UNCHANGED <<cycle, strikes, log>> /\ ProcessUnchanged

EvaluationPasses(c) ==
  /\ Running /\ pc[c] = "eval" /\ ~cancelled
  /\ seen' = [seen EXCEPT ![c] = Append(@, Ok)]
  /\ pc' = [pc EXCEPT ![c] = AfterCycle]
  /\ CountLate(c)
  /\ UNCHANGED <<cycle, strikes, last, log>> /\ ProcessUnchanged

\* Mutant: the initial failure is counted twice.
AfterStrikeOffByOne(c, n) ==
  IF OneStrike[c] \/ n + 1 >= ConfirmChecks[c] THEN "alert" ELSE "confirm"

\* What follows the n-th failure of a cycle: the alert or a re-evaluation.
AfterStrike(c, n) ==
  IF OneStrike[c] \/ n >= ConfirmChecks[c] THEN "alert" ELSE "confirm"

\* Mutant: the context is not looked at after a failed evaluation.
EvaluationFailsUnchecked(c, r) ==
  /\ Running /\ pc[c] = "eval"
  /\ seen' = [seen EXCEPT ![c] = Append(@, r)]
  /\ strikes' = [strikes EXCEPT ![c] = @ + 1]
  /\ last' = [last EXCEPT ![c] = r]
  /\ pc' = [pc EXCEPT ![c] = AfterStrike(c, strikes[c] + 1)]
  /\ CountLate(c)
  /\ UNCHANGED <<cycle, log>> /\ ProcessUnchanged

EvaluationFails(c, r) ==
  /\ Running /\ pc[c] = "eval" /\ ~cancelled
  /\ seen' = [seen EXCEPT ![c] = Append(@, r)]
  /\ strikes' = [strikes EXCEPT ![c] = @ + 1]
  /\ last' = [last EXCEPT ![c] = r]
  /\ pc' = [pc EXCEPT ![c] = AfterStrike(c, strikes[c] + 1)]
  /\ CountLate(c)
  /\ UNCHANGED <<cycle, log>> /\ ProcessUnchanged

\* The timer of confirm.interval fires, maybe in a race with the cancellation
\* (select takes either), or the interval is 0 and the context is not looked at.
WakeForConfirm(c) ==
  /\ Running /\ pc[c] = "confirm"
  /\ pc' = [pc EXCEPT ![c] = "eval"]
  /\ UNCHANGED <<burstVars, log>> /\ ProcessUnchanged

WakeForCycle(c) ==
  /\ Running /\ pc[c] = "interval" /\ cycle[c] < MaxCycles
  /\ BeginCycle(c)

SleepCut(c) ==
  /\ Running /\ pc[c] \in {"confirm", "interval"} /\ cancelled
  /\ pc' = [pc EXCEPT ![c] = "done"]
  /\ UNCHANGED <<burstVars, log>> /\ ProcessUnchanged

\* Mutant: an alert equal to an earlier one is suppressed.
SendAlertOnce(c) ==
  /\ Running /\ pc[c] = "alert"
  /\ IF \E i \in 1..Len(log) : log[i].check = c /\ log[i].about = last[c]
       THEN /\ pc' = [pc EXCEPT ![c] = AfterCycle]
            /\ UNCHANGED log
       ELSE /\ pc' = [pc EXCEPT ![c] = "sending"]
            /\ log' = Append(log,
                 Message("alert", c, cycle[c], last[c], ~cancelled))
  /\ UNCHANGED burstVars /\ ProcessUnchanged

\* The context may have been cancelled since the evaluation was judged.
SendAlert(c) ==
  /\ Running /\ pc[c] = "alert"
  /\ pc' = [pc EXCEPT ![c] = "sending"]
  /\ log' = Append(log, Message("alert", c, cycle[c], last[c], ~cancelled))
  /\ UNCHANGED burstVars /\ ProcessUnchanged

\* Mutant: the burst goes on after the alert.
AlertResumesBurst(c) ==
  /\ Running /\ pc[c] = "sending"
  /\ pc' = [pc EXCEPT ![c] = IF cancelled THEN "done" ELSE "eval"]
  /\ UNCHANGED <<burstVars, log>> /\ ProcessUnchanged

\* Mutant: Send does not return once its context is cancelled.
AlertHangs(c) ==
  /\ Running /\ pc[c] = "sending" /\ ~cancelled
  /\ pc' = [pc EXCEPT ![c] = AfterCycle]
  /\ UNCHANGED <<burstVars, log>> /\ ProcessUnchanged

\* Delivered or not: sendAlert only logs an error.
AlertReturns(c) ==
  /\ Running /\ pc[c] = "sending"
  /\ pc' = [pc EXCEPT ![c] = AfterCycle]
  /\ UNCHANGED <<burstVars, log>> /\ ProcessUnchanged

(***************************************************************************)
(* A panic in Evaluate: GuardPanic recovers it, sends a notice under the    *)
(* same context and panics again; while that second panic unwinds the       *)
(* goroutine, the deferred wg.Done runs; then the Go runtime ends the       *)
(* process with exit status 2.                                              *)
(***************************************************************************)
\* Mutant: the guard panics again before it sends the notice.
EvaluationPanicsUnannounced(c) ==
  /\ Running /\ pc[c] = "eval" /\ c \in PanicChecks
  /\ pc' = [pc EXCEPT ![c] = "unwinding"]
  /\ CountLate(c)
  /\ UNCHANGED <<cycle, strikes, last, seen, log>> /\ ProcessUnchanged

EvaluationPanics(c) ==
  /\ Running /\ pc[c] = "eval" /\ c \in PanicChecks
  /\ pc' = [pc EXCEPT ![c] = "notice"]
  /\ CountLate(c)
  /\ UNCHANGED <<cycle, strikes, last, seen, log>> /\ ProcessUnchanged

SendPanicNotice(c) ==
  /\ Running /\ pc[c] = "notice"
  /\ pc' = [pc EXCEPT ![c] = "noticing"]
  /\ log' = Append(log, Message("panic", c, cycle[c], None, ~cancelled))
  /\ UNCHANGED burstVars /\ ProcessUnchanged

NoticeReturns(c) ==
  /\ Running /\ pc[c] = "noticing"
  /\ pc' = [pc EXCEPT ![c] = "unwinding"]
  /\ UNCHANGED <<burstVars, log>> /\ ProcessUnchanged

DeferredDone(c) ==
  /\ Running /\ pc[c] = "unwinding"
  /\ pc' = [pc EXCEPT ![c] = "crashing"]
  /\ UNCHANGED <<burstVars, log>> /\ ProcessUnchanged

RuntimeCrashes(c) ==
  /\ Running /\ pc[c] = "crashing"
  /\ Exits(2)
  /\ UNCHANGED <<signalVars, pc, burstVars, log>>

(***************************************************************************)
(* The specification.                                                       *)
(***************************************************************************)
Init ==
  /\ main = "setup" /\ exit = None
  /\ cancelled = FALSE /\ sigCh = None /\ signals = 0 /\ early = FALSE
  /\ capture = "off" /\ received = None
  /\ pc = [c \in Checks |-> "unborn"]
  /\ cycle = [c \in Checks |-> 0]
  /\ strikes = [c \in Checks |-> 0]
  /\ last = [c \in Checks |-> None]
  /\ seen = [c \in Checks |-> <<>>]
  /\ late = [c \in Checks |-> 0]
  /\ log = <<>>

Environment ==
  \/ SignalCancelsCheck
  \/ SignalBeforeWatchListens
  \/ \E s \in Signals : SignalArrives(s)

Capture == CaptureStores \/ CaptureCancels \/ CaptureDone

MainGoroutine ==
  \/ WatchListens \/ SendStartup \/ SpawnChecks
  \/ JoinChecks \/ SendShutdown \/ WatchExits

CheckGoroutine(c) ==
  \/ StartLoop(c)
  \/ DiscardResult(c) \/ EvaluationPasses(c)
  \/ \E r \in Reasons : EvaluationFails(c, r)
  \/ WakeForConfirm(c) \/ WakeForCycle(c) \/ SleepCut(c)
  \/ SendAlert(c) \/ AlertReturns(c)
  \/ EvaluationPanics(c) \/ SendPanicNotice(c) \/ NoticeReturns(c)
  \/ DeferredDone(c) \/ RuntimeCrashes(c)

\* The process is gone; nothing more happens.
Terminated == ~Running /\ UNCHANGED vars

Next ==
  \/ Environment \/ SetupFails \/ Capture \/ MainGoroutine
  \/ \E c \in Checks : CheckGoroutine(c)
  \/ Terminated

Spec == Init /\ [][Next]_vars

\* Goroutines that can run do run, timers fire, and Evaluate and Send return:
\* each has a timeout of its own (Notify: SendReturns), but for a cmd check that
\* holds only while nothing it left behind keeps its output open (CmdCheck:
\* EvaluateReturns).  Signals and panics need not come.
FairSpec ==
  /\ Spec
  /\ WF_vars(Capture) /\ WF_vars(MainGoroutine)
  /\ \A c \in Checks : WF_vars(CheckGoroutine(c))

(***************************************************************************)
(* Properties.                                                              *)
(***************************************************************************)
TypeOK ==
  /\ main \in MainStates /\ exit \in {None, 0, 1, 2}
  /\ cancelled \in BOOLEAN /\ early \in BOOLEAN
  /\ sigCh \in Signals \cup {None} /\ received \in Signals \cup {None}
  /\ signals \in 0..MaxSignals
  /\ capture \in CaptureStates
  /\ pc \in [Checks -> CheckStates]
  /\ cycle \in [Checks -> Nat]
  /\ strikes \in [Checks -> Nat]
  /\ last \in [Checks -> Reasons \cup {None}]
  /\ seen \in [Checks -> Seq(Verdicts)]
  /\ late \in [Checks -> Nat]
  /\ log \in Seq(Messages)

\* How many failures in a row confirm an outage of c.
Needed(c) == IF OneStrike[c] THEN 1 ELSE ConfirmChecks[c]

\* An alert is raised only when every evaluation of the current cycle failed,
\* exactly as many as confirm asks for, and it carries the Result of the last
\* of them (runner.go: evaluateWithBurst).
AlertConfirmed ==
  \A c \in Checks : pc[c] \in {"alert", "sending"} =>
    /\ Len(seen[c]) = Needed(c)
    /\ \A i \in 1..Len(seen[c]) : seen[c][i] # Ok
    /\ last[c] = seen[c][Len(seen[c])]

Alerts == {i \in 1..Len(log) : log[i].kind = "alert"}

\* No cycle alerts twice, and the alerts of a check come in the order of its
\* cycles, whatever the other goroutines and the signal do meanwhile.
AlertsOncePerCycle ==
  \A i, j \in Alerts :
    (i < j /\ log[i].check = log[j].check) => log[i].cycle < log[j].cycle

\* A cycle that ends without a success and without having handed an alert over
\* ends so only because watch or check is being stopped: no confirmed outage is
\* swallowed by the burst.
NoMissedAlert ==
  [][\A c \in Checks :
       (/\ pc[c] \in {"eval", "confirm", "alert", "sending"}
        /\ pc'[c] \in {"interval", "done"}) =>
          \/ cancelled'
          \/ seen'[c] # <<>> /\ seen'[c][Len(seen'[c])] = Ok
          \/ \E i \in 1..Len(log') :
               /\ log'[i].kind = "alert" /\ log'[i].check = c
               /\ log'[i].cycle = cycle[c]]_vars

\* After the cancellation a check ends at most one more evaluation, and no
\* evaluation that ended after it leads to an alert (runner.go: the results of
\* running evaluations are discarded).
DiscardedAfterCancel ==
  \A c \in Checks :
    /\ late[c] <= 1
    /\ pc[c] \in {"alert", "sending"} => late[c] = 0

\* watch announces its start before anything else, announces its stop only when
\* no check goroutine runs any more, naming the signal it received, and says
\* nothing after that (watch.go: the joins before SendShutdown).
OrderlyAnnouncements ==
  /\ \A i \in 1..Len(log) : (log[i].kind = "startup") = (Mode = "watch" /\ i = 1)
  /\ \A i \in 1..Len(log) : log[i].kind = "shutdown" =>
       /\ i = Len(log) /\ log[i].about \in Signals /\ log[i].live
       /\ \A c \in Checks : pc[c] \in {"done", "crashing"}

\* The process dies with status 2 only of a panic whose notice was handed to
\* the notifier first, and never while its sender still waits for the answer.
CrashIsAnnounced ==
  exit = 2 => \E c \in Checks :
    /\ pc[c] = "crashing"
    /\ \E i \in 1..Len(log) : log[i].kind = "panic" /\ log[i].check = c

\* Once watch listens, a signal stops it: the process ends whatever the checks,
\* their bursts and their alerts are doing (cli.md: SIGINT / SIGTERM).
SignalStopsWatch == (signals > 0) ~> (exit # None)

\* A burst ends: every failure that waits for confirmation ends in a verdict,
\* an alert, a stop or a panic.
BurstEnds ==
  \A c \in Checks :
    (pc[c] \in {"eval", "confirm", "alert", "sending"}) ~>
      (exit # None \/ pc[c] \in {"interval", "done", "crashing"})

\* A check that exits 0 without having been stopped evaluated every check to a
\* verdict: it passed, or its outage was handed to the notifier with the last
\* Result of the burst (a check that panicked is the exception that
\* PanicExitsWithTwo is about).
CheckIsComplete ==
  (Mode = "check" /\ exit = 0 /\ ~cancelled) =>
    \A c \in Checks :
      \/ pc[c] = "crashing"
      \/ /\ seen[c] # <<>>
         /\ \/ seen[c][Len(seen[c])] = Ok
            \/ \E i \in 1..Len(log) : /\ log[i].kind = "alert" /\ log[i].check = c
                                     /\ log[i].about = seen[c][Len(seen[c])]

\* What lifecycle.go and cli.md say of a panic: the process ends with status 2.
PanicExitsWithTwo == (\E c \in Checks : pc[c] = "crashing") => exit \in {None, 2}

\* What cli.md says of watch: SIGINT and SIGTERM stop it.
AnySignalStopsWatch == (early \/ signals > 0) ~> (exit # None)
=============================================================================
