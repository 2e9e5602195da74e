------------------------------ MODULE CmdCheck ------------------------------
(***************************************************************************)
(* One evaluation of a cmd check (internal/checker/cmdcheck): the command   *)
(* runs as a child process, a goroutine waits for it, and Evaluate waits    *)
(* for that goroutine, the timeout or the context, kills the child when it  *)
(* must and judges the exit code and the output.                            *)
(*                                                                         *)
(* As in module Supervisor the child is the environment, and the process it *)
(* may leave behind keeps the output pipes, hence exec.Cmd.Wait, waiting.   *)
(***************************************************************************)
EXTENDS Integers

CONSTANTS
  ChildCodes,   \* exit codes the command may choose, in 0..255
  ExpectCodes,  \* values of expect.exit_code in the configuration
  None          \* no exit code, no verdict yet

SIGKILL == 9
SIGTERM == 15
TimeoutExitCode == 124

VARIABLES
  expect,    \* exit_code, and whether stdout_contains, stderr_not_contains are set
  pc,        \* where Evaluate is
  verdict,   \* what it returned
  ctxDone,   \* its context is cancelled
  timer,     \* the timeout: "off", "armed" or "fired"
  timedOut, canceled,  \* what awaitCompletion returned
  child,     \* "none", "running" or "ended"
  status,    \* ExitError.ExitCode of the child, None while it runs
  sent,      \* signals sent to the child
  holder,    \* a process it left behind keeps its output open
  output,    \* the text looked for is in stdout, in stderr
  waited,    \* proc.Wait has returned
  waitFailed \* it returned something else than an ExitError

evaluateVars == <<pc, verdict, timedOut, canceled>>
childVars == <<child, status, holder, output>>
waitVars == <<waited, waitFailed>>
vars == <<expect, evaluateVars, ctxDone, timer, childVars, sent, waitVars>>

(***************************************************************************)
(* The child and what it leaves behind.                                     *)
(***************************************************************************)
\* Mutant: a death by signal counts as 128 + n, as in `run`.
DiedCodeOfShell(sig) == 128 + sig

\* ExitError.ExitCode of a process that a signal ended.
DiedCode(sig) == -1

Ends(code) ==
  /\ child = "running"
  /\ child' = "ended" /\ status' = code
  /\ UNCHANGED <<expect, evaluateVars, ctxDone, timer, holder, output, sent,
                 waitVars>>

ChildExits == \E code \in ChildCodes : Ends(code)

\* A signal of Evaluate, or SIGKILL from outside.
ChildDies == \E sig \in sent \cup {SIGKILL} : Ends(DiedCode(sig))

ChildIsKilled == SIGKILL \in sent /\ Ends(DiedCode(SIGKILL))

Writes(stream) ==
  /\ child = "running" \/ holder
  /\ ~output[stream]
  /\ output' = [output EXCEPT ![stream] = TRUE]
  /\ UNCHANGED <<expect, evaluateVars, ctxDone, timer, child, status, holder,
                 sent, waitVars>>

ChildLeavesHolder ==
  /\ child = "running" /\ ~holder
  /\ holder' = TRUE
  /\ UNCHANGED <<expect, evaluateVars, ctxDone, timer, child, status, output,
                 sent, waitVars>>

HolderCloses ==
  /\ holder /\ holder' = FALSE
  /\ UNCHANGED <<expect, evaluateVars, ctxDone, timer, child, status, output,
                 sent, waitVars>>

\* proc.Wait: the child has ended and its pipes are closed.
WaitReturns(copyFailed) ==
  /\ child = "ended" /\ ~holder /\ ~waited
  /\ waited' = TRUE
  /\ waitFailed' = (copyFailed /\ status = 0)
  /\ UNCHANGED <<expect, evaluateVars, ctxDone, timer, childVars, sent>>

CancelContext ==
  /\ ~ctxDone /\ ctxDone' = TRUE
  /\ UNCHANGED <<expect, evaluateVars, timer, childVars, sent, waitVars>>

(***************************************************************************)
(* Evaluate.                                                                *)
(***************************************************************************)
Return(result) == pc' = "returned" /\ verdict' = result

Goes(from, to) ==
  /\ pc = from /\ pc' = to
  /\ UNCHANGED <<expect, verdict, ctxDone, childVars, waitVars>>

EnterCancelled ==
  /\ pc = "enter" /\ ctxDone
  /\ Return("canceled")
  /\ UNCHANGED <<expect, timedOut, canceled, ctxDone, timer, childVars, sent,
                 waitVars>>

Enter ==
  /\ Goes("enter", "start") /\ ~ctxDone
  /\ UNCHANGED <<timedOut, canceled, timer, sent>>

StartFails ==
  /\ pc = "start"
  /\ Return("start failed")
  /\ UNCHANGED <<expect, timedOut, canceled, ctxDone, timer, childVars, sent,
                 waitVars>>

Start ==
  /\ pc = "start" /\ pc' = "await"
  /\ child' = "running" /\ timer' = "armed"
  /\ UNCHANGED <<expect, verdict, timedOut, canceled, ctxDone, status, holder,
                 output, sent, waitVars>>

TimerFires ==
  /\ timer = "armed" /\ timer' = "fired"
  /\ UNCHANGED <<expect, evaluateVars, ctxDone, childVars, sent, waitVars>>

\* The select of awaitCompletion takes any case that is ready.
AwaitDone ==
  /\ Goes("await", "judge") /\ waited
  /\ UNCHANGED <<timedOut, canceled, timer, sent>>

AwaitTimeout ==
  /\ Goes("await", "term") /\ timer = "fired"
  /\ timedOut' = TRUE
  /\ UNCHANGED <<canceled, timer, sent>>

AwaitCancel ==
  /\ Goes("await", "term") /\ ctxDone
  /\ canceled' = TRUE
  /\ UNCHANGED <<timedOut, timer, sent>>

\* gracefulKill; a process that was waited for gets no signal.
SendSignal(sig) == sent' = IF child = "running" THEN sent \cup {sig} ELSE sent

Terminate ==
  /\ Goes("term", "grace")
  /\ SendSignal(SIGTERM)
  /\ UNCHANGED <<timedOut, canceled, timer>>

GraceDone ==
  /\ Goes("grace", "judge") /\ waited
  /\ UNCHANGED <<timedOut, canceled, timer, sent>>

\* Mutant: Evaluate does not wait for the child it has killed.
GraceOverNoDrain ==
  /\ Goes("grace", "judge")
  /\ SendSignal(SIGKILL)
  /\ UNCHANGED <<timedOut, canceled, timer>>

\* Mutant: SIGTERM again instead of SIGKILL.
GraceOverNoKill ==
  /\ Goes("grace", "drain")
  /\ SendSignal(SIGTERM)
  /\ UNCHANGED <<timedOut, canceled, timer>>

GraceOver ==
  /\ Goes("grace", "drain")
  /\ SendSignal(SIGKILL)
  /\ UNCHANGED <<timedOut, canceled, timer>>

Drained ==
  /\ Goes("drain", "judge") /\ waited
  /\ UNCHANGED <<timedOut, canceled, timer, sent>>

\* Mutant: the exit code of a child that was stopped counts.
ExitCodeOfChild == status

ExitCode == IF timedOut THEN TimeoutExitCode ELSE status

\* The first condition that is not met decides.
Verdict ==
  IF canceled THEN "canceled"
  ELSE IF waitFailed /\ ~timedOut THEN "wait failed"
  ELSE IF ExitCode # expect.exit THEN "exit"
  ELSE IF expect.stdout /\ ~output.stdout THEN "stdout"
  ELSE IF expect.stderr /\ output.stderr THEN "stderr"
  ELSE "ok"

Judge ==
  /\ pc = "judge"
  /\ Return(Verdict)
  /\ UNCHANGED <<expect, timedOut, canceled, ctxDone, timer, childVars, sent,
                 waitVars>>

(***************************************************************************)
(* The specification.                                                       *)
(***************************************************************************)
Expectations == [exit : ExpectCodes, stdout : BOOLEAN, stderr : BOOLEAN]
Outputs == [stdout : BOOLEAN, stderr : BOOLEAN]

Init ==
  /\ expect \in Expectations
  /\ pc = "enter" /\ verdict = None
  /\ ctxDone = FALSE /\ timer = "off" /\ timedOut = FALSE /\ canceled = FALSE
  /\ child = "none" /\ status = None /\ sent = {} /\ holder = FALSE
  /\ output = [stdout |-> FALSE, stderr |-> FALSE]
  /\ waited = FALSE /\ waitFailed = FALSE

Child ==
  \/ ChildExits \/ ChildDies
  \/ Writes("stdout") \/ Writes("stderr")
  \/ ChildLeavesHolder \/ HolderCloses

Waiter == \E copyFailed \in BOOLEAN : WaitReturns(copyFailed)

Evaluate ==
  \/ EnterCancelled \/ Enter \/ StartFails \/ Start
  \/ AwaitDone \/ AwaitTimeout \/ AwaitCancel
  \/ Terminate \/ GraceDone \/ GraceOver \/ Drained
  \/ Judge

Returned == pc = "returned" /\ UNCHANGED vars

Next ==
  \/ Child \/ Waiter \/ TimerFires \/ CancelContext \/ Evaluate
  \/ Returned

Spec == Init /\ [][Next]_vars

\* Goroutines run, timers fire, and the kernel kills on SIGKILL.  The child
\* need not exit, and what it leaves behind need not close the output.
FairSpec ==
  /\ Spec
  /\ WF_vars(Evaluate) /\ WF_vars(Waiter) /\ WF_vars(TimerFires)
  /\ WF_vars(ChildIsKilled)

(***************************************************************************)
(* Properties.                                                              *)
(***************************************************************************)
Verdicts == {None, "canceled", "start failed", "wait failed", "exit", "stdout",
             "stderr", "ok"}
ExitStatuses == ChildCodes \cup {-1, None}

TypeOK ==
  /\ expect \in Expectations
  /\ pc \in {"enter", "start", "await", "term", "grace", "drain", "judge",
             "returned"}
  /\ verdict \in Verdicts
  /\ ctxDone \in BOOLEAN /\ timedOut \in BOOLEAN /\ canceled \in BOOLEAN
  /\ holder \in BOOLEAN /\ waited \in BOOLEAN /\ waitFailed \in BOOLEAN
  /\ timer \in {"off", "armed", "fired"}
  /\ child \in {"none", "running", "ended"}
  /\ status \in ExitStatuses
  /\ sent \subseteq {SIGTERM, SIGKILL}
  /\ output \in Outputs

\* A check passes only on what the command did by itself within its time: one
\* that had to be stopped does not pass, even if it handles SIGTERM by exiting
\* well (checkers.md: a timeout counts as exit code 124, which is then the only
\* way to pass).
PassIsReal ==
  verdict = "ok" =>
    /\ expect.exit # TimeoutExitCode => sent = {} /\ status = expect.exit
    /\ expect.stdout => output.stdout
    /\ expect.stderr => ~output.stderr

\* Once a child was started, Evaluate judges and returns only after proc.Wait
\* did: no child outlives its evaluation, not even a cancelled one, and nothing
\* writes to the output while it is read.
ChildReaped ==
  (pc \in {"judge", "returned"} /\ child # "none") => child = "ended" /\ waited

\* The child cannot keep Evaluate from returning, whatever it ignores, provided
\* whatever holds its output lets go of it.
EvaluateReturns == <>[](~holder) => <>(pc = "returned")

\* What configuration.md says of timeout: it limits the time of an evaluation.
TimeoutBoundsEvaluation == (timer = "fired") ~> (pc = "returned")
=============================================================================
