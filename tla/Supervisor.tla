----------------------------- MODULE Supervisor -----------------------------
(***************************************************************************)
(* `mitsume run` (internal/supervisor): one child process, the goroutine    *)
(* that waits for it, the loop that waits for its end, its timeout or the   *)
(* context, the goroutine that kills it (SIGTERM, grace, SIGKILL) and the   *)
(* goroutine that forwards signals to it.                                   *)
(*                                                                         *)
(* The child is the environment: it exits when and how it likes, may ignore *)
(* everything but SIGKILL, and may leave a process behind that keeps its    *)
(* stderr pipe open; exec.Cmd.Wait returns only when that pipe is closed.   *)
(***************************************************************************)
EXTENDS Naturals, Sequences

CONSTANTS
  ChildCodes,   \* exit codes the child may choose
  Forwarded,    \* signals that are forwarded: SIGHUP, SIGINT, SIGQUIT, SIGTERM
  Captured,     \* those that main.go captures from the beginning: SIGINT and
                \* SIGTERM; the others end a mitsume that does not listen
  Cancellable,  \* the context given to Run can be cancelled (not by `run`)
  SignalBuffer, \* capacity of the channel of signal.Notify (4 in the code)
  MaxSignals,   \* bound: signals sent to mitsume
  None          \* no exit status, no signal

SIGQUIT == 3
SIGKILL == 9
SIGTERM == 15
TimeoutExitCode == 124
PermissionDeniedExitCode == 126
CommandNotFoundExitCode == 127
SignalBase == 128
InternalErrorExitCode == 1

ASSUME CodesAssumption ==
  /\ ChildCodes \subseteq 0..255
  /\ Forwarded \subseteq (1..64) \ {SIGKILL} /\ SIGTERM \in Forwarded
  /\ Captured \subseteq Forwarded
ASSUME FlagAssumption == Cancellable \in BOOLEAN
ASSUME BufferAssumption == SignalBuffer \in Nat \ {0} /\ MaxSignals \in Nat
ASSUME NoneAssumption == None \notin Nat

VARIABLES
  options,    \* the flags: has --timeout, --quiet-on-success
  main,       \* where Run is
  exit,       \* the exit code of mitsume, None until Run has decided on it
  fatal,      \* the signal that ended mitsume, if one did
  child,      \* "none", "running" or "ended"
  status,     \* how it ended: an exit code, or SignalBase + signal
  own,        \* history: it ended by its own exit, not by a signal
  sent,       \* signals mitsume has sent to the child
  holder,     \* a process it left behind keeps its stderr pipe open
  completed,  \* proc.Wait has returned
  waitCode,   \* decodeExit of what it returned
  timer,      \* the --timeout timer: "off", "armed", "fired" or "taken"
  ctxDone,    \* the context of Run is cancelled
  timedOut, killed,  \* locals of waitOrKill
  killer,     \* where killChild is
  sigCh,      \* the buffered channel of signal.Notify
  signals,    \* how many signals were sent to mitsume
  log         \* notifications sent: what they say and the code they carry

childVars == <<child, status, own, holder>>
waitVars == <<completed, waitCode>>
loopVars == <<options, timer, timedOut, killed>>
signalVars == <<sigCh, signals>>
endVars == <<exit, fatal>>
vars == <<main, endVars, childVars, sent, waitVars, loopVars, ctxDone, killer,
          signalVars, log>>

Running == main # "gone"

(***************************************************************************)
(* The child.                                                               *)
(***************************************************************************)
Ends(how, byItself) ==
  /\ Running /\ child = "running"
  /\ child' = "ended" /\ status' = how /\ own' = byItself
  /\ UNCHANGED <<main, endVars, sent, holder, waitVars, loopVars, ctxDone, killer,
                 signalVars, log>>

ChildExits == \E code \in ChildCodes : Ends(code, TRUE)

\* A signal of mitsume, or one from outside: of the terminal, of an operator, of
\* the kernel when memory is short.
ChildDies ==
  \E sig \in Forwarded \cup {SIGKILL} : Ends(SignalBase + sig, FALSE)

ChildIsKilled == SIGKILL \in sent /\ Ends(SignalBase + SIGKILL, FALSE)

ChildLeavesHolder ==
  /\ Running /\ child = "running" /\ ~holder
  /\ holder' = TRUE
  /\ UNCHANGED <<main, endVars, child, status, own, sent, waitVars, loopVars,
                 ctxDone, killer, signalVars, log>>

HolderCloses ==
  /\ Running /\ holder
  /\ holder' = FALSE
  /\ UNCHANGED <<main, endVars, child, status, own, sent, waitVars, loopVars,
                 ctxDone, killer, signalVars, log>>

(***************************************************************************)
(* The goroutine in proc.Wait.  Copying stderr may have failed: Wait says so *)
(* when the child itself succeeded, and decodeExit makes it code 1.         *)
(***************************************************************************)
WaitReturns(copyFailed) ==
  /\ Running /\ child = "ended" /\ ~holder /\ ~completed
  /\ main \notin {"start", "started"}
  /\ completed' = TRUE
  /\ waitCode' = IF status = 0 /\ copyFailed THEN InternalErrorExitCode
                                             ELSE status
  /\ UNCHANGED <<main, endVars, childVars, sent, loopVars, ctxDone, killer,
                 signalVars, log>>

(***************************************************************************)
(* Signals to mitsume.  Run listens from signal.Notify, after it has started *)
(* the child, to signal.Stop, when it returns.                              *)
(***************************************************************************)
Listening == child # "none" /\ main \in {"waiting", "decide", "sending"}

\* The context of main.go takes a captured signal, and `run` does not look at it.
SignalSwallowed(s) ==
  /\ Running /\ ~Listening /\ signals < MaxSignals
  /\ s \in Captured
  /\ signals' = signals + 1
  /\ UNCHANGED <<main, endVars, childVars, sent, waitVars, loopVars, ctxDone,
                 killer, sigCh, log>>

\* What a shell sees: the Go runtime answers SIGQUIT with a stack dump.
FatalStatus(s) == IF s = SIGQUIT THEN 2 ELSE SignalBase + s

\* Any other signal does what it does by default, and so does every signal once
\* main.go has stopped its capture on the way to os.Exit.
SignalKills(s) ==
  /\ Running /\ ~Listening /\ signals < MaxSignals
  /\ s \notin Captured \/ main = "leaving"
  /\ signals' = signals + 1
  /\ main' = "gone" /\ exit' = FatalStatus(s) /\ fatal' = s
  /\ UNCHANGED <<childVars, sent, waitVars, loopVars, ctxDone, killer, sigCh, log>>

\* Mutant: a signal is queued even when the channel is full.
SignalArrivesUnbounded(s) ==
  /\ Running /\ Listening /\ signals < MaxSignals
  /\ signals' = signals + 1
  /\ sigCh' = Append(sigCh, s)
  /\ UNCHANGED <<main, endVars, childVars, sent, waitVars, loopVars, ctxDone,
                 killer, log>>

SignalArrives(s) ==
  /\ Running /\ Listening /\ signals < MaxSignals
  /\ signals' = signals + 1
  /\ sigCh' = IF Len(sigCh) < SignalBuffer THEN Append(sigCh, s) ELSE sigCh
  /\ UNCHANGED <<main, endVars, childVars, sent, waitVars, loopVars, ctxDone,
                 killer, log>>

\* os.Process.Signal does nothing once the child was waited for.
SendSignal(s) == sent' = IF child = "running" THEN sent \cup {s} ELSE sent

\* Mutant: the forwarder receives the signal and does not pass it on.
ForwardNothing ==
  /\ Running /\ Listening /\ sigCh # <<>>
  /\ sigCh' = Tail(sigCh)
  /\ UNCHANGED <<main, endVars, childVars, sent, waitVars, loopVars, ctxDone,
                 killer, signals, log>>

ForwardSignal ==
  /\ Running /\ Listening /\ sigCh # <<>>
  /\ SendSignal(Head(sigCh)) /\ sigCh' = Tail(sigCh)
  /\ UNCHANGED <<main, endVars, childVars, waitVars, loopVars, ctxDone, killer,
                 signals, log>>

CancelContext ==
  /\ Running /\ Cancellable /\ ~ctxDone
  /\ ctxDone' = TRUE
  /\ UNCHANGED <<main, endVars, childVars, sent, waitVars, loopVars, killer,
                 signalVars, log>>

(***************************************************************************)
(* Run.                                                                     *)
(***************************************************************************)
Notice(kind, code) == [kind |-> kind, code |-> code, live |-> ~ctxDone]

\* Mutant: Run returns the exit code of the child, not the reported one.
ReportReturnsChildCode(kind, code) ==
  /\ main' = "sending" /\ exit' = IF completed THEN waitCode ELSE code
  /\ log' = Append(log, Notice(kind, code))
  /\ UNCHANGED fatal

\* Send a notification and return `code`.
Report(kind, code) ==
  /\ main' = "sending" /\ exit' = code
  /\ log' = Append(log, Notice(kind, code))
  /\ UNCHANGED fatal

\* Usage, configuration or webhook URL: mitsume ends before it starts a child.
Rejects ==
  /\ Running /\ main = "start"
  /\ main' = "leaving" /\ exit' = InternalErrorExitCode
  /\ UNCHANGED <<fatal, childVars, sent, waitVars, loopVars, ctxDone, killer,
                 signalVars, log>>

StartFails(code) ==
  /\ Running /\ main = "start"
  /\ code \in {PermissionDeniedExitCode, CommandNotFoundExitCode}
  /\ Report("start failed", code)
  /\ UNCHANGED <<childVars, sent, waitVars, loopVars, ctxDone, killer, signalVars>>

Start ==
  /\ Running /\ main = "start"
  /\ main' = "started" /\ child' = "running"
  /\ UNCHANGED <<endVars, status, own, holder, sent, waitVars, loopVars, ctxDone,
                 killer, signalVars, log>>

\* startSignalForward, the waiting goroutine and the timer.
Supervise ==
  /\ Running /\ main = "started"
  /\ main' = "waiting"
  /\ timer' = IF options.timeout THEN "armed" ELSE "off"
  /\ UNCHANGED <<options, endVars, childVars, sent, waitVars, timedOut, killed,
                 ctxDone, killer, signalVars, log>>

TimerFires ==
  /\ Running /\ timer = "armed"
  /\ timer' = "fired"
  /\ UNCHANGED <<options, main, endVars, childVars, sent, waitVars, timedOut,
                 killed, ctxDone, killer, signalVars, log>>

\* Mutant: the loop ends with the killer instead of with the child.
SelectKilled ==
  /\ Running /\ main = "waiting" /\ (completed \/ killer = "done")
  /\ main' = "decide"
  /\ UNCHANGED <<endVars, childVars, sent, waitVars, loopVars, ctxDone, killer,
                 signalVars, log>>

\* The three cases of the select in waitOrKill; when several are ready the
\* choice is free.
SelectCompleted ==
  /\ Running /\ main = "waiting" /\ completed
  /\ main' = "decide"
  /\ UNCHANGED <<endVars, childVars, sent, waitVars, loopVars, ctxDone, killer,
                 signalVars, log>>

\* Mutant: the timeout goes straight to the grace period.
SelectTimeoutSkipsTerm ==
  /\ Running /\ main = "waiting" /\ timer = "fired"
  /\ timer' = "taken"
  /\ IF killed THEN UNCHANGED <<timedOut, killed, killer>>
               ELSE timedOut' = TRUE /\ killed' = TRUE /\ killer' = "grace"
  /\ UNCHANGED <<options, main, endVars, childVars, sent, waitVars, ctxDone,
                 signalVars, log>>

SelectTimeout ==
  /\ Running /\ main = "waiting" /\ timer = "fired"
  /\ timer' = "taken"
  /\ IF killed THEN UNCHANGED <<timedOut, killed, killer>>
               ELSE timedOut' = TRUE /\ killed' = TRUE /\ killer' = "term"
  /\ UNCHANGED <<options, main, endVars, childVars, sent, waitVars, ctxDone,
                 signalVars, log>>

SelectContext ==
  /\ Running /\ main = "waiting" /\ ctxDone /\ ~killed
  /\ killed' = TRUE /\ killer' = "term"
  /\ UNCHANGED <<options, main, endVars, childVars, sent, waitVars, timer,
                 timedOut, ctxDone, signalVars, log>>

(***************************************************************************)
(* killChild: SIGTERM, then SIGKILL unless Wait returns within the grace.   *)
(***************************************************************************)
KillerTerminates ==
  /\ Running /\ killer = "term"
  /\ SendSignal(SIGTERM) /\ killer' = "grace"
  /\ UNCHANGED <<main, endVars, childVars, waitVars, loopVars, ctxDone,
                 signalVars, log>>

KillerReturns ==
  /\ Running /\ killer = "grace" /\ completed
  /\ killer' = "done"
  /\ UNCHANGED <<main, endVars, childVars, sent, waitVars, loopVars, ctxDone,
                 signalVars, log>>

\* Mutant: the killer repeats SIGTERM after the grace period.
KillerRepeatsTerm ==
  /\ Running /\ killer = "grace"
  /\ SendSignal(SIGTERM) /\ killer' = "done"
  /\ UNCHANGED <<main, endVars, childVars, waitVars, loopVars, ctxDone,
                 signalVars, log>>

KillerKills ==
  /\ Running /\ killer = "grace"
  /\ SendSignal(SIGKILL) /\ killer' = "done"
  /\ UNCHANGED <<main, endVars, childVars, waitVars, loopVars, ctxDone,
                 signalVars, log>>

\* Mutant: the timeout does not override the exit code of the child.
ResultCodeOfChild == waitCode

\* The exit code of Run once the child is done with.
ResultCode == IF timedOut THEN TimeoutExitCode ELSE waitCode

Decide ==
  /\ Running /\ main = "decide"
  /\ IF ResultCode # 0
       THEN Report(IF timedOut THEN "timed out" ELSE "failed", ResultCode)
     ELSE IF options.quiet
       THEN main' = "leaving" /\ exit' = 0 /\ UNCHANGED <<fatal, log>>
     ELSE Report("succeeded", 0)
  /\ UNCHANGED <<childVars, sent, waitVars, loopVars, ctxDone, killer,
                 signalVars>>

\* Send has returned, delivered or not; the forwarder is stopped and joined.
SendReturns ==
  /\ Running /\ main = "sending"
  /\ main' = "leaving"
  /\ UNCHANGED <<endVars, childVars, sent, waitVars, loopVars, ctxDone, killer,
                 signalVars, log>>

\* os.Exit.
Exit ==
  /\ Running /\ main = "leaving"
  /\ main' = "gone"
  /\ UNCHANGED <<endVars, childVars, sent, waitVars, loopVars, ctxDone, killer,
                 signalVars, log>>

(***************************************************************************)
(* The specification.                                                       *)
(***************************************************************************)
Flags == [timeout : BOOLEAN, quiet : BOOLEAN]

Init ==
  /\ options \in Flags
  /\ main = "start" /\ exit = None /\ fatal = None
  /\ child = "none" /\ status = None /\ own = FALSE /\ holder = FALSE
  /\ sent = {} /\ completed = FALSE /\ waitCode = None
  /\ timer = "off" /\ timedOut = FALSE /\ killed = FALSE
  /\ ctxDone = FALSE /\ killer = "off"
  /\ sigCh = <<>> /\ signals = 0 /\ log = <<>>

Child == ChildExits \/ ChildDies \/ ChildLeavesHolder \/ HolderCloses

World ==
  \/ CancelContext
  \/ \E s \in Forwarded : SignalSwallowed(s) \/ SignalKills(s) \/ SignalArrives(s)

Waiter == \E copyFailed \in BOOLEAN : WaitReturns(copyFailed)
Starter ==
  \/ Rejects \/ Start \/ Supervise
  \/ \E code \in {PermissionDeniedExitCode, CommandNotFoundExitCode} :
       StartFails(code)
Loop == SelectCompleted \/ SelectTimeout \/ SelectContext
Finisher == Decide \/ SendReturns \/ Exit
Killer == KillerTerminates \/ KillerReturns \/ KillerKills

Terminated == ~Running /\ UNCHANGED vars

Next ==
  \/ Child \/ World \/ Waiter \/ Starter \/ TimerFires \/ Loop \/ Finisher
  \/ Killer \/ ForwardSignal \/ Terminated

Spec == Init /\ [][Next]_vars

\* mitsume's goroutines run, its timers fire and Send returns; the kernel kills
\* on SIGKILL.  The child owes nothing: it need not exit, nor close the pipe.
FairSpec ==
  /\ Spec
  /\ WF_vars(Waiter) /\ WF_vars(Starter) /\ WF_vars(Loop) /\ WF_vars(Finisher)
  /\ WF_vars(TimerFires) /\ WF_vars(Killer) /\ WF_vars(ForwardSignal)
  /\ WF_vars(ChildIsKilled)

(***************************************************************************)
(* Properties.                                                              *)
(***************************************************************************)
Codes == 0..255
Kinds == {"start failed", "timed out", "failed", "succeeded"}
Notices == [kind : Kinds, code : Codes, live : BOOLEAN]

TypeOK ==
  /\ options \in Flags
  /\ main \in {"start", "started", "waiting", "decide", "sending", "leaving",
              "gone"}
  /\ exit \in Codes \cup {None} /\ fatal \in Forwarded \cup {None}
  /\ child \in {"none", "running", "ended"}
  /\ status \in Codes \cup {None} /\ waitCode \in Codes \cup {None}
  /\ own \in BOOLEAN /\ holder \in BOOLEAN /\ completed \in BOOLEAN
  /\ ctxDone \in BOOLEAN /\ timedOut \in BOOLEAN /\ killed \in BOOLEAN
  /\ sent \subseteq Forwarded \cup {SIGKILL}
  /\ timer \in {"off", "armed", "fired", "taken"}
  /\ killer \in {"off", "term", "grace", "done"}
  /\ sigCh \in Seq(Forwarded) /\ Len(sigCh) <= SignalBuffer
  /\ signals \in 0..MaxSignals
  /\ log \in Seq(Notices)

\* `mitsume run -- cmd && mitsume ping job` relies on it: mitsume exits 0 only
\* when the child itself exited with 0 and was not stopped.
SuccessIsReal ==
  exit = 0 => child = "ended" /\ own /\ status = 0 /\ ~timedOut

\* Whatever the signals, the timer and the killer did, exactly one notification
\* went out before mitsume ends by itself, and it carries the code mitsume exits
\* with; the exceptions are --quiet-on-success and a child not even tried.
Reported ==
  \/ child = "none" /\ exit = InternalErrorExitCode /\ log = <<>>
  \/ options.quiet /\ exit = 0 /\ log = <<>>
  \/ Len(log) = 1 /\ log[1].code = exit /\ (log[1].kind = "succeeded") = (exit = 0)

ReportedOnce == (~Running /\ fatal = None) => Reported

\* SIGKILL is never the first signal: it follows a SIGTERM, and only a timeout
\* or a cancelled context brings it.
KillAfterTerm ==
  SIGKILL \in sent => SIGTERM \in sent /\ (timedOut \/ ctxDone)

\* mitsume ends only after proc.Wait returned or without a child.  One way is left
\* to leave it behind: a signal main.go does not capture, between the start of the
\* child and signal.Notify; then nothing was sent or reported yet.
NoOrphan ==
  (~Running /\ child = "running") =>
    /\ fatal \in Forwarded \ Captured
    /\ sent = {} /\ killer = "off" /\ ~completed /\ log = <<>>

\* With --timeout, mitsume ends even if the child ignores every signal it can,
\* provided whatever holds the child's stderr eventually lets go of it.
TimeoutEnds ==
  (options.timeout /\ <>[](~holder)) => <>(~Running)

\* A signal that found room in the channel reaches the child or finds it ended.
QueuedSignalForwarded ==
  \A s \in Forwarded :
    (sigCh # <<>> /\ sigCh[1] = s) ~> (s \in sent \/ child = "ended" \/ ~Running)

\* What cli.md says of 124: mitsume stopped the child because it ran too long.
TimeoutMeansStopped ==
  (~Running /\ exit = TimeoutExitCode /\ timedOut) => SIGTERM \in sent

\* What cli.md says of SIGHUP, SIGINT, SIGQUIT and SIGTERM: mitsume forwards those
\* it gets to the child.  So none of them ends mitsume over a child that runs.
SignalReachesChild == (fatal # None /\ child = "running") => fatal \in sent
=============================================================================
