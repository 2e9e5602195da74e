-------------------------- MODULE SupervisorProofs --------------------------
(***************************************************************************)
(* `mitsume run`, for any exit codes, signals and buffer: the child is not  *)
(* left behind, success is real, and what was reported is what the exit     *)
(* status says.                                                             *)
(***************************************************************************)
EXTENDS Supervisor, TLAPS

(***************************************************************************)
(* The invariant.                                                           *)
(***************************************************************************)
\* The child and what proc.Wait said of it.  A child that ended on a signal has
\* a code above SignalBase, so a code 0 is its own.  Nothing is sent to a child
\* before Run supervises it.
ChildInv ==
  /\ child = "ended" <=> status # None
  /\ child = "none" => sent = {} /\ killer = "off"
  /\ main = "start" => child = "none"
  /\ main = "started" => sent = {} /\ killer = "off" /\ ~completed
  /\ main \in {"started", "waiting", "decide"} => child # "none"
  /\ completed => /\ child = "ended"
                  /\ waitCode = status \/ (status = 0 /\ waitCode # 0)
                  /\ waitCode \in Codes
  /\ child = "ended" => IF own THEN status \in ChildCodes ELSE status > SignalBase

\* The escalation: it has a reason, and when its grace period begins the child
\* has its SIGTERM or needs none.
KillInv ==
  /\ killed <=> killer # "off"
  /\ killed => timedOut \/ ctxDone
  /\ killer \in {"grace", "done"} => SIGTERM \in sent \/ child = "ended"
  /\ SIGKILL \in sent => SIGTERM \in sent /\ killed

\* How a run that mitsume ends by itself came out: rejected before it started a
\* child, not started, or waited for.
Outcome ==
  /\ child # "running"
  /\ exit = 0 => child = "ended" /\ own /\ status = 0 /\ ~timedOut
  /\ Reported

\* A signal ended mitsume: its child has ended too or was just started.
Killed ==
  /\ main = "gone" /\ exit # 0
  /\ child = "running" =>
       /\ fatal \in Forwarded \ Captured
       /\ sent = {} /\ killer = "off" /\ ~completed /\ log = <<>>

\* The one notification and the exit code.
ReportInv ==
  /\ main \in {"start", "started", "waiting", "decide"} => exit = None /\ log = <<>>
  /\ main = "decide" => completed
  /\ main \in {"sending", "leaving"} => Outcome
  /\ main = "gone" => IF fatal = None THEN Outcome ELSE Killed
  /\ fatal # None => main = "gone"

IInv == TypeOK /\ ChildInv /\ KillInv /\ ReportInv

\* The invariant holds at the start.
LEMMA InvInit == Init => IInv
<1> SUFFICES ASSUME Init PROVE IInv
  OBVIOUS
<1>1. sigCh \in Seq(Forwarded) /\ Len(sigCh) <= SignalBuffer /\ signals \in 0..MaxSignals
  BY BufferAssumption DEF Init
<1>2. TypeOK
  <2>1. log \in Seq(Notices)
    BY DEF Init
  <2> QED  BY <1>1, <2>1 DEF Init, TypeOK
<1>3. ChildInv /\ KillInv
  BY NoneAssumption DEF Init, ChildInv, KillInv
<1>4. ReportInv
  BY DEF Init, ReportInv
<1> QED  BY <1>2, <1>3, <1>4 DEF IInv

(***************************************************************************)
(* The steps of the child, its Wait, the world and the timer.               *)
(***************************************************************************)
\* Whatever ends the child ends it with a code, and with 0 only by itself.
LEMMA EndsStep ==
  ASSUME IInv, NEW how \in Codes, NEW byItself \in BOOLEAN, Ends(how, byItself),
         IF byItself THEN how \in ChildCodes ELSE how > SignalBase
  PROVE  IInv'
<1> USE DEF IInv, TypeOK, ChildInv, KillInv, ReportInv, Outcome, Ends,
        waitVars, loopVars, signalVars, endVars, Running
<1>1. TypeOK'
  OBVIOUS
<1>2. ChildInv'
  <2>1. how # None
    BY NoneAssumption DEF Codes
  <2> QED  BY <2>1
<1>3. KillInv'
  OBVIOUS
<1>4. ReportInv'
  BY DEF Killed, Reported
<1> QED  BY <1>1, <1>2, <1>3, <1>4

\* The child keeps the invariant, however it ends.
LEMMA ChildStep ==
  ASSUME IInv, Child
  PROVE  IInv'
<1>1. CASE ChildExits
  <2>1. PICK code \in ChildCodes : Ends(code, TRUE)
    BY <1>1 DEF ChildExits
  <2>2. code \in Codes
    BY CodesAssumption DEF Codes
  <2> QED  BY <2>1, <2>2, EndsStep
<1>2. CASE ChildDies
  <2>1. PICK sig \in Forwarded \cup {SIGKILL} : Ends(SignalBase + sig, FALSE)
    BY <1>2 DEF ChildDies
  <2>2. sig \in 1..64
    BY CodesAssumption DEF SIGKILL
  <2>3. SignalBase + sig \in Codes /\ SignalBase + sig > SignalBase
    BY <2>2 DEF SignalBase, Codes
  <2> QED  BY <2>1, <2>3, EndsStep
<1>3. CASE ChildLeavesHolder \/ HolderCloses
  <2>1. /\ holder' \in BOOLEAN
        /\ UNCHANGED <<main, endVars, child, status, own, sent, waitVars, loopVars, ctxDone,
                       killer, signalVars, log>>
    BY <1>3 DEF ChildLeavesHolder, HolderCloses
  <2>2. TypeOK'
    BY <2>1 DEF IInv, TypeOK, endVars, waitVars, loopVars, signalVars
  <2>3. ChildInv' /\ KillInv'
    BY <2>1 DEF IInv, ChildInv, KillInv, waitVars, loopVars
  <2>4. ReportInv'
    BY <2>1 DEF IInv, ReportInv, Outcome, Killed, Reported, endVars, waitVars, loopVars
  <2> QED  BY <2>2, <2>3, <2>4 DEF IInv
<1> QED  BY <1>1, <1>2, <1>3 DEF Child

\* proc.Wait returns what the child ended with, or 1 for a failed copy.
LEMMA WaiterStep ==
  ASSUME IInv, Waiter
  PROVE  IInv'
<1> USE DEF Waiter, WaitReturns, IInv, TypeOK, childVars, loopVars, signalVars, endVars, Running
<1>1. status \in Codes
  BY DEF ChildInv
<1>2. waitCode' \in Codes /\ (waitCode' = status \/ (status = 0 /\ waitCode' # 0))
  BY <1>1 DEF InternalErrorExitCode, Codes
<1>3. TypeOK'
  BY <1>2
<1>4. ChildInv' /\ KillInv'
  BY <1>2 DEF ChildInv, KillInv
<1>5. ReportInv'
  BY DEF ReportInv, Outcome, Killed, Reported
<1> QED  BY <1>3, <1>4, <1>5

\* A signal that ends mitsume finds its child ended or just started: where Run does
\* not listen it has not started the child, or not yet supervised it, or is done.
LEMMA KillsStep ==
  ASSUME IInv, NEW s \in Forwarded, SignalKills(s)
  PROVE  IInv'
<1>1. /\ Running /\ ~Listening /\ (s \notin Captured \/ main = "leaving")
      /\ main' = "gone" /\ exit' = FatalStatus(s) /\ fatal' = s
      /\ signals < MaxSignals /\ signals' = signals + 1
      /\ UNCHANGED <<childVars, sent, waitVars, loopVars, ctxDone, killer, sigCh, log>>
  BY DEF SignalKills
<1>2. s \in 1..64
  BY CodesAssumption
<1>3. FatalStatus(s) \in Codes /\ FatalStatus(s) # 0
  BY <1>2 DEF FatalStatus, SignalBase, Codes
<1>4. s # None
  BY <1>2, NoneAssumption
<1>5. TypeOK'
  <2>1. signals' \in 0..MaxSignals
    BY <1>1, BufferAssumption DEF IInv, TypeOK
  <2> QED  BY <1>1, <1>3, <2>1 DEF IInv, TypeOK, childVars, waitVars, loopVars
<1>6. ChildInv' /\ KillInv'
  BY <1>1 DEF IInv, ChildInv, KillInv, childVars, waitVars, loopVars
<1>7. child = "running" => /\ main = "started" /\ s \notin Captured
                          /\ sent = {} /\ killer = "off" /\ ~completed /\ log = <<>>
  <2> SUFFICES ASSUME child = "running"
               PROVE  /\ main = "started" /\ s \notin Captured
                      /\ sent = {} /\ killer = "off" /\ ~completed /\ log = <<>>
    OBVIOUS
  <2>1. main \in {"start", "started", "leaving"}
    BY <1>1 DEF IInv, TypeOK, Running, Listening
  <2>2. main = "started"
    BY <2>1 DEF IInv, ChildInv, ReportInv, Outcome
  <2> QED  BY <1>1, <2>2 DEF IInv, ChildInv, ReportInv
<1>8. ReportInv'
  BY <1>1, <1>3, <1>4, <1>7 DEF ReportInv, Killed, childVars, waitVars
<1> QED  BY <1>5, <1>6, <1>8 DEF IInv

\* Signals, timers and the wait for the child keep the invariant.
LEMMA WorldStep ==
  ASSUME IInv, World \/ TimerFires
  PROVE  IInv'
<1> USE DEF IInv, TypeOK, ChildInv, KillInv, ReportInv, Outcome, Killed, Reported, childVars,
        waitVars, loopVars, signalVars, endVars, Running
<1>1. CASE CancelContext
  BY <1>1 DEF CancelContext
<1>2. ASSUME NEW s \in Forwarded, SignalSwallowed(s)
      PROVE  IInv'
  BY <1>2, BufferAssumption DEF SignalSwallowed
<1>3. ASSUME NEW s \in Forwarded, SignalArrives(s)
      PROVE  IInv'
  <2>1. sigCh' \in Seq(Forwarded) /\ Len(sigCh') <= SignalBuffer
    BY <1>3, BufferAssumption DEF SignalArrives
  <2>2. signals' \in 0..MaxSignals
    BY <1>3, BufferAssumption DEF SignalArrives
  <2> QED  BY <1>3, <2>1, <2>2 DEF SignalArrives
<1>4. CASE TimerFires
  BY <1>4 DEF TimerFires
<1>5. ASSUME NEW s \in Forwarded, SignalKills(s)
      PROVE  IInv'
  BY <1>5, KillsStep
<1> QED  BY <1>1, <1>2, <1>3, <1>4, <1>5 DEF World

(***************************************************************************)
(* The signals mitsume sends.                                               *)
(***************************************************************************)
\* A forwarded signal is never SIGKILL.
LEMMA ForwardStep ==
  ASSUME IInv, ForwardSignal
  PROVE  IInv'
<1> USE DEF IInv, TypeOK, ForwardSignal, SendSignal, childVars, waitVars, loopVars, endVars, Running
<1>1. /\ Head(sigCh) \in Forwarded /\ SIGKILL \notin Forwarded
      /\ sigCh' \in Seq(Forwarded) /\ Len(sigCh') <= SignalBuffer
  <2>1. /\ sigCh \in Seq(Forwarded) /\ sigCh # <<>> /\ Len(sigCh) <= SignalBuffer
        /\ sigCh' = Tail(sigCh)
    OBVIOUS
  <2>2. SignalBuffer \in Nat /\ SIGKILL \notin Forwarded
    BY CodesAssumption, BufferAssumption
  <2> HIDE DEF IInv, ForwardSignal
  <2>3. Head(sigCh) \in Forwarded /\ sigCh' \in Seq(Forwarded)
    BY <2>1
  <2>4. Len(sigCh') <= SignalBuffer
    BY <2>1, <2>2
  <2> QED  BY <2>2, <2>3, <2>4
<1>2. TypeOK'
  BY <1>1
<1>3. ChildInv' /\ KillInv'
  BY <1>1 DEF ChildInv, KillInv, Listening
<1>4. ReportInv'
  BY DEF ReportInv, Outcome, Killed, Reported
<1> QED  BY <1>2, <1>3, <1>4

\* SIGKILL follows a SIGTERM, or finds the child ended.
LEMMA KillerStep ==
  ASSUME IInv, Killer
  PROVE  IInv'
<1> USE DEF IInv, TypeOK, SendSignal, childVars, waitVars, loopVars, signalVars, endVars, Running
<1>1. CASE KillerTerminates
  <2>1. TypeOK'
    BY <1>1, CodesAssumption DEF KillerTerminates
  <2>2. ChildInv' /\ KillInv'
    BY <1>1 DEF KillerTerminates, ChildInv, KillInv, SIGKILL, SIGTERM
  <2>3. ReportInv'
    BY <1>1 DEF KillerTerminates, ReportInv, Outcome, Killed, Reported
  <2> QED  BY <2>1, <2>2, <2>3
<1>2. CASE KillerReturns
  BY <1>2 DEF KillerReturns, ChildInv, KillInv, ReportInv, Outcome, Killed, Reported
<1>3. CASE KillerKills
  <2>1. TypeOK'
    BY <1>3 DEF KillerKills
  <2>2. ChildInv' /\ KillInv'
    BY <1>3 DEF KillerKills, ChildInv, KillInv, SIGKILL, SIGTERM
  <2>3. ReportInv'
    BY <1>3 DEF KillerKills, ReportInv, Outcome, Killed, Reported
  <2> QED  BY <2>1, <2>2, <2>3
<1> QED  BY <1>1, <1>2, <1>3 DEF Killer

(***************************************************************************)
(* Run.                                                                     *)
(***************************************************************************)
\* One notification has the shape of an entry of the log.
LEMMA ReportFirst ==
  ASSUME TypeOK, log = <<>>, NEW code \in Codes,
         NEW kind \in Kinds,
         Report(kind, code)
  PROVE  /\ main' = "sending" /\ exit' = code /\ fatal' = fatal
         /\ log' \in Seq(Notices)
         /\ Len(log') = 1 /\ log'[1].kind = kind /\ log'[1].code = code
<1>1. Notice(kind, code) \in Notices
  BY DEF Notice, Notices, TypeOK
<1>2. Notice(kind, code).kind = kind /\ Notice(kind, code).code = code
  BY DEF Notice
<1>3. log' = <<Notice(kind, code)>>
  BY DEF Report
<1> QED  BY <1>1, <1>2, <1>3 DEF Report

\* Ending touches the place, the exit code and the log only.
LEMMA TypeFrame ==
  ASSUME TypeOK, main' \in {"sending", "leaving", "gone"}, exit' \in Codes \cup {None},
         fatal' = fatal, log' \in Seq(Notices),
         UNCHANGED <<childVars, sent, waitVars, loopVars, ctxDone, killer, signalVars>>
  PROVE  TypeOK'
  BY DEF TypeOK, childVars, waitVars, loopVars, signalVars

\* The steps up to the start of the child keep the invariant.
LEMMA StarterStep ==
  ASSUME IInv, Starter
  PROVE  IInv'
<1> USE DEF IInv, Running, childVars, waitVars, loopVars, signalVars, endVars
<1>1. CASE Rejects
  <2>1. /\ Running /\ main = "start" /\ child = "none" /\ log = <<>> /\ fatal = None
        /\ main' = "leaving" /\ exit' = InternalErrorExitCode
        /\ UNCHANGED <<fatal, childVars, sent, waitVars, loopVars, ctxDone, killer,
                       signalVars, log>>
    BY <1>1 DEF Rejects, ChildInv, ReportInv
  <2>2. TypeOK'
    BY <2>1 DEF TypeOK, Codes, InternalErrorExitCode
  <2>3. ChildInv' /\ KillInv'
    BY <2>1 DEF ChildInv, KillInv
  <2>4. ReportInv'
    BY <2>1 DEF ReportInv, Outcome, Reported, InternalErrorExitCode
  <2> QED  BY <2>2, <2>3, <2>4
<1>2. CASE Start
  <2>1. TypeOK' /\ KillInv'
    BY <1>2 DEF Start, TypeOK, ChildInv, KillInv, SIGKILL, SIGTERM
  <2>2. ChildInv'
    BY <1>2, NoneAssumption DEF Start, ChildInv
  <2>3. ReportInv'
    BY <1>2 DEF Start, ReportInv
  <2> QED  BY <2>1, <2>2, <2>3
<1>3. CASE Supervise
  BY <1>3 DEF Supervise, TypeOK, ChildInv, KillInv, ReportInv
<1>4. ASSUME NEW code \in {PermissionDeniedExitCode, CommandNotFoundExitCode},
             StartFails(code)
      PROVE  IInv'
  <2>1. /\ Running /\ main = "start" /\ child = "none" /\ log = <<>> /\ fatal = None
        /\ UNCHANGED <<childVars, sent, waitVars, loopVars, ctxDone, killer, signalVars>>
    BY <1>4 DEF StartFails, ChildInv, ReportInv
  <2>2. code \in Codes /\ code # 0
    BY DEF Codes, PermissionDeniedExitCode, CommandNotFoundExitCode
  <2>3. /\ main' = "sending" /\ exit' = code /\ fatal' = fatal
        /\ log' \in Seq(Notices)
        /\ Len(log') = 1 /\ log'[1].kind = "start failed" /\ log'[1].code = code
    BY <1>4, <2>1, <2>2, ReportFirst DEF StartFails, Kinds
  <2>4. TypeOK'
    BY <2>1, <2>2, <2>3, TypeFrame
  <2>5. ChildInv' /\ KillInv'
    BY <2>1, <2>3 DEF ChildInv, KillInv
  <2>6. ReportInv'
    BY <2>1, <2>2, <2>3 DEF ReportInv, Outcome, Reported
  <2> QED  BY <2>4, <2>5, <2>6
<1> QED  BY <1>1, <1>2, <1>3, <1>4 DEF Starter

\* The steps from there to the exit keep the invariant.
LEMMA LoopStep ==
  ASSUME IInv, Loop
  PROVE  IInv'
<1> USE DEF IInv, TypeOK, ChildInv, KillInv, ReportInv, Running, childVars, waitVars,
        loopVars, signalVars, endVars
<1>1. CASE SelectCompleted
  BY <1>1 DEF SelectCompleted
<1>2. CASE SelectTimeout
  <2>1. CASE killed
    <3>1. UNCHANGED <<timedOut, killed, killer>>
      BY <1>2, <2>1 DEF SelectTimeout
    <3> QED  BY <1>2, <3>1 DEF SelectTimeout
  <2>2. CASE ~killed
    <3>1. timedOut' = TRUE /\ killed' = TRUE /\ killer' = "term" /\ sent' = sent
      BY <1>2, <2>2 DEF SelectTimeout
    <3>2. TypeOK'
      BY <1>2, <3>1 DEF SelectTimeout
    <3>3. ChildInv'
      BY <1>2, <3>1 DEF SelectTimeout
    <3>4. KillInv'
      BY <2>2, <3>1
    <3>5. ReportInv'
      BY <1>2, <3>1 DEF SelectTimeout
    <3> QED  BY <3>2, <3>3, <3>4, <3>5
  <2> QED  BY <2>1, <2>2
<1>3. CASE SelectContext
  BY <1>3 DEF SelectContext
<1> QED  BY <1>1, <1>2, <1>3 DEF Loop

\* A result of 0 is the child's own; anything else is reported as a failure.
LEMMA DecideStep ==
  ASSUME IInv, Decide
  PROVE  IInv'
<1> USE DEF IInv
<1>1. /\ Running /\ main = "decide" /\ log = <<>> /\ child = "ended" /\ fatal = None
      /\ UNCHANGED <<childVars, sent, waitVars, loopVars, ctxDone, killer, signalVars>>
  BY DEF Decide, ReportInv, ChildInv, Running
<1>2. ResultCode \in Codes
  <2>1. waitCode \in Codes
    BY <1>1 DEF ReportInv, ChildInv
  <2>2. TimeoutExitCode \in Codes
    BY DEF Codes, TimeoutExitCode
  <2> QED  BY <2>1, <2>2 DEF ResultCode
<1>3. ResultCode = 0 => own /\ status = 0 /\ ~timedOut
  <2> SUFFICES ASSUME ResultCode = 0 PROVE own /\ status = 0 /\ ~timedOut
    OBVIOUS
  <2>1. ~timedOut /\ waitCode = 0
    BY DEF ResultCode, TimeoutExitCode
  <2>2. status = 0
    BY <1>1, <2>1 DEF ReportInv, ChildInv
  <2>3. own
    BY <1>1, <2>2 DEF ChildInv, TypeOK, SignalBase
  <2> QED  BY <2>1, <2>2, <2>3
<1>4. ChildInv' /\ KillInv'
  <2>1. main' \in {"sending", "leaving"}
    BY DEF Decide, Report
  <2> QED  BY <1>1, <2>1 DEF ChildInv, KillInv, childVars, waitVars, loopVars
<1>5. ASSUME NEW kind \in {"timed out", "failed", "succeeded"}, Report(kind, ResultCode),
             (kind = "succeeded") = (ResultCode = 0)
      PROVE  IInv'
  <2>1. /\ main' = "sending" /\ exit' = ResultCode /\ fatal' = fatal
        /\ log' \in Seq(Notices)
        /\ Len(log') = 1 /\ log'[1].kind = kind /\ log'[1].code = ResultCode
    BY <1>1, <1>2, <1>5, ReportFirst DEF Kinds
  <2>2. TypeOK'
    BY <1>1, <1>2, <2>1, TypeFrame
  <2>3. ReportInv'
    BY <1>1, <1>3, <1>5, <2>1
    DEF ReportInv, Outcome, Reported, childVars, waitVars, loopVars
  <2> QED  BY <1>4, <2>2, <2>3
<1>6. CASE ResultCode # 0
  BY <1>5, <1>6 DEF Decide
<1>7. CASE ResultCode = 0 /\ ~options.quiet
  BY <1>5, <1>7 DEF Decide
<1>8. CASE ResultCode = 0 /\ options.quiet
  <2>1. main' = "leaving" /\ exit' = 0 /\ log' = <<>> /\ fatal' = fatal
    BY <1>1, <1>8 DEF Decide
  <2>2. TypeOK'
    BY <1>1, <2>1 DEF TypeOK, childVars, waitVars, loopVars, signalVars, Codes
  <2>3. ReportInv'
    BY <1>1, <1>3, <1>8, <2>1 DEF ReportInv, Outcome, Reported, childVars, waitVars, loopVars
  <2> QED  BY <1>4, <2>2, <2>3
<1> QED  BY <1>6, <1>7, <1>8

\* What Run has decided on stands until mitsume ends.
LEMMA EndStep ==
  ASSUME IInv, SendReturns \/ Exit
  PROVE  IInv'
<1>1. /\ Running /\ main \in {"sending", "leaving"} /\ main' \in {"leaving", "gone"}
      /\ UNCHANGED <<endVars, childVars, sent, waitVars, loopVars, ctxDone, killer,
                     signalVars, log>>
  BY DEF SendReturns, Exit
<1>2. TypeOK'
  BY <1>1 DEF IInv, TypeOK, endVars, childVars, waitVars, loopVars, signalVars
<1>3. ChildInv' /\ KillInv'
  BY <1>1 DEF IInv, ChildInv, KillInv, childVars, waitVars, loopVars
<1>4. ReportInv'
  <2>1. Outcome /\ fatal = None
    BY <1>1 DEF IInv, ReportInv
  <2>2. Outcome'
    BY <1>1, <2>1 DEF Outcome, Reported, endVars, childVars, loopVars
  <2>3. fatal' = None
    BY <1>1, <2>1 DEF endVars
  <2> QED  BY <1>1, <2>2, <2>3 DEF ReportInv
<1> QED  BY <1>2, <1>3, <1>4 DEF IInv

\* Every step keeps the invariant.
LEMMA InvStep == IInv /\ [Next]_vars => IInv'
<1> SUFFICES ASSUME IInv, [Next]_vars PROVE IInv'
  OBVIOUS
<1>1. CASE Terminated \/ UNCHANGED vars
  BY <1>1 DEF Terminated, vars, childVars, waitVars, loopVars, signalVars, IInv, TypeOK,
     endVars, ChildInv, KillInv, ReportInv, Outcome, Killed, Reported
<1> QED
  BY <1>1, ChildStep, WaiterStep, WorldStep, ForwardStep, KillerStep, StarterStep, LoopStep,
     DecideStep, EndStep DEF Next, Finisher

\* The invariant holds in every state.
LEMMA Invariant == Spec => []IInv
  BY InvInit, InvStep, PTL DEF Spec

(***************************************************************************)
(* The theorems.                                                            *)
(***************************************************************************)
\* Every variable keeps its type; in particular the channel of signals never
\* holds more than its capacity, and every exit code fits in a byte.
THEOREM TypeCorrect == Spec => []TypeOK
<1>1. IInv => TypeOK
  BY DEF IInv
<1> QED  BY <1>1, Invariant, PTL

\* mitsume exits with 0 only when the child itself did and was not timed out
\* (supervisor.go: waitOrKill, Run).
THEOREM SuccessCorrect == Spec => []SuccessIsReal
<1>1. IInv => SuccessIsReal
  <2>1. IInv => exit = None \/ Outcome \/ exit # 0
    BY DEF IInv, TypeOK, ReportInv, Killed
  <2> QED  BY <2>1, NoneAssumption DEF Outcome, SuccessIsReal
<1> QED  BY <1>1, Invariant, PTL

\* When mitsume ends by itself, exactly one notification carries its exit code,
\* unless success is quiet or no child was tried (supervisor.go: Run).
THEOREM ReportCorrect == Spec => []ReportedOnce
<1>1. IInv => ReportedOnce
  BY DEF IInv, ReportInv, Outcome, ReportedOnce, Running
<1> QED  BY <1>1, Invariant, PTL

\* SIGKILL follows SIGTERM and has a reason (supervisor.go: killChild).
THEOREM KillCorrect == Spec => []KillAfterTerm
<1>1. IInv => KillAfterTerm
  BY DEF IInv, KillInv, KillAfterTerm
<1> QED  BY <1>1, Invariant, PTL

\* mitsume ends over a child that runs only by a signal that main.go does not
\* capture, before it supervised the child (supervisor.go: waitOrKill, Run).
THEOREM OrphanFree == Spec => []NoOrphan
<1>1. IInv => NoOrphan
  BY DEF IInv, ReportInv, Outcome, Killed, NoOrphan, Running
<1> QED  BY <1>1, Invariant, PTL

\* With every forwarded signal captured from the beginning there would be no such
\* way: mitsume would never leave its child behind.
COROLLARY NeverOrphanedIfCaptured ==
  ASSUME Captured = Forwarded
  PROVE  Spec => [](~Running => child # "running")
<1>1. NoOrphan => (~Running => child # "running")
  BY DEF NoOrphan
<1> QED  BY <1>1, OrphanFree, PTL
=============================================================================
