------------------------------ MODULE Checkers ------------------------------
(***************************************************************************)
(* The checks of the runner behind the interface checker.Checker: Evaluate  *)
(* takes a context and returns a verdict, whatever the type of the check    *)
(* (loader.go: parseSingle).  One evaluation of any type; the variables of  *)
(* the other types stay as they are.  Beside them, the end of the output    *)
(* that a cmd check and `run` report.                                       *)
(***************************************************************************)
EXTENDS FileConfig, FiniteSets

CONSTANTS
  Types,                            \* types of checks in the instance
  ChildCodes, ExpectCodes,          \* of CmdCheck
  Members, Items, Roots, Texts, Statuses, RequestWants, Timeout, MaxRedirects,
                                    \* of RequestCheck
  Bytes, NL, BufferBytes, TailLines, TailBytes, MaxPiece, MaxWritten  \* of Tail

VARIABLES
  type, pc, verdict, ctxDone,
  expect, timer, timedOut, canceled, child, status, signals, holder, output,
  waited, waitFailed,                                              \* CmdCheck
  want,                                        \* FileCheck and RequestCheck
  todo, best, now, disk, dir, changes, steady, access,            \* FileCheck
  spent, elapsed, hops, reply, came, broken, endedAt,           \* RequestCheck
  written, ring                                                        \* Tail

Cmd == INSTANCE CmdCheck WITH sent <- signals
File == INSTANCE FileCheck
Request == INSTANCE RequestCheck
Output == INSTANCE Tail

ASSUME TypesAssumption == Types \subseteq {"cmd", "file", "request", "output"}
ASSUME CmdAssumption == ChildCodes \subseteq 0..255 /\ ExpectCodes \subseteq Int
ASSUME RequestAssumption == Request!Assumption
ASSUME TailAssumption ==
  NL \in Bytes /\ {TailLines, TailBytes, MaxWritten} \subseteq Nat
    /\ {BufferBytes, MaxPiece} \subseteq Nat \ {0}

shared == <<pc, verdict, ctxDone>>
cmdOnly == <<expect, timer, timedOut, canceled, child, status, signals, holder,
             output, waited, waitFailed>>
fileOnly == <<todo, best, now, disk, dir, changes, steady, access>>
requestOnly == <<spent, elapsed, hops, reply, came, broken, endedAt>>
outputOnly == <<written, ring>>
vars == <<type, shared, want, cmdOnly, fileOnly, requestOnly, outputOnly>>

(***************************************************************************)
(* A step of one type leaves what belongs to the others alone.              *)
(***************************************************************************)
CmdStep(A) ==
  /\ type = "cmd" /\ A
  /\ UNCHANGED <<type, want, fileOnly, requestOnly, outputOnly>>

FileStep(A) ==
  /\ type = "file" /\ A
  /\ UNCHANGED <<type, cmdOnly, requestOnly, outputOnly>>

RequestStep(A) ==
  /\ type = "request" /\ A
  /\ UNCHANGED <<type, cmdOnly, fileOnly, outputOnly>>

OutputStep(A) ==
  /\ type = "output" /\ A
  /\ UNCHANGED <<type, shared, want, cmdOnly, fileOnly, requestOnly>>

(***************************************************************************)
(* The specification.                                                       *)
(***************************************************************************)
CmdUnused ==
  /\ expect = None /\ timer = None /\ timedOut = None /\ canceled = None
  /\ child = None /\ status = None /\ signals = {} /\ holder = FALSE
  /\ output = None /\ waited = None /\ waitFailed = None

FileUnused ==
  /\ todo = {} /\ best = None /\ now = None /\ disk = None /\ dir = None
  /\ changes = 0 /\ steady = {} /\ access = {}

RequestUnused ==
  /\ spent = None /\ elapsed = None /\ hops = None /\ reply = None
  /\ came = None /\ broken = None /\ endedAt = None

OutputUnused == written = <<>> /\ ring = <<>>

Init ==
  /\ type \in Types
  /\ \/ /\ type = "cmd" /\ Cmd!Init
        /\ want = None /\ FileUnused /\ RequestUnused /\ OutputUnused
     \/ /\ type = "file" /\ File!Init
        /\ CmdUnused /\ RequestUnused /\ OutputUnused
     \/ /\ type = "request" /\ Request!Init
        /\ CmdUnused /\ FileUnused /\ OutputUnused
     \/ /\ type = "output" /\ Output!TailInit
        /\ pc = "returned" /\ verdict = None /\ ctxDone = FALSE /\ want = None
        /\ CmdUnused /\ FileUnused /\ RequestUnused

\* The goroutine that evaluates.
Evaluate ==
  \/ CmdStep(Cmd!Evaluate) \/ FileStep(File!Evaluate)
  \/ RequestStep(Request!Evaluate)

\* Evaluate is over, or as much was written as the bound allows.
Done == pc = "returned" /\ UNCHANGED vars

Next ==
  \/ Evaluate
  \/ CmdStep(Cmd!Child) \/ CmdStep(Cmd!Waiter)
  \/ CmdStep(Cmd!TimerFires) \/ CmdStep(Cmd!CancelContext)
  \/ FileStep(File!World)
  \/ RequestStep(Request!Server) \/ RequestStep(Request!Tick)
  \/ RequestStep(Request!CancelContext)
  \/ OutputStep(Output!TailNext)
  \/ Done

Spec == Init /\ [][Next]_vars

\* The fairness of the parts: goroutines and time go on, the kernel kills on
\* SIGKILL; a child, a server and the file system owe nothing.
FairSpec ==
  /\ Spec /\ WF_vars(Evaluate)
  /\ WF_vars(CmdStep(Cmd!Waiter)) /\ WF_vars(CmdStep(Cmd!TimerFires))
  /\ WF_vars(CmdStep(Cmd!ChildIsKilled)) /\ WF_vars(RequestStep(Request!Tick))

(***************************************************************************)
(* Properties; those of the parts are commented there.                      *)
(***************************************************************************)
\* The variables of the type that is evaluated have their types.
TypeOK ==
  /\ type = "cmd" => Cmd!TypeOK
  /\ type = "file" => File!TypeOK
  /\ type = "request" => Request!TypeOK
  /\ type = "output" => Output!TailTypeOK

\* A cmd check passes only on what the command did by itself within its time, or
\* with exit_code 124 expected (cmdcheck.go: Evaluate).
CmdPassIsReal == type = "cmd" => Cmd!PassIsReal

\* No command outlives its evaluation, and its output is read only when it is
\* complete (cmdcheck.go: awaitCompletion).
ChildReaped == type = "cmd" => Cmd!ChildReaped

\* A file check that fails for want of a file, or for its age, is right about
\* every file that stood there all the time (filecheck.go: newestMatch).
FileFailureIsReal == type = "file" => File!FailureIsReal

\* A file check passes on nothing older than a file that stood there all the time,
\* and exists: false passes only where there was none.
FilePassIsReal == type = "file" => File!PassIsReal

\* An http or container check passes only on what it judges: the whole of the last
\* reply, in time (httpcheck.go: Evaluate, container.go: Evaluate).
RequestPassIsReal == type = "request" => Request!PassIsReal

\* What a notification shows of a child's output is the longest end of it within
\* the limits (tailio.go: Truncate; supervisor.go: ringBuffer).
TailIsFaithful == type = "output" => Output!TailIsFaithful

\* Every evaluation returns, whatever the child, the server and the file system do,
\* provided what a command leaves behind lets go of its output.
EvaluateReturns == <>[](~holder) => <>(pc = "returned")
=============================================================================
