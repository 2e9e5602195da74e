--------------------------- MODULE CheckersProofs ---------------------------
(***************************************************************************)
(* The verdicts of the cmd and of the file check are real, for any exit     *)
(* codes, files, changes and times.  A step of Checkers is, for the type    *)
(* that is evaluated, a step of its module or none.  RequestProofs and      *)
(* TailProofs have the other types.                                         *)
(***************************************************************************)
EXTENDS Checkers, TLAPS

(***************************************************************************)
(* The cmd check.                                                           *)
(***************************************************************************)
\* Each type takes its own steps only.
LEMMA CmdSteps ==
  ASSUME type = "cmd", [Next]_vars
  PROVE  type' = "cmd" /\ [Cmd!Next]_(Cmd!vars)
<1> USE DEF Cmd!vars, Cmd!evaluateVars, Cmd!childVars, Cmd!waitVars
<1>1. CASE UNCHANGED vars
  BY <1>1 DEF vars, shared, cmdOnly
<1>2. CASE Done
  BY <1>2 DEF Done, vars, shared, cmdOnly
<1>3. CASE Next /\ ~Done
  BY <1>3 DEF Next, Evaluate, CmdStep, FileStep, RequestStep, OutputStep, Cmd!Next
<1> QED  BY <1>1, <1>2, <1>3

\* Where the child is when Evaluate is somewhere, and who was killed.
CmdPlaces ==
  /\ pc \in {"enter", "start"} => child = "none" /\ signals = {}
  /\ pc \in {"await", "term", "grace", "drain", "judge"} => child # "none"
  /\ pc = "judge" => waited
  /\ pc = "returned" => child = "none" \/ waited
  /\ waited => child = "ended" /\ ~holder
  /\ pc \in {"term", "grace", "drain"} \/ signals # {} => timedOut \/ canceled

\* A verdict of ok was given to what the child and its output still are.
CmdJudged ==
  verdict = "ok" =>
    /\ pc = "returned" /\ waited /\ ~canceled
    /\ expect.exit = IF timedOut THEN Cmd!TimeoutExitCode ELSE status
    /\ expect.stdout => output.stdout
    /\ expect.stderr => ~output.stderr

CmdInv == Cmd!TypeOK /\ CmdPlaces /\ CmdJudged

\* The command may do anything until its Wait has returned, and nothing after.
LEMMA CmdChildStep ==
  ASSUME CmdInv, Cmd!Child \/ Cmd!Waiter \/ Cmd!TimerFires \/ Cmd!CancelContext
  PROVE  CmdInv'
<1> USE DEF CmdInv, Cmd!evaluateVars, Cmd!childVars, Cmd!waitVars
<1>1. ASSUME NEW code \in ChildCodes \cup {-1}, Cmd!Ends(code)
      PROVE  CmdInv'
  <2>1. Cmd!TypeOK'
    BY <1>1 DEF Cmd!Ends, Cmd!TypeOK, Cmd!ExitStatuses
  <2>2. CmdPlaces' /\ CmdJudged'
    BY <1>1 DEF Cmd!Ends, CmdPlaces, CmdJudged
  <2> QED  BY <2>1, <2>2
<1>2. CASE Cmd!ChildExits \/ Cmd!ChildDies
  BY <1>1, <1>2 DEF Cmd!ChildExits, Cmd!ChildDies, Cmd!DiedCode
<1>3. ASSUME NEW stream \in {"stdout", "stderr"}, Cmd!Writes(stream)
      PROVE  CmdInv'
  <2>1. output' = [output EXCEPT ![stream] = TRUE] /\ ~waited
    BY <1>3 DEF Cmd!Writes, CmdPlaces, Cmd!TypeOK
  <2>2. output' \in Cmd!Outputs
    BY <2>1 DEF Cmd!TypeOK, Cmd!Outputs
  <2>3. Cmd!TypeOK'
    BY <1>3, <2>2 DEF Cmd!Writes, Cmd!TypeOK
  <2>4. CmdPlaces' /\ CmdJudged'
    BY <1>3, <2>1 DEF Cmd!Writes, CmdPlaces, CmdJudged
  <2> QED  BY <2>3, <2>4
<1>4. CASE Cmd!ChildLeavesHolder
  BY <1>4 DEF Cmd!ChildLeavesHolder, Cmd!TypeOK, CmdPlaces, CmdJudged
<1>5. CASE Cmd!HolderCloses
  BY <1>5 DEF Cmd!HolderCloses, Cmd!TypeOK, CmdPlaces, CmdJudged
<1>6. CASE Cmd!Waiter
  <2>1. PICK copyFailed \in BOOLEAN : Cmd!WaitReturns(copyFailed)
    BY <1>6 DEF Cmd!Waiter
  <2>2. waitFailed' \in BOOLEAN
    BY <2>1 DEF Cmd!WaitReturns
  <2>3. Cmd!TypeOK'
    BY <2>1, <2>2 DEF Cmd!WaitReturns, Cmd!TypeOK
  <2>4. CmdPlaces' /\ CmdJudged'
    BY <2>1 DEF Cmd!WaitReturns, CmdPlaces, CmdJudged
  <2> QED  BY <2>3, <2>4
<1>7. CASE Cmd!TimerFires
  BY <1>7 DEF Cmd!TimerFires, Cmd!TypeOK, CmdPlaces, CmdJudged
<1>8. CASE Cmd!CancelContext
  BY <1>8 DEF Cmd!CancelContext, Cmd!TypeOK, CmdPlaces, CmdJudged
<1> QED
  BY <1>2, <1>3, <1>4, <1>5, <1>6, <1>7, <1>8 DEF Cmd!Child

\* Evaluate goes on to judge and to return only once Wait has.
LEMMA CmdEvaluateStep ==
  ASSUME CmdInv, Cmd!Evaluate
  PROVE  CmdInv'
<1> USE DEF CmdInv, Cmd!evaluateVars, Cmd!childVars, Cmd!waitVars, Cmd!Goes, Cmd!Return
<1>1. CASE Cmd!EnterCancelled \/ Cmd!StartFails
  <2>1. verdict' \in Cmd!Verdicts /\ verdict' # "ok"
    BY <1>1 DEF Cmd!EnterCancelled, Cmd!StartFails, Cmd!Verdicts
  <2>2. Cmd!TypeOK'
    BY <1>1, <2>1 DEF Cmd!EnterCancelled, Cmd!StartFails, Cmd!TypeOK
  <2>3. /\ pc \in {"enter", "start"} /\ pc' = "returned"
        /\ UNCHANGED <<child, status, holder, signals, timedOut, canceled, waited>>
    BY <1>1 DEF Cmd!EnterCancelled, Cmd!StartFails
  <2>4. CmdPlaces' /\ CmdJudged'
    BY <2>1, <2>3 DEF CmdPlaces, CmdJudged
  <2> QED  BY <2>2, <2>4
<1>2. CASE Cmd!Enter
  BY <1>2 DEF Cmd!Enter, Cmd!TypeOK, CmdPlaces, CmdJudged
<1>3. CASE Cmd!Start
  BY <1>3 DEF Cmd!Start, Cmd!TypeOK, CmdPlaces, CmdJudged
<1>4. CASE Cmd!AwaitDone \/ Cmd!GraceDone \/ Cmd!Drained
  BY <1>4 DEF Cmd!AwaitDone, Cmd!GraceDone, Cmd!Drained, Cmd!TypeOK, CmdPlaces, CmdJudged
<1>5. CASE Cmd!AwaitTimeout
  BY <1>5 DEF Cmd!AwaitTimeout, Cmd!TypeOK, CmdPlaces, CmdJudged
<1>6. CASE Cmd!AwaitCancel
  BY <1>6 DEF Cmd!AwaitCancel, Cmd!TypeOK, CmdPlaces, CmdJudged
<1>7. CASE Cmd!Terminate
  <2>1. signals' \subseteq {Cmd!SIGTERM, Cmd!SIGKILL}
    BY <1>7 DEF Cmd!Terminate, Cmd!SendSignal, Cmd!TypeOK
  <2>2. Cmd!TypeOK'
    BY <1>7, <2>1 DEF Cmd!Terminate, Cmd!TypeOK
  <2>3. CmdPlaces' /\ CmdJudged'
    BY <1>7 DEF Cmd!Terminate, Cmd!SendSignal, CmdPlaces, CmdJudged
  <2> QED  BY <2>2, <2>3
<1>8. CASE Cmd!GraceOver
  <2>1. signals' \subseteq {Cmd!SIGTERM, Cmd!SIGKILL}
    BY <1>8 DEF Cmd!GraceOver, Cmd!SendSignal, Cmd!TypeOK
  <2>2. Cmd!TypeOK'
    BY <1>8, <2>1 DEF Cmd!GraceOver, Cmd!TypeOK
  <2>3. CmdPlaces' /\ CmdJudged'
    BY <1>8 DEF Cmd!GraceOver, Cmd!SendSignal, CmdPlaces, CmdJudged
  <2> QED  BY <2>2, <2>3
<1>9. CASE Cmd!Judge
  <2>1. Cmd!Verdict \in Cmd!Verdicts
    BY DEF Cmd!Verdict, Cmd!Verdicts
  <2>2. Cmd!TypeOK'
    BY <1>9, <2>1 DEF Cmd!Judge, Cmd!TypeOK
  <2>3. CmdPlaces'
    BY <1>9 DEF Cmd!Judge, CmdPlaces
  <2>4. CmdJudged'
    BY <1>9 DEF Cmd!Judge, CmdPlaces, CmdJudged, Cmd!TypeOK, Cmd!Verdict, Cmd!ExitCode
  <2> QED  BY <2>2, <2>3, <2>4
<1> QED
  BY <1>1, <1>2, <1>3, <1>4, <1>5, <1>6, <1>7, <1>8, <1>9 DEF Cmd!Evaluate

\* The steps of a cmd check keep the invariant.
LEMMA CmdStays ==
  ASSUME CmdInv, [Cmd!Next]_(Cmd!vars)
  PROVE  CmdInv'
<1>1. CASE Cmd!Returned \/ UNCHANGED Cmd!vars
  BY <1>1 DEF Cmd!Returned, Cmd!vars, CmdInv, Cmd!TypeOK, CmdPlaces, CmdJudged,
     Cmd!evaluateVars, Cmd!childVars, Cmd!waitVars
<1> QED  BY <1>1, CmdChildStep, CmdEvaluateStep DEF Cmd!Next

\* Every state of a cmd check has its invariant.
LEMMA CmdInvariant == Spec => [](type = "cmd" => CmdInv)
<1>1. Init => (type = "cmd" => CmdInv)
  <2> SUFFICES ASSUME Cmd!Init PROVE CmdInv
    BY DEF Init
  <2>1. output \in Cmd!Outputs /\ verdict \in Cmd!Verdicts /\ status \in Cmd!ExitStatuses
    BY DEF Cmd!Init, Cmd!Outputs, Cmd!Verdicts, Cmd!ExitStatuses
  <2>2. Cmd!TypeOK
    BY <2>1 DEF Cmd!Init, Cmd!TypeOK
  <2>3. CmdPlaces /\ CmdJudged
    BY NoneAssumption DEF Cmd!Init, CmdPlaces, CmdJudged
  <2> QED  BY <2>2, <2>3 DEF CmdInv
<1>2. type' = type \/ ~[Next]_vars
  BY DEF Next, Evaluate, CmdStep, FileStep, RequestStep, OutputStep, Done, vars
<1>3. (type = "cmd" => CmdInv) /\ [Next]_vars => (type = "cmd" => CmdInv)'
  BY <1>2, CmdSteps, CmdStays
<1> QED  BY <1>1, <1>3, PTL DEF Spec

\* A cmd check passes only on what the command did by itself within its time
\* (cmdcheck.go: Evaluate).
THEOREM CmdPasses == Spec => []CmdPassIsReal
<1>1. (type = "cmd" => CmdInv) => CmdPassIsReal
  BY DEF CmdInv, Cmd!TypeOK, CmdPlaces, CmdJudged, CmdPassIsReal, Cmd!PassIsReal
<1> QED  BY <1>1, CmdInvariant, PTL

\* No command outlives its evaluation (cmdcheck.go: awaitCompletion).
THEOREM CmdReaps == Spec => []ChildReaped
<1>1. (type = "cmd" => CmdInv) => ChildReaped
  BY DEF CmdInv, CmdPlaces, ChildReaped, Cmd!ChildReaped
<1> QED  BY <1>1, CmdInvariant, PTL

(***************************************************************************)
(* The file check.                                                          *)
(***************************************************************************)
\* The steps of a file check are those of its module.
LEMMA FileSteps ==
  ASSUME type = "file", [Next]_vars
  PROVE  type' = "file" /\ [File!Next]_(File!vars)
<1> USE DEF File!vars, File!evaluateVars, File!diskVars
<1>1. CASE UNCHANGED vars
  BY <1>1 DEF vars, shared, fileOnly
<1>2. CASE Done
  BY <1>2 DEF Done, vars, shared, fileOnly
<1>3. CASE Next /\ ~Done
  BY <1>3 DEF Next, Evaluate, CmdStep, FileStep, RequestStep, OutputStep, File!Next
<1> QED  BY <1>1, <1>2, <1>3

\* The newest match so far is at least as new as the file n.
Covers(n) == best # None /\ best.mtime >= disk[n].mtime

\* What stands untouched is a file, and while Evaluate is under way no verdict is
\* out and every such file is either still to be stat-ed or no newer than the best.
FileScan ==
  /\ \A n \in steady : File!IsFile(n)
  /\ pc # "returned" => verdict = None
  /\ pc = "enter" => best = None /\ todo = {}
  /\ pc = "stat" =>
       /\ want.look = "glob"
       /\ File!Readable => \A n \in steady : n \in todo \/ Covers(n)
  /\ pc = "judge" =>
       /\ best # None
       /\ File!Readable => \A n \in steady \cap File!Watched : Covers(n)

\* A verdict that is out is about what can no longer change.
FileJudged ==
  pc = "returned" => File!FailureIsReal /\ File!PassIsReal

FileInv == File!TypeOK /\ FileScan /\ FileJudged

\* What the clock and the disk hold can be compared.
LEMMA FileTimes ==
  ASSUME File!TypeOK
  PROVE  /\ now \in Nat
         /\ \A n \in Names : disk[n].mtime \in Nat
         /\ best # None => best.mtime \in Nat
<1>1. File!Times \subseteq Nat
  BY SizesAssumption DEF File!Times
<1>2. ASSUME NEW e \in File!Entries
      PROVE  e.mtime \in Nat
  <2>1. CASE e \in [kind : {"file"}, mtime : File!Times, size : Sizes]
    BY <1>1, <2>1
  <2>2. CASE e = File!NoFile("absent") \/ e = File!NoFile("dangling")
    BY <2>2 DEF File!NoFile
  <2> QED  BY <2>1, <2>2 DEF File!Entries
<1>3. ASSUME NEW i \in File!Infos
      PROVE  i.mtime \in Nat
  BY <1>1 DEF File!Infos
<1>4. now \in Nat
  BY <1>1 DEF File!TypeOK
<1>5. \A n \in Names : disk[n] \in File!Entries
  BY DEF File!TypeOK
<1>6. best # None => best \in File!Infos
  BY DEF File!TypeOK
<1> QED  BY <1>2, <1>3, <1>4, <1>5, <1>6

\* No file is not the information of a file.
LEMMA NotInfo == None \notin File!Infos
<1>1. File!Times \subseteq Nat /\ Sizes \subseteq Nat
  BY SizesAssumption DEF File!Times
<1>2. File!Infos \subseteq [mtime : Nat, size : Nat]
  BY <1>1 DEF File!Infos
<1> QED  BY <1>2, NoneAssumption

\* What a stat of a file returns.
LEMMA FileInfo ==
  ASSUME File!TypeOK, NEW n \in Names, File!IsFile(n)
  PROVE  File!Info(n) \in File!Infos /\ File!Info(n).mtime = disk[n].mtime
<1>1. disk[n] \in File!Entries /\ disk[n].kind = "file"
  BY DEF File!TypeOK, File!IsFile
<1>2. disk[n] \in [kind : {"file"}, mtime : File!Times, size : Sizes]
  BY <1>1 DEF File!Entries, File!NoFile
<1>3. disk[n].mtime \in File!Times /\ disk[n].size \in Sizes
  BY <1>2
<1> QED  BY <1>3 DEF File!Info, File!Infos

\* Other programs may only take files away from those that stand untouched.
LEMMA FileShrinks ==
  ASSUME FileInv, pc # "returned", steady' \subseteq steady,
         \A n \in steady' : disk'[n] = disk[n],
         UNCHANGED <<want, pc, verdict, todo, best>>, File!Readable' => File!Readable
  PROVE  FileScan' /\ FileJudged'
<1>1. \A n \in steady' : File!IsFile(n)' /\ (Covers(n) => Covers(n)')
  BY DEF FileInv, FileScan, File!IsFile, Covers
<1>2. File!Watched' = File!Watched
  BY DEF File!Watched
<1> QED  BY <1>1, <1>2 DEF FileInv, FileScan, FileJudged

\* Other programs keep the invariant of a file check.
LEMMA FileWorldStep ==
  ASSUME FileInv, File!World
  PROVE  FileInv'
<1>1. ASSUME NEW n \in Names, NEW entry \in File!Entries, File!Put(n, entry)
      PROVE  FileInv'
  <2>1. /\ pc # "returned" /\ steady' = steady \ {n} /\ disk' = [disk EXCEPT ![n] = entry]
        /\ changes < MaxChanges /\ changes' = changes + 1
        /\ UNCHANGED <<want, ctxDone, pc, verdict, todo, best, now, dir, access>>
    BY <1>1 DEF File!Put, File!Change, File!evaluateVars
  <2>2. changes' \in 0..MaxChanges
    BY <2>1, SizesAssumption DEF FileInv, File!TypeOK
  <2>3. disk' \in [Names -> File!Entries] /\ \A m \in steady' : disk'[m] = disk[m]
    BY <2>1 DEF FileInv, File!TypeOK
  <2>4. File!TypeOK'
    BY <2>1, <2>2, <2>3 DEF FileInv, File!TypeOK
  <2> QED  BY <2>1, <2>3, <2>4, FileShrinks DEF FileInv, File!Readable
<1>2. ASSUME NEW permissions \in File!Permissions, File!Chmod(permissions)
      PROVE  FileInv'
  <2>1. /\ pc # "returned" /\ dir' = permissions /\ access' = access \cup {permissions}
        /\ changes < MaxChanges /\ changes' = changes + 1
        /\ UNCHANGED <<want, ctxDone, pc, verdict, todo, best, now, disk, steady>>
    BY <1>2 DEF File!Chmod, File!Change, File!evaluateVars
  <2>2. changes' \in 0..MaxChanges
    BY <2>1, SizesAssumption DEF FileInv, File!TypeOK
  <2>3. File!TypeOK'
    BY <2>1, <2>2 DEF FileInv, File!TypeOK
  <2>4. File!Readable' => File!Readable
    BY <2>1 DEF File!Readable, FileInv, File!TypeOK
  <2> QED  BY <2>1, <2>3, <2>4, FileShrinks DEF FileInv
<1>3. CASE File!Tick
  <2>1. /\ pc # "returned" /\ now < MaxTime /\ now' = now + 1
        /\ UNCHANGED <<want, ctxDone, pc, verdict, todo, best, disk, dir, changes, steady,
                       access>>
    BY <1>3 DEF File!Tick, File!evaluateVars
  <2>2. now' \in File!Times
    <3>1. now \in File!Times
      BY DEF FileInv, File!TypeOK
    <3> QED  BY <2>1, <3>1, SizesAssumption DEF File!Times
  <2>3. File!TypeOK'
    BY <2>1, <2>2 DEF FileInv, File!TypeOK
  <2> QED  BY <2>1, <2>3, FileShrinks DEF FileInv, File!Readable
<1>4. CASE File!CancelContext
  <2>1. /\ ctxDone' = TRUE
        /\ UNCHANGED <<want, pc, verdict, todo, best, now, disk, dir, changes, steady, access>>
    BY <1>4 DEF File!CancelContext, File!evaluateVars, File!diskVars
  <2>2. File!TypeOK'
    BY <2>1 DEF FileInv, File!TypeOK
  <2>3. FileScan' /\ FileJudged'
    BY <2>1 DEF FileInv, FileScan, FileJudged, Covers, File!IsFile, File!Readable,
       File!Watched, File!FailureIsReal, File!PassIsReal
  <2> QED  BY <2>2, <2>3 DEF FileInv
<1> QED  BY <1>1, <1>2, <1>3, <1>4 DEF File!World

\* A file that cannot be had is the verdict only when none stood there all the time.
LEMMA FileUnresolved ==
  ASSUME FileInv, pc # "returned",
         NEW error \in {"no match", "missing", "stat failed", "glob failed"},
         File!Unresolved(error),
         (File!Readable /\ error # "glob failed") => steady \cap File!Watched = {},
         UNCHANGED <<want, ctxDone, todo, best, now, disk, dir, changes, steady, access>>
  PROVE  FileInv'
<1>1. /\ pc' = "returned"
      /\ verdict' = error \/ (verdict' = "ok" /\ want.exists = "no" /\ error # "glob failed")
  BY DEF File!Unresolved, File!Return
<1>2. verdict' \in File!Verdicts
  BY <1>1 DEF File!Verdicts
<1>3. File!TypeOK'
  BY <1>1, <1>2 DEF FileInv, File!TypeOK
<1>4. FileScan'
  BY <1>1 DEF FileInv, FileScan, File!IsFile
<1>5. File!Watched' = File!Watched /\ (File!Readable' <=> File!Readable)
  BY DEF File!Watched, File!Readable
<1>6. File!FailureIsReal' /\ File!PassIsReal'
  BY <1>1, <1>5 DEF File!FailureIsReal, File!PassIsReal
<1> QED  BY <1>3, <1>4, <1>6 DEF FileInv, FileJudged

\* Evaluate goes from one match to the next and misses none.
LEMMA FileEvaluateStep ==
  ASSUME FileInv, File!Evaluate
  PROVE  FileInv'
<1> USE DEF File!evaluateVars, File!diskVars
<1>1. CASE File!EnterCancelled
  <2>1. /\ pc = "enter" /\ pc' = "returned" /\ verdict' = "canceled"
        /\ UNCHANGED <<want, ctxDone, todo, best, now, disk, dir, changes, steady, access>>
    BY <1>1 DEF File!EnterCancelled, File!Return
  <2>2. verdict' \in File!Verdicts
    BY <2>1 DEF File!Verdicts
  <2>3. File!TypeOK'
    BY <2>1, <2>2 DEF FileInv, File!TypeOK
  <2>4. FileScan' /\ FileJudged'
    BY <2>1 DEF FileInv, FileScan, FileJudged, File!IsFile, File!FailureIsReal, File!PassIsReal
  <2> QED  BY <2>3, <2>4 DEF FileInv
<1>2. CASE File!StatPath
  <2>1. /\ pc = "enter" /\ want.look = "path"
        /\ UNCHANGED <<want, ctxDone, todo, now, disk, dir, changes, steady, access>>
    BY <1>2 DEF File!StatPath
  <2>2. File!Watched = {1} /\ 1 \in Names
    BY <2>1, NamesAssumption DEF File!Watched
  <2>3. CASE File!Statable(1)
    <3>1. pc' = "judge" /\ best' = File!Info(1) /\ verdict' = verdict
      BY <1>2, <2>3 DEF File!StatPath
    <3>2. best' \in File!Infos /\ best'.mtime = disk[1].mtime
      BY <2>2, <2>3, <3>1, FileInfo DEF FileInv, File!Statable
    <3>3. best' # None
      BY <3>2, NotInfo
    <3>4. File!TypeOK'
      BY <2>1, <3>1, <3>2 DEF FileInv, File!TypeOK
    <3>5. \A n \in steady \cap {1} : Covers(n)'
      BY <2>1, <2>2, <3>2, <3>3, FileTimes DEF FileInv, Covers
    <3>6. FileScan' /\ FileJudged'
      BY <2>1, <2>2, <3>1, <3>3, <3>5 DEF FileInv, FileScan, FileJudged, File!IsFile,
         File!Watched
    <3> QED  BY <3>4, <3>6 DEF FileInv
  <2>4. CASE ~File!Statable(1)
    <3> DEFINE error == IF "search" \in dir THEN "missing" ELSE "stat failed"
    <3>1. File!Unresolved(error) /\ best' = best
      BY <1>2, <2>4 DEF File!StatPath
    <3>2. File!Readable => 1 \notin steady
      BY <2>4 DEF FileInv, FileScan, File!TypeOK, File!Statable, File!Readable
    <3>3. error \in {"no match", "missing", "stat failed", "glob failed"}
      OBVIOUS
    <3> HIDE DEF error
    <3> QED  BY <2>1, <2>2, <3>1, <3>2, <3>3, FileUnresolved
  <2> QED  BY <2>3, <2>4
<1>3. CASE File!BadGlob
  <2>1. /\ pc = "enter" /\ File!Unresolved("glob failed")
        /\ UNCHANGED <<want, ctxDone, todo, best, now, disk, dir, changes, steady, access>>
    BY <1>3 DEF File!BadGlob
  <2> QED  BY <2>1, FileUnresolved
<1>4. CASE File!List
  <2>1. /\ pc = "enter" /\ want.look = "glob"
        /\ UNCHANGED <<want, ctxDone, best, now, disk, dir, changes, steady, access>>
    BY <1>4 DEF File!List
  <2>2. File!Readable => steady \subseteq File!Glob
    BY DEF FileInv, FileScan, File!TypeOK, File!Readable, File!Glob, File!IsFile
  <2>3. CASE File!Glob = {}
    <3>1. File!Unresolved("no match") /\ todo' = todo
      BY <1>4, <2>3 DEF File!List
    <3> QED  BY <2>1, <2>2, <2>3, <3>1, FileUnresolved
  <2>4. CASE File!Glob # {}
    <3>1. pc' = "stat" /\ todo' = File!Glob /\ verdict' = verdict
      BY <1>4, <2>4 DEF File!List
    <3>2. todo' \subseteq Names
      BY <3>1 DEF File!Glob
    <3>3. File!TypeOK'
      BY <2>1, <3>1, <3>2 DEF FileInv, File!TypeOK
    <3>4. FileScan' /\ FileJudged'
      BY <2>1, <2>2, <3>1 DEF FileInv, FileScan, FileJudged, File!IsFile, File!Readable
    <3> QED  BY <3>3, <3>4 DEF FileInv
  <2> QED  BY <2>3, <2>4
<1>5. ASSUME NEW n \in Names, File!StatMatch(n)
      PROVE  FileInv'
  <2>1. /\ pc = "stat" /\ File!IsFile(n) /\ todo' = todo \ {n}
        /\ best' = IF File!Newer(File!Info(n)) THEN File!Info(n) ELSE best
        /\ UNCHANGED <<want, ctxDone, pc, verdict, now, disk, dir, changes, steady, access>>
    BY <1>5 DEF File!StatMatch, File!NextMatch, File!Statable
  <2>2. File!Info(n) \in File!Infos /\ File!Info(n).mtime = disk[n].mtime
    BY <2>1, FileInfo DEF FileInv
  <2>3. /\ best' \in File!Infos /\ best' # None /\ best'.mtime >= disk[n].mtime
        /\ \A m \in Names : Covers(m) => best'.mtime >= disk[m].mtime
    BY <2>1, <2>2, NotInfo, FileTimes DEF FileInv, File!TypeOK, File!Newer, Covers
  <2>4. File!TypeOK'
    BY <2>1, <2>3 DEF FileInv, File!TypeOK
  <2>5. \A m \in steady : (m \in todo \/ Covers(m)) => (m \in todo' \/ Covers(m)')
    BY <2>1, <2>3 DEF FileInv, File!TypeOK, Covers
  <2>6. FileScan' /\ FileJudged'
    BY <2>1, <2>3, <2>5 DEF FileInv, FileScan, FileJudged, File!IsFile, File!Readable
  <2> QED  BY <2>4, <2>6 DEF FileInv
<1>6. ASSUME NEW n \in Names, File!SkipMatch(n)
      PROVE  FileInv'
  <2>1. /\ pc = "stat" /\ ~File!Statable(n) /\ todo' = todo \ {n}
        /\ UNCHANGED <<want, ctxDone, pc, verdict, best, now, disk, dir, changes, steady,
                       access>>
    BY <1>6 DEF File!SkipMatch, File!NextMatch
  <2>2. File!Readable => n \notin steady
    BY <2>1 DEF FileInv, FileScan, File!TypeOK, File!Statable, File!Readable
  <2>3. File!TypeOK'
    BY <2>1 DEF FileInv, File!TypeOK
  <2>4. FileScan' /\ FileJudged'
    BY <2>1, <2>2 DEF FileInv, FileScan, FileJudged, File!IsFile, File!Readable, Covers
  <2> QED  BY <2>3, <2>4 DEF FileInv
<1>7. CASE File!StatsDone
  <2>1. /\ pc = "stat" /\ todo = {}
        /\ UNCHANGED <<want, ctxDone, todo, best, now, disk, dir, changes, steady, access>>
    BY <1>7 DEF File!StatsDone
  <2>2. CASE best = None
    <3>1. File!Unresolved("stat failed")
      BY <1>7, <2>2 DEF File!StatsDone
    <3>2. File!Readable => steady = {}
      BY <2>1, <2>2 DEF FileInv, FileScan, Covers
    <3> QED  BY <2>1, <3>1, <3>2, FileUnresolved
  <2>3. CASE best # None
    <3>1. pc' = "judge" /\ verdict' = verdict
      BY <1>7, <2>3 DEF File!StatsDone
    <3>2. File!TypeOK'
      BY <2>1, <3>1 DEF FileInv, File!TypeOK
    <3>3. FileScan' /\ FileJudged'
      BY <2>1, <2>3, <3>1 DEF FileInv, FileScan, FileJudged, File!IsFile, File!Readable, Covers
    <3> QED  BY <3>2, <3>3 DEF FileInv
  <2> QED  BY <2>2, <2>3
<1>8. CASE File!Judge
  <2>1. /\ pc = "judge" /\ pc' = "returned" /\ verdict' = File!Attributes
        /\ UNCHANGED <<want, ctxDone, todo, best, now, disk, dir, changes, steady, access>>
    BY <1>8 DEF File!Judge, File!Return
  <2>2. /\ verdict' \in {"exists", "stale", "too small", "too large", "ok"}
        /\ verdict' = "ok" => want.exists # "no"
        /\ verdict' = "stale" => now - best.mtime >= want.within
    BY <2>1 DEF File!Attributes
  <2>3. File!TypeOK'
    <3>1. verdict' \in File!Verdicts
      BY <2>2 DEF File!Verdicts
    <3> QED  BY <2>1, <3>1 DEF FileInv, File!TypeOK
  <2>4. FileScan'
    BY <2>1 DEF FileInv, FileScan, File!IsFile
  <2>5. File!Watched' = File!Watched /\ (File!Readable' <=> File!Readable)
        /\ File!Watched \subseteq Names
    BY <2>1, NamesAssumption DEF File!Watched, File!Readable
  <2>6. File!Readable => \A n \in steady \cap File!Watched :
                           best # None /\ best.mtime >= disk[n].mtime
    BY <2>1 DEF FileInv, FileScan, Covers
  <2>7. want.within \in Nat
    BY WantsAssumption DEF FileInv, File!TypeOK, AllFileWants
  <2>8. \A n \in steady \cap File!Watched :
          (best # None /\ best.mtime >= disk[n].mtime /\ now - best.mtime >= want.within)
            => now - disk[n].mtime >= want.within
    BY <2>5, <2>7, FileTimes DEF FileInv
  <2>9. File!FailureIsReal'
    BY <2>1, <2>2, <2>5, <2>6, <2>8 DEF File!FailureIsReal
  <2>10. File!PassIsReal'
    BY <2>1, <2>2, <2>5, <2>6 DEF File!PassIsReal, FileInv, FileScan
  <2> QED  BY <2>1, <2>3, <2>4, <2>9, <2>10 DEF FileInv, FileJudged
<1> QED
  BY <1>1, <1>2, <1>3, <1>4, <1>5, <1>6, <1>7, <1>8 DEF File!Evaluate

\* The steps of a file check keep the invariant.
LEMMA FileStays ==
  ASSUME FileInv, [File!Next]_(File!vars)
  PROVE  FileInv'
<1>1. CASE File!Returned \/ UNCHANGED File!vars
  <2>1. UNCHANGED <<want, ctxDone, pc, verdict, todo, best, now, disk, dir, changes, steady,
                    access>>
    BY <1>1 DEF File!Returned, File!vars, File!evaluateVars, File!diskVars
  <2>2. File!TypeOK'
    BY <2>1 DEF FileInv, File!TypeOK
  <2>3. FileScan' /\ FileJudged'
    BY <2>1 DEF FileInv, FileScan, FileJudged, Covers, File!IsFile, File!Readable,
       File!Watched, File!FailureIsReal, File!PassIsReal
  <2> QED  BY <2>2, <2>3 DEF FileInv
<1> QED  BY <1>1, FileWorldStep, FileEvaluateStep DEF File!Next

\* Every state of a file check has its invariant.
LEMMA FileInvariant == Spec => [](type = "file" => FileInv)
<1>1. Init => (type = "file" => FileInv)
  <2> SUFFICES ASSUME File!Init PROVE FileInv
    BY DEF Init
  <2>1. verdict \in File!Verdicts /\ changes \in 0..MaxChanges
    BY SizesAssumption DEF File!Init, File!Verdicts
  <2>2. File!TypeOK
    BY <2>1 DEF File!Init, File!TypeOK
  <2>3. FileScan /\ FileJudged
    BY DEF File!Init, FileScan, FileJudged
  <2> QED  BY <2>2, <2>3 DEF FileInv
<1>2. type' = type \/ ~[Next]_vars
  BY DEF Next, Evaluate, CmdStep, FileStep, RequestStep, OutputStep, Done, vars
<1>3. (type = "file" => FileInv) /\ [Next]_vars => (type = "file" => FileInv)'
  BY <1>2, FileSteps, FileStays
<1> QED  BY <1>1, <1>3, PTL DEF Spec

\* A file check that misses its file, or finds it too old, is right about every file
\* that stood there all the time (filecheck.go: newestMatch).
THEOREM FileFails == Spec => []FileFailureIsReal
<1>1. (type = "file" => FileInv) => FileFailureIsReal
  <2> SUFFICES ASSUME FileInv, pc # "returned" PROVE File!FailureIsReal
    BY DEF FileInv, FileJudged, FileFailureIsReal
  <2> QED  BY NoneAssumption DEF FileInv, FileScan, File!FailureIsReal
<1> QED  BY <1>1, FileInvariant, PTL

\* A file check passes on nothing older than a file that stood there all the time
\* (filecheck.go: newestMatch, evaluateAttributes).
THEOREM FilePasses == Spec => []FilePassIsReal
<1>1. (type = "file" => FileInv) => FilePassIsReal
  <2> SUFFICES ASSUME FileInv, pc # "returned" PROVE File!PassIsReal
    BY DEF FileInv, FileJudged, FilePassIsReal
  <2> QED  BY NoneAssumption DEF FileInv, FileScan, File!PassIsReal
<1> QED  BY <1>1, FileInvariant, PTL
=============================================================================
