----------------------------- MODULE Heartbeat ------------------------------
(***************************************************************************)
(* The heartbeat file and the `mitsume ping` processes that rewrite it      *)
(* (internal/heartbeat, cmd/mitsume/ping.go).  A ping reads the whole file, *)
(* takes the time, changes one entry in memory, writes everything to a      *)
(* temporary file of its own and renames it over the heartbeat file.  There *)
(* is no lock; a process may be killed between any two steps.               *)
(***************************************************************************)
EXTENDS Naturals, FiniteSets

CONSTANTS
  Jobs,      \* job names
  Pings,     \* ping processes, each run at most once
  MaxTime,   \* bound: the clock stops here
  MaxEdits,  \* bound: how often the operator touches the file
  None       \* no entry, no job

ASSUME TimeAssumption == MaxTime \in Nat /\ MaxEdits \in Nat
ASSUME NoneAssumption == None \notin Jobs \cup Nat

VARIABLES
  now,      \* wall clock
  file,     \* the heartbeat file: its state and the entries it holds
  version,  \* history: how often the file was replaced
  edits,    \* how often the operator touched it
  pc,       \* where a ping is
  job,      \* the job it pings
  mem,      \* the entries it loaded, and later updated; gone when it ends
  stamp,    \* the time it took
  base,     \* history: version of the file it loaded
  tmp,      \* its temporary file: "none", "present" or "renamed"
  lost      \* history: pings whose record an overlapping writer erased

pingVars == <<pc, job, mem, stamp, base, tmp>>
fileVars == <<file, version, lost>>
heartbeatVars == <<now, fileVars, edits, pingVars>>

Times == 0..MaxTime
Entries == [Jobs -> Times \cup {None}]
NoEntries == [j \in Jobs |-> None]
FileStates == {"missing", "broken", "ok"}

\* heartbeat.Load: a missing file is an empty one, a broken one is an error.
Loadable(f) == f.state # "broken"
Load(f) == IF f.state = "missing" THEN NoEntries ELSE f.jobs

\* Pings that are in the file now and whose record the step of `writer` erases:
\* it loaded the file before they renamed theirs.
Overwritten(writer) ==
  {p \in Pings : p # writer /\ pc[p] = "done" /\ tmp[p] = "renamed"
                 /\ base[p] >= base[writer]}

(***************************************************************************)
(* A ping.                                                                  *)
(***************************************************************************)
\* The process ends without having replaced the file; its memory is gone.
EndsUnrecorded(p, how) ==
  /\ pc' = [pc EXCEPT ![p] = how]
  /\ job' = [job EXCEPT ![p] = None]
  /\ mem' = [mem EXCEPT ![p] = NoEntries]
  /\ stamp' = [stamp EXCEPT ![p] = None]
  /\ base' = [base EXCEPT ![p] = 0]
  /\ UNCHANGED <<now, fileVars, edits>>

\* Usage, configuration, job or path: ping exits 1 before it reads the file.
Rejects(p) ==
  /\ pc[p] = "idle"
  /\ EndsUnrecorded(p, "failed")
  /\ UNCHANGED tmp

LoadFile(p, j) ==
  /\ pc[p] = "idle" /\ Loadable(file)
  /\ job' = [job EXCEPT ![p] = j]
  /\ mem' = [mem EXCEPT ![p] = Load(file)]
  /\ base' = [base EXCEPT ![p] = version]
  /\ pc' = [pc EXCEPT ![p] = "loaded"]
  /\ UNCHANGED <<now, fileVars, edits, stamp, tmp>>

LoadFails(p) ==
  /\ pc[p] = "idle" /\ ~Loadable(file)
  /\ EndsUnrecorded(p, "failed")
  /\ UNCHANGED tmp

\* Mutant: Update starts from an empty map.
StampAlone(p) ==
  /\ pc[p] = "loaded"
  /\ stamp' = [stamp EXCEPT ![p] = now]
  /\ mem' = [mem EXCEPT ![p] = [NoEntries EXCEPT ![job[p]] = now]]
  /\ pc' = [pc EXCEPT ![p] = "stamped"]
  /\ UNCHANGED <<now, fileVars, edits, job, base, tmp>>

\* time.Now and File.Update.
Stamp(p) ==
  /\ pc[p] = "loaded"
  /\ stamp' = [stamp EXCEPT ![p] = now]
  /\ mem' = [mem EXCEPT ![p][job[p]] = now]
  /\ pc' = [pc EXCEPT ![p] = "stamped"]
  /\ UNCHANGED <<now, fileVars, edits, job, base, tmp>>

\* --dry-run prints what would be written and ends with 0.
DryRun(p) ==
  /\ pc[p] = "stamped"
  /\ EndsUnrecorded(p, "done")
  /\ UNCHANGED tmp

\* Mutant: the heartbeat file itself is opened for writing.
CreateTmpInPlace(p) ==
  /\ pc[p] = "stamped"
  /\ tmp' = [tmp EXCEPT ![p] = "present"]
  /\ file' = [state |-> "broken", jobs |-> NoEntries]
  /\ pc' = [pc EXCEPT ![p] = "writing"]
  /\ UNCHANGED <<now, version, lost, edits, job, mem, stamp, base>>

\* os.CreateTemp in the directory of the file, the write, the sync, the close
\* and the chmod.
CreateTmp(p) ==
  /\ pc[p] = "stamped"
  /\ tmp' = [tmp EXCEPT ![p] = "present"]
  /\ pc' = [pc EXCEPT ![p] = "writing"]
  /\ UNCHANGED <<now, fileVars, edits, job, mem, stamp, base>>

Rename(p) ==
  /\ pc[p] = "writing"
  /\ file' = [state |-> "ok", jobs |-> mem[p]]
  /\ version' = version + 1
  /\ lost' = lost \cup Overwritten(p)
  /\ base' = [base EXCEPT ![p] = version]
  /\ tmp' = [tmp EXCEPT ![p] = "renamed"]
  /\ pc' = [pc EXCEPT ![p] = "done"]
  /\ mem' = [mem EXCEPT ![p] = NoEntries]
  /\ UNCHANGED <<now, edits, job, stamp>>

\* Creating, writing, syncing, closing, chmod or rename fails: the deferred
\* function removes the temporary file, and ping exits 1.
SaveFails(p) ==
  /\ pc[p] \in {"stamped", "writing"}
  /\ EndsUnrecorded(p, "failed")
  /\ tmp' = [tmp EXCEPT ![p] = "none"]

\* SIGKILL, anywhere (a crash of the machine could also undo the rename: the
\* directory is not synced).
Killed(p) ==
  /\ pc[p] \in {"loaded", "stamped", "writing"}
  /\ EndsUnrecorded(p, "killed")
  /\ UNCHANGED tmp

(***************************************************************************)
(* The rest of the machine.                                                 *)
(***************************************************************************)
Tick ==
  /\ now < MaxTime
  /\ now' = now + 1
  /\ UNCHANGED <<fileVars, edits, pingVars>>

\* The operator deletes the file or leaves something unreadable in its place.
Edit(state) ==
  /\ edits < MaxEdits
  /\ edits' = edits + 1
  /\ file' = [state |-> state, jobs |-> NoEntries]
  /\ version' = version + 1
  /\ lost' = lost \cup {p \in Pings : tmp[p] = "renamed"}
  /\ UNCHANGED <<now, pingVars>>

HeartbeatInit ==
  /\ now = 0
  /\ file = [state |-> "missing", jobs |-> NoEntries]
  /\ version = 0 /\ edits = 0 /\ lost = {}
  /\ pc = [p \in Pings |-> "idle"]
  /\ job = [p \in Pings |-> None]
  /\ mem = [p \in Pings |-> NoEntries]
  /\ stamp = [p \in Pings |-> None]
  /\ base = [p \in Pings |-> 0]
  /\ tmp = [p \in Pings |-> "none"]

Ping(p) ==
  \/ Rejects(p) \/ LoadFails(p)
  \/ \E j \in Jobs : LoadFile(p, j)
  \/ Stamp(p) \/ DryRun(p) \/ CreateTmp(p) \/ Rename(p)
  \/ SaveFails(p) \/ Killed(p)

HeartbeatNext ==
  \/ \E p \in Pings : Ping(p)
  \/ Tick
  \/ Edit("missing") \/ Edit("broken")

HeartbeatSpec == HeartbeatInit /\ [][HeartbeatNext]_heartbeatVars

(***************************************************************************)
(* Properties.                                                              *)
(***************************************************************************)
HeartbeatTypeOK ==
  /\ now \in Times
  /\ file \in [state : FileStates, jobs : Entries]
  /\ version \in Nat /\ edits \in 0..MaxEdits
  /\ pc \in [Pings -> {"idle", "loaded", "stamped", "writing",
                       "done", "failed", "killed"}]
  /\ job \in [Pings -> Jobs \cup {None}]
  /\ mem \in [Pings -> Entries]
  /\ stamp \in [Pings -> Times \cup {None}]
  /\ base \in [Pings -> Nat]
  /\ tmp \in [Pings -> {"none", "present", "renamed"}]
  /\ lost \subseteq Pings

\* A ping that wrote stays recorded in a readable file, with its time or a later
\* one, until an overlapping writer or the operator erases it: whatever pings
\* are killed or fail, and where (heartbeat.go: write aside, then rename), and
\* pings that do not overlap lose nothing, of their own job or of another.
RecordedUntilOverwritten ==
  \A p \in Pings : (tmp[p] = "renamed" /\ p \notin lost) =>
    /\ file.state = "ok" /\ file.jobs[job[p]] # None
    /\ file.jobs[job[p]] >= stamp[p]

\* Replacing the file without an overlap changes one entry, and only forward
\* (ping.go takes the time after it has read the file, not before).
SequentialPingsMoveForward ==
  [][\A p \in Pings : (pc[p] = "writing" /\ pc'[p] = "done" /\ base[p] = version) =>
       \A j \in Jobs :
         IF j = job[p]
           THEN Load(file)[j] # None => file'.jobs[j] >= Load(file)[j]
           ELSE file'.jobs[j] = Load(file)[j]]_heartbeatVars
=============================================================================
