--------------------------- MODULE DeadmanProofs ----------------------------
(***************************************************************************)
(* The heartbeat file under any number of pings, and the dead-man's switch  *)
(* that reads it, for any jobs, pings, times and bounds.                    *)
(***************************************************************************)
EXTENDS Deadman, TLAPS

(***************************************************************************)
(* The invariant of the heartbeat file.                                     *)
(***************************************************************************)
\* A ping that holds the entries in its memory.
Busy(p) == pc[p] \in {"loaded", "stamped", "writing"}

\* What a ping has in its hands at each place; a ping that renamed is over.
PingInv ==
  \A p \in Pings :
    /\ Busy(p) => job[p] \in Jobs
    /\ pc[p] \in {"stamped", "writing"} =>
         stamp[p] \in Times /\ stamp[p] <= now /\ mem[p][job[p]] = stamp[p]
    /\ tmp[p] = "renamed" =>
         pc[p] = "done" /\ job[p] \in Jobs /\ stamp[p] \in Times /\ stamp[p] <= now
    /\ base[p] <= version

\* No entry, in the file or in the memory of a ping, is later than the clock.
PastInv ==
  \A j \in Jobs :
    /\ file.jobs[j] # None => file.jobs[j] <= now
    /\ \A p \in Pings : mem[p][j] # None => mem[p][j] <= now

\* The record of p is in `entries`, with its time or a later one.
Holds(entries, p) == entries[job[p]] # None /\ entries[job[p]] >= stamp[p]

\* A record that was not erased is in the file, and in the memory of every ping
\* that loaded the file after it was written.
RecordInv ==
  \A p \in Pings : (tmp[p] = "renamed" /\ p \notin lost) =>
    /\ file.state = "ok" /\ Holds(file.jobs, p)
    /\ \A q \in Pings : (Busy(q) /\ base[p] < base[q]) => Holds(mem[q], p)

\* A ping whose file nobody replaced holds what is in the file, with its own
\* entry moved forward once it has taken the time.
ForwardInv ==
  \A p \in Pings : base[p] = version =>
    /\ pc[p] = "loaded" => mem[p] = Load(file)
    /\ pc[p] \in {"stamped", "writing"} =>
         /\ \A j \in Jobs : j # job[p] => mem[p][j] = Load(file)[j]
         /\ Load(file)[job[p]] # None => stamp[p] >= Load(file)[job[p]]

FileInv == HeartbeatTypeOK /\ PingInv /\ PastInv /\ RecordInv /\ ForwardInv

(***************************************************************************)
(* The steps of a ping and of the operator.                                 *)
(***************************************************************************)
\* What the entries of a file may hold.
LEMMA EntriesFacts ==
  /\ NoEntries \in Entries
  /\ \A j \in Jobs : NoEntries[j] = None
  /\ \A e \in Entries, j \in Jobs : e[j] = None \/ (e[j] \in Nat /\ e[j] \in Times)
  /\ None \notin Times /\ None \notin Jobs
<1>1. None \notin Nat /\ None \notin Jobs
  BY NoneAssumption
<1>2. Times \subseteq Nat
  BY DEF Times
<1> QED  BY <1>1, <1>2 DEF NoEntries, Entries

\* Loading the file returns its entries or none.
LEMMA LoadType ==
  ASSUME HeartbeatTypeOK
  PROVE  /\ Load(file) \in Entries
         /\ Loadable(file) => Load(file) = file.jobs \/ Load(file) = NoEntries
  BY EntriesFacts DEF HeartbeatTypeOK, Load

\* A ping that has not renamed its file is not among the recorded ones.
LEMMA NotRenamed ==
  ASSUME FileInv, NEW p \in Pings, pc[p] # "done"
  PROVE  tmp[p] # "renamed"
  BY DEF FileInv, PingInv

\* A ping that ends without a rename leaves the file alone and holds nothing.
LEMMA EndsStep ==
  ASSUME FileInv, NEW p \in Pings, NEW how \in {"done", "failed", "killed"},
         pc[p] # "done", EndsUnrecorded(p, how),
         tmp' = tmp \/ tmp' = [tmp EXCEPT ![p] = "none"]
  PROVE  FileInv'
<1> USE DEF FileInv, HeartbeatTypeOK
<1>1. /\ pc' = [pc EXCEPT ![p] = how] /\ job' = [job EXCEPT ![p] = None]
      /\ mem' = [mem EXCEPT ![p] = NoEntries] /\ stamp' = [stamp EXCEPT ![p] = None]
      /\ base' = [base EXCEPT ![p] = 0]
      /\ now' = now /\ file' = file /\ version' = version /\ lost' = lost /\ edits' = edits
  BY DEF EndsUnrecorded, fileVars
<1>2. /\ tmp[p] # "renamed" /\ tmp'[p] # "renamed"
      /\ tmp' \in [Pings -> {"none", "present", "renamed"}]
      /\ \A q \in Pings : q # p => tmp'[q] = tmp[q]
  BY NotRenamed
<1>3. /\ pc'[p] = how /\ ~Busy(p)' /\ mem'[p] = NoEntries /\ base'[p] = 0
      /\ \A q \in Pings : q # p => /\ pc'[q] = pc[q] /\ job'[q] = job[q] /\ mem'[q] = mem[q]
                                   /\ stamp'[q] = stamp[q] /\ base'[q] = base[q]
                                   /\ (Busy(q)' <=> Busy(q))
  BY <1>1 DEF Busy
<1>4. HeartbeatTypeOK'
  BY <1>1, <1>2, EntriesFacts
<1>5. PingInv'
  BY <1>1, <1>2, <1>3 DEF PingInv
<1>6. PastInv'
  BY <1>1, <1>3, EntriesFacts DEF PastInv
<1>7. RecordInv'
  BY <1>1, <1>2, <1>3 DEF RecordInv, Holds
<1>8. ForwardInv'
  BY <1>1, <1>3 DEF ForwardInv, Busy
<1> QED  BY <1>4, <1>5, <1>6, <1>7, <1>8

\* A ping that loads the file holds every record that stands.
LEMMA LoadStep ==
  ASSUME FileInv, NEW p \in Pings, NEW j \in Jobs, LoadFile(p, j)
  PROVE  FileInv'
<1> USE DEF FileInv, HeartbeatTypeOK
<1>1. /\ pc' = [pc EXCEPT ![p] = "loaded"] /\ job' = [job EXCEPT ![p] = j]
      /\ mem' = [mem EXCEPT ![p] = Load(file)] /\ base' = [base EXCEPT ![p] = version]
      /\ pc[p] = "idle" /\ Loadable(file)
      /\ UNCHANGED <<now, file, version, lost, edits, stamp, tmp>>
  BY DEF LoadFile, fileVars
<1>2. tmp[p] # "renamed" /\ Load(file) \in Entries
  BY <1>1, NotRenamed, LoadType
<1>3. /\ pc'[p] = "loaded" /\ mem'[p] = Load(file) /\ base'[p] = version /\ job'[p] = j
      /\ \A q \in Pings : q # p => /\ pc'[q] = pc[q] /\ job'[q] = job[q] /\ mem'[q] = mem[q]
                                   /\ base'[q] = base[q] /\ (Busy(q)' <=> Busy(q))
  BY <1>1 DEF Busy
<1>4. HeartbeatTypeOK'
  BY <1>1, <1>2
<1>5. PingInv'
  BY <1>1, <1>2, <1>3 DEF PingInv, Busy
<1>6. PastInv'
  BY <1>1, <1>2, <1>3, LoadType, EntriesFacts DEF PastInv
<1>7. RecordInv'
  <2> SUFFICES ASSUME NEW q \in Pings, tmp[q] = "renamed", q \notin lost
               PROVE  /\ file.state = "ok" /\ Holds(file.jobs, q)'
                      /\ \A r \in Pings : (Busy(r)' /\ base'[q] < base'[r]) => Holds(mem[r], q)'
    BY <1>1 DEF RecordInv, Holds
  <2>1. q # p
    BY <1>2
  <2>2. file.state = "ok" /\ Holds(file.jobs, q)'
    BY <1>1, <1>3, <2>1 DEF RecordInv, Holds
  <2>3. Load(file) = file.jobs
    BY <2>2 DEF Load
  <2>4. ASSUME NEW r \in Pings, Busy(r)', base'[q] < base'[r]
        PROVE  Holds(mem[r], q)'
    <3>1. CASE r = p
      BY <1>1, <1>3, <2>1, <2>2, <2>3, <3>1 DEF Holds
    <3>2. CASE r # p
      BY <1>1, <1>3, <2>1, <2>4, <3>2 DEF RecordInv, Holds
    <3> QED  BY <3>1, <3>2
  <2> QED  BY <2>2, <2>4
<1>8. ForwardInv'
  BY <1>1, <1>3 DEF ForwardInv
<1> QED  BY <1>4, <1>5, <1>6, <1>7, <1>8

\* The time a ping takes is no earlier than any entry it holds.
LEMMA StampStep ==
  ASSUME FileInv, NEW p \in Pings, Stamp(p)
  PROVE  FileInv'
<1> USE DEF FileInv, HeartbeatTypeOK
<1>1. /\ pc' = [pc EXCEPT ![p] = "stamped"] /\ stamp' = [stamp EXCEPT ![p] = now]
      /\ mem' = [mem EXCEPT ![p][job[p]] = now] /\ pc[p] = "loaded"
      /\ UNCHANGED <<now, file, version, lost, edits, job, base, tmp>>
  BY DEF Stamp, fileVars
<1>2. /\ tmp[p] # "renamed" /\ job[p] \in Jobs /\ now \in Nat /\ now # None /\ Busy(p)
  BY <1>1, NotRenamed, TimeAssumption, EntriesFacts DEF PingInv, Busy, Times
<1>3. /\ pc'[p] = "stamped" /\ stamp'[p] = now /\ mem'[p] \in Entries
      /\ mem'[p][job[p]] = now
      /\ \A j \in Jobs : j # job[p] => mem'[p][j] = mem[p][j]
  BY <1>1, <1>2 DEF Entries
<1>4. \A q \in Pings : q # p => /\ pc'[q] = pc[q] /\ mem'[q] = mem[q] /\ stamp'[q] = stamp[q]
                                /\ (Busy(q)' <=> Busy(q))
  BY <1>1 DEF Busy
<1>5. HeartbeatTypeOK'
  <2>1. mem' \in [Pings -> Entries]
    BY <1>1, <1>3
  <2> QED  BY <1>1, <2>1
<1>6. PingInv'
  BY <1>1, <1>2, <1>3, <1>4 DEF PingInv, Busy
<1>7. PastInv'
  BY <1>1, <1>2, <1>3, <1>4, EntriesFacts DEF PastInv
<1>8. RecordInv'
  <2> SUFFICES ASSUME NEW q \in Pings, tmp[q] = "renamed", q \notin lost
               PROVE  /\ file.state = "ok" /\ Holds(file.jobs, q)'
                      /\ \A r \in Pings : (Busy(r)' /\ base[q] < base[r]) => Holds(mem[r], q)'
    BY <1>1 DEF RecordInv, Holds
  <2>1. q # p
    BY <1>2
  <2>2. file.state = "ok" /\ Holds(file.jobs, q)'
    BY <1>1, <1>4, <2>1 DEF RecordInv, Holds
  <2>3. stamp[q] \in Times /\ stamp[q] <= now /\ job[q] \in Jobs
    BY DEF PingInv
  <2>4. ASSUME NEW r \in Pings, Busy(r)', base[q] < base[r]
        PROVE  Holds(mem[r], q)'
    <3>1. CASE r = p /\ job[q] = job[p]
      BY <1>1, <1>2, <1>3, <1>4, <2>1, <2>3, <3>1 DEF Holds, Times
    <3>2. CASE r = p /\ job[q] # job[p]
      BY <1>1, <1>2, <1>3, <1>4, <2>1, <2>3, <2>4, <3>2 DEF RecordInv, Holds
    <3>3. CASE r # p
      BY <1>1, <1>4, <2>1, <2>4, <3>3 DEF RecordInv, Holds
    <3> QED  BY <3>1, <3>2, <3>3
  <2> QED  BY <2>2, <2>4
<1>9. ForwardInv'
  <2> SUFFICES ASSUME NEW q \in Pings, base[q] = version
               PROVE  /\ pc'[q] = "loaded" => mem'[q] = Load(file)
                      /\ pc'[q] \in {"stamped", "writing"} =>
                           /\ \A j \in Jobs : j # job[q] => mem'[q][j] = Load(file)[j]
                           /\ Load(file)[job[q]] # None => stamp'[q] >= Load(file)[job[q]]
    BY <1>1 DEF ForwardInv, Load
  <2>1. CASE q = p
    <3>1. mem[p] = Load(file)
      BY <1>1, <2>1 DEF ForwardInv
    <3>2. Load(file)[job[p]] # None => Load(file)[job[p]] <= now
      BY <1>2, <3>1 DEF PastInv
    <3>3. Load(file)[job[p]] # None => now >= Load(file)[job[p]]
      BY <1>2, <3>2, LoadType, EntriesFacts
    <3> QED  BY <1>2, <1>3, <2>1, <3>1, <3>3
  <2>2. CASE q # p
    BY <1>4, <2>2 DEF ForwardInv
  <2> QED  BY <2>1, <2>2
<1> QED  BY <1>5, <1>6, <1>7, <1>8, <1>9

\* A ping that writes its temporary file keeps the invariant.
LEMMA CreateStep ==
  ASSUME FileInv, NEW p \in Pings, CreateTmp(p)
  PROVE  FileInv'
<1> USE DEF FileInv, HeartbeatTypeOK
<1>1. /\ pc' = [pc EXCEPT ![p] = "writing"] /\ tmp' = [tmp EXCEPT ![p] = "present"]
      /\ pc[p] = "stamped"
      /\ UNCHANGED <<now, file, version, lost, edits, job, mem, stamp, base>>
  BY DEF CreateTmp, fileVars
<1>2. /\ tmp[p] # "renamed" /\ tmp'[p] # "renamed" /\ pc'[p] = "writing"
      /\ \A q \in Pings : q # p => pc'[q] = pc[q] /\ tmp'[q] = tmp[q]
      /\ \A q \in Pings : Busy(q)' <=> Busy(q)
  BY <1>1, NotRenamed DEF Busy
<1>3. HeartbeatTypeOK'
  BY <1>1
<1>4. PingInv'
  BY <1>1, <1>2 DEF PingInv, Busy
<1>5. PastInv'
  BY <1>1 DEF PastInv
<1>6. RecordInv'
  BY <1>1, <1>2 DEF RecordInv, Holds
<1>7. ForwardInv'
  BY <1>1, <1>2 DEF ForwardInv, Load
<1> QED  BY <1>3, <1>4, <1>5, <1>6, <1>7

\* The rename erases the records its ping had not loaded, and those are in lost.
LEMMA RenameStep ==
  ASSUME FileInv, NEW p \in Pings, Rename(p)
  PROVE  FileInv'
<1> USE DEF FileInv, HeartbeatTypeOK
<1>1. /\ pc' = [pc EXCEPT ![p] = "done"] /\ file' = [state |-> "ok", jobs |-> mem[p]]
      /\ version' = version + 1 /\ lost' = lost \cup Overwritten(p)
      /\ base' = [base EXCEPT ![p] = version] /\ tmp' = [tmp EXCEPT ![p] = "renamed"]
      /\ mem' = [mem EXCEPT ![p] = NoEntries] /\ pc[p] = "writing"
      /\ UNCHANGED <<now, edits, job, stamp>>
  BY DEF Rename
<1>2. /\ Busy(p) /\ job[p] \in Jobs /\ stamp[p] \in Times /\ stamp[p] <= now
      /\ mem[p][job[p]] = stamp[p] /\ tmp[p] # "renamed" /\ mem[p] \in Entries
  BY <1>1, NotRenamed DEF PingInv, Busy
<1>3. /\ pc'[p] = "done" /\ base'[p] = version /\ mem'[p] = NoEntries /\ tmp'[p] = "renamed"
      /\ ~Busy(p)' /\ file'.state = "ok" /\ file'.jobs = mem[p]
      /\ \A q \in Pings : q # p => /\ pc'[q] = pc[q] /\ base'[q] = base[q]
                                   /\ mem'[q] = mem[q] /\ tmp'[q] = tmp[q]
                                   /\ (Busy(q)' <=> Busy(q))
  BY <1>1 DEF Busy
<1>4. HeartbeatTypeOK'
  <2>1. file' \in [state : FileStates, jobs : Entries]
    BY <1>1, <1>2 DEF FileStates
  <2>2. lost' \subseteq Pings
    BY <1>1 DEF Overwritten
  <2> QED  BY <1>1, <2>1, <2>2, EntriesFacts
<1>5. PingInv'
  BY <1>1, <1>2, <1>3 DEF PingInv, Busy
<1>6. PastInv'
  BY <1>1, <1>2, <1>3, EntriesFacts DEF PastInv
<1>7. RecordInv'
  <2> SUFFICES ASSUME NEW q \in Pings, tmp'[q] = "renamed", q \notin lost'
               PROVE  /\ Holds(mem[p], q)
                      /\ \A r \in Pings : (Busy(r)' /\ base'[q] < base'[r]) => Holds(mem'[r], q)
    BY <1>1, <1>3 DEF RecordInv, Holds
  <2>1. CASE q = p
    <3>1. Holds(mem[p], p)
      BY <1>2, EntriesFacts DEF Holds, Times
    <3>2. \A r \in Pings : Busy(r)' => ~(version < base'[r])
      BY <1>3 DEF PingInv
    <3> QED  BY <1>3, <2>1, <3>1, <3>2
  <2>2. CASE q # p
    <3>1. tmp[q] = "renamed" /\ q \notin lost /\ pc[q] = "done" /\ base'[q] = base[q]
      BY <1>1, <1>3, <2>2 DEF PingInv
    <3>2. base[q] < base[p]
      <4>1. ~(base[q] >= base[p])
        BY <1>1, <2>2, <3>1 DEF Overwritten
      <4> QED  BY <4>1
    <3>3. Holds(mem[p], q)
      BY <1>2, <3>1, <3>2 DEF RecordInv
    <3>4. \A r \in Pings : (Busy(r)' /\ base'[q] < base'[r]) => Holds(mem'[r], q)
      BY <1>3, <3>1 DEF RecordInv
    <3> QED  BY <3>3, <3>4
  <2> QED  BY <2>1, <2>2
<1>8. ForwardInv'
  <2>1. \A q \in Pings : q # p => base'[q] # version'
    BY <1>1, <1>3 DEF PingInv
  <2> QED  BY <1>3, <2>1 DEF ForwardInv
<1> QED  BY <1>4, <1>5, <1>6, <1>7, <1>8

\* A step of any ping keeps the invariant of the file.
LEMMA PingStep ==
  ASSUME FileInv, NEW p \in Pings, Ping(p)
  PROVE  FileInv'
<1>1. CASE Rejects(p) \/ LoadFails(p)
  <2>1. pc[p] = "idle" /\ EndsUnrecorded(p, "failed") /\ tmp' = tmp
    BY <1>1 DEF Rejects, LoadFails
  <2> QED  BY <2>1, EndsStep
<1>2. CASE DryRun(p)
  BY <1>2, EndsStep DEF DryRun
<1>3. CASE SaveFails(p)
  BY <1>3, EndsStep DEF SaveFails
<1>4. CASE Killed(p)
  BY <1>4, EndsStep DEF Killed
<1> QED
  BY <1>1, <1>2, <1>3, <1>4, LoadStep, StampStep, CreateStep, RenameStep DEF Ping

\* Time only makes stamps older; the operator erases every record there is.
LEMMA MachineStep ==
  ASSUME FileInv, Tick \/ Edit("missing") \/ Edit("broken")
  PROVE  FileInv'
<1> USE TimeAssumption DEF FileInv, HeartbeatTypeOK, Times
<1>1. CASE Tick
  <2>1. now' = now + 1 /\ now' \in Times /\ UNCHANGED <<fileVars, edits, pingVars>>
    BY <1>1 DEF Tick
  <2>2. HeartbeatTypeOK'
    BY <2>1 DEF fileVars, pingVars
  <2>3. PingInv'
    BY <2>1 DEF fileVars, pingVars, PingInv, Busy
  <2>4. PastInv'
    <3> SUFFICES ASSUME NEW j \in Jobs
                 PROVE  /\ file.jobs[j] # None => file.jobs[j] <= now + 1
                        /\ \A p \in Pings : mem[p][j] # None => mem[p][j] <= now + 1
      BY <2>1 DEF fileVars, pingVars, PastInv
    <3>1. file.jobs \in Entries /\ \A p \in Pings : mem[p] \in Entries
      OBVIOUS
    <3> QED  BY <3>1, EntriesFacts DEF PastInv
  <2>5. RecordInv' /\ ForwardInv'
    BY <2>1 DEF fileVars, pingVars, RecordInv, ForwardInv, Holds, Busy, Load
  <2> QED  BY <2>2, <2>3, <2>4, <2>5
<1>2. ASSUME NEW left \in {"missing", "broken"}, Edit(left)
      PROVE  FileInv'
  <2>1. /\ edits' \in 0..MaxEdits /\ file' = [state |-> left, jobs |-> NoEntries]
        /\ version' = version + 1 /\ lost' = lost \cup {p \in Pings : tmp[p] = "renamed"}
        /\ UNCHANGED <<now, pc, job, mem, stamp, base, tmp>>
    BY <1>2 DEF Edit, pingVars
  <2>2. file' \in [state : FileStates, jobs : Entries] /\ file'.jobs = NoEntries
    BY <2>1, EntriesFacts DEF FileStates
  <2>3. HeartbeatTypeOK'
    BY <2>1, <2>2
  <2>4. PingInv'
    BY <2>1 DEF PingInv, Busy
  <2>5. PastInv'
    BY <2>1, <2>2, EntriesFacts DEF PastInv
  <2>6. RecordInv'
    BY <2>1 DEF RecordInv
  <2>7. ForwardInv'
    <3>1. \A q \in Pings : base'[q] # version'
      BY <2>1 DEF PingInv
    <3> QED  BY <3>1 DEF ForwardInv
  <2> QED  BY <2>3, <2>4, <2>5, <2>6, <2>7
<1> QED  BY <1>1, <1>2

\* The invariant of the file holds at the start.
LEMMA FileInit == HeartbeatInit => FileInv
<1> SUFFICES ASSUME HeartbeatInit PROVE FileInv
  OBVIOUS
<1> USE TimeAssumption, EntriesFacts DEF HeartbeatInit
<1>1. HeartbeatTypeOK
  BY DEF HeartbeatTypeOK, Times, FileStates
<1>2. PingInv
  BY DEF PingInv, Busy
<1>3. PastInv /\ RecordInv
  BY DEF PastInv, RecordInv
<1>4. ForwardInv
  BY DEF ForwardInv
<1> QED  BY <1>1, <1>2, <1>3, <1>4 DEF FileInv

\* Every step of the heartbeat file and its pings keeps its invariant.
LEMMA FileStep == FileInv /\ [HeartbeatNext]_heartbeatVars => FileInv'
<1>1. FileInv /\ UNCHANGED heartbeatVars => FileInv'
  BY DEF heartbeatVars, fileVars, pingVars, FileInv, HeartbeatTypeOK, PingInv, PastInv, RecordInv,
     ForwardInv, Holds, Busy, Load
<1> QED  BY <1>1, PingStep, MachineStep DEF HeartbeatNext

(***************************************************************************)
(* The invariant of the watcher.                                            *)
(***************************************************************************)
InCycle == state \in {"eval", "confirm", "alert"}

WatchTypeOK ==
  /\ state \in {"down", "asleep", "eval", "confirm", "alert"}
  /\ snapshot \in [state : FileStates, jobs : Entries]
  /\ strikes \in 0..Checks /\ cycle \in 0..MaxCycles /\ alerts \in 0..MaxCycles
  /\ kills \in 0..MaxKills
  /\ witnessed \subseteq Pings

\* Bounds of the counters, by the place in the cycle.
CountInv ==
  /\ alerts <= cycle
  /\ InCycle => cycle < MaxCycles
  /\ state \in {"eval", "confirm"} => strikes < Checks
  /\ state \in {"confirm", "alert"} => strikes > 0

\* The snapshot holds every record that stood when it was taken, and once it has
\* failed it fails for good.
SnapshotInv ==
  InCycle =>
    /\ \A p \in witnessed :
         tmp[p] = "renamed" /\ snapshot.state = "ok" /\ Holds(snapshot.jobs, p)
    /\ strikes > 0 => Fails(snapshot)

IInv == FileInv /\ WatchTypeOK /\ CountInv /\ SnapshotInv

(***************************************************************************)
(* The steps of the watcher.                                                *)
(***************************************************************************)
\* The bounds of the instance are natural numbers.
LEMMA BoundTypes ==
  /\ Within \in Nat /\ Within # 0 /\ Checks \in Nat /\ Checks # 0
  /\ MaxCycles \in Nat /\ MaxCycles # 0 /\ MaxKills \in Nat /\ Watched \in Jobs
  BY WatchAssumption

\* The invariant holds at the start.
LEMMA InvInit == Init => IInv
<1> SUFFICES ASSUME Init PROVE IInv
  OBVIOUS
<1>1. NoFile \in [state : FileStates, jobs : Entries]
  BY EntriesFacts DEF NoFile, FileStates
<1>2. WatchTypeOK
  BY <1>1, BoundTypes DEF Init, WatchTypeOK
<1>3. CountInv /\ SnapshotInv
  BY DEF Init, CountInv, SnapshotInv, InCycle
<1> QED  BY <1>2, <1>3, FileInit DEF Init, IInv

\* The watcher only reads the file.
LEMMA FileKept ==
  ASSUME FileInv, UNCHANGED heartbeatVars
  PROVE  FileInv'
  BY FileStep

\* The steps of the watcher keep the invariant.
LEMMA WatcherStep ==
  ASSUME IInv, Watcher \/ WatchKilled
  PROVE  IInv'
<1> USE BoundTypes DEF IInv, WatchTypeOK, CountInv, InCycle
<1>1. FileInv' /\ UNCHANGED heartbeatVars
  <2>1. UNCHANGED heartbeatVars
    BY DEF Watcher, WatchStarts, BeginCycle, EvaluatePasses, EvaluateFails, Confirm, Alert,
       WatchKilled
  <2> QED  BY <2>1, FileKept
<1>2. NoFile \in [state : FileStates, jobs : Entries]
  BY EntriesFacts DEF NoFile, FileStates
<1>3. CASE WatchStarts
  BY <1>1, <1>3 DEF WatchStarts, SnapshotInv
<1>4. CASE BeginCycle
  <2>1. /\ state' = "eval" /\ strikes' = 0 /\ snapshot' = file
        /\ witnessed' = {p \in Pings : tmp[p] = "renamed"} \ lost
        /\ UNCHANGED <<cycle, kills, alerts>> /\ cycle < MaxCycles
    BY <1>4 DEF BeginCycle
  <2>2. WatchTypeOK' /\ CountInv'
    BY <2>1 DEF FileInv, HeartbeatTypeOK
  <2>3. \A p \in witnessed' : tmp[p] = "renamed" /\ file.state = "ok" /\ Holds(file.jobs, p)
    BY <2>1 DEF FileInv, RecordInv
  <2>4. SnapshotInv'
    BY <1>1, <2>1, <2>3 DEF SnapshotInv, Holds, heartbeatVars, pingVars
  <2> QED  BY <1>1, <2>2, <2>4
<1>5. CASE EvaluatePasses
  BY <1>1, <1>2, <1>5 DEF EvaluatePasses, SnapshotInv
<1>6. CASE EvaluateFails
  <2>1. /\ state = "eval" /\ Fails(snapshot) /\ strikes' = strikes + 1
        /\ state' = IF strikes + 1 < Checks THEN "confirm" ELSE "alert"
        /\ UNCHANGED <<snapshot, cycle, kills, witnessed, alerts>>
    BY <1>6 DEF EvaluateFails
  <2>2. WatchTypeOK' /\ CountInv'
    BY <2>1
  <2>3. Fails(snapshot)'
    BY <1>1, <2>1 DEF Fails, Loadable, Load, Stale, heartbeatVars
  <2>4. SnapshotInv'
    BY <1>1, <2>1, <2>3 DEF SnapshotInv, Holds, heartbeatVars, pingVars
  <2> QED  BY <1>1, <2>2, <2>4
<1>7. CASE Confirm
  <2>1. /\ state = "confirm" /\ state' = "eval" /\ strikes > 0
        /\ UNCHANGED <<snapshot, strikes, cycle, kills, witnessed, alerts>>
    BY <1>7 DEF Confirm
  <2>2. WatchTypeOK' /\ CountInv'
    BY <2>1
  <2>3. SnapshotInv'
    BY <1>1, <2>1 DEF SnapshotInv, Holds, Fails, Loadable, Load, Stale, heartbeatVars, pingVars
  <2> QED  BY <1>1, <2>2, <2>3
<1>8. CASE Alert
  BY <1>1, <1>2, <1>8 DEF Alert, SnapshotInv
<1>9. CASE WatchKilled
  BY <1>1, <1>2, <1>9 DEF WatchKilled, SnapshotInv
<1> QED  BY <1>3, <1>4, <1>5, <1>6, <1>7, <1>8, <1>9 DEF Watcher

(***************************************************************************)
(* What the rest of the machine leaves to the watcher.                      *)
(***************************************************************************)
\* A ping that has renamed its file is never heard of again: its record keeps
\* its job and its time.
LEMMA RecordKept ==
  ASSUME FileInv, HeartbeatNext, NEW p \in Pings, tmp[p] = "renamed"
  PROVE  tmp'[p] = "renamed" /\ job'[p] = job[p] /\ stamp'[p] = stamp[p]
<1>1. CASE Tick \/ Edit("missing") \/ Edit("broken")
  BY <1>1 DEF Tick, Edit, pingVars
<1>2. ASSUME NEW q \in Pings, Ping(q)
      PROVE  tmp'[p] = "renamed" /\ job'[p] = job[p] /\ stamp'[p] = stamp[p]
  <2>1. pc[p] = "done" /\ pc[q] # "done"
    BY <1>2 DEF FileInv, PingInv, Ping, Rejects, LoadFails, LoadFile, Stamp, DryRun, CreateTmp,
       Rename, SaveFails, Killed
  <2>2. /\ job' = job \/ \E v \in Jobs \cup {None} : job' = [job EXCEPT ![q] = v]
        /\ stamp' = stamp \/ \E v \in Times \cup {None} : stamp' = [stamp EXCEPT ![q] = v]
        /\ tmp' = tmp \/ \E v \in {"none", "present", "renamed"} : tmp' = [tmp EXCEPT ![q] = v]
    BY <1>2 DEF Ping, Rejects, LoadFails, LoadFile, Stamp, DryRun, CreateTmp, Rename, SaveFails,
       Killed, EndsUnrecorded, FileInv, HeartbeatTypeOK
  <2> QED  BY <2>1, <2>2 DEF FileInv, HeartbeatTypeOK
<1> QED  BY <1>1, <1>2 DEF HeartbeatNext

\* The clock never goes back.
LEMMA ClockMoves ==
  ASSUME FileInv, HeartbeatNext
  PROVE  now' \in Nat /\ now \in Nat /\ now <= now'
<1>1. now \in Nat
  BY TimeAssumption DEF FileInv, HeartbeatTypeOK, Times
<1>2. now' = now \/ now' = now + 1
  BY DEF HeartbeatNext, Tick, Edit, Ping, Rejects, LoadFails, LoadFile, Stamp, DryRun, CreateTmp,
     Rename, SaveFails, Killed, EndsUnrecorded
<1> QED  BY <1>1, <1>2

\* What fails now fails later: the snapshot is fixed and the clock advances.
LEMMA FailsForGood ==
  ASSUME FileInv, WatchTypeOK, Fails(snapshot), HeartbeatNext, UNCHANGED watchVars
  PROVE  Fails(snapshot)'
<1>1. snapshot' = snapshot /\ snapshot \in [state : FileStates, jobs : Entries]
  BY DEF watchVars, WatchTypeOK
<1>2. CASE ~Loadable(snapshot)
  BY <1>1, <1>2 DEF Fails, Loadable
<1>3. CASE Loadable(snapshot)
  <2> DEFINE last == Load(snapshot)[Watched]
  <2>1. Stale(last)
    BY <1>3 DEF Fails
  <2>2. Stale(last)'
    BY <1>1, <2>1, BoundTypes, ClockMoves DEF Stale, Load
  <2> QED  BY <1>1, <1>3, <2>2 DEF Fails
<1> QED  BY <1>2, <1>3

\* The steps of the file and its pings keep what is said of the watcher.
LEMMA RestStep ==
  ASSUME IInv, HeartbeatNext, UNCHANGED watchVars
  PROVE  IInv'
<1> USE DEF IInv
<1>1. FileInv'
  BY FileStep
<1>2. WatchTypeOK' /\ CountInv'
  BY DEF WatchTypeOK, CountInv, InCycle, watchVars
<1>3. SnapshotInv'
  <2> SUFFICES ASSUME InCycle
               PROVE  /\ \A p \in witnessed : /\ tmp'[p] = "renamed" /\ snapshot.state = "ok"
                                              /\ Holds(snapshot.jobs, p)'
                      /\ strikes > 0 => Fails(snapshot)'
    BY DEF SnapshotInv, InCycle, watchVars
  <2>1. ASSUME NEW p \in witnessed
        PROVE  tmp'[p] = "renamed" /\ snapshot.state = "ok" /\ Holds(snapshot.jobs, p)'
    <3>1. tmp[p] = "renamed" /\ snapshot.state = "ok" /\ Holds(snapshot.jobs, p) /\ p \in Pings
      BY DEF SnapshotInv, WatchTypeOK
    <3> QED  BY <3>1, RecordKept DEF Holds, watchVars
  <2>2. strikes > 0 => Fails(snapshot)'
    BY FailsForGood DEF SnapshotInv
  <2> QED  BY <2>1, <2>2
<1> QED  BY <1>1, <1>2, <1>3

\* Every step keeps the invariant.
LEMMA InvStep == IInv /\ [Next]_vars => IInv'
<1>1. IInv /\ UNCHANGED vars => IInv'
  <2> SUFFICES ASSUME IInv, UNCHANGED vars PROVE IInv'
    OBVIOUS
  <2>1. UNCHANGED heartbeatVars /\ UNCHANGED watchVars
    BY DEF vars
  <2>2. WatchTypeOK' /\ CountInv'
    BY <2>1 DEF IInv, WatchTypeOK, CountInv, InCycle, watchVars
  <2>3. SnapshotInv'
    BY <2>1 DEF IInv, SnapshotInv, InCycle, Holds, Fails, Stale, Loadable, Load, watchVars,
       heartbeatVars, pingVars
  <2> QED  BY <2>1, <2>2, <2>3, FileKept DEF IInv
<1> QED  BY <1>1, WatcherStep, RestStep DEF Next

\* The invariant holds in every state.
LEMMA Invariant == Spec => []IInv
  BY InvInit, InvStep, PTL DEF Spec

(***************************************************************************)
(* The theorems.                                                            *)
(***************************************************************************)
\* The clock, the file, the pings and the watcher keep their types; watch raises
\* at most one alert in a cycle and makes no more evaluations than configured.
THEOREM TypeCorrect == Spec => []TypeOK
<1>1. IInv => TypeOK
  BY DEF IInv, FileInv, WatchTypeOK, TypeOK
<1> QED  BY <1>1, Invariant, PTL

\* A recorded ping stays recorded until an overlapping writer or the operator
\* erases it (heartbeat.go: SaveAtomic; ping.go).
THEOREM RecordsStand == Spec => []RecordedUntilOverwritten
<1>1. IInv => RecordedUntilOverwritten
  BY DEF IInv, FileInv, RecordInv, Holds, RecordedUntilOverwritten
<1> QED  BY <1>1, Invariant, PTL

\* A deadman cycle that began with a failure ends in an alert (deadman.go:
\* Evaluate; runner.go: refreshDeadmanSnapshot).
THEOREM FailuresStand == Spec => []FailureIsFinal
<1>1. IInv => FailureIsFinal
  BY DEF IInv, SnapshotInv, InCycle, CountInv, FailureIsFinal
<1> QED  BY <1>1, Invariant, PTL

\* No alert is raised against a fresh record that stood when the cycle began.
THEOREM AlarmsAreTrue == Spec => []NoFalseAlarm
<1>1. IInv => NoFalseAlarm
  <2> SUFFICES ASSUME IInv, state = "alert", NEW p \in witnessed, job[p] = Watched
               PROVE  now >= stamp[p] + Within
    BY DEF NoFalseAlarm
  <2>1. /\ p \in Pings /\ tmp[p] = "renamed" /\ snapshot.state = "ok"
        /\ Holds(snapshot.jobs, p) /\ Fails(snapshot)
    BY DEF IInv, WatchTypeOK, SnapshotInv, InCycle, CountInv
  <2> DEFINE last == snapshot.jobs[Watched]
  <2>2. last # None /\ last >= stamp[p] /\ stamp[p] \in Nat
    BY <2>1, TimeAssumption DEF Holds, IInv, FileInv, PingInv, Times
  <2>3. last \in Nat /\ now >= last + Within
    BY <2>1, <2>2 DEF Fails, Loadable, Load, Stale
  <2>4. now \in Nat
    BY TimeAssumption DEF IInv, FileInv, HeartbeatTypeOK, Times
  <2> QED  BY <2>2, <2>3, <2>4, BoundTypes
<1> QED  BY <1>1, Invariant, PTL

\* A ping that nobody overlaps changes its own entry only, and only forward
\* (ping.go: the time is taken after the file was read).
THEOREM PingsMoveForward == Spec => SequentialPingsMoveForward
<1> DEFINE Forward ==
      \A p \in Pings : (pc[p] = "writing" /\ pc'[p] = "done" /\ base[p] = version) =>
        \A j \in Jobs :
          IF j = job[p]
            THEN Load(file)[j] # None => file'.jobs[j] >= Load(file)[j]
            ELSE file'.jobs[j] = Load(file)[j]
<1>1. IInv /\ HeartbeatNext => Forward
  <2> SUFFICES ASSUME IInv, HeartbeatNext, NEW p \in Pings, pc[p] = "writing", pc'[p] = "done",
                      base[p] = version, NEW j \in Jobs
               PROVE  IF j = job[p]
                        THEN Load(file)[j] # None => file'.jobs[j] >= Load(file)[j]
                        ELSE file'.jobs[j] = Load(file)[j]
    OBVIOUS
  <2>1. Rename(p)
    <3>1. pc \in [Pings -> {"idle", "loaded", "stamped", "writing", "done", "failed", "killed"}]
      BY DEF IInv, FileInv, HeartbeatTypeOK
    <3>2. ~(Tick \/ Edit("missing") \/ Edit("broken"))
      BY DEF Tick, Edit, pingVars
    <3>3. PICK q \in Pings : Ping(q)
      BY <3>2 DEF HeartbeatNext
    <3>4. pc' = pc \/ \E how \in {"loaded", "stamped", "writing", "done", "failed", "killed"} :
                        pc' = [pc EXCEPT ![q] = how]
      BY <3>3 DEF Ping, Rejects, LoadFails, LoadFile, Stamp, DryRun, CreateTmp, Rename,
         SaveFails, Killed, EndsUnrecorded
    <3>5. q = p
      BY <3>1, <3>4
    <3> QED
      BY <3>1, <3>3, <3>5 DEF Ping, Rejects, LoadFails, LoadFile, Stamp, DryRun, CreateTmp,
         SaveFails, Killed, EndsUnrecorded
  <2>2. file'.jobs = mem[p]
    BY <2>1 DEF Rename
  <2> QED  BY <2>2 DEF IInv, FileInv, PingInv, ForwardInv
<1>2. IInv /\ [Next]_vars => [Forward]_heartbeatVars
  <2> SUFFICES ASSUME IInv, [Next]_vars PROVE [Forward]_heartbeatVars
    OBVIOUS
  <2>1. CASE Watcher \/ WatchKilled
    <3>1. UNCHANGED heartbeatVars
      BY <2>1 DEF Watcher, WatchStarts, BeginCycle, EvaluatePasses, EvaluateFails, Confirm, Alert,
         WatchKilled
    <3> QED  BY <3>1
  <2> QED  BY <1>1, <2>1 DEF Next, vars
<1> QED  BY <1>2, Invariant, PTL DEF Spec, SequentialPingsMoveForward
=============================================================================
