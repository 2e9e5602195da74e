--------------------------- MODULE StartupProofs ----------------------------
(***************************************************************************)
(* A recorded ping reaches the running watch, and what watch is up with is  *)
(* sound, for any directories, files, configurations, flags and             *)
(* environments.                                                            *)
(***************************************************************************)
EXTENDS Startup, FiniteSetTheorems, TLAPS

(***************************************************************************)
(* Paths.                                                                   *)
(***************************************************************************)
\* Where a process stands and what it seeks are paths.
LEMMA SoughtType ==
  ASSUME NEW p \in Processes, inv \in [Processes -> Invocations]
  PROVE  /\ inv[p].cwd \in Dirs
         /\ Sought(p) \in Paths
         /\ Given(p) \in Paths \cup {None}
<1>1. inv[p] \in Invocations
  OBVIOUS
<1>2. /\ inv[p].cwd \in Dirs
      /\ inv[p].configFlag \in Paths \cup {None} /\ inv[p].configEnv \in Paths \cup {None}
      /\ inv[p].heartbeatFlag \in Paths \cup {None}
      /\ inv[p].heartbeatEnv \in Paths \cup {None}
  BY <1>1, InvocationsAssumption
<1>3. InCwd(p) \in Paths
  BY <1>2, PathsAssumption DEF InCwd, Paths
<1>4. Sought(p) \in Paths
  BY <1>2, <1>3 DEF Sought, Explicit
<1>5. Given(p) \in Paths \cup {None}
  BY <1>2 DEF Given
<1> QED  BY <1>2, <1>4, <1>5

\* The heartbeat file beside a configuration is one file, by whatever path the
\* configuration was given.
LEMMA AdjacentIsOneFile ==
  ASSUME NEW s \in Paths, NEW t \in Paths, NEW cwd \in Dirs, NEW dir \in Dirs,
         From(cwd, s) = From(dir, t)
  PROVE  From(cwd, Adjacent(s)) = From(dir, Adjacent(t))
<1>1. /\ s.file = t.file
      /\ (IF s.dir = "." THEN cwd ELSE s.dir) = (IF t.dir = "." THEN dir ELSE t.dir)
  BY DEF From
<1> QED  BY <1>1 DEF From, Adjacent

(***************************************************************************)
(* The invariant: what a process has resolved is a function of how it was   *)
(* started and of what it has read.                                         *)
(***************************************************************************)
Resolved ==
  /\ pc["watch"] \in {"preflight", "up"} => hbFile["watch"] = HeartbeatPath("watch")
  /\ pc["ping"] \in {"record", "done"} =>
       /\ hbFile["ping"] = HeartbeatPath("ping")
       /\ job = PickJob /\ job \in JobNames

IInv == TypeOK /\ Resolved

\* The invariant holds at the start.
LEMMA InvInit == Init => IInv
  BY NamesAssumption DEF Init, IInv, TypeOK, Resolved, Processes

\* A process that is still searching or reading has resolved nothing; after that
\* neither its configuration nor its path changes.
LEMMA InvStep == IInv /\ [Next]_vars => IInv'
<1> SUFFICES ASSUME IInv, [Next]_vars PROVE IInv'
  OBVIOUS
<1> USE DEF IInv, TypeOK, processVars, worldVars
<1> DEFINE Stable == inv' = inv /\ source' = source /\ config' = config
<1>1. ASSUME Stable
      PROVE  /\ HeartbeatPath("watch")' = HeartbeatPath("watch")
             /\ HeartbeatPath("ping")' = HeartbeatPath("ping")
             /\ PickJob' = PickJob
  <2>1. /\ Given("watch")' = Given("watch") /\ Given("ping")' = Given("ping")
        /\ JobGiven' = JobGiven
    BY <1>1 DEF Given, JobGiven
  <2>2. PickJob' = PickJob
    BY <1>1, <2>1 DEF PickJob
  <2> QED  BY <1>1, <2>1, <2>2 DEF HeartbeatPath
<1>2. ASSUME NEW p \in Processes, Process(p) PROVE IInv'
  <2>1. CASE SearchFinds(p)
    BY <1>2, <2>1, SoughtType DEF SearchFinds, Goes, Resolved, Processes, HeartbeatPath,
       Given, PickJob, JobGiven
  <2>2. CASE SearchFails(p)
    BY <1>1, <2>2 DEF SearchFails, Goes, Resolved, Processes
  <2>3. CASE Read(p)
    <3>1. Reads(p) \in Documents
      <4>1. Reads(p) \in Documents \cup {None}
        BY DEF Reads, At, Places
      <4> QED  BY <2>3, <4>1 DEF Read, Acceptable
    <3> QED  BY <2>3, <3>1 DEF Read, Goes, Resolved, Processes, HeartbeatPath,
       Given, PickJob, JobGiven
  <2>4. CASE ReadFails(p)
    BY <1>1, <2>4 DEF ReadFails, Goes, Resolved, Processes
  <2> QED  BY <1>2, <2>1, <2>2, <2>3, <2>4 DEF Process
<1>3. CASE Watch
  <2>1. CASE Build
    BY <1>1, <2>1 DEF Build, Goes, Resolved, Processes
  <2>2. CASE HostUnresolved \/ BuildFails
    BY <1>1, <2>2 DEF HostUnresolved, BuildFails, Goes, Resolved, Processes
  <2>3. CASE Preflight
    BY <1>1, <2>3 DEF Preflight, Goes, Resolved, Processes
  <2>4. CASE PreflightFails
    BY <1>1, <2>4 DEF PreflightFails, Goes, Resolved, Processes
  <2> QED  BY <1>2, <1>3, <2>1, <2>2, <2>3, <2>4 DEF Watch, Processes
<1>4. CASE Ping
  <2>1. CASE Resolve
    BY <1>1, <2>1 DEF Resolve, Goes, Resolved, Processes
  <2>2. CASE SearchMisses \/ ResolveFails \/ Record \/ RecordFails
    BY <1>1, <2>2 DEF SearchMisses, ResolveFails, Record, RecordFails, Goes, Resolved,
       Processes
  <2> QED  BY <1>2, <1>4, <2>1, <2>2 DEF Ping, Processes
<1>5. CASE Operator
  <2>1. /\ Stable /\ pc' = pc /\ hbFile' = hbFile /\ job' = job
        /\ edits < MaxEdits /\ edits' = edits + 1
    BY <1>5 DEF Operator, Edit, Damage
  <2>2. Resolved'
    BY <1>1, <2>1 DEF Resolved
  <2>3. place' \in [ConfigFiles -> Places] /\ damaged' \subseteq HeartbeatFiles
    BY <1>5 DEF Operator, Edit, Damage
  <2>4. edits' \in 0..MaxEdits
    <3>1. MaxEdits \in Nat
      BY NamesAssumption
    <3>2. edits \in 0..MaxEdits
      BY DEF IInv, TypeOK
    <3> HIDE DEF IInv, TypeOK
    <3> QED  BY <2>1, <3>1, <3>2
  <2>5. TypeOK'
    BY <2>1, <2>3, <2>4
  <2> QED  BY <2>2, <2>5
<1>6. CASE Ended \/ UNCHANGED vars
  BY <1>1, <1>6 DEF Ended, vars, Resolved
<1> QED  BY <1>3, <1>4, <1>5, <1>6 DEF Next

(***************************************************************************)
(* The theorem.                                                             *)
(***************************************************************************)
\* The processes and the machine keep their types.
THEOREM TypeCorrect == Spec => []TypeOK
<1>1. IInv => TypeOK
  BY DEF IInv
<1> QED  BY <1>1, InvInit, InvStep, PTL DEF Spec

\* What both opened is one file.
LEMMA OneFile ==
  ASSUME IInv, SameSetting, pc["watch"] = "up", pc["ping"] = "done"
  PROVE  Opens("ping") = Opens("watch")
<1>1. hbFile["watch"] = HeartbeatPath("watch") /\ hbFile["ping"] = HeartbeatPath("ping")
  BY DEF IInv, Resolved
<1>2. CASE Given("watch") # None
  BY <1>1, <1>2 DEF SameSetting, HeartbeatPath, Opens, From, Absolute
<1>3. CASE Given("watch") = None /\ config["watch"].heartbeatFile # None
  BY <1>1, <1>3 DEF SameSetting, HeartbeatPath, Opens, From, Absolute
<1>4. CASE Given("watch") = None /\ config["watch"].heartbeatFile = None
  <2>1. /\ hbFile["watch"] = Adjacent(source["watch"])
        /\ hbFile["ping"] = Adjacent(source["ping"])
    BY <1>1, <1>4 DEF SameSetting, HeartbeatPath
  <2>2. source["watch"] \in Paths /\ source["ping"] \in Paths
    BY DEF IInv, TypeOK, SameSetting, Processes
  <2>3. inv["watch"].cwd \in Dirs /\ inv["ping"].cwd \in Dirs
    BY SoughtType DEF IInv, TypeOK, Processes
  <2>4. From(inv["watch"].cwd, Adjacent(source["watch"]))
          = From(inv["ping"].cwd, Adjacent(source["ping"]))
    BY <2>2, <2>3, AdjacentIsOneFile DEF SameSetting
  <2> QED  BY <2>1, <2>4 DEF Opens
<1> QED  BY <1>2, <1>3, <1>4

\* An inferred job is the only one in the configuration.
LEMMA JobWatched ==
  ASSUME IInv, SameSetting, pc["ping"] = "done", JobGiven = None
  PROVE  job \in WatchedJobs
<1> DEFINE jobs == DeadmanJobs(config["watch"])
<1>1. job = OnlyJob(jobs) /\ job # None
  BY NamesAssumption DEF IInv, Resolved, PickJob, SameSetting
<1>2. Cardinality(DOMAIN jobs) = 1 /\ job = jobs[CHOOSE i \in DOMAIN jobs : TRUE]
  BY <1>1 DEF OnlyJob
<1>3. DOMAIN jobs # {}
  BY <1>2, FS_EmptySet
<1>4. (CHOOSE i \in DOMAIN jobs : TRUE) \in DOMAIN jobs
  BY <1>3
<1> QED  BY <1>2, <1>4 DEF WatchedJobs

\* A ping recorded from the configuration of a running watch reaches it, whatever
\* the directories, flags, environments and documents (common.go:
\* resolveHeartbeatPath; ping.go: pickJob).
THEOREM PingsArrive == Spec => []PingReachesWatch
<1>1. Init => IInv
  BY InvInit
<1>2. IInv /\ [Next]_vars => IInv'
  BY InvStep
<1>3. IInv => PingReachesWatch
  BY OneFile, JobWatched DEF PingReachesWatch
<1> QED  BY <1>1, <1>2, <1>3, PTL DEF Spec

(***************************************************************************)
(* What watch is up with.                                                   *)
(***************************************************************************)
\* From its configuration on, watch holds a document that passed Validate; from
\* its checkers on, one they could be built from.
SoundInv ==
  /\ pc["watch"] \in {"resolve", "preflight", "up"} =>
       /\ config["watch"] \in Documents
       /\ Validate(config["watch"], inv["watch"].webhook)
  /\ pc["watch"] \in {"preflight", "up"} =>
       Buildable(config["watch"], inv["watch"].webhook, HeartbeatPath("watch"))

\* A step that leaves the configuration of watch alone and brings it no further
\* keeps that.
LEMMA SoundKept ==
  ASSUME SoundInv, inv' = inv, config'["watch"] = config["watch"],
         source'["watch"] = source["watch"],
         pc'["watch"] \in {"resolve", "preflight", "up"} =>
           pc["watch"] \in {"resolve", "preflight", "up"},
         pc'["watch"] \in {"preflight", "up"} => pc["watch"] \in {"preflight", "up"}
  PROVE  SoundInv'
<1>1. HeartbeatPath("watch")' = HeartbeatPath("watch")
  BY DEF HeartbeatPath, Given
<1> QED  BY <1>1 DEF SoundInv

\* Every step keeps it.
LEMMA SoundStep ==
  ASSUME IInv, SoundInv, [Next]_vars
  PROVE  SoundInv'
<1> USE DEF processVars, worldVars
<1>0. /\ pc \in [Processes -> {"search", "read", "resolve", "preflight", "record",
                              "up", "done", "exit 1"}]
      /\ DOMAIN source = Processes /\ DOMAIN config = Processes
      /\ "watch" \in Processes
  BY DEF IInv, TypeOK, Processes
<1>1. CASE Read("watch")
  <2> DEFINE document == Reads("watch")
  <2>1. /\ Acceptable("watch", document) /\ config'["watch"] = document
        /\ pc'["watch"] = "resolve" /\ inv' = inv
    BY <1>0, <1>1 DEF Read, Goes
  <2>2. document \in Documents \cup {None}
    BY DEF Reads, At, Places, IInv, TypeOK
  <2> HIDE DEF document
  <2>3. document \in Documents /\ Validate(document, inv["watch"].webhook)
    BY <2>1, <2>2 DEF Acceptable
  <2> QED  BY <2>1, <2>3 DEF SoundInv
<1>2. CASE Build
  <2>1. /\ pc["watch"] = "resolve" /\ UNCHANGED <<inv, config, source>>
        /\ Buildable(config["watch"], inv["watch"].webhook, HeartbeatPath("watch"))
    BY <1>2 DEF Build, Goes
  <2>2. HeartbeatPath("watch")' = HeartbeatPath("watch")
    BY <2>1 DEF HeartbeatPath, Given
  <2> QED  BY <2>1, <2>2 DEF SoundInv
<1>3. CASE \/ SearchFinds("watch") \/ SearchFails("watch") \/ ReadFails("watch")
           \/ HostUnresolved \/ BuildFails \/ PreflightFails
  <2>1. pc'["watch"] \in {"read", "exit 1"}
    BY <1>0, <1>3 DEF SearchFinds, SearchFails, ReadFails, HostUnresolved,
                      BuildFails, PreflightFails, Goes
  <2> QED  BY <2>1 DEF SoundInv
<1>4. CASE Preflight
  BY <1>0, <1>4, SoundKept DEF Preflight, Goes
<1>5. CASE Ping
  <2>1. /\ inv' = inv /\ pc'["watch"] = pc["watch"]
        /\ config'["watch"] = config["watch"] /\ source'["watch"] = source["watch"]
    BY <1>0, <1>5 DEF Ping, Process, SearchFinds, SearchFails, Read, ReadFails,
       SearchMisses, Resolve, ResolveFails, Record, RecordFails, Goes
  <2> QED  BY <2>1, SoundKept
<1>6. CASE Operator \/ Ended \/ UNCHANGED vars
  BY <1>6, SoundKept DEF Operator, Edit, Damage, Ended, vars
<1> QED  BY <1>1, <1>2, <1>3, <1>4, <1>5, <1>6 DEF Next, Watch, Process

\* A function that gives no value twice has as many values as arguments.
LEMMA DistinctValues ==
  ASSUME NEW f, IsFiniteSet(DOMAIN f),
         \A i, j \in DOMAIN f : f[i] = f[j] => i = j
  PROVE  Cardinality({f[i] : i \in DOMAIN f}) = Cardinality(DOMAIN f)
<1> DEFINE S == DOMAIN f
           T == {f[i] : i \in S}
           g == [i \in S |-> f[i]]
<1>1. g \in Bijection(S, T)
  <2>1. g \in [S -> T] /\ \A t \in T : \E i \in S : g[i] = t
    OBVIOUS
  <2>2. \A i, j \in S : g[i] = g[j] => i = j
    OBVIOUS
  <2> HIDE DEF S, T, g
  <2> QED  BY <2>1, <2>2 DEF Bijection, Injection, IsInjective, Surjection
<1>2. ExistsBijection(S, T)
  BY <1>1 DEF ExistsBijection
<1> HIDE DEF S, T
<1>3. IsFiniteSet(S)
  BY DEF S
<1>4. Cardinality(T) = Cardinality(S)
  BY <1>2, <1>3, FS_Bijection
<1> QED  BY <1>4 DEF S, T

\* For all configurations, flags and environments: what watch is up with can be
\* told apart and can be pinged (config.go: Validate; loader.go: BuildCheckers).
THEOREM SetupsAreSound == Spec => []SetupIsSound
<1>1. Init => IInv /\ SoundInv
  BY InvInit DEF Init, SoundInv, Processes
<1>2. IInv /\ SoundInv /\ [Next]_vars => (IInv /\ SoundInv)'
  BY InvStep, SoundStep
<1>3. SoundInv => SetupIsSound
  <2> DEFINE document == config["watch"]
             checks == document.checks
             names == [i \in Indices(checks) |-> NameOf(checks[i])]
             jobs == DeadmanJobs(document)
  <2> SUFFICES ASSUME SoundInv, pc["watch"] = "up"
               PROVE  /\ inv["watch"].webhook[document.webhookEnv] = "url"
                      /\ Cardinality({NameOf(checks[i]) : i \in Indices(checks)})
                           = Len(checks)
                      /\ \A i \in Indices(checks) :
                           IntervalOf(checks[i], document) > 0
                      /\ WatchedJobs \subseteq JobNames
                      /\ Cardinality(WatchedJobs)
                           = Cardinality({i \in Indices(checks) :
                                            IsDeadman(checks[i])})
    BY DEF SetupIsSound
  <2>1. /\ document \in Documents
        /\ Validate(document, inv["watch"].webhook)
        /\ Buildable(document, inv["watch"].webhook, HeartbeatPath("watch"))
    BY DEF SoundInv
  <2>2. Len(checks) \in Nat
    BY <2>1, DocumentsAssumption
  <2> HIDE DEF document
  <2>3. IsFiniteSet(Indices(checks)) /\ Cardinality(Indices(checks)) = Len(checks)
    <3> DEFINE n == Len(checks)
    <3>1. Indices(checks) = 1..n
      BY DEF Indices
    <3> HIDE DEF n
    <3>2. n \in Nat
      BY <2>2 DEF n
    <3>3. IsFiniteSet(1..n) /\ Cardinality(1..n) = IF 1 > n THEN 0 ELSE n - 1 + 1
      BY <3>2, FS_Interval
    <3>4. Cardinality(1..n) = n
      BY <3>2, <3>3
    <3> QED  BY <3>1, <3>3, <3>4 DEF n
  <2>4. inv["watch"].webhook[document.webhookEnv] = "url"
    BY <2>1 DEF Buildable
  <2>5. \A i \in Indices(checks) : IntervalOf(checks[i], document) > 0
    BY <2>1 DEF Buildable, ParseCheck
  <2>6. Cardinality({NameOf(checks[i]) : i \in Indices(checks)}) = Len(checks)
    <3>1. /\ DOMAIN names = Indices(checks)
          /\ \A i, j \in DOMAIN names : names[i] = names[j] => i = j
          /\ {names[i] : i \in DOMAIN names} = {NameOf(checks[i]) : i \in Indices(checks)}
      BY <2>1 DEF Buildable, NamesDiffer
    <3> HIDE DEF names, checks
    <3>2. Cardinality({names[i] : i \in DOMAIN names}) = Cardinality(DOMAIN names)
      BY <2>3, <3>1, DistinctValues
    <3> QED  BY <2>3, <3>1, <3>2
  <2>7. /\ DOMAIN jobs = {i \in Indices(checks) : IsDeadman(checks[i])}
        /\ \A i \in DOMAIN jobs : jobs[i] \in JobNames
        /\ \A i, j \in DOMAIN jobs : jobs[i] = jobs[j] => i = j
    BY <2>1 DEF Validate, DeadmanJobs
  <2>8. WatchedJobs = {jobs[i] : i \in DOMAIN jobs}
    BY DEF WatchedJobs, document
  <2> HIDE DEF checks, jobs
  <2>9. WatchedJobs \subseteq JobNames
    BY <2>7, <2>8
  <2>10. IsFiniteSet(DOMAIN jobs)
    <3>1. DOMAIN jobs \in SUBSET Indices(checks)
      BY <2>7
    <3> QED  BY <2>3, <3>1, FS_Subset
  <2>11. Cardinality(WatchedJobs) = Cardinality(DOMAIN jobs)
    BY <2>7, <2>8, <2>10, DistinctValues
  <2> QED  BY <2>4, <2>5, <2>6, <2>7, <2>9, <2>11
<1> QED  BY <1>1, <1>2, <1>3, PTL DEF Spec
=============================================================================
