------------------------------ MODULE Startup -------------------------------
(***************************************************************************)
(* What happens before a check is evaluated or a ping is recorded: the      *)
(* configuration is searched, read, validated and turned into checkers, the *)
(* heartbeat file is resolved (cmd/mitsume/common.go, ping.go,              *)
(* internal/config, internal/loader and the Parse of each checker).         *)
(*                                                                         *)
(* One watch and one ping, started by a service manager and by cron, each   *)
(* in its own directory, with its own flags and environment; both must agree *)
(* on the heartbeat file and on the names of the jobs.  An operator edits   *)
(* the configuration and the heartbeat files at any time.  Every error ends *)
(* a process with exit code 1.                                              *)
(***************************************************************************)
EXTENDS Integers, Sequences, FiniteSets

CONSTANTS
  Invocations,    \* how the processes may be started
  Documents,      \* configurations that can be decoded
  ConfigFiles,    \* absolute paths where a configuration may stand
  HeartbeatFiles, \* absolute paths where a heartbeat file may stand
  Dirs,           \* directories
  HeartbeatName,  \* x.heartbeat.json for each file name x.json
  JobNames,       \* the job names that keep the naming rule
  MaxEdits,       \* bound: edits by the operator
  None            \* not given, not there

Processes == {"watch", "ping"}
FileNames == DOMAIN HeartbeatName
Paths == [dir : Dirs \cup {"."}, file : FileNames]

ASSUME InvocationsAssumption ==
  \A i \in Invocations :
    /\ i.cwd \in Dirs
    /\ {i.configFlag, i.configEnv, i.heartbeatFlag, i.heartbeatEnv}
         \subseteq Paths \cup {None}
ASSUME DocumentsAssumption ==
  /\ None \notin Documents
  /\ \A d \in Documents :
       /\ d.heartbeatFile \in Paths \cup {None}
       /\ d.checks \in Seq({d.checks[i] : i \in DOMAIN d.checks})
ASSUME PathsAssumption ==
  /\ None \notin Paths /\ "mitsume.json" \in FileNames
  /\ (ConfigFiles \cup HeartbeatFiles) \subseteq Paths
ASSUME NamesAssumption == None \notin JobNames /\ MaxEdits \in Nat

\* A path is a directory and a file name; "." is a relative one's directory.
From(cwd, path) ==
  [dir |-> IF path.dir = "." THEN cwd ELSE path.dir, file |-> path.file]

VARIABLES
  inv,      \* how each process was started: cwd, flags, argument, environment
  pc,       \* where it is: ends "up", "done" or "exit 1"
  source,   \* Config.SourcePath, None without a configuration
  config,   \* the document it has decoded
  job,      \* the job ping records
  hbFile,   \* the heartbeat file it resolved
  place,    \* what stands at each of ConfigFiles
  damaged,  \* heartbeat files that cannot be read or decoded
  edits

processVars == <<pc, source, config, job, hbFile>>
worldVars == <<place, damaged, edits>>
vars == <<inv, processVars, worldVars>>

(***************************************************************************)
(* Search.                                                                  *)
(***************************************************************************)
Places == [stat : {"ok"}, config : Documents \cup {None}]   \* None: undecodable
            \cup [stat : {"absent", "denied"}, config : {None}]

At(path) ==
  IF path \in ConfigFiles THEN place[path] ELSE [stat |-> "absent", config |-> None]

Goes(p, from, to) == pc[p] = from /\ pc' = [pc EXCEPT ![p] = to]

\* The flag and the environment have to name a file; the one in the current
\* directory need not be there.
Explicit(p) == IF inv[p].configFlag # None THEN inv[p].configFlag ELSE inv[p].configEnv
InCwd(p) == [dir |-> inv[p].cwd, file |-> "mitsume.json"]
Sought(p) == IF Explicit(p) # None THEN Explicit(p) ELSE InCwd(p)
SoughtStat(p) == At(From(inv[p].cwd, Sought(p))).stat

SearchFinds(p) ==
  /\ Goes(p, "search", "read") /\ SoughtStat(p) = "ok"
  /\ source' = [source EXCEPT ![p] = Sought(p)]
  /\ UNCHANGED <<inv, config, job, hbFile, worldVars>>

SearchMisses ==
  /\ Goes("ping", "search", "resolve")
  /\ Explicit("ping") = None /\ SoughtStat("ping") = "absent"
  /\ UNCHANGED <<inv, source, config, job, hbFile, worldVars>>

SearchFails(p) ==
  /\ Goes(p, "search", "exit 1") /\ SoughtStat(p) # "ok"
  /\ Explicit(p) # None \/ SoughtStat(p) = "denied" \/ p = "watch"
  /\ UNCHANGED <<inv, source, config, job, hbFile, worldVars>>

(***************************************************************************)
(* Parse and Validate.                                                      *)
(***************************************************************************)
Indices(s) == 1..Len(s)
IsDeadman(check) == check.type = "deadman"

\* DeadmanJobs, under the positions of the checks that wait for them.
DeadmanJobs(document) ==
  [i \in {k \in Indices(document.checks) : IsDeadman(document.checks[k])}
     |-> document.checks[i].job]

CheckTypes == {"http", "deadman", "file", "container", "cmd"}

Validate(document, env) ==
  /\ document.webhookEnv # None /\ env[document.webhookEnv] # "unset"
  /\ \A i \in Indices(document.checks) : document.checks[i].type \in CheckTypes
  /\ LET jobs == DeadmanJobs(document) IN
       /\ \A i \in DOMAIN jobs : jobs[i] \in JobNames
       /\ \A i, j \in DOMAIN jobs : jobs[i] = jobs[j] => i = j

\* watch validates what it has read, ping takes it as it is.
Acceptable(p, document) ==
  document # None /\ (p = "watch" => Validate(document, inv[p].webhook))

Reads(p) == At(From(inv[p].cwd, source[p])).config

Read(p) ==
  /\ Goes(p, "read", "resolve") /\ Acceptable(p, Reads(p))
  /\ config' = [config EXCEPT ![p] = Reads(p)]
  /\ UNCHANGED <<inv, source, job, hbFile, worldVars>>

ReadFails(p) ==
  /\ Goes(p, "read", "exit 1") /\ ~Acceptable(p, Reads(p))
  /\ UNCHANGED <<inv, source, config, job, hbFile, worldVars>>

(***************************************************************************)
(* The heartbeat file.                                                      *)
(***************************************************************************)
\* Mutant: the file stands in the current directory, not beside the configuration.
AdjacentInCwd(path) == [dir |-> ".", file |-> HeartbeatName[path.file]]

Adjacent(path) == [dir |-> path.dir, file |-> HeartbeatName[path.file]]

Given(p) == IF inv[p].heartbeatFlag # None THEN inv[p].heartbeatFlag ELSE inv[p].heartbeatEnv

\* resolveHeartbeatPath; None is its error.
HeartbeatPath(p) ==
  IF Given(p) # None THEN Given(p)
  ELSE IF config[p] = None THEN None
  ELSE IF config[p].heartbeatFile # None THEN config[p].heartbeatFile
  ELSE Adjacent(source[p])

\* The file a process opens.
Opens(p) == From(inv[p].cwd, hbFile[p])

(***************************************************************************)
(* Building the checkers of watch.                                          *)
(***************************************************************************)
IntervalOf(check, document) ==
  IF check.interval # None THEN check.interval ELSE document.interval

\* A default that is not positive counts as none: 30 s take its place.
TimeoutOf(check, document) ==
  IF check.timeout # None THEN check.timeout
  ELSE IF document.timeout > 0 THEN document.timeout ELSE 30

NameOf(check) == IF check.name # None THEN check.name ELSE check.label

\* Parse of the package of the type.  legal: its other fields, confirm and expect
\* among them, are; a container check finds the socket of its engine.
ParseCheck(check, document, path) ==
  /\ check.legal
  /\ IntervalOf(check, document) > 0
  /\ check.type \in {"http", "cmd"} => TimeoutOf(check, document) > 0
  /\ check.type = "deadman" =>
       check.within # None /\ check.within > 0 /\ path # None

\* Mutant: only names that were given are compared.
NamesDifferIfGiven(checks) ==
  \A i, j \in Indices(checks) :
    checks[i].name # None /\ checks[i].name = checks[j].name => i = j

\* Names are compared after those left out were filled in.
NamesDiffer(checks) ==
  \A i, j \in Indices(checks) : NameOf(checks[i]) = NameOf(checks[j]) => i = j

\* resolveWebhookURL and BuildCheckers.
Buildable(document, env, path) ==
  /\ env[document.webhookEnv] = "url"
  /\ \A i \in Indices(document.checks) : ParseCheck(document.checks[i], document, path)
  /\ NamesDiffer(document.checks)

HasDeadman(document) == DOMAIN DeadmanJobs(document) # {}

\* host.Resolve: the configuration names no host and the system has no name for it.
HostUnresolved ==
  /\ Goes("watch", "resolve", "exit 1")
  /\ UNCHANGED <<inv, source, config, job, hbFile, worldVars>>

Build ==
  /\ Goes("watch", "resolve", "preflight")
  /\ Buildable(config["watch"], inv["watch"].webhook, HeartbeatPath("watch"))
  /\ hbFile' = [hbFile EXCEPT !["watch"] = HeartbeatPath("watch")]
  /\ UNCHANGED <<inv, source, config, job, worldVars>>

BuildFails ==
  /\ Goes("watch", "resolve", "exit 1")
  /\ ~Buildable(config["watch"], inv["watch"].webhook, HeartbeatPath("watch"))
  /\ UNCHANGED <<inv, source, config, job, hbFile, worldVars>>

\* PreflightHeartbeat; a file that is not there counts as empty.
Preflight ==
  /\ Goes("watch", "preflight", "up")
  /\ HasDeadman(config["watch"]) => Opens("watch") \notin damaged
  /\ UNCHANGED <<inv, source, config, job, hbFile, worldVars>>

PreflightFails ==
  /\ Goes("watch", "preflight", "exit 1")
  /\ HasDeadman(config["watch"]) /\ Opens("watch") \in damaged
  /\ UNCHANGED <<inv, source, config, job, hbFile, worldVars>>

(***************************************************************************)
(* The rest of ping.                                                        *)
(***************************************************************************)
JobGiven == IF inv["ping"].jobArgument # None THEN inv["ping"].jobArgument
                                              ELSE inv["ping"].jobEnv

OnlyJob(jobs) ==
  IF Cardinality(DOMAIN jobs) = 1 THEN jobs[CHOOSE i \in DOMAIN jobs : TRUE] ELSE None

\* pickJob; None is its error.
PickJob ==
  IF JobGiven # None THEN JobGiven
  ELSE IF config["ping"] = None THEN None
  ELSE OnlyJob(DeadmanJobs(config["ping"]))

Resolve ==
  /\ Goes("ping", "resolve", "record")
  /\ PickJob \in JobNames /\ HeartbeatPath("ping") # None
  /\ job' = PickJob
  /\ hbFile' = [hbFile EXCEPT !["ping"] = HeartbeatPath("ping")]
  /\ UNCHANGED <<inv, source, config, worldVars>>

ResolveFails ==
  /\ Goes("ping", "resolve", "exit 1")
  /\ PickJob \notin JobNames \/ HeartbeatPath("ping") = None
  /\ UNCHANGED <<inv, source, config, job, hbFile, worldVars>>

\* heartbeat.Load, Update and SaveAtomic, in detail in module Heartbeat.
Record ==
  /\ Goes("ping", "record", "done") /\ Opens("ping") \notin damaged
  /\ UNCHANGED <<inv, source, config, job, hbFile, worldVars>>

RecordFails ==
  /\ Goes("ping", "record", "exit 1")
  /\ UNCHANGED <<inv, source, config, job, hbFile, worldVars>>

(***************************************************************************)
(* The operator.                                                            *)
(***************************************************************************)
Edit(path, new) ==
  /\ edits < MaxEdits /\ edits' = edits + 1
  /\ place' = [place EXCEPT ![path] = new]
  /\ UNCHANGED <<inv, processVars, damaged>>

Damage(files) ==
  /\ edits < MaxEdits /\ edits' = edits + 1
  /\ damaged' = files
  /\ UNCHANGED <<inv, processVars, place>>

(***************************************************************************)
(* The specification.                                                       *)
(***************************************************************************)
Init ==
  /\ inv \in [Processes -> Invocations]
  /\ pc = [p \in Processes |-> "search"]
  /\ source = [p \in Processes |-> None] /\ config = [p \in Processes |-> None]
  /\ hbFile = [p \in Processes |-> None] /\ job = None
  /\ place \in [ConfigFiles -> Places]
  /\ damaged = {} /\ edits = 0

Process(p) == SearchFinds(p) \/ SearchFails(p) \/ Read(p) \/ ReadFails(p)

Watch ==
  \/ Process("watch") \/ HostUnresolved \/ Build \/ BuildFails
  \/ Preflight \/ PreflightFails

Ping ==
  Process("ping") \/ SearchMisses \/ Resolve \/ ResolveFails \/ Record \/ RecordFails

Operator ==
  \/ \E path \in ConfigFiles, new \in Places : Edit(path, new)
  \/ \E files \in SUBSET HeartbeatFiles : Damage(files)

Ended ==
  pc["watch"] \in {"up", "exit 1"} /\ pc["ping"] \in {"done", "exit 1"} /\ UNCHANGED vars

Next == Watch \/ Ping \/ Operator \/ Ended

Spec == Init /\ [][Next]_vars

(***************************************************************************)
(* Properties.                                                              *)
(***************************************************************************)
TypeOK ==
  /\ inv \in [Processes -> Invocations]
  /\ pc \in [Processes -> {"search", "read", "resolve", "preflight", "record", "up",
                          "done", "exit 1"}]
  /\ source \in [Processes -> Paths \cup {None}]
  /\ config \in [Processes -> Documents \cup {None}]
  /\ DOMAIN hbFile = Processes /\ job \in JobNames \cup {None}
  /\ place \in [ConfigFiles -> Places] /\ damaged \subseteq HeartbeatFiles
  /\ edits \in 0..MaxEdits

Absolute(path) == path.dir # "."
WatchedJobs ==
  LET jobs == DeadmanJobs(config["watch"]) IN {jobs[i] : i \in DOMAIN jobs}

\* Both processes read one configuration, by whatever path each was given, and
\* neither the flags and environments nor it name a relative heartbeat file.
SameSetting ==
  /\ source["watch"] # None /\ source["ping"] # None
  /\ From(inv["watch"].cwd, source["watch"]) = From(inv["ping"].cwd, source["ping"])
  /\ config["watch"] # None /\ config["watch"] = config["ping"]
  /\ Given("watch") = Given("ping")
  /\ Given("watch") # None => Absolute(Given("watch"))
  /\ config["watch"].heartbeatFile # None => Absolute(config["watch"].heartbeatFile)

\* A ping recorded from the configuration of a running watch reaches it: it goes to
\* the file watch reads, wherever the two were started, and a job that ping found
\* by itself is one that watch waits for (common.go: resolveHeartbeatPath; ping.go:
\* pickJob).
PingReachesWatch ==
  (pc["watch"] = "up" /\ pc["ping"] = "done" /\ SameSetting) =>
    /\ Opens("ping") = Opens("watch")
    /\ JobGiven = None => job \in WatchedJobs

\* What watch is up with can be told apart and can be pinged: no two checks have
\* one name in the alerts, none is left without an interval, and each job watch
\* waits for is one that ping accepts and that no other check waits for
\* (config.go: Validate; loader.go: BuildCheckers).
SetupIsSound ==
  pc["watch"] = "up" =>
    LET document == config["watch"]
        checks == document.checks
    IN /\ inv["watch"].webhook[document.webhookEnv] = "url"
       /\ Cardinality({NameOf(checks[i]) : i \in Indices(checks)}) = Len(checks)
       /\ \A i \in Indices(checks) : IntervalOf(checks[i], document) > 0
       /\ WatchedJobs \subseteq JobNames
       /\ Cardinality(WatchedJobs)
            = Cardinality({i \in Indices(checks) : IsDeadman(checks[i])})
=============================================================================
