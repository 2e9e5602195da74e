------------------------------ MODULE Deadman -------------------------------
(***************************************************************************)
(* The dead-man's switch of one job (internal/checker/deadman) on top of    *)
(* Heartbeat: at the start of each cycle the runner loads the heartbeat     *)
(* file into a snapshot (runner.go: refreshDeadmanSnapshot); the first      *)
(* evaluation and the confirmations compare that same snapshot with the     *)
(* clock.  watch keeps nothing on disk: when it is killed, the burst is     *)
(* gone, and it starts again only with a file it can load (runner.go:       *)
(* PreflightHeartbeat).                                                     *)
(***************************************************************************)
EXTENDS Heartbeat

CONSTANTS
  Watched,   \* the job of the check
  Within,    \* expect.within
  Checks,    \* confirm.checks
  MaxCycles, \* bound: cycles that ran to their end
  MaxKills   \* bound: how often watch is killed

ASSUME WatchAssumption ==
  /\ Watched \in Jobs
  /\ {Within, Checks, MaxCycles} \subseteq Nat \ {0} /\ MaxKills \in Nat

VARIABLES
  state,     \* where the check is: "down" (watch does not run), "asleep",
             \* "eval", "confirm" or "alert"
  snapshot,  \* what the provider returns in this cycle; nobody asks it between
             \* two cycles
  strikes,   \* failed evaluations in this cycle
  cycle,     \* cycles that ran to their end
  kills,     \* how often watch was killed
  witnessed, \* history: pings recorded when the snapshot was taken
  alerts     \* how many alerts were raised

watchVars == <<state, snapshot, strikes, cycle, kills, witnessed, alerts>>
vars == <<heartbeatVars, watchVars>>

\* Mutant: the comparison is off by one unit of time.
StaleEarly(last) == last = None \/ (last \in Nat /\ now + 1 >= last + Within)

\* Never pinged, or silent for `within` or more.
Stale(last) == last = None \/ (last \in Nat /\ now >= last + Within)

\* Mutant: the error of the provider is swallowed.
FailsIfReadable(f) == Loadable(f) /\ Stale(Load(f)[Watched])

\* Evaluate on the snapshot: an unreadable file fails too.
Fails(f) == IF Loadable(f) THEN Stale(Load(f)[Watched]) ELSE TRUE

NoFile == [state |-> "missing", jobs |-> NoEntries]

\* Mutant: the count of failures survives the cycle.
BeginCycleKeepsStrikes ==
  /\ state = "asleep" /\ cycle < MaxCycles
  /\ state' = "eval"
  /\ snapshot' = file
  /\ witnessed' = {p \in Pings : tmp[p] = "renamed"} \ lost
  /\ UNCHANGED <<strikes, cycle, kills, alerts, heartbeatVars>>

BeginCycle ==
  /\ state = "asleep" /\ cycle < MaxCycles
  /\ state' = "eval" /\ strikes' = 0
  /\ snapshot' = file
  /\ witnessed' = {p \in Pings : tmp[p] = "renamed"} \ lost
  /\ UNCHANGED <<cycle, kills, alerts, heartbeatVars>>

EvaluatePasses ==
  /\ state = "eval" /\ ~Fails(snapshot)
  /\ state' = "asleep" /\ cycle' = cycle + 1
  /\ snapshot' = NoFile /\ witnessed' = {}
  /\ UNCHANGED <<strikes, kills, alerts, heartbeatVars>>

EvaluateFails ==
  /\ state = "eval" /\ Fails(snapshot)
  /\ strikes' = strikes + 1
  /\ state' = IF strikes + 1 < Checks THEN "confirm" ELSE "alert"
  /\ UNCHANGED <<snapshot, cycle, kills, witnessed, alerts, heartbeatVars>>

\* Mutant: every evaluation reads the file again.
ConfirmReloads ==
  /\ state = "confirm"
  /\ state' = "eval" /\ snapshot' = file
  /\ UNCHANGED <<strikes, cycle, kills, witnessed, alerts, heartbeatVars>>

Confirm ==
  /\ state = "confirm"
  /\ state' = "eval"
  /\ UNCHANGED <<snapshot, strikes, cycle, kills, witnessed, alerts,
                 heartbeatVars>>

Alert ==
  /\ state = "alert"
  /\ state' = "asleep" /\ cycle' = cycle + 1 /\ alerts' = alerts + 1
  /\ snapshot' = NoFile /\ witnessed' = {}
  /\ UNCHANGED <<strikes, kills, heartbeatVars>>

\* watch ends without warning, in the middle of a burst too; whoever supervises
\* it starts it again.
WatchKilled ==
  /\ state # "down" /\ kills < MaxKills
  /\ state' = "down" /\ kills' = kills + 1
  /\ strikes' = 0 /\ snapshot' = NoFile /\ witnessed' = {}
  /\ UNCHANGED <<cycle, alerts, heartbeatVars>>

\* A start that finds the file broken exits 1 and changes nothing.
WatchStarts ==
  /\ state = "down" /\ Loadable(file)
  /\ state' = "asleep"
  /\ UNCHANGED <<snapshot, strikes, cycle, kills, witnessed, alerts,
                 heartbeatVars>>

Init ==
  /\ HeartbeatInit
  /\ state = "down" /\ snapshot = NoFile /\ strikes = 0 /\ cycle = 0 /\ kills = 0
  /\ witnessed = {} /\ alerts = 0

Watcher ==
  \/ WatchStarts
  \/ BeginCycle \/ EvaluatePasses \/ EvaluateFails \/ Confirm \/ Alert

Next == Watcher \/ WatchKilled \/ (HeartbeatNext /\ UNCHANGED watchVars)

Spec == Init /\ [][Next]_vars

\* The watcher's goroutine runs, its timers fire, and systemd (or the like)
\* starts watch again; nobody has to ping.
FairSpec == Spec /\ WF_vars(Watcher)

(***************************************************************************)
(* Properties.                                                              *)
(***************************************************************************)
TypeOK ==
  /\ HeartbeatTypeOK
  /\ state \in {"down", "asleep", "eval", "confirm", "alert"}
  /\ snapshot \in [state : FileStates, jobs : Entries]
  /\ strikes \in 0..Checks /\ cycle \in 0..MaxCycles /\ alerts \in 0..MaxCycles
  /\ kills \in 0..MaxKills
  /\ witnessed \subseteq Pings

\* A deadman cycle that began with a failure ends in an alert: the snapshot is
\* fixed and the clock only advances, so the confirmations cannot rescue it
\* (heartbeat.md: a ping during the burst does not stop the notification).
FailureIsFinal == (state \in {"eval", "confirm"} /\ strikes > 0) => Fails(snapshot)

\* An alert about a job is never raised against a ping that was recorded when
\* the cycle took its snapshot and is still fresh: every false alarm comes from
\* a ping during the burst or from an overwritten record.
NoFalseAlarm ==
  state = "alert" =>
    \A p \in witnessed : job[p] = Watched => now >= stamp[p] + Within

\* A file without a fresh ping of the job leads to an alert if no ping and no
\* edit changes that first: also when the file cannot be read, and whenever watch
\* is killed in the meantime.  The exception is a watch that was killed and cannot
\* start again because the file is broken.
Silent == IF Loadable(file)
            THEN Load(file)[Watched] = None \/ now - Load(file)[Watched] >= Within
            ELSE TRUE

Refused == state = "down" /\ ~Loadable(file)

SilenceIsReported ==
  \A n \in 0..MaxCycles :
    (Silent /\ state \in {"down", "asleep"} /\ cycle < MaxCycles /\ alerts = n)
      ~> (alerts > n \/ ~Silent \/ Refused)
=============================================================================
