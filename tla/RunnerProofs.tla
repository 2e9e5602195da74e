---------------------------- MODULE RunnerProofs ----------------------------
(***************************************************************************)
(* What holds of Runner for every set of checks, every confirm setting and  *)
(* every number of cycles.                                                  *)
(***************************************************************************)
EXTENDS Runner, Confirm, TLAPS

(***************************************************************************)
(* The configurations.                                                      *)
(***************************************************************************)
\* What a "confirm" field may hold.
RawConfirm(raw) ==
  \/ raw.shape \in {"absent", "malformed"}
  \/ raw.shape = "bool" /\ raw.value \in BOOLEAN
  \/ raw.shape = "object" /\ ("checks" \in DOMAIN raw.fields => raw.fields.checks \in Int)

\* Whatever the field holds, what Parse accepts is what ConfirmAssumption asks of
\* OneStrike and ConfirmChecks: no burst is configured with less than one
\* evaluation (confirm.go: Parse).
THEOREM ParsedConfirms ==
  ASSUME NEW raw, RawConfirm(raw), Parse(raw) # Error
  PROVE  LET c == Parse(raw)
         IN  /\ c.oneStrike \in BOOLEAN /\ c.checks \in Nat
             /\ c.oneStrike \/ c.checks >= 1
<1>1. CASE raw.shape = "absent"
  <2>1. Parse(raw) = Default
    BY <1>1 DEF Parse
  <2> QED  BY <2>1 DEF Default, DefaultChecks, Config
<1>2. CASE raw.shape = "malformed"
  <2>1. Parse(raw) = Error
    BY <1>2 DEF Parse
  <2> QED  BY <2>1
<1>3. CASE raw.shape = "bool"
  <2>1. Parse(raw) = ParseBool(raw.value)
    BY <1>3 DEF Parse
  <2>2. CASE raw.value = TRUE
    <3>1. Parse(raw) = Error
      BY <2>1, <2>2 DEF ParseBool
    <3> QED  BY <3>1
  <2>3. CASE raw.value = FALSE
    <3>1. Parse(raw) = Config(TRUE, 0, 0)
      BY <2>1, <2>3 DEF ParseBool
    <3> QED  BY <3>1 DEF Config
  <2> QED  BY <1>3, <2>2, <2>3 DEF RawConfirm
<1>4. CASE raw.shape = "object"
  <2> DEFINE checks == IF "checks" \in DOMAIN raw.fields THEN raw.fields.checks
                                                         ELSE DefaultChecks
             interval == IF "interval" \in DOMAIN raw.fields THEN raw.fields.interval
                                                             ELSE DefaultInterval
  <2>1. Parse(raw) = ParseObject(raw.fields)
    BY <1>4 DEF Parse
  <2>2. Parse(raw) = IF checks < 1 THEN Error ELSE Config(FALSE, checks, interval)
    BY <2>1 DEF ParseObject
  <2>3. checks \in Int
    BY <1>4 DEF RawConfirm, DefaultChecks
  <2> HIDE DEF checks, interval
  <2>4. checks \in Nat /\ checks >= 1 /\ Parse(raw) = Config(FALSE, checks, interval)
    <3>1. ~(checks < 1)
      BY <2>2
    <3> QED  BY <2>2, <2>3, <3>1
  <2> QED  BY <2>4 DEF Config
<1> QED  BY <1>1, <1>2, <1>3, <1>4 DEF RawConfirm

(***************************************************************************)
(* Types.                                                                   *)
(***************************************************************************)
\* A call of the notifier built from well-typed parts is a well-typed entry.
LEMMA MessageType ==
  ASSUME NEW kind \in {"startup", "alert", "panic", "shutdown"},
         NEW c \in Checks \cup {None}, NEW n \in Nat,
         NEW about \in Reasons \cup Signals \cup {None}, NEW live \in BOOLEAN
  PROVE  Message(kind, c, n, about, live) \in Messages
  BY DEF Message, Messages

\* The variables have their types at the start.
LEMMA TypeInit == Init => TypeOK
<1> SUFFICES ASSUME Init PROVE TypeOK
  OBVIOUS
<1>1. seen \in [Checks -> Seq(Verdicts)] /\ log \in Seq(Messages)
  <2>1. <<>> \in Seq(Verdicts) /\ <<>> \in Seq(Messages)
    OBVIOUS
  <2> QED  BY <2>1 DEF Init
<1>2. signals \in 0..MaxSignals
  BY BoundAssumption DEF Init
<1> QED  BY <1>1, <1>2 DEF Init, TypeOK, MainStates, CaptureStates, CheckStates

\* Every step of every goroutine keeps every variable in its type.
LEMMA TypeStep == TypeOK /\ [Next]_vars => TypeOK'
<1> SUFFICES ASSUME TypeOK, [Next]_vars PROVE TypeOK'
  OBVIOUS
<1> USE DEF TypeOK, MainStates, CaptureStates, CheckStates, Running,
            mainVars, signalVars, burstVars, ProcessUnchanged, Exits
<1>1. CASE Environment
  <2>1. CASE SignalCancelsCheck  BY <2>1 DEF SignalCancelsCheck
  <2>2. CASE SignalBeforeWatchListens  BY <2>2 DEF SignalBeforeWatchListens
  <2>3. CASE \E s \in Signals : SignalArrives(s)
    BY <2>3, BoundAssumption DEF SignalArrives
  <2> QED  BY <1>1, <2>1, <2>2, <2>3 DEF Environment
<1>2. CASE Capture
  BY <1>2 DEF Capture, CaptureStores, CaptureCancels, CaptureDone
<1>3. CASE SetupFails \/ MainGoroutine
  <2>1. CASE SetupFails  BY <2>1 DEF SetupFails
  <2>2. CASE WatchListens  BY <2>2 DEF WatchListens
  <2>3. CASE SendStartup
    <3>1. Message("startup", None, 0, None, ~cancelled) \in Messages
      BY MessageType
    <3>2. log' \in Seq(Messages)
      BY <2>3, <3>1 DEF SendStartup
    <3> QED  BY <2>3, <3>2 DEF SendStartup
  <2>4. CASE SpawnChecks  BY <2>4 DEF SpawnChecks
  <2>5. CASE JoinChecks  BY <2>5 DEF JoinChecks
  <2>6. CASE SendShutdown
    <3> DEFINE entry == Message("shutdown", None, 0, received, TRUE)
    <3>1. entry \in Messages
      BY MessageType
    <3>2. log' = Append(log, entry)
      BY <2>6 DEF SendShutdown
    <3> HIDE DEF entry
    <3>3. log' \in Seq(Messages)
      BY <3>1, <3>2
    <3> QED  BY <2>6, <3>3 DEF SendShutdown
  <2>7. CASE WatchExits  BY <2>7 DEF WatchExits
  <2> QED  BY <1>3, <2>1, <2>2, <2>3, <2>4, <2>5, <2>6, <2>7 DEF MainGoroutine
<1>4. ASSUME NEW c \in Checks, CheckGoroutine(c) PROVE TypeOK'
  <2>0. AfterCycle \in CheckStates
    BY DEF AfterCycle
  <2>1. CASE StartLoop(c) \/ WakeForCycle(c)
    <3>1. BeginCycle(c)
      BY <2>1 DEF StartLoop, WakeForCycle
    <3>2. seen' \in [Checks -> Seq(Verdicts)]
      <4>1. <<>> \in Seq(Verdicts)
        OBVIOUS
      <4> QED  BY <3>1, <4>1 DEF BeginCycle
    <3>3. cycle' \in [Checks -> Nat] /\ strikes' \in [Checks -> Nat]
      BY <3>1 DEF BeginCycle
    <3> QED  BY <3>1, <3>2, <3>3 DEF BeginCycle
  <2>2. CASE DiscardResult(c)  BY <2>2 DEF DiscardResult, CountLate
  <2>3. CASE EvaluationPasses(c)
    <3>1. Append(seen[c], Ok) \in Seq(Verdicts)
      BY DEF Verdicts
    <3> QED  BY <2>0, <2>3, <3>1 DEF EvaluationPasses, CountLate
  <2>4. ASSUME NEW r \in Reasons, EvaluationFails(c, r) PROVE TypeOK'
    <3>1. Append(seen[c], r) \in Seq(Verdicts)
      BY DEF Verdicts
    <3>2. AfterStrike(c, strikes[c] + 1) \in CheckStates
      BY DEF AfterStrike
    <3> QED  BY <2>4, <3>1, <3>2 DEF EvaluationFails, CountLate
  <2>5. CASE WakeForConfirm(c) \/ SleepCut(c)
    BY <2>5 DEF WakeForConfirm, SleepCut
  <2>6. CASE SendAlert(c)
    <3>1. Message("alert", c, cycle[c], last[c], ~cancelled) \in Messages
      BY MessageType
    <3> QED  BY <2>6, <3>1 DEF SendAlert
  <2>7. CASE AlertReturns(c)  BY <2>0, <2>7 DEF AlertReturns
  <2>8. CASE EvaluationPanics(c)  BY <2>8 DEF EvaluationPanics, CountLate
  <2>9. CASE SendPanicNotice(c)
    <3>1. Message("panic", c, cycle[c], None, ~cancelled) \in Messages
      BY MessageType
    <3> QED  BY <2>9, <3>1 DEF SendPanicNotice
  <2>10. CASE NoticeReturns(c) \/ DeferredDone(c) \/ RuntimeCrashes(c)
    BY <2>10 DEF NoticeReturns, DeferredDone, RuntimeCrashes
  <2> QED  BY <1>4, <2>1, <2>2, <2>3, <2>4, <2>5, <2>6, <2>7, <2>8, <2>9, <2>10
           DEF CheckGoroutine
<1>5. CASE Terminated \/ UNCHANGED vars
  BY <1>5 DEF Terminated, vars
<1> QED  BY <1>1, <1>2, <1>3, <1>4, <1>5 DEF Next

\* Every variable keeps its type.
THEOREM TypeCorrect == Spec => []TypeOK
<1>1. Init => TypeOK  BY TypeInit
<1>2. TypeOK /\ [Next]_vars => TypeOK'  BY TypeStep
<1> QED  BY <1>1, <1>2, PTL DEF Spec

(***************************************************************************)
(* Which steps touch which check.                                           *)
(***************************************************************************)
\* A step moves no goroutine of a check, starts them all, or moves one of them.
LEMMA StepKinds ==
  ASSUME [Next]_vars
  PROVE  \/ UNCHANGED <<pc, burstVars>>
         \/ SpawnChecks
         \/ \E c \in Checks : CheckGoroutine(c)
<1> USE DEF burstVars
<1>1. CASE Environment
  BY <1>1 DEF Environment, SignalCancelsCheck, SignalBeforeWatchListens,
              SignalArrives
<1>2. CASE Capture
  BY <1>2 DEF Capture, CaptureStores, CaptureCancels, CaptureDone
<1>3. CASE SetupFails \/ MainGoroutine
  BY <1>3 DEF MainGoroutine, SetupFails, WatchListens, SendStartup, JoinChecks,
              SendShutdown, WatchExits
<1>4. CASE Terminated \/ UNCHANGED vars
  BY <1>4 DEF Terminated, vars
<1> QED  BY <1>1, <1>2, <1>3, <1>4 DEF Next

\* A step of the goroutine of one check changes nothing that belongs to another.
LEMMA OneCheckMoves ==
  ASSUME TypeOK, NEW c \in Checks, CheckGoroutine(c), NEW d \in Checks, d # c
  PROVE  /\ pc'[d] = pc[d] /\ strikes'[d] = strikes[d] /\ last'[d] = last[d]
         /\ seen'[d] = seen[d] /\ late'[d] = late[d] /\ cycle'[d] = cycle[d]
<1> USE DEF TypeOK, burstVars, ProcessUnchanged, CountLate
<1>1. CASE StartLoop(c) \/ WakeForCycle(c)
  BY <1>1 DEF StartLoop, WakeForCycle, BeginCycle
<1>2. CASE DiscardResult(c) \/ EvaluationPasses(c) \/ EvaluationPanics(c)
  BY <1>2 DEF DiscardResult, EvaluationPasses, EvaluationPanics
<1>3. CASE \E r \in Reasons : EvaluationFails(c, r)
  BY <1>3 DEF EvaluationFails
<1>4. CASE \/ WakeForConfirm(c) \/ SleepCut(c) \/ SendAlert(c)
           \/ AlertReturns(c) \/ SendPanicNotice(c) \/ NoticeReturns(c)
           \/ DeferredDone(c) \/ RuntimeCrashes(c)
  BY <1>4 DEF WakeForConfirm, SleepCut, SendAlert, AlertReturns,
              SendPanicNotice, NoticeReturns, DeferredDone, RuntimeCrashes
<1> QED  BY <1>1, <1>2, <1>3, <1>4 DEF CheckGoroutine

(***************************************************************************)
(* Alerts are confirmed.                                                    *)
(***************************************************************************)
\* The code keeps only a counter and the latest Result; the invariant ties them
\* to the verdicts of the cycle.
BurstInv(d) ==
  /\ pc[d] \in {"eval", "confirm", "alert", "sending"} =>
       /\ Len(seen[d]) = strikes[d]
       /\ \A i \in 1..strikes[d] : seen[d][i] # Ok
       /\ strikes[d] > 0 => last[d] = seen[d][strikes[d]]
  /\ pc[d] = "eval" => strikes[d] < Needed(d)
  /\ pc[d] = "confirm" => strikes[d] > 0 /\ strikes[d] < Needed(d)
  /\ pc[d] \in {"alert", "sending"} => strikes[d] = Needed(d)

\* A confirmation needs at least one failed evaluation.
LEMMA NeededPositive ==
  ASSUME NEW c \in Checks
  PROVE  Needed(c) \in Nat /\ Needed(c) > 0
  BY ConfirmAssumption DEF Needed

\* The n-th failure raises the alert exactly when n failures are needed.
LEMMA StrikeDecides ==
  ASSUME NEW c \in Checks, NEW n \in Nat, n > 0, n <= Needed(c)
  PROVE  AfterStrike(c, n) = IF n = Needed(c) THEN "alert" ELSE "confirm"
  BY ConfirmAssumption DEF Needed, AfterStrike

\* A failed evaluation extends the run of failures by one.
LEMMA StrikeKeepsBurst ==
  ASSUME TypeOK, NEW c \in Checks, BurstInv(c),
         NEW r \in Reasons, EvaluationFails(c, r)
  PROVE  BurstInv(c)'
<1> DEFINE n == strikes[c] + 1
<1>1. pc[c] = "eval" /\ strikes[c] \in Nat /\ seen[c] \in Seq(Verdicts)
      /\ Len(seen[c]) = strikes[c] /\ strikes[c] < Needed(c)
  BY DEF EvaluationFails, BurstInv, TypeOK
<1>2. n \in Nat /\ n > 0 /\ n <= Needed(c)
  BY <1>1, NeededPositive
<1>3. strikes'[c] = n /\ last'[c] = r /\ seen'[c] = Append(seen[c], r)
  BY DEF EvaluationFails, TypeOK
<1>4. pc'[c] = IF n = Needed(c) THEN "alert" ELSE "confirm"
  <2>1. pc'[c] = AfterStrike(c, n)
    BY DEF EvaluationFails, TypeOK
  <2> QED  BY <1>2, <2>1, StrikeDecides
<1>5. r # Ok /\ r \in Verdicts
  BY NoneAssumption DEF Ok, Verdicts
<1>6. Len(seen'[c]) = n /\ seen'[c][n] = r
  BY <1>1, <1>3, <1>5
<1>7. \A i \in 1..n : seen'[c][i] # Ok
  <2> TAKE i \in 1..n
  <2>1. CASE i = n  BY <2>1, <1>5, <1>6
  <2>2. CASE i # n
    <3>1. i \in 1..strikes[c] /\ seen'[c][i] = seen[c][i]
      BY <2>2, <1>1, <1>3, <1>5
    <3> QED  BY <3>1, <1>1 DEF BurstInv
  <2> QED  BY <2>1, <2>2
<1>8. Needed(c)' = Needed(c)
  BY DEF Needed
<1> HIDE DEF n
<1> QED  BY <1>2, <1>3, <1>4, <1>6, <1>7, <1>8, NeededPositive DEF BurstInv

\* Every step keeps the invariant of every check.
LEMMA BurstStep ==
  ASSUME TypeOK, [Next]_vars, NEW d \in Checks, BurstInv(d)
  PROVE  BurstInv(d)'
<1>0. Needed(d)' = Needed(d)
  BY DEF Needed
<1>1. CASE UNCHANGED <<pc, burstVars>>
  BY <1>0, <1>1 DEF BurstInv, burstVars
<1>2. CASE SpawnChecks
  <2>1. pc'[d] = "spawned"
    BY <1>2 DEF SpawnChecks
  <2> QED  BY <2>1 DEF BurstInv
<1>3. ASSUME NEW c \in Checks, CheckGoroutine(c), c # d PROVE BurstInv(d)'
  <2>1. /\ pc'[d] = pc[d] /\ strikes'[d] = strikes[d] /\ last'[d] = last[d]
        /\ seen'[d] = seen[d]
    BY <1>3, OneCheckMoves
  <2> QED  BY <1>0, <2>1 DEF BurstInv
<1>4. CASE CheckGoroutine(d)
  <2> USE DEF TypeOK
  <2>1. CASE StartLoop(d) \/ WakeForCycle(d)
    <3>1. /\ pc'[d] = "eval" /\ strikes'[d] = 0 /\ seen'[d] = <<>>
      BY <2>1 DEF StartLoop, WakeForCycle, BeginCycle
    <3> QED  BY <1>0, <3>1, NeededPositive DEF BurstInv
  <2>2. CASE \E r \in Reasons : EvaluationFails(d, r)
    BY <2>2, StrikeKeepsBurst
  <2>3. CASE WakeForConfirm(d) \/ SendAlert(d)
    <3>1. /\ UNCHANGED burstVars
          /\ \/ pc[d] = "confirm" /\ pc'[d] = "eval"
             \/ pc[d] = "alert" /\ pc'[d] = "sending"
      BY <2>3 DEF WakeForConfirm, SendAlert
    <3> QED  BY <1>0, <3>1 DEF BurstInv, burstVars
  <2>4. CASE \/ DiscardResult(d) \/ EvaluationPasses(d) \/ SleepCut(d)
             \/ AlertReturns(d) \/ EvaluationPanics(d) \/ SendPanicNotice(d)
             \/ NoticeReturns(d) \/ DeferredDone(d)
    <3>1. pc'[d] \in {"done", "interval", "notice", "noticing", "unwinding",
                      "crashing"}
      BY <2>4 DEF DiscardResult, EvaluationPasses, SleepCut, AlertReturns,
                  AfterCycle, EvaluationPanics, SendPanicNotice, NoticeReturns,
                  DeferredDone
    <3> QED  BY <3>1 DEF BurstInv
  <2>5. CASE RuntimeCrashes(d)
    BY <1>0, <2>5 DEF RuntimeCrashes, BurstInv, burstVars
  <2> QED  BY <1>4, <2>1, <2>2, <2>3, <2>4, <2>5 DEF CheckGoroutine
<1> QED  BY <1>1, <1>2, <1>3, <1>4, StepKinds

\* For every configuration: an alert is raised only after exactly as many
\* failures in a row as confirm asks for, all of the same cycle, and it carries
\* the Result of the last of them.
THEOREM AlertsAreConfirmed == Spec => []AlertConfirmed
<1> DEFINE Inv == TypeOK /\ \A d \in Checks : BurstInv(d)
<1>1. Init => Inv
  <2> SUFFICES ASSUME Init PROVE Inv
    OBVIOUS
  <2>1. TypeOK  BY TypeInit
  <2>2. ASSUME NEW d \in Checks PROVE BurstInv(d)
    BY DEF Init, BurstInv
  <2> QED  BY <2>1, <2>2
<1>2. Inv /\ [Next]_vars => Inv'
  <2> SUFFICES ASSUME Inv, [Next]_vars PROVE Inv'
    OBVIOUS
  <2>1. TypeOK'  BY TypeStep
  <2>2. ASSUME NEW d \in Checks PROVE BurstInv(d)'
    BY BurstStep
  <2> QED  BY <2>1, <2>2
<1>3. Inv => AlertConfirmed
  <2> SUFFICES ASSUME Inv, NEW c \in Checks, pc[c] \in {"alert", "sending"}
               PROVE  /\ Len(seen[c]) = Needed(c)
                      /\ \A i \in 1..Len(seen[c]) : seen[c][i] # Ok
                      /\ last[c] = seen[c][Len(seen[c])]
    BY DEF AlertConfirmed
  <2>1. BurstInv(c) /\ strikes[c] = Needed(c) /\ Len(seen[c]) = strikes[c]
    BY DEF BurstInv
  <2> QED  BY <2>1, NeededPositive DEF BurstInv
<1> HIDE DEF Inv
<1> QED  BY <1>1, <1>2, <1>3, PTL DEF Spec

(***************************************************************************)
(* Alerts come once per cycle.                                              *)
(***************************************************************************)
\* The alerts of d belong to cycles d has begun, and to finished ones while the
\* current cycle has not reached its verdict.
OnceInv ==
  /\ AlertsOncePerCycle
  /\ \A i \in Alerts : \A d \in Checks : log[i].check = d =>
       /\ log[i].cycle <= cycle[d]
       /\ pc[d] \in {"eval", "confirm", "alert"} => log[i].cycle < cycle[d]

\* Alerts are entries of the log with a cycle number.
LEMMA AlertEntries ==
  ASSUME TypeOK
  PROVE  /\ Alerts \subseteq Nat
         /\ \A i \in Alerts : log[i] \in Messages /\ log[i].cycle \in Nat
<1>1. ASSUME NEW m \in Messages PROVE m.cycle \in Nat
  BY DEF Messages
<1>2. Alerts \subseteq 1..Len(log) /\ log \in Seq(Messages)
  BY DEF TypeOK, Alerts
<1>3. \A i \in 1..Len(log) : i \in Nat /\ log[i] \in Messages
  BY <1>2
<1> QED  BY <1>1, <1>2, <1>3

\* An entry that is not an alert leaves the alerts as they are.
LEMMA OtherEntry ==
  ASSUME TypeOK, NEW m \in Messages, m.kind # "alert", log' = Append(log, m)
  PROVE  Alerts' = Alerts /\ \A i \in Alerts : log'[i] = log[i]
  BY DEF TypeOK, Alerts

\* A step that adds no alert and does not move a check towards one keeps the
\* invariant.
LEMMA OnceKept ==
  ASSUME TypeOK, OnceInv,
         Alerts' = Alerts, \A i \in Alerts : log'[i] = log[i],
         \A d \in Checks :
           /\ cycle'[d] \in Nat /\ cycle'[d] >= cycle[d]
           /\ pc'[d] \in {"eval", "confirm", "alert"} =>
                \/ cycle'[d] > cycle[d]
                \/ pc[d] \in {"eval", "confirm", "alert"}
  PROVE  OnceInv'
<1>1. AlertsOncePerCycle'
  BY DEF OnceInv, AlertsOncePerCycle
<1>2. ASSUME NEW i \in Alerts', NEW d \in Checks, log'[i].check = d
      PROVE  /\ log'[i].cycle <= cycle'[d]
             /\ pc'[d] \in {"eval", "confirm", "alert"} =>
                  log'[i].cycle < cycle'[d]
  <2>1. /\ log[i].check = d /\ log'[i] = log[i] /\ log[i].cycle \in Nat
        /\ cycle[d] \in Nat
    BY <1>2, AlertEntries DEF TypeOK
  <2>2. /\ log[i].cycle <= cycle[d]
        /\ pc[d] \in {"eval", "confirm", "alert"} => log[i].cycle < cycle[d]
    BY <1>2, <2>1 DEF OnceInv
  <2> QED  BY <2>1, <2>2
<1> QED  BY <1>1, <1>2 DEF OnceInv

\* Every step keeps the invariant.
LEMMA OnceStep ==
  ASSUME TypeOK, OnceInv, [Next]_vars
  PROVE  OnceInv'
<1> USE DEF TypeOK
<1>1. ASSUME UNCHANGED log, UNCHANGED cycle,
             \A d \in Checks : pc'[d] \in {"eval", "confirm", "alert"} =>
               pc[d] \in {"eval", "confirm", "alert"}
      PROVE  OnceInv'
  BY <1>1, OnceKept DEF Alerts
<1>2. CASE Environment \/ Capture \/ SetupFails \/ Terminated \/ UNCHANGED vars
  <2>1. UNCHANGED <<log, cycle, pc>>
    BY <1>2 DEF Environment, SignalCancelsCheck, SignalBeforeWatchListens,
                SignalArrives, Capture, CaptureStores, CaptureCancels,
                CaptureDone, SetupFails, Terminated, vars, burstVars
  <2> QED  BY <1>1, <2>1
<1>3. CASE MainGoroutine
  <2>1. CASE WatchListens \/ SpawnChecks \/ JoinChecks \/ WatchExits
    BY <1>1, <2>1 DEF WatchListens, SpawnChecks, JoinChecks, WatchExits,
                      burstVars
  <2>2. CASE SendStartup \/ SendShutdown
    <3>1. PICK m \in Messages : m.kind # "alert" /\ log' = Append(log, m)
      <4>1. /\ Message("startup", None, 0, None, ~cancelled) \in Messages
            /\ Message("startup", None, 0, None, ~cancelled).kind = "startup"
        BY MessageType DEF Message
      <4>2. /\ Message("shutdown", None, 0, received, TRUE) \in Messages
            /\ Message("shutdown", None, 0, received, TRUE).kind = "shutdown"
        BY MessageType DEF Message
      <4> QED  BY <2>2, <4>1, <4>2 DEF SendStartup, SendShutdown
    <3>2. UNCHANGED <<pc, cycle>>
      BY <2>2 DEF SendStartup, SendShutdown, burstVars
    <3>3. Alerts' = Alerts /\ \A i \in Alerts : log'[i] = log[i]
      BY <3>1, <3>2, OtherEntry
    <3>4. \A d \in Checks :
            /\ cycle'[d] \in Nat /\ cycle'[d] >= cycle[d]
            /\ pc'[d] \in {"eval", "confirm", "alert"} =>
                 pc[d] \in {"eval", "confirm", "alert"}
      BY <3>2
    <3> QED  BY <3>3, <3>4, OnceKept
  <2> QED  BY <1>3, <2>1, <2>2 DEF MainGoroutine
<1>4. ASSUME NEW c \in Checks, CheckGoroutine(c) PROVE OnceInv'
  <2>1. CASE StartLoop(c) \/ WakeForCycle(c)
    <3>1. BeginCycle(c)
      BY <2>1 DEF StartLoop, WakeForCycle
    <3>2. Alerts' = Alerts /\ UNCHANGED log
      BY <3>1 DEF BeginCycle, Alerts
    <3>3. \A d \in Checks :
            /\ cycle'[d] \in Nat /\ cycle'[d] >= cycle[d]
            /\ pc'[d] \in {"eval", "confirm", "alert"} =>
                 cycle'[d] > cycle[d] \/ pc[d] \in {"eval", "confirm", "alert"}
      BY <3>1 DEF BeginCycle
    <3> QED  BY <3>2, <3>3, OnceKept
  <2>2. CASE SendAlert(c)
    <3> DEFINE m == Message("alert", c, cycle[c], last[c], ~cancelled)
    <3>1. m \in Messages /\ m.kind = "alert" /\ m.check = c /\ m.cycle = cycle[c]
      BY MessageType DEF Message
    <3>2. /\ pc[c] = "alert" /\ pc' = [pc EXCEPT ![c] = "sending"]
          /\ log' = Append(log, m) /\ UNCHANGED cycle
      BY <2>2 DEF SendAlert, burstVars
    <3> HIDE DEF m
    <3>3. /\ Len(log) \in Nat /\ Len(log') = Len(log) + 1
          /\ log'[Len(log) + 1] = m
          /\ \A i \in 1..Len(log) : log'[i] = log[i]
      BY <3>1, <3>2
    <3>4. Alerts' = Alerts \cup {Len(log) + 1}
      BY <3>1, <3>3 DEF Alerts
    <3>5. \A i \in Alerts : log'[i] = log[i] /\ i < Len(log) + 1 /\ i \in Nat
      BY <3>3 DEF Alerts
    <3>6. ASSUME NEW i \in Alerts, log[i].check = c PROVE log[i].cycle < cycle[c]
      BY <3>2, <3>6 DEF OnceInv
    <3>7. AlertsOncePerCycle'
      <4> SUFFICES ASSUME NEW i \in Alerts', NEW j \in Alerts', i < j,
                          log'[i].check = log'[j].check
                   PROVE  log'[i].cycle < log'[j].cycle
        BY DEF AlertsOncePerCycle
      <4>1. i \in Alerts
        BY <3>3, <3>4, <3>5
      <4>2. CASE j \in Alerts
        BY <3>5, <4>1, <4>2 DEF OnceInv, AlertsOncePerCycle
      <4>3. CASE j = Len(log) + 1
        BY <3>1, <3>3, <3>5, <3>6, <4>1, <4>3
      <4> QED  BY <3>4, <4>2, <4>3
    <3>8. ASSUME NEW i \in Alerts', NEW d \in Checks, log'[i].check = d
          PROVE  /\ log'[i].cycle <= cycle'[d]
                 /\ pc'[d] \in {"eval", "confirm", "alert"} =>
                      log'[i].cycle < cycle'[d]
      <4>1. CASE i \in Alerts
        <5>1. log[i].check = d /\ log'[i] = log[i]
          BY <3>5, <3>8, <4>1
        <5>2. /\ log[i].cycle <= cycle[d]
              /\ pc[d] \in {"eval", "confirm", "alert"} =>
                   log[i].cycle < cycle[d]
          BY <4>1, <5>1 DEF OnceInv
        <5> QED  BY <3>2, <5>1, <5>2
      <4>2. CASE i = Len(log) + 1
        <5>1. d = c /\ log'[i].cycle = cycle[c] /\ pc'[c] = "sending"
          BY <3>1, <3>2, <3>3, <3>8, <4>2
        <5> QED  BY <3>2, <5>1
      <4> QED  BY <3>4, <3>8, <4>1, <4>2
    <3> QED  BY <3>7, <3>8 DEF OnceInv
  <2>3. CASE SendPanicNotice(c)
    <3> DEFINE m == Message("panic", c, cycle[c], None, ~cancelled)
    <3>1. m \in Messages /\ m.kind # "alert"
      BY MessageType DEF Message
    <3>2. log' = Append(log, m) /\ UNCHANGED cycle
          /\ pc' = [pc EXCEPT ![c] = "noticing"]
      BY <2>3 DEF SendPanicNotice, burstVars
    <3> HIDE DEF m
    <3>3. Alerts' = Alerts /\ \A i \in Alerts : log'[i] = log[i]
      BY <3>1, <3>2, OtherEntry
    <3>4. \A d \in Checks :
            /\ cycle'[d] \in Nat /\ cycle'[d] >= cycle[d]
            /\ pc'[d] \in {"eval", "confirm", "alert"} =>
                 pc[d] \in {"eval", "confirm", "alert"}
      BY <3>2
    <3> QED  BY <3>3, <3>4, OnceKept
  <2>4. CASE \E r \in Reasons : EvaluationFails(c, r)
    BY <1>1, <2>4 DEF EvaluationFails
  <2>5. CASE \/ DiscardResult(c) \/ EvaluationPasses(c) \/ WakeForConfirm(c)
             \/ SleepCut(c) \/ AlertReturns(c) \/ EvaluationPanics(c)
             \/ NoticeReturns(c) \/ DeferredDone(c) \/ RuntimeCrashes(c)
    BY <1>1, <2>5 DEF DiscardResult, EvaluationPasses, WakeForConfirm, SleepCut,
       AlertReturns, AfterCycle, EvaluationPanics, NoticeReturns, DeferredDone,
       RuntimeCrashes, burstVars
  <2> QED  BY <1>4, <2>1, <2>2, <2>3, <2>4, <2>5 DEF CheckGoroutine
<1> QED  BY <1>2, <1>3, <1>4 DEF Next

\* For every configuration: no cycle of a check alerts twice and its alerts come
\* in the order of its cycles.
THEOREM AlertsComeOnce == Spec => []AlertsOncePerCycle
<1>1. Init => TypeOK /\ OnceInv
  <2> SUFFICES ASSUME Init PROVE TypeOK /\ OnceInv
    OBVIOUS
  <2>1. Alerts = {}
    BY DEF Init, Alerts
  <2> QED  BY <2>1, TypeInit DEF OnceInv, AlertsOncePerCycle
<1>2. TypeOK /\ OnceInv /\ [Next]_vars => (TypeOK /\ OnceInv)'
  BY TypeStep, OnceStep
<1>3. OnceInv => AlertsOncePerCycle
  BY DEF OnceInv
<1> QED  BY <1>1, <1>2, <1>3, PTL DEF Spec

(***************************************************************************)
(* The announcements frame the evaluation.                                  *)
(***************************************************************************)
\* Where the main goroutine, the capturing goroutine and the checks can be
\* together.
PhaseInv ==
  /\ (main = "gone") = (exit # None)
  /\ main \in {"setup", "armed", "startup"} => \A c \in Checks : pc[c] = "unborn"
  /\ main \in {"armed", "startup", "join", "shutdown"} => Mode = "watch"
  /\ main \in {"join", "shutdown"} => WaitGroupDone
  /\ capture \in {"got", "cancelled", "done"} => received \in Signals

Opened == main \in {"startup", "loop", "join", "shutdown"} /\ Mode = "watch"

\* What the log looks like, given where the main goroutine is.
LogInv ==
  /\ main \in {"setup", "armed"} => log = <<>>
  /\ Opened => Len(log) > 0
  /\ \A i \in 1..Len(log) : (log[i].kind = "startup") = (Mode = "watch" /\ i = 1)
  /\ \A i \in 1..Len(log) : log[i].kind = "shutdown" =>
       /\ main \in {"shutdown", "gone"} /\ i = Len(log)
       /\ log[i].about \in Signals /\ log[i].live /\ WaitGroupDone

\* A goroutine that is finished does nothing but let the runtime crash; one
\* that is not yet started does nothing at all.
LEMMA FinishedStays ==
  ASSUME NEW c \in Checks, CheckGoroutine(c)
  PROVE  \/ RuntimeCrashes(c)
         \/ Running /\ pc[c] \notin {"unborn", "done", "crashing"}
  BY DEF CheckGoroutine, StartLoop, DiscardResult, EvaluationPasses,
         EvaluationFails, WakeForConfirm, WakeForCycle, SleepCut, SendAlert,
         AlertReturns, EvaluationPanics, SendPanicNotice, NoticeReturns,
         DeferredDone

\* Only a crash takes the main goroutine away from where a check found it.
LEMMA CheckLeavesMain ==
  ASSUME NEW c \in Checks, CheckGoroutine(c), ~RuntimeCrashes(c)
  PROVE  UNCHANGED <<mainVars, signalVars>>
  BY DEF CheckGoroutine, StartLoop, DiscardResult, EvaluationPasses,
         EvaluationFails, WakeForConfirm, WakeForCycle, BeginCycle, SleepCut,
         SendAlert, AlertReturns, EvaluationPanics, SendPanicNotice,
         NoticeReturns, DeferredDone, ProcessUnchanged

\* Every step keeps the phases together.
LEMMA PhaseStep ==
  ASSUME TypeOK, PhaseInv, [Next]_vars
  PROVE  PhaseInv'
<1> USE NoneAssumption DEF PhaseInv, Running, Exits
<1>1. CASE Environment
  BY <1>1 DEF Environment, SignalCancelsCheck, SignalBeforeWatchListens,
              SignalArrives, mainVars, WaitGroupDone
<1>2. CASE Capture
  BY <1>2 DEF Capture, CaptureStores, CaptureCancels, CaptureDone, mainVars,
              WaitGroupDone, TypeOK
<1>3. CASE SetupFails
  BY <1>3 DEF SetupFails, signalVars
<1>4. CASE MainGoroutine
  <2>1. CASE WatchListens \/ SendStartup
    BY <2>1 DEF WatchListens, SendStartup, signalVars
  <2>2. CASE SpawnChecks
    BY <2>2 DEF SpawnChecks, signalVars
  <2>3. CASE JoinChecks
    BY <2>3 DEF JoinChecks, signalVars, WaitGroupDone
  <2>4. CASE SendShutdown \/ WatchExits
    BY <2>4 DEF SendShutdown, WatchExits, signalVars, WaitGroupDone
  <2> QED  BY <1>4, <2>1, <2>2, <2>3, <2>4 DEF MainGoroutine
<1>5. ASSUME NEW c \in Checks, CheckGoroutine(c) PROVE PhaseInv'
  <2>1. CASE RuntimeCrashes(c)
    BY <2>1 DEF RuntimeCrashes, signalVars
  <2>2. CASE ~RuntimeCrashes(c)
    <3>1. UNCHANGED <<mainVars, signalVars>>
      BY <1>5, <2>2, CheckLeavesMain
    <3>2. main \notin {"setup", "armed", "startup", "join", "shutdown"}
      BY <1>5, <2>2, FinishedStays DEF WaitGroupDone
    <3> QED  BY <3>1, <3>2 DEF mainVars, signalVars
  <2> QED  BY <2>1, <2>2
<1>6. CASE Terminated \/ UNCHANGED vars
  BY <1>6 DEF Terminated, vars, mainVars, signalVars, WaitGroupDone
<1> QED  BY <1>1, <1>2, <1>3, <1>4, <1>5, <1>6 DEF Next

\* A step that leaves the log alone and does not bring the main goroutine back
\* or wake a finished check keeps the log in order.
LEMMA LogKept ==
  ASSUME LogInv, UNCHANGED log,
         main' \in {"setup", "armed"} => main \in {"setup", "armed"},
         Opened' => Opened,
         main \in {"shutdown", "gone"} =>
           main' \in {"shutdown", "gone"} /\ (WaitGroupDone => WaitGroupDone')
  PROVE  LogInv'
  BY DEF LogInv

\* An alert or a panic notice of a check that still runs keeps the log in order.
LEMMA LogGrows ==
  ASSUME TypeOK, LogInv, PhaseInv, UNCHANGED main, NEW m \in Messages,
         m.kind \in {"alert", "panic"}, log' = Append(log, m),
         NEW c \in Checks, Running, pc[c] \notin {"unborn", "done", "crashing"}
  PROVE  LogInv'
<1>1. /\ Len(log) \in Nat /\ Len(log') = Len(log) + 1
      /\ log'[Len(log) + 1] = m
      /\ \A i \in 1..Len(log) : log'[i] = log[i]
  BY DEF TypeOK
<1>2. main = "loop"
  BY DEF PhaseInv, WaitGroupDone, TypeOK, MainStates, Running
<1>3. Mode = "watch" => Len(log) > 0
  BY <1>2 DEF LogInv, Opened
<1>4. \A i \in 1..Len(log) : log[i].kind # "shutdown"
  BY <1>2 DEF LogInv
<1>5. \A i \in 1..Len(log') :
        (log'[i].kind = "startup") = (Mode = "watch" /\ i = 1)
  <2> TAKE i \in 1..Len(log')
  <2>1. CASE i \in 1..Len(log)
    BY <1>1, <2>1 DEF LogInv
  <2>2. CASE i = Len(log) + 1
    BY <1>1, <1>3, <2>2
  <2> QED  BY <1>1, <2>1, <2>2
<1>6. \A i \in 1..Len(log') : log'[i].kind # "shutdown"
  <2> TAKE i \in 1..Len(log')
  <2>1. CASE i \in 1..Len(log)
    BY <1>1, <1>4, <2>1
  <2>2. CASE i = Len(log) + 1
    BY <1>1, <2>2
  <2> QED  BY <1>1, <2>1, <2>2
<1> QED  BY <1>1, <1>2, <1>5, <1>6 DEF LogInv

\* Every step keeps the log in order.
LEMMA LogStep ==
  ASSUME TypeOK, PhaseInv, LogInv, [Next]_vars
  PROVE  LogInv'
<1>1. CASE Environment \/ Capture \/ Terminated \/ UNCHANGED vars
  <2>1. UNCHANGED <<log, main, pc>>
    BY <1>1 DEF Environment, SignalCancelsCheck, SignalBeforeWatchListens,
                SignalArrives, Capture, CaptureStores, CaptureCancels,
                CaptureDone, Terminated, vars, mainVars
  <2> QED  BY <2>1, LogKept DEF Opened, WaitGroupDone
<1>2. CASE SetupFails
  BY <1>2, LogKept DEF SetupFails, Exits, Opened
<1>3. CASE MainGoroutine
  <2>1. CASE WatchListens
    BY <2>1, LogKept DEF WatchListens, Opened
  <2>2. CASE SendStartup
    <3> DEFINE m == Message("startup", None, 0, None, ~cancelled)
    <3>1. m \in Messages /\ m.kind = "startup"
      BY MessageType DEF Message
    <3>2. /\ log = <<>> /\ log' = Append(log, m) /\ Mode = "watch"
          /\ main' = "startup"
      BY <2>2 DEF SendStartup, LogInv, PhaseInv
    <3> HIDE DEF m
    <3>3. Len(log') = 1 /\ log'[1].kind = "startup"
      BY <3>1, <3>2
    <3> QED  BY <3>2, <3>3 DEF LogInv
  <2>3. CASE SpawnChecks
    <3>1. UNCHANGED log /\ main' = "loop" /\ main \in {"startup", "setup"}
          /\ (Opened' => Opened)
      BY <2>3 DEF SpawnChecks, Opened
    <3> QED  BY <3>1, LogKept
  <2>4. CASE JoinChecks
    <3>1. UNCHANGED log /\ main = "loop" /\ main' \in {"join", "gone"}
      BY <2>4 DEF JoinChecks, Exits
    <3> QED  BY <3>1, LogKept DEF Opened
  <2>5. CASE SendShutdown
    <3> DEFINE m == Message("shutdown", None, 0, received, TRUE)
    <3>1. m \in Messages /\ m.kind = "shutdown" /\ m.about = received /\ m.live
      <4>1. received \in Reasons \cup Signals \cup {None}
        BY DEF TypeOK
      <4> QED  BY <4>1, MessageType DEF Message
    <3>2. /\ log' = Append(log, m) /\ main = "join" /\ main' = "shutdown"
          /\ received \in Signals /\ Mode = "watch" /\ WaitGroupDone
          /\ UNCHANGED pc
      BY <2>5 DEF SendShutdown, PhaseInv
    <3> HIDE DEF m
    <3>3. /\ Len(log) \in Nat /\ Len(log') = Len(log) + 1
          /\ log'[Len(log) + 1] = m
          /\ \A i \in 1..Len(log) : log'[i] = log[i]
      BY <3>1, <3>2 DEF TypeOK
    <3>4. Len(log) > 0 /\ \A i \in 1..Len(log) : log[i].kind # "shutdown"
      BY <3>2 DEF LogInv, Opened
    <3>5. ASSUME NEW i \in 1..Len(log')
          PROVE  /\ (log'[i].kind = "startup") = (Mode = "watch" /\ i = 1)
                 /\ log'[i].kind = "shutdown" =>
                      i = Len(log') /\ log'[i].about \in Signals /\ log'[i].live
      <4>1. CASE i \in 1..Len(log)
        BY <3>3, <3>4, <4>1 DEF LogInv
      <4>2. CASE i = Len(log) + 1
        BY <3>1, <3>2, <3>3, <3>4, <4>2
      <4> QED  BY <3>3, <4>1, <4>2
    <3>6. WaitGroupDone'
      BY <3>2 DEF WaitGroupDone
    <3> QED  BY <3>2, <3>3, <3>5, <3>6 DEF LogInv
  <2>6. CASE WatchExits
    BY <2>6, LogKept DEF WatchExits, Exits, Opened, WaitGroupDone
  <2> QED  BY <1>3, <2>1, <2>2, <2>3, <2>4, <2>5, <2>6 DEF MainGoroutine
<1>4. ASSUME NEW c \in Checks, CheckGoroutine(c) PROVE LogInv'
  <2>1. CASE RuntimeCrashes(c)
    BY <2>1, LogKept DEF RuntimeCrashes, Exits, Opened, WaitGroupDone
  <2>2. CASE ~RuntimeCrashes(c)
    <3>1. Running /\ pc[c] \notin {"unborn", "done", "crashing"}
      BY <1>4, <2>2, FinishedStays
    <3>2. UNCHANGED main
      BY <1>4, <2>2, CheckLeavesMain DEF mainVars
    <3>3. CASE SendAlert(c) \/ SendPanicNotice(c)
      <4>1. PICK m \in Messages :
              m.kind \in {"alert", "panic"} /\ log' = Append(log, m)
        <5>1. /\ Message("alert", c, cycle[c], last[c], ~cancelled) \in Messages
              /\ Message("alert", c, cycle[c], last[c], ~cancelled).kind = "alert"
          BY MessageType DEF Message, TypeOK
        <5>2. /\ Message("panic", c, cycle[c], None, ~cancelled) \in Messages
              /\ Message("panic", c, cycle[c], None, ~cancelled).kind = "panic"
          BY MessageType DEF Message, TypeOK
        <5> QED  BY <3>3, <5>1, <5>2 DEF SendAlert, SendPanicNotice
      <4> QED  BY <3>1, <3>2, <4>1, LogGrows
    <3>4. CASE ~SendAlert(c) /\ ~SendPanicNotice(c)
      <4>1. UNCHANGED log
        BY <1>4, <2>2, <3>4 DEF CheckGoroutine, StartLoop, DiscardResult,
           EvaluationPasses, EvaluationFails, WakeForConfirm, WakeForCycle,
           BeginCycle, SleepCut, AlertReturns, EvaluationPanics, NoticeReturns,
           DeferredDone
      <4>2. main = "loop"
        BY <3>1 DEF PhaseInv, WaitGroupDone, TypeOK, MainStates, Running
      <4> QED  BY <3>2, <4>1, <4>2, LogKept DEF Opened
    <3> QED  BY <3>3, <3>4
  <2> QED  BY <2>1, <2>2
<1> QED  BY <1>1, <1>2, <1>3, <1>4 DEF Next

\* For every configuration: watch announces its start before everything else,
\* and announces its stop, naming the signal, only when no check goroutine runs
\* any more and as the last thing it says.
THEOREM AnnouncementsFrame == Spec => []OrderlyAnnouncements
<1>1. Init => TypeOK /\ PhaseInv /\ LogInv
  BY TypeInit DEF Init, PhaseInv, LogInv, Opened
<1>2. TypeOK /\ PhaseInv /\ LogInv /\ [Next]_vars
        => (TypeOK /\ PhaseInv /\ LogInv)'
  BY TypeStep, PhaseStep, LogStep
<1>3. LogInv => OrderlyAnnouncements
  BY DEF LogInv, OrderlyAnnouncements, WaitGroupDone
<1> QED  BY <1>1, <1>2, <1>3, PTL DEF Spec

(***************************************************************************)
(* Nothing is reported of an evaluation that ended after the cancellation.  *)
(***************************************************************************)
LateInv(d) ==
  /\ late[d] <= 1
  /\ late[d] # 0 =>
       pc[d] \in {"done", "notice", "noticing", "unwinding", "crashing"}

\* Every step keeps the invariant of every check.
LEMMA LateStep ==
  ASSUME TypeOK, PhaseInv, [Next]_vars, NEW d \in Checks, LateInv(d)
  PROVE  LateInv(d)'
<1> USE DEF TypeOK
<1>1. CASE UNCHANGED <<pc, burstVars>>
  BY <1>1 DEF LateInv, burstVars
<1>2. CASE SpawnChecks
  <2>1. pc[d] = "unborn" /\ UNCHANGED late
    BY <1>2 DEF SpawnChecks, PhaseInv, burstVars
  <2> QED  BY <2>1 DEF LateInv
<1>3. ASSUME NEW c \in Checks, CheckGoroutine(c), c # d PROVE LateInv(d)'
  <2>1. pc'[d] = pc[d] /\ late'[d] = late[d]
    BY <1>3, OneCheckMoves
  <2> QED  BY <2>1 DEF LateInv
<1>4. CASE CheckGoroutine(d)
  <2>1. CASE DiscardResult(d) \/ EvaluationPanics(d)
    <3>1. /\ pc[d] = "eval" /\ pc'[d] \in {"done", "notice"}
          /\ late'[d] \in {late[d], late[d] + 1}
      BY <2>1 DEF DiscardResult, EvaluationPanics, CountLate
    <3>2. late[d] = 0
      BY <3>1 DEF LateInv
    <3> QED  BY <3>1, <3>2 DEF LateInv
  <2>2. CASE EvaluationPasses(d) \/ \E r \in Reasons : EvaluationFails(d, r)
    <3>1. pc[d] = "eval" /\ UNCHANGED late
      BY <2>2 DEF EvaluationPasses, EvaluationFails, CountLate
    <3> QED  BY <3>1 DEF LateInv
  <2>3. CASE \/ StartLoop(d) \/ WakeForCycle(d) \/ WakeForConfirm(d)
             \/ SleepCut(d) \/ SendAlert(d) \/ AlertReturns(d)
    <3>1. /\ pc[d] \notin {"done", "notice", "noticing", "unwinding", "crashing"}
          /\ UNCHANGED late
      BY <2>3 DEF StartLoop, WakeForCycle, BeginCycle, WakeForConfirm, SleepCut,
                  SendAlert, AlertReturns, burstVars
    <3> QED  BY <3>1 DEF LateInv
  <2>4. CASE \/ SendPanicNotice(d) \/ NoticeReturns(d) \/ DeferredDone(d)
             \/ RuntimeCrashes(d)
    <3>1. /\ UNCHANGED late
          /\ pc'[d] \in {"noticing", "unwinding", "crashing"}
      BY <2>4 DEF SendPanicNotice, NoticeReturns, DeferredDone, RuntimeCrashes,
                  burstVars
    <3> QED  BY <3>1 DEF LateInv
  <2> QED  BY <1>4, <2>1, <2>2, <2>3, <2>4 DEF CheckGoroutine
<1> QED  BY <1>1, <1>2, <1>3, <1>4, StepKinds

\* For every configuration: after the cancellation a check ends at most one
\* more evaluation, and that one never leads to an alert.
THEOREM LateResultsDiscarded == Spec => []DiscardedAfterCancel
<1> DEFINE Inv == TypeOK /\ PhaseInv /\ \A d \in Checks : LateInv(d)
<1>1. Init => Inv
  <2> SUFFICES ASSUME Init PROVE Inv
    OBVIOUS
  <2>1. TypeOK /\ PhaseInv
    BY TypeInit DEF Init, PhaseInv
  <2>2. ASSUME NEW d \in Checks PROVE LateInv(d)
    BY DEF Init, LateInv
  <2> QED  BY <2>1, <2>2
<1>2. Inv /\ [Next]_vars => Inv'
  <2> SUFFICES ASSUME Inv, [Next]_vars PROVE Inv'
    OBVIOUS
  <2>1. TypeOK' /\ PhaseInv'  BY TypeStep, PhaseStep
  <2>2. ASSUME NEW d \in Checks PROVE LateInv(d)'
    BY LateStep
  <2> QED  BY <2>1, <2>2
<1>3. Inv => DiscardedAfterCancel
  BY DEF LateInv, DiscardedAfterCancel
<1> HIDE DEF Inv
<1> QED  BY <1>1, <1>2, <1>3, PTL DEF Spec

(***************************************************************************)
(* What was handed to the notifier stays handed over.                       *)
(***************************************************************************)
\* The panic notice of d is in the log.
Announced(d) ==
  \E i \in 1..Len(log) : log[i].kind = "panic" /\ log[i].check = d

\* So is the alert of its current cycle, with its latest Result.
Alerted(d) ==
  \E i \in 1..Len(log) :
    /\ log[i].kind = "alert" /\ log[i].check = d
    /\ log[i].cycle = cycle[d] /\ log[i].about = last[d]

\* d has its verdict: it passed, or its outage is in the log.
Judged(d) ==
  /\ seen[d] # <<>>
  /\ \/ seen[d][Len(seen[d])] = Ok
     \/ \E i \in 1..Len(log) : /\ log[i].kind = "alert" /\ log[i].check = d
                               /\ log[i].about = seen[d][Len(seen[d])]

\* The log only grows.
LEMMA LogExtends ==
  ASSUME TypeOK, [Next]_vars
  PROVE  /\ Len(log) \in Nat
         /\ \A i \in 1..Len(log) : i \in 1..Len(log') /\ log'[i] = log[i]
<1>1. UNCHANGED log \/ \E m \in Messages : log' = Append(log, m)
  <2>1. CASE Environment \/ Capture \/ SetupFails \/ Terminated \/ UNCHANGED vars
    BY <2>1 DEF Environment, SignalCancelsCheck, SignalBeforeWatchListens,
                SignalArrives, Capture, CaptureStores, CaptureCancels,
                CaptureDone, SetupFails, Terminated, vars
  <2>2. CASE MainGoroutine
    <3>1. /\ Message("startup", None, 0, None, ~cancelled) \in Messages
          /\ Message("shutdown", None, 0, received, TRUE) \in Messages
      BY MessageType DEF TypeOK
    <3> QED  BY <2>2, <3>1 DEF MainGoroutine, WatchListens, SendStartup,
                SpawnChecks, JoinChecks, SendShutdown, WatchExits
  <2>3. ASSUME NEW c \in Checks, CheckGoroutine(c)
        PROVE  UNCHANGED log \/ \E m \in Messages : log' = Append(log, m)
    <3>1. /\ Message("alert", c, cycle[c], last[c], ~cancelled) \in Messages
          /\ Message("panic", c, cycle[c], None, ~cancelled) \in Messages
      BY MessageType DEF TypeOK
    <3> QED  BY <2>3, <3>1 DEF CheckGoroutine, StartLoop, DiscardResult,
                EvaluationPasses, EvaluationFails, WakeForConfirm, WakeForCycle,
                BeginCycle, SleepCut, SendAlert, AlertReturns, EvaluationPanics,
                SendPanicNotice, NoticeReturns, DeferredDone, RuntimeCrashes
  <2> QED  BY <2>1, <2>2, <2>3 DEF Next
<1>2. log \in Seq(Messages)
  BY DEF TypeOK
<1> QED  BY <1>1, <1>2

\* Hence what is said of a check stays said while its cycle is the same.
LEMMA SaidStays ==
  ASSUME TypeOK, [Next]_vars, NEW d \in Checks
  PROVE  /\ Announced(d) => Announced(d)'
         /\ Alerted(d) /\ cycle'[d] = cycle[d] /\ last'[d] = last[d]
              => Alerted(d)'
         /\ Judged(d) /\ seen'[d] = seen[d] => Judged(d)'
<1>1. \A i \in 1..Len(log) : i \in 1..Len(log') /\ log'[i] = log[i]
  BY LogExtends
<1>2. ASSUME Announced(d) PROVE Announced(d)'
  BY <1>1, <1>2 DEF Announced
<1>3. ASSUME Alerted(d), cycle'[d] = cycle[d], last'[d] = last[d]
      PROVE  Alerted(d)'
  BY <1>1, <1>3 DEF Alerted
<1>4. ASSUME Judged(d), seen'[d] = seen[d] PROVE Judged(d)'
  <2>1. CASE seen[d][Len(seen[d])] = Ok
    BY <1>4, <2>1 DEF Judged
  <2>2. CASE seen[d][Len(seen[d])] # Ok
    BY <1>1, <1>4, <2>2 DEF Judged
  <2> QED  BY <2>1, <2>2
<1> QED  BY <1>2, <1>3, <1>4

\* A process that is gone does nothing any more.
LEMMA GoneStays ==
  ASSUME ~Running, [Next]_vars
  PROVE  UNCHANGED vars
<1>1. CASE Environment \/ Capture \/ SetupFails \/ MainGoroutine
  BY <1>1 DEF Environment, SignalCancelsCheck, SignalBeforeWatchListens,
              SignalArrives, Capture, CaptureStores, CaptureCancels, CaptureDone,
              SetupFails, MainGoroutine, WatchListens, SendStartup, SpawnChecks,
              JoinChecks, SendShutdown, WatchExits
<1>2. ASSUME NEW c \in Checks, CheckGoroutine(c) PROVE FALSE
  BY <1>2, FinishedStays DEF RuntimeCrashes
<1> QED  BY <1>1, <1>2 DEF Next, Terminated

(***************************************************************************)
(* A crash is announced.                                                    *)
(***************************************************************************)
\* A check past its notice has sent it; only a check that is crashing ends the
\* process with status 2.
CrashInv ==
  /\ \A d \in Checks :
       pc[d] \in {"noticing", "unwinding", "crashing"} => Announced(d)
  /\ exit = 2 => \E d \in Checks : pc[d] = "crashing"

\* Every step keeps the invariant.
LEMMA CrashStep ==
  ASSUME TypeOK, PhaseInv, CrashInv, [Next]_vars
  PROVE  CrashInv'
<1>1. ASSUME NEW d \in Checks, pc'[d] \in {"noticing", "unwinding", "crashing"}
      PROVE  Announced(d)'
  <2>1. CASE pc[d] \in {"noticing", "unwinding", "crashing"}
    BY <2>1, SaidStays DEF CrashInv
  <2>2. CASE pc[d] \notin {"noticing", "unwinding", "crashing"}
    <3>1. PICK c \in Checks : CheckGoroutine(c)
      <4>1. CASE UNCHANGED <<pc, burstVars>>
        BY <1>1, <2>2, <4>1
      <4>2. CASE SpawnChecks
        BY <1>1, <4>2 DEF SpawnChecks
      <4> QED  BY <4>1, <4>2, StepKinds
    <3>2. c = d
      BY <1>1, <2>2, <3>1, OneCheckMoves
    <3>3. SendPanicNotice(d)
      BY <1>1, <2>2, <3>1, <3>2 DEF CheckGoroutine, StartLoop, DiscardResult,
         EvaluationPasses, EvaluationFails, AfterStrike, WakeForConfirm,
         WakeForCycle, BeginCycle, SleepCut, SendAlert, AlertReturns, AfterCycle,
         EvaluationPanics, NoticeReturns, DeferredDone, RuntimeCrashes, TypeOK
    <3> DEFINE m == Message("panic", d, cycle[d], None, ~cancelled)
    <3>4. m \in Messages /\ m.kind = "panic" /\ m.check = d
      BY MessageType DEF Message, TypeOK
    <3>5. log' = Append(log, m) /\ log \in Seq(Messages)
      BY <3>3 DEF SendPanicNotice, TypeOK
    <3> HIDE DEF m
    <3>6. Len(log') \in 1..Len(log') /\ log'[Len(log')] = m
      BY <3>4, <3>5
    <3> QED  BY <3>4, <3>6 DEF Announced
  <2> QED  BY <2>1, <2>2
<1>2. ASSUME exit' = 2 PROVE \E d \in Checks : pc'[d] = "crashing"
  <2>1. CASE ~Running
    BY <1>2, <2>1, GoneStays DEF CrashInv, vars, mainVars
  <2>2. CASE Running
    <3>1. exit # 2
      BY <2>2, NoneAssumption DEF Running
    <3>2. CASE \/ Environment \/ Capture \/ SetupFails \/ MainGoroutine
               \/ Terminated \/ UNCHANGED vars
      <4>1. CASE Environment \/ Capture \/ Terminated \/ UNCHANGED vars
        <5>1. UNCHANGED exit
          BY <4>1 DEF Environment, SignalCancelsCheck, SignalBeforeWatchListens,
             SignalArrives, Capture, CaptureStores, CaptureCancels, CaptureDone,
             Terminated, vars, mainVars
        <5> QED  BY <1>2, <3>1, <5>1
      <4>2. CASE SetupFails \/ MainGoroutine
        <5>1. UNCHANGED exit \/ exit' = 0 \/ exit' = 1
          BY <4>2 DEF SetupFails, MainGoroutine, WatchListens, SendStartup,
             SpawnChecks, JoinChecks, SendShutdown, WatchExits, Exits
        <5> QED  BY <1>2, <3>1, <5>1
      <4> QED  BY <3>2, <4>1, <4>2
    <3>3. ASSUME NEW c \in Checks, CheckGoroutine(c)
          PROVE  \E d \in Checks : pc'[d] = "crashing"
      <4>1. RuntimeCrashes(c)
        BY <1>2, <3>1, <3>3, CheckLeavesMain DEF mainVars
      <4> QED  BY <4>1 DEF RuntimeCrashes
    <3> QED  BY <3>2, <3>3 DEF Next
  <2> QED  BY <2>1, <2>2
<1> QED  BY <1>1, <1>2 DEF CrashInv

\* For every configuration: the process dies with status 2 only of a panic whose
\* notice was handed to the notifier, and never while the sender waits
\* (lifecycle.go: GuardPanic).
THEOREM CrashesAnnounced == Spec => []CrashIsAnnounced
<1>1. Init => TypeOK /\ PhaseInv /\ CrashInv
  BY TypeInit, NoneAssumption DEF Init, PhaseInv, CrashInv
<1>2. TypeOK /\ PhaseInv /\ CrashInv /\ [Next]_vars
        => (TypeOK /\ PhaseInv /\ CrashInv)'
  BY TypeStep, PhaseStep, CrashStep
<1>3. CrashInv => CrashIsAnnounced
  BY DEF CrashInv, CrashIsAnnounced, Announced
<1> QED  BY <1>1, <1>2, <1>3, PTL DEF Spec

(***************************************************************************)
(* No verdict is lost.                                                      *)
(***************************************************************************)
\* A check whose alert is being delivered has it in the log.
SentInv(d) == pc[d] = "sending" => Alerted(d)

\* Every step keeps the invariant of every check.
LEMMA SentStep ==
  ASSUME TypeOK, [Next]_vars, NEW d \in Checks, SentInv(d)
  PROVE  SentInv(d)'
<1> SUFFICES ASSUME pc'[d] = "sending" PROVE Alerted(d)'
  BY DEF SentInv
<1>1. CASE UNCHANGED <<pc, burstVars>>
  BY <1>1, SaidStays DEF SentInv, burstVars
<1>2. CASE SpawnChecks
  BY <1>2 DEF SpawnChecks
<1>3. ASSUME NEW c \in Checks, CheckGoroutine(c), c # d PROVE Alerted(d)'
  BY <1>3, OneCheckMoves, SaidStays DEF SentInv
<1>4. CASE CheckGoroutine(d)
  <2>1. SendAlert(d) \/ RuntimeCrashes(d)
    BY <1>4 DEF CheckGoroutine, StartLoop, DiscardResult, EvaluationPasses,
       EvaluationFails, AfterStrike, WakeForConfirm, WakeForCycle, BeginCycle,
       SleepCut, AlertReturns, AfterCycle, EvaluationPanics, SendPanicNotice,
       NoticeReturns, DeferredDone, TypeOK
  <2>2. CASE SendAlert(d)
    <3> DEFINE m == Message("alert", d, cycle[d], last[d], ~cancelled)
    <3>1. /\ m \in Messages /\ m.kind = "alert" /\ m.check = d
          /\ m.cycle = cycle[d] /\ m.about = last[d]
      BY MessageType DEF Message, TypeOK
    <3>2. /\ log' = Append(log, m) /\ log \in Seq(Messages)
          /\ cycle'[d] = cycle[d] /\ last'[d] = last[d]
      BY <2>2 DEF SendAlert, TypeOK, burstVars
    <3> HIDE DEF m
    <3>3. Len(log') \in 1..Len(log') /\ log'[Len(log')] = m
      BY <3>1, <3>2
    <3> QED  BY <3>1, <3>2, <3>3 DEF Alerted
  <2>3. CASE RuntimeCrashes(d)
    BY <2>3 DEF RuntimeCrashes
  <2> QED  BY <2>1, <2>2, <2>3
<1> QED  BY <1>1, <1>2, <1>3, <1>4, StepKinds

\* A delivered alert carries the last verdict of its cycle.
LEMMA SentIsJudged ==
  ASSUME TypeOK, NEW d \in Checks, BurstInv(d), SentInv(d), pc[d] = "sending"
  PROVE  Judged(d) /\ Alerted(d)
<1>1. Alerted(d) /\ strikes[d] = Needed(d) /\ Len(seen[d]) = strikes[d]
  BY DEF SentInv, BurstInv
<1>2. strikes[d] \in Nat /\ strikes[d] > 0
  BY <1>1, NeededPositive
<1>3. last[d] = seen[d][Len(seen[d])]
  BY <1>1, <1>2 DEF BurstInv
<1>4. seen[d] # <<>>
  BY <1>1, <1>2
<1> QED  BY <1>1, <1>3, <1>4 DEF Judged, Alerted

\* A cycle ends without the cancellation only with a verdict: its last
\* evaluation passed or its alert is in the log.
LEMMA CycleEnds ==
  ASSUME TypeOK, [Next]_vars, NEW d \in Checks, BurstInv(d), SentInv(d),
         pc[d] \notin {"interval", "done"}, pc'[d] \in {"interval", "done"},
         ~cancelled'
  PROVE  /\ Judged(d)'
         /\ \/ seen'[d] # <<>> /\ seen'[d][Len(seen'[d])] = Ok
            \/ Alerted(d)' /\ UNCHANGED cycle
<1>1. CheckGoroutine(d)
  <2>1. CASE UNCHANGED <<pc, burstVars>>
    BY <2>1
  <2>2. CASE SpawnChecks
    BY <2>2 DEF SpawnChecks
  <2>3. ASSUME NEW c \in Checks, CheckGoroutine(c) PROVE CheckGoroutine(d)
    BY <2>3, OneCheckMoves
  <2> QED  BY <2>1, <2>2, <2>3, StepKinds
<1>2. \/ EvaluationPasses(d) \/ AlertReturns(d)
      \/ (DiscardResult(d) \/ SleepCut(d)) /\ UNCHANGED cancelled
  BY <1>1 DEF CheckGoroutine, StartLoop, DiscardResult, EvaluationFails,
     AfterStrike, WakeForConfirm, WakeForCycle, BeginCycle, SleepCut, SendAlert,
     EvaluationPanics, SendPanicNotice, NoticeReturns, DeferredDone,
     RuntimeCrashes, ProcessUnchanged, signalVars, TypeOK
<1>3. CASE EvaluationPasses(d)
  <2>1. seen'[d] = Append(seen[d], Ok) /\ seen[d] \in Seq(Verdicts)
    BY <1>3 DEF EvaluationPasses, TypeOK
  <2>2. Ok \in Verdicts
    BY DEF Verdicts
  <2>3. seen'[d] # <<>> /\ seen'[d][Len(seen'[d])] = Ok
    BY <2>1, <2>2
  <2> QED  BY <2>3 DEF Judged
<1>4. CASE AlertReturns(d)
  <2>1. pc[d] = "sending" /\ UNCHANGED <<burstVars, log>>
    BY <1>4 DEF AlertReturns
  <2>2. Judged(d) /\ Alerted(d)
    BY <2>1, SentIsJudged
  <2> QED  BY <2>1, <2>2, SaidStays DEF burstVars
<1>5. CASE (DiscardResult(d) \/ SleepCut(d)) /\ UNCHANGED cancelled
  BY <1>5 DEF DiscardResult, SleepCut
<1> QED  BY <1>2, <1>3, <1>4, <1>5

\* Together, for every check.
VerdictInv == TypeOK /\ \A d \in Checks : BurstInv(d) /\ SentInv(d)

\* It holds at the start.
LEMMA VerdictInit == Init => VerdictInv
<1> SUFFICES ASSUME Init PROVE VerdictInv
  OBVIOUS
<1>1. TypeOK  BY TypeInit
<1>2. ASSUME NEW d \in Checks PROVE BurstInv(d) /\ SentInv(d)
  BY DEF Init, BurstInv, SentInv
<1> QED  BY <1>1, <1>2 DEF VerdictInv

\* Every step keeps it.
LEMMA VerdictStep ==
  ASSUME VerdictInv, [Next]_vars
  PROVE  VerdictInv'
<1>1. TypeOK'  BY TypeStep DEF VerdictInv
<1>2. ASSUME NEW d \in Checks PROVE BurstInv(d)' /\ SentInv(d)'
  BY BurstStep, SentStep DEF VerdictInv
<1> QED  BY <1>1, <1>2 DEF VerdictInv

\* For every configuration: a cycle that ends without a success and without
\* having handed its alert over ends so only because of the stop (runner.go:
\* evaluateWithBurst).
THEOREM AlertsAreNotMissed == Spec => NoMissedAlert
<1> DEFINE Ends(c) ==
      (/\ pc[c] \in {"eval", "confirm", "alert", "sending"}
       /\ pc'[c] \in {"interval", "done"}) =>
         \/ cancelled'
         \/ seen'[c] # <<>> /\ seen'[c][Len(seen'[c])] = Ok
         \/ \E i \in 1..Len(log') :
              /\ log'[i].kind = "alert" /\ log'[i].check = c
              /\ log'[i].cycle = cycle[c]
<1>1. VerdictInv /\ [Next]_vars => [\A c \in Checks : Ends(c)]_vars
  <2> SUFFICES ASSUME VerdictInv, [Next]_vars, NEW c \in Checks,
                      pc[c] \in {"eval", "confirm", "alert", "sending"},
                      pc'[c] \in {"interval", "done"}, ~cancelled'
               PROVE  Ends(c)
    OBVIOUS
  <2>1. \/ seen'[c] # <<>> /\ seen'[c][Len(seen'[c])] = Ok
        \/ Alerted(c)' /\ UNCHANGED cycle
    BY CycleEnds DEF VerdictInv
  <2> QED  BY <2>1 DEF Alerted
<1> QED  BY <1>1, VerdictInit, VerdictStep, PTL DEF Spec, NoMissedAlert

(***************************************************************************)
(* A check that exits 0 is complete.                                        *)
(***************************************************************************)
\* In check mode a finished check has its verdict unless it was stopped, and
\* only the join of the checks ends the process with status 0.
CompleteInv ==
  Mode = "check" =>
    /\ \A d \in Checks : pc[d] = "done" /\ ~cancelled => Judged(d)
    /\ \A d \in Checks : pc[d] # "interval"
    /\ exit = 0 => WaitGroupDone

\* The cancellation is never taken back.
LEMMA CancelledStays ==
  ASSUME [Next]_vars, cancelled
  PROVE  cancelled'
<1>1. CASE Environment \/ Capture \/ SetupFails \/ MainGoroutine \/ Terminated
           \/ UNCHANGED vars
  BY <1>1 DEF Environment, SignalCancelsCheck, SignalBeforeWatchListens,
     SignalArrives, Capture, CaptureStores, CaptureCancels, CaptureDone,
     SetupFails, MainGoroutine, WatchListens, SendStartup, SpawnChecks,
     JoinChecks, SendShutdown, WatchExits, Terminated, vars, signalVars
<1>2. ASSUME NEW c \in Checks, CheckGoroutine(c) PROVE cancelled'
  BY <1>2, CheckLeavesMain DEF RuntimeCrashes, signalVars
<1> QED  BY <1>1, <1>2 DEF Next

\* Every step keeps the invariant.
LEMMA CompleteStep ==
  ASSUME VerdictInv, PhaseInv, CompleteInv, [Next]_vars
  PROVE  CompleteInv'
<1> SUFFICES ASSUME Mode = "check"
             PROVE  /\ \A d \in Checks : pc'[d] = "done" /\ ~cancelled' => Judged(d)'
                    /\ \A d \in Checks : pc'[d] # "interval"
                    /\ exit' = 0 => WaitGroupDone'
  BY DEF CompleteInv
<1>1. \A d \in Checks : pc'[d] # "interval"
  <2> SUFFICES ASSUME NEW d \in Checks, pc'[d] = "interval" PROVE FALSE
    OBVIOUS
  <2>1. CASE UNCHANGED <<pc, burstVars>>
    BY <2>1 DEF CompleteInv
  <2>2. CASE SpawnChecks
    BY <2>2 DEF SpawnChecks
  <2>3. ASSUME NEW c \in Checks, CheckGoroutine(c) PROVE FALSE
    <3>1. CASE c = d
      BY <2>3, <3>1 DEF CompleteInv, VerdictInv, TypeOK, CheckGoroutine, StartLoop,
         DiscardResult, EvaluationPasses, EvaluationFails, AfterStrike,
         WakeForConfirm, WakeForCycle, BeginCycle, SleepCut, SendAlert,
         AlertReturns, AfterCycle, EvaluationPanics, SendPanicNotice,
         NoticeReturns, DeferredDone, RuntimeCrashes
    <3>2. CASE c # d
      BY <2>3, <3>2, OneCheckMoves DEF CompleteInv, VerdictInv
    <3> QED  BY <3>1, <3>2
  <2> QED  BY <2>1, <2>2, <2>3, StepKinds
<1>2. ASSUME NEW d \in Checks, pc'[d] = "done", ~cancelled' PROVE Judged(d)'
  <2>1. ~cancelled
    BY <1>2, CancelledStays
  <2>2. CASE pc[d] = "done"
    <3>1. Judged(d)
      BY <2>1, <2>2 DEF CompleteInv
    <3>2. seen'[d] = seen[d]
      <4>1. CASE UNCHANGED <<pc, burstVars>>
        BY <4>1 DEF burstVars
      <4>2. CASE SpawnChecks
        BY <4>2 DEF SpawnChecks, burstVars
      <4>3. ASSUME NEW c \in Checks, CheckGoroutine(c) PROVE seen'[d] = seen[d]
        BY <2>2, <4>3, OneCheckMoves, FinishedStays
        DEF VerdictInv, RuntimeCrashes, burstVars
      <4> QED  BY <4>1, <4>2, <4>3, StepKinds
    <3> QED  BY <3>1, <3>2, SaidStays DEF VerdictInv
  <2>3. CASE pc[d] # "done"
    BY <1>2, <2>3, CycleEnds DEF VerdictInv, CompleteInv
  <2> QED  BY <2>2, <2>3
<1>3. ASSUME exit' = 0 PROVE WaitGroupDone'
  <2>1. CASE ~Running
    <3>1. UNCHANGED <<exit, pc>>
      BY <2>1, GoneStays DEF vars, mainVars
    <3> QED  BY <1>3, <3>1 DEF CompleteInv, WaitGroupDone
  <2>2. CASE Running
    <3>1. JoinChecks
      <4>1. exit # 0
        BY <2>2, NoneAssumption DEF Running
      <4>2. ~WatchExits
        BY DEF WatchExits, PhaseInv
      <4>3. CASE Environment \/ Capture \/ Terminated \/ UNCHANGED vars
        <5>1. UNCHANGED exit
          BY <4>3 DEF Environment, SignalCancelsCheck, SignalBeforeWatchListens,
             SignalArrives, Capture, CaptureStores, CaptureCancels, CaptureDone,
             Terminated, vars, mainVars
        <5> QED  BY <1>3, <4>1, <5>1
      <4>4. CASE SetupFails \/ MainGoroutine
        <5>1. UNCHANGED exit \/ exit' = 1 \/ JoinChecks
          BY <4>2, <4>4 DEF SetupFails, MainGoroutine, WatchListens, SendStartup,
             SpawnChecks, SendShutdown, Exits
        <5> QED  BY <1>3, <4>1, <5>1
      <4>5. ASSUME NEW c \in Checks, CheckGoroutine(c) PROVE FALSE
        <5>1. UNCHANGED exit \/ exit' = 2
          BY <4>5, CheckLeavesMain DEF RuntimeCrashes, Exits, mainVars
        <5> QED  BY <1>3, <4>1, <5>1
      <4> QED  BY <4>3, <4>4, <4>5 DEF Next
    <3> QED  BY <3>1 DEF JoinChecks, WaitGroupDone
  <2> QED  BY <2>1, <2>2
<1> QED  BY <1>1, <1>2, <1>3

\* For every configuration: a check that exits 0 without having been stopped
\* evaluated every check to a verdict and handed every confirmed outage to the
\* notifier (runner.go: RunOnce).
THEOREM ChecksAreComplete == Spec => []CheckIsComplete
<1>1. Init => VerdictInv /\ PhaseInv /\ CompleteInv
  <2> SUFFICES ASSUME Init PROVE PhaseInv /\ CompleteInv
    BY VerdictInit
  <2> QED  BY NoneAssumption DEF Init, PhaseInv, CompleteInv
<1>2. VerdictInv /\ PhaseInv /\ CompleteInv /\ [Next]_vars
        => (VerdictInv /\ PhaseInv /\ CompleteInv)'
  BY VerdictStep, PhaseStep, CompleteStep DEF VerdictInv
<1>3. CompleteInv => CheckIsComplete
  <2> SUFFICES ASSUME CompleteInv, Mode = "check", exit = 0, ~cancelled,
                      NEW c \in Checks, pc[c] # "crashing"
               PROVE  Judged(c)
    BY DEF CheckIsComplete, Judged
  <2> QED  BY DEF CompleteInv, WaitGroupDone
<1> QED  BY <1>1, <1>2, <1>3, PTL DEF Spec
=============================================================================
