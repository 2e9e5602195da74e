# A TLA+ verification of mitsume

mitsume is a small Go program that watches a machine and talks to Slack: `watch` evaluates
checks for ever, `check` evaluates them once, `run` supervises one command, `ping` records
that a job is alive, `notify` sends a message. This directory holds TLA+ modules of the parts
in which goroutines, processes, signals, timers and the network meet, the configurations TLC
checks them with, and proofs that TLAPS checks for every value of the constants.

Paths below are relative to `src/`. The modules are translated from the Go code; where the
documentation says something else, a run shows the difference (section *Disagreements*).

## 1. Inventory

| part | state it keeps | operations | talks to |
|---|---|---|---|
| evaluation engine, `internal/runner` | per check: place in the cycle, failures in a row, latest Result; a wait group; the context | `RunOnce`, `RunLoop`, `checkerLoop`, `evaluateWithBurst`, `sendAlert`, `refreshDeadmanSnapshot` | checkers, notifier, heartbeat file |
| `cmd/mitsume/watch.go`, `check.go` | received signal, capture goroutine, the cancelled context | set-up, signal capture, start and stop notice, joins, exit status | runner, notifier |
| `internal/lifecycle` | the panic being recovered | `SendStartup`, `SendShutdown`, `Send`, `GuardPanic` | Slack client, Go runtime |
| Slack client, `internal/notify` | attempt, backoff timer, pending request | `Client.Send` | the network, Slack |
| `internal/confirm` | none | `Parse` of the `confirm` field | configuration, runner |
| supervisor, `internal/supervisor` | child, wait result, `--timeout` timer, kill escalation, forwarder's channel | `Run`, `waitOrKill`, `killChild`, `startSignalForward` | child, kernel, notifier |
| cmd check, `internal/checker/cmdcheck` | child, timeout, context | `Evaluate`, `awaitCompletion`, `gracefulKill` | child, kernel |
| heartbeat file, `internal/heartbeat` | the file, temporary files | `Load`, `Update`, `SaveAtomic` | `ping`, runner, operator |
| `ping` | one process: loaded entries, time | read, stamp, write aside, rename | heartbeat file |
| deadman check, `internal/checker/deadman` | the snapshot of its cycle | `Evaluate` | heartbeat file through the runner |
| file check, `internal/checker/filecheck` | none between evaluations; within one, the matches still to stat and the newest so far | `Evaluate` | file system |
| http and container checks, `internal/checker/httpcheck`, `container` | within one evaluation, the exchange, its deadline, the latency | `Evaluate`, `evaluateRule`, `evalJSONPath` | a server, the socket of docker or podman |
| `internal/tailio` and the ring buffer of `run` | the last bytes of a child's stderr | `Write`, `Truncate` | notifications of `run` and of cmd checks |
| configuration and set-up, `internal/config`, `internal/loader`, `cmd/mitsume/common.go` | what was found, read and resolved | `Search`, `Load`, `resolveHeartbeatPath`, `BuildCheckers`, `PreflightHeartbeat`; `resolveJob` of `ping` | environment, files, everything that starts after it |
| `durationx`, `sizex`, `host`, flags | none | parsing and formatting of single values | configuration, notifications |

How they interact: `main.go` creates a signal context before it dispatches; `check`, `ping` and
`notify` work under it, `watch` and `run` get a background context and call `signal.Notify` themselves. `watch` starts one goroutine per check. Each of
them evaluates, and on a failure re-evaluates up to `confirm.checks` times before it calls
`Notifier.Send`, which blocks through the retries of the Slack client. Everything a goroutine
does runs under `GuardPanic`. `ping` processes and the runner share nothing but the heartbeat
file, without a lock, and each finds its path by itself. `run` and the cmd check share the pattern of a child, a goroutine in
`exec.Cmd.Wait`, a timer and an escalation from SIGTERM to SIGKILL.

What is hard, and what makes each part correct:

* **runner**: a cancellation at any point of a burst; alerts of several goroutines; a panic
  in one of them while the others run and `main` may return. Correct when an alert rests on
  exactly the configured failures in a row, a cycle alerts at most once, no outage is swallowed, results
  that come after the stop are discarded, and a signal ends everything.
* **watch**: two joins, two contexts, a one-slot signal channel. Correct when the start notice is first, the
  stop notice last, and no check runs behind it.
* **Slack client**: answers that are lost, late, or contradict what Slack did. Correct when
  success is real, in order, a dead context stays silent, retries are bounded and it returns.
* **supervisor, cmd check**: timer against child against context; a child that ignores
  SIGTERM; a grandchild that keeps the pipes open. Correct when success is real, no child is
  left, SIGKILL follows SIGTERM, one report carries the exit code, and they return.
* **file check**: matches that are rotated, replaced and removed between the listing and their stat.
  Correct when a file that stood there all the time is never missed, nor an older one taken for the newest.
* **http, container check**: a server that redirects, stalls or breaks off anywhere. Correct when
  nothing passes on a part of a reply and the deadline ends every exchange.
* **configuration, set-up**: two processes in different directories resolve the same file from
  different sources. Correct when a ping that succeeds is seen by the watch it is meant for, and
  the alerts of two checks can be told apart.
* **heartbeat**: overlapping read-modify-write, kills between steps, a snapshot that is
  older than the comparison, a watch that is killed and restarted. Correct when only overlapping writers lose a record, the file is
  always readable, silence is reported and a fresh job is not.

`PROJECT.json` lists each of these hazards at the line where it bites.

## 2. Modules

| module | models | state and actions |
|---|---|---|
| `Runner` | `cmd/mitsume/watch.go`, `check.go`, `main.go` (signals, exit), `internal/runner`, `internal/lifecycle` | `main`, `capture` and `pc[c]` are the program counters of the three kinds of goroutine; `cancelled`, `sigCh`, `received` are the context, the channel and `receivedSig`; `cycle`, `strikes`, `last` are the locals of `evaluateWithBurst`; `log` collects the calls of `Send`. One action for each stretch of a goroutine that touches shared state once |
| `Confirm` | `confirm.Parse` | an operator on the shapes of the JSON value, used by `MCRunner` to derive `OneStrike` and `ConfirmChecks` |
| `MCRunner` | none | the configurations of the checks in the runs of `Runner` |
| `RunnerProofs` | none | theorems about `Runner`, and about `Confirm` as the source of its constants |
| `Delivery` | none (abstract) | what a caller of `Send` may rely on: acknowledged means arrived, an error means anything, a dead context means silence |
| `Notify` | `internal/notify`: `Client.Send` and its attempt, sleep and status rules | `Call`, `RejectURL`, `Post`, `PostRefused`, `ReadReply`, `PostBreaks`, `BackoffFires`, `BackoffCut` are the client; `Processes` and `Loses` are Slack and the network; `wire` holds the requests on their way, also those the client has given up |
| `NotifyProofs` | none | theorems about `Notify`, among them that it implements `Delivery` |
| `Supervisor` | `cmd/mitsume/run.go`, `internal/supervisor` | `main` is `Run` with `waitOrKill`, `killer` is `killChild`, `completed` the channel of the wait goroutine, `sigCh` the forwarder's channel. What a signal to mitsume does depends on where `Run` is: `SignalSwallowed` and `SignalKills` before `signal.Notify` and after `signal.Stop`, `SignalArrives` between them; `fatal` is the signal that ended mitsume. The child, the process it leaves behind and the sender of signals are environment |
| `SupervisorProofs` | none | theorems about `Supervisor` |
| `CmdCheck` | `internal/checker/cmdcheck` | `pc` is `Evaluate`; child and leftover process as above |
| `FileConfig` | `filecheck.Parse`, `validateExpect` | the configurations a file check may have, and the bounds of the file system |
| `FileCheck` | `internal/checker/filecheck` | `pc` is `Evaluate`; `List`, then one `StatMatch` or `SkipMatch` for each match, then `Judge`; `Put` and `Chmod` are everybody else. `steady` remembers the files nobody touched during the evaluation |
| `RequestCheck` | `internal/checker/httpcheck`, `container` | `pc` is `Evaluate` around `http.Client.Do`; `came` says how much of the reply is there, `Redirect`, `Answer`, `SendBody`, `Break` are the server. `RuleHolds` and `EvalPath` are `body_jsonpath` over a document of nodes |
| `Tail` | `internal/tailio`, `ringBuffer` | `Write` appends a piece to `ring`; `Truncate` and `LastNLines` as operators |
| `Checkers` | `checker.Checker` and `loader.parseSingle` | one evaluation of any type: instances of `CmdCheck`, `FileCheck`, `RequestCheck` that share `pc`, `verdict` and the context, and `Tail` beside them |
| `CheckersProofs`, `RequestProofs`, `TailProofs` | none | theorems about `Checkers`: the cmd and the file check; the http and container check with `body_jsonpath`; the tail of output, and the types of all |
| `MCCheckers` | none | file configurations, a JSON document and rules for the runs of `Checkers` |
| `Startup` | `internal/config`, `internal/loader`, `cmd/mitsume/common.go`, the set-up half of `ping.go`, `runner.PreflightHeartbeat`, what each `Parse` demands of interval, timeout and name | a `watch` and a `ping`, each from `search` over `read` and `resolve` to its end, with `place` and `damaged` in the hands of an operator |
| `MCStartup` | none | twelve configurations and nine ways to start a process |
| `StartupProofs` | none | theorems about `Startup` |
| `Heartbeat` | `cmd/mitsume/ping.go`, `internal/heartbeat` | `pc[p]` is a ping process between its system calls; `file` and `tmp[p]` are what is on disk; `Edit` is the operator |
| `Deadman` | `internal/checker/deadman` and the cycle of the runner around it | `snapshot` is what the provider returns in the cycle; extends `Heartbeat`. `WatchKilled` and `WatchStarts` are a watch that dies at any point and comes back through its pre-flight |
| `DeadmanProofs` | none | theorems about `Heartbeat` and `Deadman` |
| `MCDeadman` | none | the instance of `Deadman` |

Abstractions that all modules share: time is abstract except in `Heartbeat`, `Deadman`, `FileCheck` and `RequestCheck`, so
a timer may fire at any moment after it was started (every real duration is one of those
behaviours); message texts, URLs and output are reduced to what decides a branch. History
variables are marked as such where they are declared, and no guard of an action other than a
bound reads one. An operator whose comment begins with `Mutant:` is a faulty variant of the
definition that follows it. No specification uses it; the list `mutants` of `PROJECT.json`
names, for each property, the faulty variant that breaks it.

## 3. Runs

`tlc -config <cfg> <module>` in this directory.

| run | module, cfg | what is shown |
|---|---|---|
| `watch` | `MCRunner`, `RunnerWatch.cfg` | `AlertConfirmed`, `AlertsOncePerCycle`, `NoMissedAlert`, `DiscardedAfterCancel`, `OrderlyAnnouncements`, `CrashIsAnnounced` under every interleaving of two checks, the capture goroutine and `main`, 308 thousand states; `SignalStopsWatch`: once `watch` listens, a signal ends the process; `BurstEnds` |
| `check_once` | `MCRunner`, `RunnerCheck.cfg` | `CheckIsComplete`: exit 0 means that every check was judged |
| `slack_client` | `Notify`, `Notify.cfg` | `AcknowledgedArrives`, `CopiesBounded`, `SilentStaysSilent`, `GivesUpForAReason`, `SendReturns`, and `DeliversAsPromised`, the refinement of `Delivery` |
| `supervise` | `Supervisor`, `Supervisor.cfg` | `SuccessIsReal`, `ReportedOnce`, `KillAfterTerm`, `NoOrphan`, `TimeoutEnds`, `QueuedSignalForwarded`, with signals before, while and after `Run` listens, 114 thousand states |
| `deadman_and_pings` | `MCDeadman`, `Deadman.cfg` | `RecordedUntilOverwritten`, `SequentialPingsMoveForward`, `FailureIsFinal`, `NoFalseAlarm`, `SilenceIsReported`, also when watch is killed in a burst, 323 thousand states |
| `checkers` | `MCCheckers`, `Checkers.cfg` | `CmdPassIsReal`, `ChildReaped`, `FileFailureIsReal`, `FilePassIsReal`, `RequestPassIsReal`, `TailIsFaithful`, `EvaluateReturns` over one evaluation of each type, 348 thousand states |
| `startup` | `MCStartup`, `Startup.cfg` | `PingReachesWatch`, `SetupIsSound` over every pair of invocations and every configuration, edited once, 415 thousand states |

All but `check_once` and `startup` also check a type invariant; section 4 proves that of `Startup`, too. Five more runs end in a
violation on purpose; see *Disagreements*.

### Bounds and why they are enough

* `Runner`: two checks, one that confirms with three evaluations (the default) and one with
  `confirm: false`; two cycles, so that state left over from the first one would show; two
  signals, so that the second finds the slot of the channel taken; one failure reason in `watch`
  (that an alert carries the last of several reasons is proved for any number of them); in
  `watch` the second check may panic, in `check` both may. Goroutines of checks do not
  communicate, so a third adds no new kind of interference. `MaxCycles` only limits `WakeForCycle`; a
  check that has used its cycles up can still be stopped in its sleep. Symmetry is not used: the
  checks are configured differently, and the runs have liveness properties.
* `Notify`: two messages, one under a cancellable context, and four attempts, the number the
  code makes (one and three backoffs); two messages are what an order needs.
* `Supervisor`: two signals and a channel of one slot. The code has four slots; one is
  enough to reach the overflow. `Forwarded` is SIGHUP, SIGINT and SIGTERM, of which `main.go:47`
  captures the last two from the beginning (`Captured`): until `signal.Notify` is called those are
  swallowed, and SIGHUP ends mitsume, as it does by default. SIGQUIT differs from SIGHUP only in the
  status a shell sees (`FatalStatus`) and takes part in the run `early_signal_to_run`. A SIGHUP that
  mitsume was told to ignore (`nohup`) and signals before `main.go:47` are left out. The child may be killed
  by any of these signals or by SIGKILL from elsewhere, for want of memory say. `run`
  never cancels the context given to `Run`, the constant `Cancellable` adds that case, which
  the tests of the package use.
* `FileCheck` (in `Checkers`): two names, because the choice of the newest compares two; each may be
  absent, a dangling link or a file of any of three ages and two sizes; one change by somebody
  else, anywhere in the evaluation; a clock of three values and a bound on the age of one or two.
* `RequestCheck`: a deadline of two ticks, of which `latency_under` uses one or both; two redirects
  instead of ten; an object, an array and their members, with paths of up to three segments that
  lead to a value, one past the end of an array and into a scalar; statuses 200, 404 and 500, which
  the container check tells apart.
* `Tail`: up to seven bytes in pieces of up to three, a buffer of four, tails of two lines and three
  bytes: each limit can be the one that decides, and pieces straddle the edge of the buffer.
* `Startup`: one configuration file that holds one of twelve documents or cannot be decoded, is
  missing or not accessible; nine invocations for each process; one edit. The documents break
  one rule of `Validate` or `BuildCheckers` each, or differ in where the heartbeat file is named.
* `CmdCheck`: exit codes 0 and 3, expected codes 0 and 124, which is also the code of a timeout.
* `Deadman`: two jobs, two pings, clock 0 to 2 with `within` 2, one edit by the operator, two
  cycles of two evaluations, one kill of watch: one overlap, one killed ping, one lost record, one stale
  snapshot and one burst cut short all occur. The clock may stop and pings may all be over, so deadlock is not checked there; in
  all other runs it is, with an explicit action for the process that has ended.

### Fairness

Weak fairness is given to the goroutines of mitsume, which the Go scheduler runs, and to its timers.
`Send` and `Evaluate` are taken to return in `Runner` because `Notify` (`SendReturns`) and
`Checkers` (`EvaluateReturns`) show it; the latter holds only when what the command left behind
eventually closes its output, and so does `Runner`'s assumption. `Supervisor` and `CmdCheck`
also assume that the kernel ends a process that got SIGKILL. Time goes on in `RequestCheck` up to the deadline. In `Deadman` the
fairness of the watcher includes `WatchStarts`: a service manager starts a watch that died, as
`docs/recipes.md:237` sets it up with `Restart=on-failure` (with a single kill its start limit is not reached);
a start that finds the heartbeat file broken is refused, and `SilenceIsReported` allows for that. Nothing is assumed of the child, Slack, a server, the
network, pings, signals or the operator: they may stop at any time. Strong fairness is not used.

## 4. Proofs

`tlapm <module>` in this directory; a run without errors means that every obligation was proved.

| module | obligations | theorems |
|---|---|---|
| `RunnerProofs` | 1149 | `ParsedConfirms`, `TypeCorrect`, `AlertsAreConfirmed`, `AlertsComeOnce`, `AnnouncementsFrame`, `LateResultsDiscarded`, `CrashesAnnounced`, `AlertsAreNotMissed`, `ChecksAreComplete` |
| `NotifyProofs` | 666 | `TypeCorrect`, `SilenceKept`, `Refines`, `AcknowledgedInOrder`, `CopiesAreBounded`, `GivingUpIsJustified` |
| `SupervisorProofs` | 419 | `TypeCorrect`, `SuccessCorrect`, `ReportCorrect`, `KillCorrect`, `OrphanFree`, `NeverOrphanedIfCaptured` |
| `DeadmanProofs` | 601 | `TypeCorrect`, `RecordsStand`, `PingsMoveForward`, `FailuresStand`, `AlarmsAreTrue` |
| `CheckersProofs` | 542 | `CmdPasses`, `CmdReaps`, `FileFails`, `FilePasses` |
| `RequestProofs` | 613 | `RequestPasses` |
| `TailProofs` | 578 | `TailFaithful`, `CheckersTypes` |
| `StartupProofs` | 293 | `TypeCorrect`, `PingsArrive`, `SetupsAreSound` |

The assumptions are the named ASSUMEs of the modules: types of the constants, at least one attempt
and one evaluation in a burst, `None` being none of the values, documents whose checks are a sequence. TLC evaluates
each of them in a run. The one that has content, `ConfirmAssumption` of `Runner`, is what `ParsedConfirms`
shows of every `confirm` field that `confirm.Parse` accepts.

**`Runner`.** `TypeCorrect` goes by induction on its own. The others each add an invariant, because what they
say of one place (an alert about to be sent, a process that has ended) does not follow from the step that leads there:

* `AlertsAreConfirmed`: `BurstInv` says of every place in a cycle that what was seen so far are failures only, as many as `strikes`,
  the last of them in `last`, and fewer than needed while the burst goes on. `StrikeDecides` is the
  arithmetic of `evaluateWithBurst`: the n-th failure raises the alert exactly when n is the number asked for.
* `AlertsComeOnce`: `OnceInv` bounds the cycle of every alert already in the log by the cycle
  of its check, strictly until the alert of the current cycle is out.
* `AnnouncementsFrame`: `PhaseInv` ties the three program counters together (no check lives
  before the spawn or after the join, the signal is stored before the capture is done);
  `LogInv` says which notices the log holds in each phase.
* `LateResultsDiscarded`: `LateInv` counts the evaluations that ended after the cancellation
  by the place of the check.
* `CrashesAnnounced`: `CrashInv` says that a check past its panic notice has it in the log and that
  only a check that is crashing ends the process with status 2. `SaidStays` (the log only grows) carries it to later steps.
* `AlertsAreNotMissed`, an action property: a cycle ends (`CycleEnds`) by a success, by a stop, or out of the delivery of its
  alert, and there `SentInv` has that alert in the log.
* `ChecksAreComplete`: in check mode `CompleteInv` gives every check that is done and was not stopped its
  verdict, and lets only the join of the checks end the process with status 0; it rests on `BurstInv` and `SentInv`,
  which say what the last Result of a check that is ending was.

**`Notify`.**

* `TypeCorrect` with `CallInv`: the attempt counter stays in range because
  no call waits for an attempt it may not make.
* `SilenceKept` and `Refines` with `TravelInv`: a request on the wire belongs to a message
  that was handed over alive, and a 2xx answer waits only for a message that is in the
  channel. Both are needed for a step of Slack to be an `Arrive`, and a `ReadReply` a `Return`, of `Delivery`.
* `AcknowledgedInOrder` is inductive with `CallInv` and `TravelInv`: at the moment `Send` returns nil no copy of a later
  message has been posted, so none can be in front.
* `CopiesAreBounded`: arrivals alone can grow long after the call, so `CopiesInv` counts the requests on
  their way as well, and bounds the sum of the current message by its attempts. A step of Slack moves a copy (`SlackCopies`), a post buys one (`PostCopies`).
* `GivingUpIsJustified`: from `CallInv` and the guards of each return with an error.

**`Supervisor`.** One invariant, `IInv`, for the five theorems. `ChildInv`: what `proc.Wait` reported is the child's status, or a failure where
the status is 0; a child that ended on a signal has a code above 128, so that a 0 is its own; nothing is sent to a child before `Run` supervises it. `KillInv`: the escalation has
a reason, and when the grace period begins the child has its SIGTERM or needs none.
`ReportInv`: what the log holds, and how the child is, at each place of `Run`, with `Outcome` for a run that comes to its own
end and `Killed` for one that a signal ends. In `Killed` the child is running only if the signal is not a captured one and came between
the start of the child and its supervision (`KillsStep`): that is the exception in `NoOrphan`, hence in `OrphanFree`, and
`NeverOrphanedIfCaptured` says that it is the only one: with `Captured = Forwarded` no child is left behind.

**`Heartbeat` and `Deadman`.**

* `RecordsStand` with `FileInv`: a record that was not erased is in the file and in the memory of every ping that
  loaded the file after it was written (`RecordInv`); therefore none of those can drop it when it renames. `PastInv` (no entry is later than the clock)
  makes the time a ping takes at least as late as what it replaces.
* `PingsMoveForward`, an action property, with `ForwardInv`: the memory of a ping whose file nobody replaced is the
  file, with its own entry moved forward.
* `FailuresStand` and `AlarmsAreTrue` with `SnapshotInv`: the snapshot holds every record that stood when the cycle began, and once it has failed it
  fails for good, because nothing but the clock enters the comparison (`FailsForGood`).

**`Checkers`.** A step of `Checkers` is, for the type that is evaluated, a step of that type's module or none (`CmdSteps`, `FileSteps`,
`RequestSteps`). Then, for each type, an invariant of its own:

* `CmdPasses`, `CmdReaps`: `CmdPlaces` says that every way to a verdict passes `proc.Wait`, `CmdJudged` keeps the verdict true of
  a child and an output that can no longer change.
* `FileFails`, `FilePasses`: `FileScan` says that while the matches are stat-ed, every file that nobody touched is either still
  to be stat-ed or no newer than the best so far. A file that appears, changes or vanishes in between is not steady and does not
  disturb it.
* `RequestPasses`: `RequestStages` and `RequestJudged` for the exchange. The rest is about `body_jsonpath`: `RuleSatisfied` shows
  that `EvalPath`, which follows a path segment by segment, finds a node exactly when a walk along the path through the document
  leads to it (`Walks`), for paths of any length. Induction over the length is replaced by a least counterexample (`Least`).
* `TailFaithful`: `OutputInv` says that the ring buffer holds the end of all output, in whatever pieces it came
  (`PieceStep`, by `LastOfLast`). That `Truncate` of it is the longest end within the limits is a chain of lemmas on ends of a
  sequence: a shorter end has no more lines (`LinesShrink`), `LastNLines` cuts at the last newline that leaves too many (`CutFollows`, `LastNLinesAfter`),
  and of the cut by lines and the cut by bytes `Truncate` keeps the shorter, which fits both limits (`TruncateLongest`).
* `CheckersTypes` joins the type invariants of the four.

**`Startup`.**

* `TypeCorrect`, and `PingsArrive` with an invariant that says what each process has
  resolved by the time it is where it is: `hbFile` is `HeartbeatPath` of what it has read, and the job
  of a ping is `PickJob`. `AdjacentIsOneFile` is the
  core: two paths to one configuration have one file beside it, whatever directory they are relative to.
* `SetupsAreSound` with `SoundInv`: watch holds a document that passed `Validate` from the moment it has read it, and one its checkers were built
  from once it has those; an edit of the file changes neither. `DistinctValues` takes "no two checks have one name" from the number of names.

Every invariant and every action property that a run checks is proved. Only model-checked are the
liveness properties (`SignalStopsWatch`, `BurstEnds`, `SendReturns`, `TimeoutEnds`,
`QueuedSignalForwarded`, `SilenceIsReported`, `EvaluateReturns`), because fairness and ENABLED are beyond the prover, and the
five properties that do not hold (*Disagreements*).

## 5. Disagreements between code and documentation

Each is a run that ends in a counterexample to what the documentation says.

1. `panic_exit_status` (`PanicExitsWithTwo`): while the repeated panic unwinds, the deferred
   `wg.Done` (`internal/runner/runner.go:85`) lets `RunOnce` return, and `main` may exit with 0
   before the runtime exits with 2.
2. `early_signal_to_watch` (`AnySignalStopsWatch`): a signal between `cmd/mitsume/main.go:47`
   and the `signal.Notify` of `watch.go:53` is swallowed, and `watch` goes on.
3. `timeout_code` (`TimeoutMeansStopped`): `waitOrKill` can take the timeout though the child
   has ended; mitsume exits 124 without having stopped anything.
4. `cmd_check_timeout` (`TimeoutBoundsEvaluation`): the timeout of a cmd check does not bound
   the evaluation while a process the command left behind keeps its output open
   (`internal/checker/cmdcheck/cmdcheck.go:329`).
5. `early_signal_to_run` (`SignalReachesChild`): `docs/cli.md:89` says that SIGINT, SIGTERM, SIGHUP and SIGQUIT
   are forwarded to the child. A SIGHUP or SIGQUIT between the start of the child
   (`internal/supervisor/supervisor.go:120`) and `signal.Notify` (`:261`) ends mitsume by default, and its child runs
   on. (SIGINT and SIGTERM are lost there for the same reason as in 2.)

One more was read from the code and has no run, because it takes one step: `filepath.Glob` reports no matches for a
directory it may not list (`internal/checker/filecheck/filecheck.go:227`), and a check with `exists: false` passes there,
where `docs/checkers.md:122` says that it fails. `FilePassIsReal` and `FileFailureIsReal` therefore
speak of directories that stay readable.

## 6. Not modelled

* `durationx`, `sizex`: one string to one number and back, no state. `host`: one value for the payloads.
* `splitFlags`, `durationFlag`, usage and unknown subcommands: the arguments of one process.
  `Invocations` of `Startup` starts from the values of the flags.
* `parseJSONPath` and the decoding of JSON: `RequestCheck` and `Startup` start from the segments and the document.
* The search for the socket of the container engine: once, in `Parse`, and part of `legal` in `Startup`.
* Formatting of payloads, `expectedString` and `observedString`, scrubbing of URLs: wording.
* `--dry-run` of the notices, and `notify` beyond its one call of `Send`: no state.
* A crash of the machine: `SaveAtomic` syncs the temporary file before the rename, but what a
  file system keeps of an unsynced directory is outside the code; the modules stop at kills of processes.

## 7. Plan

Done, in this order: `Runner` with its runs and proofs (the heart of the program), `Notify` with
`Delivery` and its proofs, `Supervisor`, `CmdCheck`, `Heartbeat` with `Deadman`, `Confirm`; then
`FileCheck`, `RequestCheck` and `Tail`, composed with `CmdCheck` in `Checkers`, kills and restarts of watch
in `Deadman`, and `Startup` with its proofs.

Then proofs about every module: each safety and action property of the runs has a theorem.

Next: `Alerting`, an abstract specification of one check (a cycle is healthy, or
confirmed and announced once, or abandoned by a stop) that `Runner` implements, with the proof that it does; `Runner` composed with
`Delivery` in place of `log`, so that the order of notices is stated about the channel.
