# A TLA+ model of autonomous-monitor

`autonomous-monitor` is one Go process per namespace. Every poll it looks at the
namespace, runs a fixed list of checks, publishes *findings* to a
Kafka-compatible topic when they change, closes those that are gone, and keeps
its memory in a ConfigMap that it reloads when it restarts. This directory
models that behaviour in TLA+, checks it with TLC and proves all of its
invariants, and most of its other safety properties, with TLAPS. `PROJECT.json` lists components, runs, hazards, findings and theorems,
and maps every definition to the lines it models.

## Inventory

| Component (source) | State | Operations | What is hard | What makes it correct |
|---|---|---|---|---|
| Finding lifecycle (`monitor.go`) | `state.Findings`, `dirty`, `lastWrite`, and within a poll `active`, `complete` | `Poll`, `collectFindings`, `resolveMissingFindings`, expiry, pruning, `maybeSave` | publishes that fail, or fail after delivery; a signal or a crash between any two steps; throttled saves; limits reached | consumers, memory and ConfigMap agree; nothing is closed that is there; nothing stays open for ever; cooldowns hold; a settled cluster is silent |
| Findings and scores (`finding.go`) | none | `NewFinding`, `classificationForScore`, `clampScore` | boundaries | classification is a function of the score |
| Suppression (`monitor.go`) | `suppressions` | `loadSuppressions`, `isSuppressed` | rules edited while findings are ongoing; wildcards listed by hand | exactly what matches is dropped |
| State store (`state.go`) | cached ConfigMap, `writeable` | `Load`, `create`, `Save` | conflicts, lost answers, other clients, failed loads | clean means stored; an unreadable state is not overwritten; a change is stored in the end |
| Check runner, snapshot (`monitor.go`, `snapshot.go`) | goroutines, channels, snapshot | `buildSnapshot`, `listSnapshot`, `runCheck` | abandoned goroutines that go on working | no race on a snapshot, no foreign result, no leak, polls go on |
| Checks (`checks.go`, `snapshot.go`) | none (observations are returned) | ten `check*` functions | lists made on demand; partial results; several objects that raise one finding | every enabled check gets its lists; one id, one score; what is recent or in trouble is looked at |
| Observations (`monitor.go`, `checks.go`) | `state.Observations` | merge, retention, cap, size limit | stale baselines, samples of another pod, forgotten or reloaded observations | what is reported did happen; the oldest go first and in time |
| Poll health (`health.go`) | last poll, first poll done | `MarkPollComplete`, `isLive`, `isReady` | timing of slow polls, lost ticks, calls that hang | alive processes are not killed, wedged ones are |
| Discovery cache (`checks.go`) | API lists, expiry | `customResourceAPILists` | a call without a deadline on the main goroutine; stale answers | no answer is used past its time; new resources are noticed |
| Publisher (`publisher.go`) | Kafka client | `PublishFinding`, `Close` | delivered but not confirmed | success means delivered |
| Process (`main.go`) | context, ticker | load, poll loop, last save | signal during a poll | a stop stores everything |
| Configuration, metrics, example consumer, chart, manifests | – | – | – | not modelled |

The monitor's main goroutine calls everything else: it loads the state, and for
each poll loads the suppressions, builds the snapshot, runs the checks one by
one, collects each result, closes, expires, prunes and saves. Goroutines of a
listing or a check only reach it through a channel. The HTTP server reads two
atomic values that the end of a poll writes. The topic and the two ConfigMaps
are shared with the world outside.

## Modules

* **`Finding`**: scores and classifications. The id of a finding (a hash) is a
  model value: the same problem always has the same one.
* **`Monitor`**: the lifecycle. One action per step of `Poll` that can be
  observed or interrupted: `BeginPoll`, `RunCheck` (a result arrives and its
  observations are merged), one action per finding of the result
  (`SkipSuppressed`, `CollectQuietly`, `CollectAndPublish`), `EndChecks`, one
  `Resolve` per missing finding, and `FinishPoll` (expire, prune, save).
  `Start`, `Signal`, `Shutdown` and `Crash` are the process. `ClusterChange` is
  the namespace; `Deliver` and `Outcomes` are the broker: a publish is
  confirmed, rejected, or delivered without confirmation. A save ends likewise.
  After a signal the context is cancelled, so nothing is confirmed any more
  until the last save, which uses a fresh context.
  Three observers, which the code does not have, record what the consumers know
  (`view`, the last record of each finding), what cooldown they were promised
  (`quiet`), and what this step put on the topic (`sent`).
* **`MonitorProofs`**, **`MonitorSyncProofs`**, **`StateStoreProofs`**,
  **`CheckRunnerProofs`**, **`SuppressionProofs`**, **`PollLoopProofs`**,
  **`ObservationsProofs`**, **`ChecksProofs`**: the theorems about the module
  each is named after.
* **`Checks`**: what one poll makes of the objects of the namespace: which
  lists are made for the enabled checks (`listSnapshot`), which checks are
  complete when lists, the metrics or discovery fail (`Needs`), and the findings
  of each of the ten checks, as a function of the fields it looks at (for the
  usage of memory, what `Observations` makes of its samples). A behaviour is about one object, which grows older
  and, if it is an event, recurs. The record sets `Pod`, `Events`, ... say what
  fields an object of each kind has, and `Possible` what Kubernetes guarantees
  of them: a pending pod is not ready, and an event does not last occur before
  it was made.
* **`Observations`**: restart baselines and memory samples by the name of a pod,
  through polls that fail, pods that are made anew, retention, cap, size limit,
  saves, crashes and reloads. A poll is one step, which may give up observations
  for the size of the state and then fail to write it. Observers record the ages of
  the last `RestartWarningCount` restarts under each name, the lowest usage
  sampled, and how long a pod has been gone.
* **`PollLoop`**: the main loop in time. A poll is a sequence of stages, each
  with a limit or without one, one of them the discovery cache; the ticker
  keeps at most one tick; `/healthz` is what kubelet acts upon.
* **`Suppression`**: keys as triples, edited at any time and read by every poll,
  the lookup of `isSuppressed`, and the documented meaning of a key (`Matches`).
  An observer, `read`, keeps the keys as the last poll read them. In `Monitor` a poll simply has a set of
  suppressed findings. (An API server does not accept `/` or `*` in ConfigMap
  keys; the model takes the code's key format as it is.)
* **`StateStore`**: `Load` and `Save` one API call at a time, with other
  clients that edit or delete the object between any two calls.
* **`CheckRunner`**: the goroutines behind `buildSnapshot` and `runCheck`, with
  a `CheckTimeout` or without (`timed`). Without one the main goroutine does the
  work itself, which is the same as waiting for a goroutine with no deadline.
* **`StateRegister`**, **`CheckSequence`**: abstract specifications (below).
* **`MCMonitor`**, **`MCSuppression`**, **`MCChecks`**: constants for TLC.

How the modules fit together:

* `StateRegister` is a register that holds the state, is written in one step,
  and is all that survives a process; a state that is not marked dirty is the
  one that a step stored. `StateStore` implements it whatever calls, conflicts
  and lost answers a save takes (`IsRegister`), and `Monitor`, whose saves are
  single steps, implements it too (`KeepsState`): the lifecycle asks no more of
  the store than the store gives.
* `CheckSequence` is a poll that runs its checks one after the other, each once,
  and ends; a check is complete only if what it reads was listed in this poll.
  `CheckRunner` implements it, fairness included (`RunsInSequence`). This is
  what `RunCheck` of `Monitor` takes for granted.
* `Monitor` takes the results of checks from the constant `Worlds`. That these
  have one score for each id is shown of the checks by `OneScorePerFinding`;
  without it `EventuallySilent` would fail. That a poll can be complete at all
  is `EnabledIsListed`.

Data is abstracted to what decisions depend on. Times are relative to the
current poll: `lastSeen` is an age that stops growing at `MaxAge`, a cooldown is
what remains of it; so a run polls for ever in a finite state space. A state's
size is counted in findings in `Monitor` and in observations in `Observations`:
the code drops all observations before any finding. Observations appear in
`Monitor` only where they mark the state dirty (`RunCheck`, `Changed`).

Operators whose names contain an underscore (`StateChange_NoRetry`,
`LoadGet_Writeable`, ...) are mutants: the definition as a plausible bug would
leave it. Each checked property is known to fail under one of them.

## Runs

| Run | Checks | Instance |
|---|---|---|
| `monitor_delivery` | `TypeOK`, `ConsumerInSync`, `SeenIsAnnounced`, `NoOrphan`, `CleanMeansSaved`, `CooldownRespected`, `StopSaves`, `KeepsState` | one finding of a check that passes over what it cannot read, at times suppressed, with scores 60, 65 (same classification), 85; cooldowns 2 and 1, retention 2, write interval 2, polls 1 or 3 apart, signals and restarts |
| `monitor_limits` | `FindingCap`, `CleanMeansSaved` (where writes are refused for their size), `PruneOrder`, `OngoingKept` | three findings, cap 2, room for 1, one crash or failed load or failed last save |
| `monitor_liveness` | `EventuallyAnnounced`, `ResolvedOnceChecksRecover`, `EventuallySilent`, `ResolutionSound` | two checks, one partial, a finding raised once or twice and at times suppressed, fairness |
| `store_save` | `TypeOK`, `CleanMeansStored`, `RefusesWhatItRead`, `EventuallyStored`, `IsRegister` | four edits, one deletion, one failed load, fairness |
| `runner_poll` | `TypeOK`, `NoSnapshotRace`, `AppliesOwnResult`, `NoLeak`, `RunsInSequence` | two checks, four goroutines, one of which may hang, with deadlines or without, fairness |
| `poll_loop` | `TypeOK`, `NoFalseAlarm`, `ListsAreRecent`, `WedgedPollEnds`, `ServedIsScanned` | one check and the custom resources, one call that hangs, a resource that comes and goes, fairness |
| `observations` | `TypeOK`, `RestartsReal`, `TrendReal`, `ForgetsOldest`, `ForgottenInTime` | one pod with both observations, a cap of one, a crash |
| `checks` | `EnabledIsListed`, `OneScorePerFinding`, `TroubledIsScanned`, `RecentEventsReported` | every kind of object, all ten checks or one, with the metrics server or without, no list or call or one failing |

Four runs show where the code does not do what a document or comment says; each
is a finding in `PROJECT.json` with the quotation:

| Run | Shows |
|---|---|
| `monitor_crash` | a crash before the throttled save loses a published resolution; the finding comes back and is not announced (`EventuallyAnnounced`) |
| `store_overwrite` | a failed `Get` at start leads to an unreadable state being overwritten (`RefusesToOverwrite`) |
| `suppression_wildcards` | a key `*/name/*` is read and never looked up (`SuppressesWhatMatches`) |
| `observations_window` | restarts within `RESTART_WINDOW` that fall into different poll intervals are not counted together (`BurstReported`) |

Other disagreements, and behaviour that a reader may not expect, are built into
the passing properties as exceptions:

* The cap on findings silently forgets an ongoing finding when no resolved one
  is left; it is then never closed on the topic, and its cooldown is lost, though
  the README (285) says that a resolution is emitted. `OngoingKept` says exactly
  when; `NoOrphan` and `CooldownRespected` are checked without a cap.
* Suppressing an ongoing finding publishes its resolution
  (`src/chart/values.yaml:206`: "Suppressed findings are still computed and
  scored, they are just not published"): the first exception of
  `ResolutionSound`. `ResolvedOnceChecksRecover` says that it always does.
* A custom resource that cannot be listed, or a log that cannot be read, is
  passed over by a check that still calls itself complete, and its findings are
  closed (the rule at `src/snapshot.go:19`, that a check without its inputs is
  incomplete, does not extend to these): the second exception of
  `ResolutionSound`.
* A score that falls within its classification is not published
  (`ConsumerInSync` only promises a published score that is not lower).
* Two checks that fail in turn keep a finding open for ever
  (`ResolvedOnceChecksRecover` assumes that checks recover together); one broken
  aggregated API makes discovery, and with it every poll, incomplete.
* A ConfigMap deleted while the monitor runs, or missing when a load fails, is
  not created again (`EventuallyStored` excepts a missing object).
* A poll in which several checks run into their deadline may exceed the gap of
  `/healthz` and get the process killed, although the default is meant to give
  "enough slack for one slow poll" (`src/health.go:36`): `NoFalseAlarm` promises
  one check. A call that hangs in the first poll is never noticed
  (`WedgedPollEnds` begins after it).
* An event that recurs without a `LastTimestamp` is dated by its first
  occurrence (`RecentEventsReported`). Two events whose reasons differ only in
  their spelling share an id and may have two scores (`OneScorePerFinding`).
* Memory samples and the restart baseline pass to a new pod of the same name
  (`TrendReal` speaks of the name), and a memory observation is dated by its
  first sample, so that it is forgotten, and its trend starts again,
  `OBSERVATION_RETENTION` later.
* Cooldowns are kept only as long as the record of the finding: with a retention
  shorter than a cooldown, a finding that comes back is flagged again within it
  (`CooldownRespected` is about the other case).
* Without a `CheckTimeout`, a call that hangs stops the polls; `RunsInSequence`
  then assumes that none does.
* `Reconciling` is listed among the negative conditions, and
  `src/checks.go:663` speaks of "Reconciling>threshold", but it never raises a
  finding (`checkCustomResources`).

### Bounds

* Findings: decisions are made per finding, so one with all its score changes is
  enough for delivery; pruning compares findings, and three are the fewest with
  which the cap leaves more than the ConfigMap has room for.
* Times: polls 1 or 3 apart step into, onto and over cooldown 2, retention 2 and
  write interval 2. `MaxAge` is one above the retention; ages are compared with
  nothing else but each other, and in `monitor_limits` the ages 0, 1 and 2 occur.
* `MaxFaults`: crashes, failed loads and failed last saves. It is 0 where a
  property does not survive a crash (`monitor_crash` shows which) and 1 in
  `monitor_limits`.
* `StateStore`: four edits are one more than the three attempts of a `Save` need
  to run out.
* `CheckRunner`: four slots, since a goroutine that hangs for ever holds its own
  slot and that of its snapshot, and a poll needs two.
* `Observations`: one pod has the two kinds of observation that compete for the
  place that the cap of one leaves. Two restarts are what it takes to report, so
  that they may fall into one poll interval or two; three samples, which is also all
  that are kept, are the fewest with a trend, and a retention of 3 is long enough
  to collect one more than are kept.
* `PollLoop`: the check's deadline, the intervals and the life of the cache are
  chosen so that a poll may outlast an interval, and the cache both a poll and
  an interval.
* `Suppression`: one key, in any form and either case, is enough for the violation.
* `Checks`: one object, since checks look at one object at a time (a service
  carries the number of pods it selects); two containers or two events, since
  these raise findings together. Ages are counted in units of five minutes. To
  keep the run short some fields of a pod go together (a pod that runs uses much
  memory, one that restarts has ten lines that match); the theorems have all
  combinations.

### Fairness

`Monitor`: the steps of a poll, the ticker and the restart by kubelet go on
(weak fairness). A check that is run again and again is some time complete, a
publish tried again and again is some time confirmed, and a process that is to
stop does stop (strong fairness); the pod is not restarted for ever. Crashes and
cluster changes are never owed. `StateStore`: the main goroutine goes on, and
API calls that are repeated are answered some time. `CheckRunner`: the Go
scheduler and timers; calls end when their context does, except in the
goroutines of `Hanging`; without a `CheckTimeout` no call hangs. `PollLoop`: time passes, the main goroutine goes on
unless a call hangs, kubelet restarts what fails its probe, and discovery that is
repeated succeeds some time.

## Proofs

The theorems hold for every value of the constants that satisfies the named
assumptions of the modules (`ConfigAssumption` and its companions in `Monitor`,
`StoreAssumption`, `RunnerAssumption`, `LoopAssumption`,
`ObservationAssumption`, `ChecksAssumption`, `SubjectsAssumption`), which TLC
evaluates in every run. Where a theorem needs more, it says so itself.

Every theorem follows the same line: an inductive invariant, a lemma for each
action that can disturb it, and lemmas about the operators the actions are made
of. What the invariants add to the properties is where the reasons lie:

* **`MonitorProofs`**, no further assumptions except where given.
  `TypeCorrect` is inductive together with `PhaseOK` (work is left over only in
  the phase it belongs to), without which the positions left to collect could
  outlive a change of the cluster. `CleanStaysSaved` holds through crashes,
  failed loads and refused saves: a step that changes the findings marks them
  dirty, and only one that stores them clears the mark. `StopStores` needs
  `MaxStateSize = 0` (no limit), as a state too large to store is refused.
  `CapHolds`, `PrunesInOrder` and `KeepsOngoing` rest on `EndShape`, which says
  what the end of a poll forgets in all: the expired findings, what the cap
  takes of the rest (resolved ones first, then the stalest), and what the size
  limit takes of what is left then (only resolved ones, the stalest first).
  `ResolvesSoundly` needs `CoverInv` (as long as every check was complete, what
  the checks that have run report was seen, is suppressed or is still being
  collected) and `PendingInv` (what is still to be closed is suppressed or not
  reported): the property itself speaks of one step, long after the results it
  depends on were collected.
* **`MonitorSyncProofs`**, what the consumers know. `ConsumerStaysInSync` and
  `SeenStaysAnnounced` assume `MaxFaults = 0` and `MaxStateSize = 0`: the run
  `monitor_crash` shows that the first is needed, and a refused last save loses
  state like a crash. `ConsumerInSync` speaks of a running process; to be
  inductive it has to hold also while the process is down, of what the next
  start will load. `Memory` is that: the findings in memory, or the saved ones
  when there is no process. `SyncInv` says that `Memory` agrees with the topic,
  that a clean state is the saved one, and that what the poll has seen is marked
  for a retry or agreed on.
  `NothingOrphaned` (with `MaxFindings = 0`, since the cap does orphan findings)
  needs `TrackedInv`: what is open on the topic is ongoing in `Memory`.
  `CooldownsRespected` (besides, `Retention = 0` or at least the longest
  cooldown) needs `CoolInv`: what is left of a cooldown and the age of its
  record add up to at most the longest cooldown, so that a record whose
  retention is over has no cooldown left to lose.
  `MonitorKeepsState` is the refinement of `StateRegister`, crashes included,
  for `MaxStateSize = 0`.
* **`StateStoreProofs`**: `StoreTypeCorrect`, `CleanStaysStored`,
  `NeverReplacesWhatItRead` and the refinement `StoreIsRegister`, from
  `StoreInv`: a load begins with a fresh state, a save goes on only while the
  state is dirty and may be written, and a store that may write has not read a
  state that it cannot use.
* **`CheckRunnerProofs`**: `RunnerTypeCorrect`, `SnapshotsDoNotRace`,
  `ResultIsItsOwn` and `RunsInSequenceSafely` (initial states and steps of
  `CheckSequence`, without its fairness), from `RunnerInv`: the goroutine that
  the monitor waits for is the one it started last, a listing fills the snapshot
  named after it, and a result is complete only if its inputs were listed. An
  abandoned goroutine keeps its slot, and with it its snapshot, until it ends.
* **`SuppressionProofs`**: `HidesNothingElse`, from the fact that folding case
  makes no wildcard of a name, and that the rules in force are the keys read by
  this poll. `ExactWithoutNameOnlyKeys` says what is left of
  `SuppressesWhatMatches`, which the run `suppression_wildcards` refutes: it holds
  as long as no key has the form `*/name/*`. Both assume of folding case what
  `LowerAssumption` says. That nothing else is hidden is shown by proof alone, as
  the one run of `Suppression` is the one that fails.
* **`PollLoopProofs`**: `LoopTypeCorrect`; `NeverFalselyAlarmed` from `TimeInv`
  (while the loop waits, the time since the last poll and what the ticker has
  left add up to at most an interval; in a poll it is at most an interval more
  than the age of the poll); `ScansWhatIsRecent` from `CacheInv` (what a valid
  cache holds was served when its life began).
* **`ObservationsProofs`**: `ObservationsTypeCorrect`; `RestartsAreReal`,
  `TrendsAreReal` and `GoneIsForgotten` from `ObsInv`. It says of every
  observation, in memory *and saved*, that its pod was there when it was made,
  that as many of the last restarts as it lacks are not older than it, and that
  no usage in it is below the lowest one sampled. The saved ones are needed
  since a crash brings them back; a pod that is made anew has fewer restarts
  than any baseline, so that it asks nothing of the observers.
  `OldestIsForgotten` assumes a retention: the ages of the model stop growing
  beyond it, so that without one they do not tell the oldest apart.
* **`ChecksProofs`**: `EnabledAreListed`, `OneScoreEach`, `TroubledAreScanned`
  and `RecentEventsAreReported`, for any objects with the fields and reasons of
  the model, and any set of the ten checks. The invariant is that the object keeps the fields of its kind and
  stays `Possible` as time passes. Each check's findings are described by a
  lemma; that one id has one score follows as no two checks share a name, and
  no check maps two reasons with different scores to one.

What the proofs found: a phase missing from `PhaseOK`; that no finding may have
the id of `NoMessage`; that `Older` of `Observations` had overlapping cases; that
a latency longer than every limit left the type of `spent` in `PollLoop` (now
bounded by `MaxSpent`); and that `Checks` built reasons from strings, of which
nothing could be proved (now tables, as for `normalizeReason`). None of these is
a fault of the program.

Only model-checked, since liveness under fairness is out of the prover's reach:
`EventuallyAnnounced`, `ResolvedOnceChecksRecover`, `EventuallySilent`,
`EventuallyStored`, `NoLeak`, `WedgedPollEnds`, `ServedIsScanned`, and the
fairness of `CheckSequence` in `RunsInSequence`. The four runs that expect a
violation are counterexamples, and TLC's as well.

## Not modelled

* Regular expressions, evidence texts, JSON and hashes: a log is how many of its
  lines match, an id is a value, a state is what its fields decide. Severity is
  a second function of the score.
* Building the clients, the HTTP server and the parsing of the environment: they
  run once, before the first poll, and keep no state.
* Metrics: written and never read by the program.
* The example consumer: `Monitor` has its own observer of the topic.
* Chart and manifests: one replica with the `Recreate` strategy is why two
  processes at once are not modelled.
* Clock steps: time does not run backwards.

## Plan

The system is modelled as far as its own logic goes, and every safety property
that a passing run checks is a theorem. Left are:

1. theorems that say where the assumptions of `MonitorSyncProofs` are needed:
   what of `ConsumerInSync` survives a crash (what was announced since the last
   save is all that may differ), and what the cap may orphan;
2. the safety part of the liveness properties: that a finding marked for a retry
   stays marked until it is announced, and that a published resolution is not
   repeated while the cluster stays as it is.
