------------------------------ MODULE Monitor ------------------------------
(***************************************************************************)
(* The finding lifecycle of the monitor (monitor.go): one process that     *)
(* polls, runs its checks in a fixed order, publishes what changed, closes *)
(* what disappeared, prunes its memory and saves it, throttled, to a       *)
(* ConfigMap it reloads when it restarts.                                  *)
(*                                                                         *)
(* Around it stand the parts the program only calls: the cluster (what     *)
(* each check would report now), the broker (a publish is acknowledged,    *)
(* rejected, or fails although the record was delivered) and the state     *)
(* ConfigMap (a save succeeds, fails, or fails although it was applied).   *)
(*                                                                         *)
(* Times are kept relative to the current poll, so that a run may poll for *)
(* ever in a finite state space: lastSeen is an age (it stops growing at   *)
(* MaxAge, beyond which nothing is compared with it), a cooldown is what   *)
(* remains of it (-1 once now is after it, or when there is none).         *)
(***************************************************************************)
EXTENDS Finding, FiniteSets, Sequences, FiniteSetsExt

CONSTANTS
    Ids,               \* the findings the checks can raise
    Enabled,           \* the check families switched on (Config.Checks)
    Worlds,            \* what each enabled check may report: [Enabled -> Seq]
    SuppressSets,      \* what the suppression ConfigMap may suppress
    TriageEnabled,     \* DownstreamTriageEnabled
    MinScore,          \* DownstreamMinScore
    DownstreamCooldown,
    DownstreamCooldownIncident,   \* 0: incidents use DownstreamCooldown
    Retention,         \* ResolvedFindingRetention, 0: never expire
    MaxFindings,       \* cap on known findings, 0: none
    MaxStateSize,      \* MaxStateBytes, counted in findings, 0: none
    WriteInterval,     \* StateWriteInterval
    TimeSteps,         \* how far apart two polls may be
    MaxAge,            \* bound: where an age stops growing
    MaxFaults          \* bound: crashes, failed loads and failed last saves

Families == {"pods", "resource-spec", "events", "workloads", "services",
             "pvcs", "scaling", "logs", "resource-usage", "custom-resources"}

\* One finding in the result of a check.
Reported == [id : Ids, score : 0..100]

MaxCooldown == IF DownstreamCooldownIncident > DownstreamCooldown
               THEN DownstreamCooldownIncident ELSE DownstreamCooldown

ASSUME EnabledAssumption == Enabled \subseteq Families
ASSUME WorldsAssumption ==
    /\ Worlds # {}
    /\ \A w \in Worlds : w \in [Enabled -> Seq(Reported)]
ASSUME SuppressAssumption ==
    /\ {} \in SuppressSets
    /\ \A s \in SuppressSets : s \subseteq Ids
ASSUME ConfigAssumption ==
    /\ IsFiniteSet(Ids)
    /\ "none" \notin Ids               \* the id of NoMessage
    /\ TriageEnabled \in BOOLEAN
    /\ {MinScore, DownstreamCooldown, DownstreamCooldownIncident, Retention,
        MaxFindings, MaxStateSize, WriteInterval, MaxFaults} \subseteq Nat
    /\ TimeSteps \subseteq Nat \ {0}
    /\ TimeSteps # {}
    /\ MaxAge \in Nat
    /\ MaxAge > Retention

VARIABLES
    cluster,     \* what each enabled check would report if it ran now
    pc,          \* "down" | "start" (before the first poll) | "idle" (waiting
                 \* for a tick) | "checks" | "resolve"
    todo,        \* the checks this poll has not run yet
    current,     \* the check whose result is being collected
    left,        \* positions of that result not collected yet
    complete,    \* no check of this poll was incomplete so far
    active,      \* findings seen in this poll
    pending,     \* missing findings this poll still has to close
    suppressed,  \* findings suppressed in this poll
    findings,    \* m.state.Findings
    dirty,       \* m.dirty
    writeAge,    \* time since m.lastWrite, counted up to WriteInterval
    saved,       \* the findings in the state ConfigMap
    loaded,      \* this process has read, or written, the ConfigMap
    stopping,    \* the process was told to stop: its context is cancelled
    faults,      \* faults so far, at most MaxFaults
    view,        \* observer: the last record of each finding on the topic
    quiet,       \* observer: what remains of the cooldown announced by the
                 \* last acknowledged triage flag of each finding
    sent         \* observer: the record this step put on the topic

pollVars    == <<todo, current, left, complete, active, pending, suppressed>>
storeVars   == <<writeAge, saved, loaded>>
observer    == <<view, quiet>>
vars == <<cluster, pc, pollVars, findings, dirty, storeVars, stopping, faults,
          observer, sent>>

-----------------------------------------------------------------------------
(* Records.                                                                *)

\* What FindingState keeps, less names and FirstSeen.  Absent stands for an
\* id that is not in the map.  The classification is that of the score: the
\* code always assigns the two together.
FindingState ==
    [status    : {"absent", "ongoing", "resolved"},
     score     : 0..100,
     published : BOOLEAN,               \* LastPublished # nil
     failed    : BOOLEAN,               \* LastPublishFailed # nil
     cooldown  : -1..MaxCooldown,       \* CooldownUntil - now
     lastSeen  : 0..MaxAge]             \* now - LastSeen

Absent == [status |-> "absent", score |-> 0, published |-> FALSE,
           failed |-> FALSE, cooldown |-> -1, lastSeen |-> 0]

newMonitorState == [id \in Ids |-> Absent]

Known(fs)    == {id \in Ids : fs[id].status # "absent"}
Resolved(fs) == {id \in Ids : fs[id].status = "resolved"}
Ongoing(fs)  == {id \in Ids : fs[id].status = "ongoing"}
Drop(fs, S)  == [id \in Ids |-> IF id \in S THEN Absent ELSE fs[id]]

NoMessage == [id |-> "none"]
Message   == [id : Ids, status : {"ongoing", "resolved"}, score : 0..100,
              triage : BOOLEAN]
View      == [status : {"absent", "ongoing", "resolved"}, score : 0..100]

\* d units of time later.
Remaining(cooldown, d) == IF cooldown - d < -1 THEN -1 ELSE cooldown - d
Older(age, d)          == IF age + d > MaxAge THEN MaxAge ELSE age + d
Tick(fs, d) ==
    [id \in Ids |->
        IF fs[id].status = "absent" THEN fs[id]
        ELSE [status    |-> fs[id].status,
              score     |-> fs[id].score,
              published |-> fs[id].published,
              failed    |-> fs[id].failed,
              cooldown  |-> Remaining(fs[id].cooldown, d),
              lastSeen  |-> Older(fs[id].lastSeen, d)]]

-----------------------------------------------------------------------------
(* Decisions of collectFindings on a reported finding f, given the record  *)
(* st of its id.                                                           *)

\* Mutant: the classification is not compared.
StateChange_ScoreOnly(st, f) ==
    st.status # "ongoing" \/ ~st.published \/ st.failed \/ f.score > st.score

\* Mutant: a score that is not lower counts as worse.
StateChange_NotLower(st, f) ==
    st.status # "ongoing" \/ ~st.published \/ st.failed \/ f.score >= st.score

\* Mutant: a failed publish is not retried.
StateChange_NoRetry(st, f) ==
    \/ st.status # "ongoing"
    \/ f.score > st.score
    \/ classificationForScore(f.score) # classificationForScore(st.score)

\* The finding is new, reappeared, was never delivered, or got worse.
StateChange(st, f) ==
    \/ st.status \in {"absent", "resolved"}
    \/ ~st.published
    \/ st.failed
    \/ f.score > st.score
    \/ classificationForScore(f.score) # classificationForScore(st.score)

\* f asks for downstream triage, and no earlier request is cooling down.
TriageDue(st, f) ==
    /\ TriageEnabled
    /\ f.score >= MinScore
    /\ st.cooldown < 0

\* Mutant: the cooldown of an incident is added to the common one.
CooldownFor_Sum(f) ==
    IF classificationForScore(f.score) = "incident-likely"
    THEN DownstreamCooldownIncident + DownstreamCooldown
    ELSE DownstreamCooldown

CooldownFor(f) ==
    IF /\ classificationForScore(f.score) = "incident-likely"
       /\ DownstreamCooldownIncident > 0
    THEN DownstreamCooldownIncident ELSE DownstreamCooldown

\* What is written to the record before the publish is attempted.
Seen(st, f) == [status    |-> "ongoing",
                score     |-> f.score,
                published |-> st.published,
                failed    |-> st.failed,
                cooldown  |-> st.cooldown,
                lastSeen  |-> 0]

\* The record after the publish attempt: a failed one leaves the cooldown
\* alone, so that the triage flag is retried.
Published(st, f) ==
    [status    |-> "ongoing",
     score     |-> f.score,
     published |-> TRUE,
     failed    |-> FALSE,
     cooldown  |-> IF TriageDue(st, f) THEN CooldownFor(f) ELSE st.cooldown,
     lastSeen  |-> 0]

\* Mutant: a failed publish is not recorded.
AfterPublish_Forgets(st, f, acked) ==
    IF acked THEN Published(st, f) ELSE Seen(st, f)

AfterPublish(st, f, acked) ==
    IF acked THEN Published(st, f)
             ELSE [Seen(st, f) EXCEPT !.failed = TRUE]

\* The record of a closed finding keeps its cooldown.
Closed(st) == [status    |-> "resolved",
               score     |-> 0,
               published |-> TRUE,
               failed    |-> FALSE,
               cooldown  |-> st.cooldown,
               lastSeen  |-> 0]

\* Mutant: closed although the resolution may not have gone out.
AfterResolve_Early(st, acked) == Closed(st)

\* Mutant: closing a finding ends its cooldown.
AfterResolve_Cooldown(st, acked) ==
    IF acked THEN [Closed(st) EXCEPT !.cooldown = -1]
             ELSE [st EXCEPT !.failed = TRUE]

\* resolveMissingFindings: closed only once the broker confirmed.
AfterResolve(st, acked) ==
    IF acked THEN Closed(st) ELSE [st EXCEPT !.failed = TRUE]

\* How a publish may end.  ProduceSync can time out, or be cancelled, after
\* the broker took the record; a cancelled context never sees it confirmed.
Outcomes == IF stopping THEN {"rejected", "unconfirmed"}
                        ELSE {"acked", "rejected", "unconfirmed"}

\* The effect of a publish on the topic and its readers.
Deliver(m, outcome) ==
    /\ sent' = IF outcome = "rejected" THEN NoMessage ELSE m
    /\ view' = IF outcome = "rejected" THEN view
               ELSE [view EXCEPT ![m.id] = [status |-> m.status,
                                            score |-> m.score]]
    /\ quiet' = IF outcome = "acked" /\ m.triage
                THEN [quiet EXCEPT ![m.id] = CooldownFor(m)] ELSE quiet

-----------------------------------------------------------------------------
(* Expiry and pruning at the end of a poll.                                *)

expireResolvedFindings(fs) ==
    Drop(fs, {id \in Resolved(fs) : Retention > 0
                                    /\ fs[id].lastSeen > Retention})

\* Mutant: the freshest go first.
pruneFindingsByStatus_Fresh(fs, candidates, n) ==
    LET count == IF n > Cardinality(candidates) THEN Cardinality(candidates)
                 ELSE n
    IN  {Drop(fs, S) : S \in
            {T \in kSubset(count, candidates) :
                \A x \in T, y \in candidates \ T :
                    fs[x].lastSeen <= fs[y].lastSeen}}

\* The ways to delete the n oldest of the candidates: sort.Slice leaves the
\* order of equally old ones open.
pruneFindingsByStatus(fs, candidates, n) ==
    LET count == IF n > Cardinality(candidates) THEN Cardinality(candidates)
                 ELSE n
    IN  {Drop(fs, S) : S \in
            {T \in kSubset(count, candidates) :
                \A x \in T, y \in candidates \ T :
                    fs[x].lastSeen >= fs[y].lastSeen}}

Excess(fs, bound) == Cardinality(Known(fs)) - bound

\* Mutant: only resolved findings are given up for the cap.
pruneFindingCap_Resolved(fs) ==
    IF MaxFindings = 0 \/ Excess(fs, MaxFindings) <= 0 THEN {fs}
    ELSE pruneFindingsByStatus(fs, Resolved(fs), Excess(fs, MaxFindings))

pruneFindingCap(fs) ==
    IF MaxFindings = 0 \/ Excess(fs, MaxFindings) <= 0 THEN {fs}
    ELSE UNION {IF Excess(gs, MaxFindings) <= 0 THEN {gs}
                ELSE pruneFindingsByStatus(gs, Known(gs),
                                           Excess(gs, MaxFindings))
                : gs \in pruneFindingsByStatus(fs, Resolved(fs),
                                               Excess(fs, MaxFindings))}

\* Mutant: the size limit takes ongoing findings too.
pruneForStateSize_Any(fs) ==
    IF MaxStateSize = 0 \/ Excess(fs, MaxStateSize) <= 0 THEN {fs}
    ELSE pruneFindingsByStatus(fs, Known(fs), Excess(fs, MaxStateSize))

\* Resolved findings go one at a time until the state fits or none is left.
\* Observations, which the code deletes before any finding, are not counted.
pruneForStateSize(fs) ==
    IF MaxStateSize = 0 \/ Excess(fs, MaxStateSize) <= 0 THEN {fs}
    ELSE pruneFindingsByStatus(fs, Resolved(fs), Excess(fs, MaxStateSize))

TooLarge(fs) == MaxStateSize > 0 /\ Excess(fs, MaxStateSize) > 0

-----------------------------------------------------------------------------
(* Checks.                                                                 *)

\* Poll runs the enabled checks in this order.
PollOrder == <<"pods", "resource-spec", "events", "workloads", "services",
               "pvcs", "scaling", "logs", "resource-usage",
               "custom-resources">>

\* c is the next of the checks S.
FirstOf(c, S) ==
    /\ c \in S
    /\ \A i, j \in DOMAIN PollOrder :
           PollOrder[i] = c /\ PollOrder[j] \in S => i <= j

\* checkWorkloads reports what it could list and says it is incomplete.
PartialChecks == {"workloads"}

\* A failed log stream, or a failed list of one custom resource, is skipped:
\* these two report less and still say they are complete.
LenientChecks == {"logs", "custom-resources"}

\* These two bring observations with a complete result.
ObservingChecks == {"pods", "resource-usage"}

\* checkResult: the positions of the findings it holds.
Result(found, ok) == [found |-> found, complete |-> ok]

\* Mutant: a partial check forgets to say that it is incomplete.
Results_PartialComplete(c) ==
    LET all == DOMAIN cluster[c]
    IN  {Result(all, TRUE), Result({}, FALSE)}
        \cup (IF c \in PartialChecks \cup LenientChecks
              THEN {Result(S, TRUE) : S \in SUBSET all} ELSE {})

\* What runCheck may return for check c: which of the findings there are to
\* report, and whether the check was complete.  A timed out check, or one
\* whose inputs could not be listed, returns nothing.
Results(c) ==
    LET all == DOMAIN cluster[c]
    IN  {Result(all, TRUE), Result({}, FALSE)}
        \cup {Result(S, FALSE) : S \in {T \in SUBSET all : c \in PartialChecks}}
        \cup {Result(S, TRUE)  : S \in {T \in SUBSET all : c \in LenientChecks}}

\* The check c, or some check, reports id now.
ReportedBy(c, id) == \E i \in DOMAIN cluster[c] : cluster[c][i].id = id
IsReported(id)    == \E c \in Enabled : ReportedBy(c, id)

-----------------------------------------------------------------------------
(* The process.                                                            *)

Init ==
    /\ cluster \in Worlds
    /\ pc = "down"
    /\ todo = {} /\ current = "none" /\ left = {}
    /\ complete = TRUE /\ active = {} /\ pending = {} /\ suppressed = {}
    /\ findings = newMonitorState
    /\ dirty = FALSE
    /\ writeAge = WriteInterval
    /\ saved = newMonitorState
    /\ loaded = FALSE
    /\ stopping = FALSE
    /\ faults = 0
    /\ view = [id \in Ids |-> [status |-> "absent", score |-> 0]]
    /\ quiet = [id \in Ids |-> -1]
    /\ sent = NoMessage

\* The cluster changes.  That it does so only between polls loses nothing:
\* each check looks at the cluster once in a poll.
ClusterChange ==
    /\ pc \in {"down", "start", "idle"}
    /\ cluster' \in Worlds
    /\ cluster' # cluster
    /\ sent' = NoMessage
    /\ UNCHANGED <<pc, pollVars, findings, dirty, storeVars, stopping, faults,
                   observer>>

\* main: the state is loaded; when it cannot be, the monitor starts afresh.
\* The first poll follows before the main loop looks at the signal.
Start(ok) ==
    /\ pc = "down"
    /\ ok \/ faults < MaxFaults
    /\ pc' = "start"
    /\ findings' = IF ok THEN saved ELSE newMonitorState
    /\ loaded' = ok
    /\ faults' = IF ok THEN faults ELSE faults + 1
    /\ dirty' = FALSE
    /\ writeAge' = WriteInterval      \* lastWrite is zero
    /\ sent' = NoMessage
    /\ UNCHANGED <<cluster, pollVars, saved, stopping, observer>>

\* A poll starts, d after the last one.  When the suppression ConfigMap
\* cannot be read, nothing is suppressed.
BeginPoll(d, s) ==
    /\ pc \in {"start", "idle"}
    /\ stopping => s = {}
    /\ pc' = "checks"
    /\ suppressed' = s
    /\ todo' = Enabled
    /\ complete' = TRUE
    /\ active' = {}
    /\ findings' = Tick(findings, d)
    /\ saved' = Tick(saved, d)
    /\ quiet' = [id \in Ids |-> Remaining(quiet[id], d)]
    /\ writeAge' = IF writeAge + d > WriteInterval THEN WriteInterval
                   ELSE writeAge + d
    /\ sent' = NoMessage
    /\ UNCHANGED <<cluster, current, left, pending, dirty, loaded, stopping,
                   faults, view>>

\* The next check returns the result r.  The observations applyResult merges
\* first, if there are any, mark the state dirty.
RunCheck(c, r) ==
    /\ pc = "checks" /\ left = {}
    /\ FirstOf(c, todo)
    /\ todo' = todo \ {c}
    /\ current' = c
    /\ left' = r.found
    /\ complete' = (complete /\ r.complete)
    /\ dirty' \in {dirty, dirty \/ (r.complete /\ c \in ObservingChecks)}
    /\ sent' = NoMessage
    /\ UNCHANGED <<cluster, pc, active, pending, suppressed, findings,
                   storeVars, stopping, faults, observer>>

\* The finding at position i is the next one of the result to collect.
NextFinding(i) ==
    /\ pc = "checks"
    /\ i \in left
    /\ \A j \in left : i <= j

SkipSuppressed(i) ==
    /\ NextFinding(i)
    /\ cluster[current][i].id \in suppressed
    /\ left' = left \ {i}
    /\ sent' = NoMessage
    /\ UNCHANGED <<cluster, pc, todo, current, complete, active, pending,
                   suppressed, findings, dirty, storeVars, stopping, faults,
                   observer>>

\* A finding that is already known downstream is only noted.
CollectQuietly(i) ==
    LET f  == cluster[current][i]
        st == findings[f.id]
    IN  /\ NextFinding(i)
        /\ f.id \notin suppressed
        /\ ~StateChange(st, f) /\ ~TriageDue(st, f)
        /\ findings' = [findings EXCEPT ![f.id] = Seen(st, f)]
        /\ active' = active \cup {f.id}
        /\ left' = left \ {i}
        /\ dirty' = TRUE
        /\ sent' = NoMessage
        /\ UNCHANGED <<cluster, pc, todo, current, complete, pending,
                       suppressed, storeVars, stopping, faults, observer>>

CollectAndPublish(i, outcome) ==
    LET f  == cluster[current][i]
        st == findings[f.id]
    IN  /\ NextFinding(i)
        /\ f.id \notin suppressed
        /\ StateChange(st, f) \/ TriageDue(st, f)
        /\ findings' = [findings EXCEPT ![f.id] =
                           AfterPublish(st, f, outcome = "acked")]
        /\ Deliver([id |-> f.id, status |-> "ongoing", score |-> f.score,
                    triage |-> TriageDue(st, f)], outcome)
        /\ active' = active \cup {f.id}
        /\ left' = left \ {i}
        /\ dirty' = TRUE
        /\ UNCHANGED <<cluster, pc, todo, current, complete, pending,
                       suppressed, storeVars, stopping, faults>>

\* What is to be closed.  Only a poll in which every check was complete may
\* conclude that a finding it did not see is gone.
Missing == IF complete THEN Ongoing(findings) \ active ELSE {}

EndChecks ==
    /\ pc = "checks" /\ todo = {} /\ left = {}
    /\ pc' = "resolve"
    /\ pending' = Missing
    /\ sent' = NoMessage
    /\ UNCHANGED <<cluster, todo, current, left, complete, active, suppressed,
                   findings, dirty, storeVars, stopping, faults, observer>>

\* One missing finding is closed; the map is visited in any order.
Resolve(id, outcome) ==
    /\ pc = "resolve"
    /\ id \in pending
    /\ pending' = pending \ {id}
    /\ findings' = [findings EXCEPT ![id] =
                       AfterResolve(findings[id], outcome = "acked")]
    /\ Deliver([id |-> id, status |-> "resolved", score |-> 0,
                triage |-> FALSE], outcome)
    /\ dirty' = TRUE
    /\ UNCHANGED <<cluster, pc, todo, current, left, complete, active,
                   suppressed, storeVars, stopping, faults>>

\* Mutant: expiring or pruning does not mark the state dirty.
Changed_Collected(fs, forgot) == dirty

\* Whether the state is dirty once fs is what expiring and pruning left of the
\* findings: that marks it dirty too, as does forgetting observations.
Changed(fs, forgot) == dirty \/ fs # findings \/ forgot

\* Mutant: the throttle also holds back the last save.
Throttled_Always(ahead) == writeAge < WriteInterval

\* The write throttle, asked `ahead' of now: the shutdown path asks a whole
\* interval ahead, so that it always writes.
Throttled(ahead) == writeAge + ahead < WriteInterval

\* Mutant: a state that is too large to write is taken for saved.
maybeSave_TooLargeClean(fs, changed, throttled, results) ==
    \/ /\ ~changed \/ throttled
       /\ findings' = fs
       /\ dirty' = changed
       /\ UNCHANGED storeVars
    \/ /\ changed /\ ~throttled
       /\ \E gs \in pruneForStateSize(fs) :
             /\ findings' = gs
             /\ \/ /\ TooLarge(gs)
                   /\ dirty' = FALSE
                   /\ UNCHANGED storeVars
                \/ /\ ~TooLarge(gs)
                   /\ \E result \in results :
                         /\ dirty' = (result # "saved")
                         /\ saved' = IF result = "failed" THEN saved ELSE gs
                         /\ writeAge' = IF result = "saved" THEN 0
                                        ELSE writeAge
                         /\ loaded' = (loaded \/ result = "saved")

\* Findings fs are saved if they changed and the throttle allows it: what
\* does not fit is pruned, what still does not fit is not written, and the
\* write itself may succeed, fail, or fail although it was applied.
maybeSave(fs, changed, throttled, results) ==
    \/ /\ ~changed \/ throttled
       /\ findings' = fs
       /\ dirty' = changed
       /\ UNCHANGED storeVars
    \/ /\ changed /\ ~throttled
       /\ \E gs \in pruneForStateSize(fs) :
             /\ findings' = gs
             /\ \/ /\ TooLarge(gs)
                   /\ dirty' = TRUE
                   /\ UNCHANGED storeVars
                \/ /\ ~TooLarge(gs)
                   /\ \E result \in results :
                         /\ dirty' = (result # "saved")
                         /\ saved' = IF result = "failed" THEN saved ELSE gs
                         /\ writeAge' = IF result = "saved" THEN 0
                                        ELSE writeAge
                         /\ loaded' = (loaded \/ result = "saved")

\* The end of a poll: expire, prune, save.
FinishPoll ==
    /\ pc = "resolve" /\ pending = {}
    /\ \E fs \in pruneFindingCap(expireResolvedFindings(findings)),
          forgot \in BOOLEAN :
          maybeSave(fs, Changed(fs, forgot), Throttled(0),
                    IF stopping THEN {"failed", "unconfirmed"}
                    ELSE {"saved", "failed", "unconfirmed"})
    /\ pc' = "idle"
    /\ current' = "none" /\ active' = {} /\ suppressed' = {}
    /\ complete' = TRUE
    /\ sent' = NoMessage
    /\ UNCHANGED <<cluster, todo, left, pending, stopping, faults, observer>>

\* SIGTERM: the context of everything the process does is cancelled.
Signal ==
    /\ pc # "down" /\ ~stopping
    /\ stopping' = TRUE
    /\ sent' = NoMessage
    /\ UNCHANGED <<cluster, pc, pollVars, findings, dirty, storeVars, faults,
                   observer>>

\* The main loop saves once more, unthrottled and with a live context.
Shutdown ==
    /\ pc = "idle" /\ stopping
    /\ pc' = "down"
    /\ stopping' = FALSE
    /\ \E results \in {{"saved"}, {"failed"}, {"unconfirmed"}} :
          /\ results = {"failed"} => faults < MaxFaults
          /\ faults' = IF results = {"failed"} THEN faults + 1 ELSE faults
          /\ maybeSave(findings, dirty, Throttled(WriteInterval), results)
    /\ sent' = NoMessage
    /\ UNCHANGED <<cluster, pollVars, observer>>

\* The process dies anywhere; what was not saved is lost.
Crash ==
    /\ pc # "down"
    /\ faults < MaxFaults
    /\ faults' = faults + 1
    /\ pc' = "down"
    /\ stopping' = FALSE
    /\ todo' = {} /\ current' = "none" /\ left' = {}
    /\ complete' = TRUE /\ active' = {} /\ pending' = {} /\ suppressed' = {}
    /\ sent' = NoMessage
    /\ UNCHANGED <<cluster, findings, dirty, storeVars, observer>>

PollStep ==
    \/ \E d \in TimeSteps, s \in SuppressSets : BeginPoll(d, s)
    \/ \E c \in todo : \E r \in Results(c) : RunCheck(c, r)
    \/ \E i \in left : SkipSuppressed(i)
    \/ \E i \in left : CollectQuietly(i)
    \/ \E i \in left, outcome \in Outcomes : CollectAndPublish(i, outcome)
    \/ EndChecks
    \/ \E id \in pending, outcome \in Outcomes : Resolve(id, outcome)
    \/ FinishPoll

Next ==
    \/ PollStep
    \/ \E ok \in BOOLEAN : Start(ok)
    \/ ClusterChange
    \/ Signal
    \/ Shutdown
    \/ Crash

Spec == Init /\ [][Next]_vars

\* The scheduling the code relies on.  The ticker, the select of the main loop
\* and the sequential body of Poll always go on, and kubelet restarts the
\* process (weak fairness); a broker or an API server that is asked again and
\* again at some time answers (strong fairness); the pod is not being stopped
\* for ever.  Crashes and changes of the cluster are never owed.
Fairness ==
    /\ WF_vars(PollStep)
    /\ WF_vars(Start(TRUE))
    /\ SF_vars(Shutdown)
    /\ <>[](~stopping)
    /\ \A c \in Enabled : SF_vars(RunCheck(c, Result(DOMAIN cluster[c], TRUE)))
    /\ \A id \in Ids : SF_vars(Resolve(id, "acked"))
    /\ \A c \in Enabled : SF_vars(current = c /\ \E i \in left :
                                      CollectAndPublish(i, "acked"))

FairSpec == Spec /\ Fairness

-----------------------------------------------------------------------------
(* Properties.                                                             *)

\* Every variable has its type.
TypeOK ==
    /\ cluster \in Worlds
    /\ pc \in {"down", "start", "idle", "checks", "resolve"}
    /\ todo \subseteq Enabled
    /\ current \in Enabled \cup {"none"}
    /\ left # {} => current \in Enabled /\ left \subseteq DOMAIN cluster[current]
    /\ complete \in BOOLEAN
    /\ active \subseteq Ids
    /\ pending \subseteq Ids
    /\ suppressed \subseteq Ids
    /\ findings \in [Ids -> FindingState]
    /\ dirty \in BOOLEAN
    /\ writeAge \in 0..WriteInterval
    /\ saved \in [Ids -> FindingState]
    /\ loaded \in BOOLEAN
    /\ stopping \in BOOLEAN
    /\ faults \in 0..MaxFaults
    /\ view \in [Ids -> View]
    /\ quiet \in [Ids -> -1..MaxCooldown]
    /\ sent \in Message \cup {NoMessage}

\* Which part of a poll the process is in: a result is collected, and checks
\* are left, only while checks run, and findings are closed only after them; a
\* process that has stopped is not being stopped.
PhaseOK ==
    /\ pc # "checks" => left = {} /\ todo = {}
    /\ pc # "resolve" => pending = {}
    /\ pc = "down" => ~stopping

\* The record st is one the monitor need not publish again (its last publish
\* was confirmed), and the reader of the topic agrees with it.
Agrees(st, v) ==
    st.status # "absent" /\ st.published /\ ~st.failed =>
        /\ v.status = st.status
        /\ classificationForScore(v.score) = classificationForScore(st.score)
        /\ v.score >= st.score

\* What the monitor believes it has told its consumers is what they were told
\* last: same status, same classification, and a score they were told that is
\* not lower than the recorded one.  This is what lets collectFindings stay
\* silent about a finding (monitor.go, shouldPublish), however publishes
\* failed, timed out after delivery, or were cut off by a shutdown before.
ConsumerInSync == pc # "down" => \A id \in Ids : Agrees(findings[id], view[id])

\* When a poll has collected its findings, each one it saw is open on the
\* topic with its present classification, unless its publish failed in this
\* poll, in which case the record says so and the next poll retries.
SeenIsAnnounced ==
    pc = "resolve" =>
        \A id \in active :
            \/ findings[id].failed
            \/ /\ view[id].status = "ongoing"
               /\ classificationForScore(view[id].score)
                      = classificationForScore(findings[id].score)

\* A finding the consumers believe open is one the monitor still tracks as
\* ongoing, so that some later poll can close it (resolveMissingFindings only
\* looks at ongoing records).
NoOrphan ==
    pc # "down" =>
        \A id \in Ids : view[id].status = "ongoing"
                            => findings[id].status = "ongoing"

\* A resolution goes out only for a finding that no check reports, with two
\* exceptions: a check that failed, timed out or was partial never closes
\* anything, but suppressing an ongoing finding does, and so does a lenient
\* check that could not look everywhere.
ResolutionSound ==
    [][sent'.id \in Ids /\ sent'.status = "resolved" =>
          \/ sent'.id \in suppressed
          \/ \A k \in Enabled \ LenientChecks : ~ReportedBy(k, sent'.id)]_vars

\* Once a triage flag was acknowledged, no flag for the same finding is put
\* on the topic before the cooldown it announced is over: whatever resolves,
\* reappears, expires, fails or restarts in between.
CooldownRespected ==
    [][sent'.id \in Ids /\ sent'.triage => quiet[sent'.id] < 0]_vars

\* A clean in-memory state is the stored one: no path that changes the state
\* forgets to mark it dirty, and no failed write clears the mark.
CleanMeansSaved ==
    pc # "down" /\ loaded /\ ~dirty => saved = findings

\* What of a state does not change by the passing of time.
Kept(fs) == [id \in Ids |-> [status    |-> fs[id].status,
                             score     |-> fs[id].score,
                             published |-> fs[id].published,
                             failed    |-> fs[id].failed]]

Store == INSTANCE StateRegister WITH
    States <- [Ids -> [status : {"absent", "ongoing", "resolved"},
                       score : 0..100, published : BOOLEAN, failed : BOOLEAN]],
    Fresh <- Kept(newMonitorState), Nothing <- Kept(newMonitorState),
    Unusable <- {},
    up <- pc # "down", dirty <- pc # "down" /\ dirty, others <- 0,
    state <- Kept(IF pc # "down" THEN findings ELSE newMonitorState),
    stored <- Kept(saved)

\* Polls, throttled saves, failed writes, stops and restarts use the ConfigMap
\* as the register that state.go makes of it: every change of the findings is
\* marked dirty until a step stores exactly the findings in memory, and a
\* restart begins with what was stored, or afresh.  It holds as long as no
\* state is too large to store.
KeepsState == Store!Spec

\* A stop by signal stores everything, throttle or not.
StopSaves ==
    [][stopping /\ pc' = "down" /\ faults' = faults /\ (loaded \/ dirty)
          => saved' = findings']_vars

\* The cap holds whenever a poll is over.
FindingCap ==
    pc = "idle" /\ MaxFindings > 0
        => Cardinality(Known(findings)) <= MaxFindings

\* The end of a poll gives up resolved findings before ongoing ones, and
\* among equals never a fresher one while a staler one stays; otherwise only
\* what has outlived its retention.
PruneOrder ==
    [][pc = "resolve" /\ pc' = "idle" =>
        \A x \in Known(findings) \ Known(findings'), y \in Known(findings') :
            LET fx == findings[x]
                fy == findings[y]
            IN  \/ /\ fx.status = "resolved"
                   /\ \/ Retention > 0 /\ fx.lastSeen > Retention
                      \/ fy.status = "ongoing"
                      \/ fx.lastSeen >= fy.lastSeen
                \/ fx.status = "ongoing" /\ fy.status = "ongoing"
                   /\ fx.lastSeen >= fy.lastSeen]_vars

\* While the process runs, only the cap on the number of findings makes it
\* forget an ongoing finding, and only once no resolved one is left to forget:
\* whatever the state size limit asks for.
OngoingKept ==
    [][pc # "down" /\ Ongoing(findings) \cap Known(findings') # Ongoing(findings)
          => /\ MaxFindings > 0
             /\ Resolved(findings') = {}
             /\ Cardinality(Known(findings')) = MaxFindings]_vars

\* From some time on no check is incomplete.
ChecksRecover == <>[][complete => complete']_vars

\* A poll looks for id, and would report it.
LookedFor(id) == pc = "checks" /\ id \notin suppressed /\ IsReported(id)

\* A finding that is gone, or suppressed, for good is at some time closed on
\* the topic.
EventuallyResolved ==
    \A id \in Ids : []<>(LookedFor(id) \/ view[id].status # "ongoing")

\* As above, when the checks recover for good: failed, partial and timed out
\* checks, failed publishes, stops and restarts only delay it.
ResolvedOnceChecksRecover == ChecksRecover => EventuallyResolved

\* A finding that stays is at some time open on the topic, unless it is
\* suppressed time and again.
EventuallyAnnounced ==
    \A id \in Ids : []<>(\/ ~IsReported(id)
                         \/ id \in suppressed
                         \/ view[id].status = "ongoing")

\* From some time on the cluster does not change, every check reports all of
\* it, nothing is suppressed and every record that is sent is confirmed.
Settled ==
    <>[][/\ cluster' = cluster
         /\ \A k \in todo \ todo' : complete' /\ left' = DOMAIN cluster[k]
         /\ suppressed' = {}
         /\ sent'.id \in Ids => ~findings'[sent'.id].failed]_vars

\* A monitor of a cluster that has settled at some time stops publishing, when
\* triage is switched off: no record it keeps provokes another one in every
\* poll.  That findings with the same id have the same score, which Worlds
\* has to ensure, is what Checks shows of the results.
EventuallySilent == ~TriageEnabled /\ Settled => <>[](sent = NoMessage)
=============================================================================
