------------------------------- MODULE Checks -------------------------------
(***************************************************************************)
(* What the checks that look at one listing of the namespace conclude from *)
(* it (snapshot.go, checks.go): which lists a poll makes for the checks    *)
(* that are enabled, which checks are complete when some of them fail, and *)
(* which findings each check makes of the objects.  What is remembered     *)
(* from poll to poll is in Observations, and what becomes of the findings  *)
(* in Monitor.                                                             *)
(*                                                                         *)
(* A behaviour is about one subject in the namespace, with the fields the  *)
(* checks look at, and polls of it.  Durations are counted in units of     *)
(* five minutes, up to MaxAge.                                             *)
(***************************************************************************)
EXTENDS Finding

CONSTANTS
    Subjects,             \* what there may be in the namespace
    EnabledSets,          \* the sets of checks that may be switched on
    FailSets,             \* the sets of lists and calls that may fail in a poll
    RestartWarningCount,
    EventLookback,
    Allowlist, Excludelist,   \* patterns of custom resources
    MaxAge                \* bound: where an age stops growing

Families == {"pods", "resource-spec", "events", "workloads", "services",
             "pvcs", "scaling", "logs", "resource-usage", "custom-resources"}
Lists    == {"pods", "events", "deployments", "statefulsets", "daemonsets",
             "services", "pvcs", "hpas"}

\* What a check asks for itself: the metrics of the pods, or the resources that
\* the API server knows (discovery, or its cached answer).
Calls    == {"metrics", "discovery"}

\* The subjects, by the fields the checks look at.  A container waits for a
\* reason, or does not ("no"); log is how many lines match a pattern; memory is
\* what the samples of its memory usage amount to (Observations).
Reasons     == {"CrashLoopBackOff", "ImagePullBackOff", "ContainerCreating",
                "FailedMount", "failed_mount", "BackOff", ""}
LogPatterns == {"log-panic", "log-connection-refused", "log-error"}
MemoryLevels == {"memory-critical", "memory-trending-to-limit", "memory-high",
                 "memory-trending", "memory-normal"}
Container   == [waiting : Reasons \cup {"no"}, oom : BOOLEAN]
Pod == [kind : {"pod"}, deleted : BOOLEAN, age : 0..MaxAge, pending : BOOLEAN,
        ready : BOOLEAN, restarts : Nat, log : [LogPatterns -> Nat],
        missing : SUBSET {"missing-memory-request", "missing-memory-limit",
                          "missing-cpu-request"},
        memory : MemoryLevels,
        c1 : Container, c2 : Container]

\* Two events about one object: the time since each was made and since it last
\* occurred.  Only a stamped one, with a LastTimestamp, shows the latter.
Event  == [warning : BOOLEAN, reason : Reasons, stamped : BOOLEAN,
           first : 0..MaxAge, last : 0..MaxAge]
Events == [kind : {"events"}, e1 : Event, e2 : Event]

\* A workload is in one of three lists.  matches: how many pods that are not
\* being deleted a service selects.  conditions: of a claim, the normalised
\* types of those that are True; of a custom resource, in lower case.
Workload == [kind : {"workload"}, desired : Nat, ready : Nat, lag : BOOLEAN,
             list : {"deployments", "statefulsets", "daemonsets"}]
Service  == [kind : {"service"}, deleted : BOOLEAN, ingress : BOOLEAN,
             type : {"ClusterIP", "LoadBalancer", "ExternalName"},
             selector : BOOLEAN, matches : Nat]
Claim    == [kind : {"pvc"}, deleted : BOOLEAN,
             phase : {"Pending", "Bound", "Lost"},
             conditions : SUBSET {"resizing", "file-system-resize-pending"}]
Scaler   == [kind : {"hpa"}, deleted : BOOLEAN, active : BOOLEAN, able : BOOLEAN,
             limited : BOOLEAN, current : Nat, desired : Nat, max : Nat]

\* "reconciling", which the code lists as negative too, raises no finding.
Positive == {"ready", "available", "healthy", "synced"}
Negative == {"stalled", "failed"}
Custom   == [kind : {"custom"}, group : STRING, namespaced : BOOLEAN,
             listed : BOOLEAN, lag : BOOLEAN,
             conditions : UNION {[D -> {"True", "False", "Unknown"}] :
                                    D \in SUBSET (Positive \cup Negative
                                                  \cup {"reconciling"})}]
Nothing  == [kind : {"none"}]

\* A pending pod is not ready, and an event occurs from when it is made.
Possible(s) ==
    /\ s.kind = "pod" /\ s.pending => ~s.ready
    /\ s.kind = "events" => \A e \in {s.e1, s.e2} : e.last <= e.first

ASSUME ChecksAssumption ==
    /\ {RestartWarningCount, EventLookback, MaxAge} \subseteq Nat
    /\ MaxAge > EventLookback
    /\ EnabledSets \subseteq SUBSET Families
    /\ FailSets \subseteq SUBSET (Lists \cup Calls)

ASSUME SubjectsAssumption ==
    \A s \in Subjects : /\ s \in Pod \cup Events \cup Workload \cup Service
                               \cup Claim \cup Scaler \cup Custom \cup Nothing
                        /\ Possible(s)

VARIABLES
    enabled,   \* Config.Checks
    metrics,   \* m.metrics # nil: usage is checked, and by the metrics server
    subject,   \* what there is
    found,     \* the findings of this poll: [name, check, reason, score]
    complete,  \* its complete checks
    scanned,   \* the logs of the pod were read in this poll
    polled     \* this step was a poll, and nothing failed in it

vars == <<enabled, metrics, subject, found, complete, scanned, polled>>

F(name, check, reason, score) ==
    [name |-> name, check |-> check, reason |-> reason,
     score |-> clampScore(score)]

\* S if the condition holds.
If(condition, S) == IF condition THEN S ELSE {}

-----------------------------------------------------------------------------
(* snapshot.go: a list is made when an enabled check reads it.             *)

\* Mutant: the check of resource usage is forgotten as a reader of pods.
ReadersOf_NoUsage(list) ==
    CASE list = "pods" -> {"pods", "resource-spec", "services", "logs"}
      [] list = "events" -> {"events"}
      [] list \in {"deployments", "statefulsets", "daemonsets"} -> {"workloads"}
      [] list = "services" -> {"services"}
      [] list = "pvcs" -> {"pvcs"}
      [] list = "hpas" -> {"scaling"}

ReadersOf(list) ==
    CASE list = "pods" -> {"pods", "resource-spec", "services", "logs",
                           "resource-usage"}
      [] list = "events" -> {"events"}
      [] list \in {"deployments", "statefulsets", "daemonsets"} -> {"workloads"}
      [] list = "services" -> {"services"}
      [] list = "pvcs" -> {"pvcs"}
      [] list = "hpas" -> {"scaling"}

listSnapshot(failed) == {l \in Lists : ReadersOf(l) \cap enabled # {}} \ failed

\* What a check asks for before it says it is complete.  Without a client
\* the check of resource usage is complete and finds nothing.
Needs(check) ==
    CASE check \in {"pods", "resource-spec", "logs"} -> {"pods"}
      [] check = "events" -> {"events"}
      [] check = "workloads" -> {"deployments", "statefulsets", "daemonsets"}
      [] check = "services" -> {"services", "pods"}
      [] check = "pvcs" -> {"pvcs"}
      [] check = "scaling" -> {"hpas"}
      [] check = "resource-usage" -> If(metrics, {"metrics", "pods"})
      [] check = "custom-resources" -> {"discovery"}

-----------------------------------------------------------------------------
(* Scores and names of reasons.                                            *)

scoreWaitingReason(reason) ==
    CASE reason = "CrashLoopBackOff" -> 85
      [] reason \in {"ImagePullBackOff", "ErrImagePull", "RunContainerError",
                     "CreateContainerConfigError", "CreateContainerError"} -> 75
      [] reason \in {"ContainerCreating", "PodInitializing"} -> 0
      [] OTHER -> 50

scoreEventReason(reason) ==
    CASE reason \in {"FailedScheduling", "FailedMount", "FailedAttachVolume"} -> 75
      [] reason \in {"BackOff", "CrashLoopBackOff", "Unhealthy", "OOMKilled",
                     "OOMKilling"} -> 70
      [] reason \in {"Failed", "FailedSync", "ReconciliationFailed"} -> 65
      [] OTHER -> 50

\* Mutant: the last word is taken for the reason.
normalizeReason_LastWord(reason) ==
    CASE reason \in {"CrashLoopBackOff", "ImagePullBackOff", "BackOff"} -> "back-off"
      [] reason = "FailedMount" -> "mount"
      [] reason = "" -> "unknown"
      [] OTHER -> "other"

\* Reasons are written with dashes and in lower case; an empty one is unknown.
\* What Kubernetes writes in camel case and others may write with underscores
\* becomes the same.
normalizeReason(reason) ==
    CASE reason = "CrashLoopBackOff"  -> "crash-loop-back-off"
      [] reason = "ImagePullBackOff"  -> "image-pull-back-off"
      [] reason = "ContainerCreating" -> "container-creating"
      [] reason \in {"FailedMount", "failed_mount"} -> "failed-mount"
      [] reason = "BackOff"           -> "back-off"
      [] reason = ""                  -> "unknown"

-----------------------------------------------------------------------------
(* Pods.                                                                   *)

Containers(pod) == {pod.c1, pod.c2}

Waiting(c) == c.waiting # "no" /\ scoreWaitingReason(c.waiting) > 0

checkPods(pod) ==
    If(pod.pending /\ pod.age > 1, {F("pod", "pod-health", "pending-too-long", 55)})
    \cup If(~pod.ready /\ pod.age > 1, {F("pod", "pod-health", "not-ready", 60)})
    \cup {F("pod", "pod-health", normalizeReason(c.waiting),
            scoreWaitingReason(c.waiting)) : c \in {x \in Containers(pod) : Waiting(x)}}
    \cup {F("pod", "pod-health", "oom-killed", 85) : c \in
              {x \in Containers(pod) : x.oom}}

checkResourceSpecs(pod) ==
    {F("pod/c1", "resource-spec", m, IF m = "missing-cpu-request" THEN 30 ELSE 45)
        : m \in pod.missing}

scoreMemory(level) ==
    CASE level = "memory-critical"          -> 80
      [] level = "memory-trending-to-limit" -> 72
      [] level = "memory-high"              -> 62
      [] level = "memory-trending"          -> 45

checkResourceUsage(pod) ==
    If(metrics /\ pod.memory # "memory-normal",
       {F("pod", "resource-usage", pod.memory, scoreMemory(pod.memory))})

\* Mutant: only pods that restarted are scanned.
shouldScanLogs_Restarts(pod) == pod.restarts >= RestartWarningCount

shouldScanLogs(pod) ==
    \/ ~pod.ready
    \/ \E c \in Containers(pod) : Waiting(c)
    \/ pod.restarts >= RestartWarningCount

\* Some of logPatterns: its score, and how many lines must match.
Pattern(reason) ==
    CASE reason = "log-panic"              -> [score |-> 85, min |-> 1]
      [] reason = "log-connection-refused" -> [score |-> 60, min |-> 3]
      [] reason = "log-error"              -> [score |-> 45, min |-> 10]

\* A log that cannot be read is passed over.
scanContainerLogs(pod, readable) ==
    {F("pod/c1", "log-pattern", r, Pattern(r).score) :
        r \in {x \in DOMAIN pod.log : readable /\ pod.log[x] >= Pattern(x).min}}

checkLogs(pod, readable) ==
    If(shouldScanLogs(pod), scanContainerLogs(pod, readable))

-----------------------------------------------------------------------------
(* Events about one object.                                                *)

\* Mutant: the time an event was made is taken for that of its last occurrence.
eventLastSeen_Made(e) == e.first

eventLastSeen(e) == IF e.stamped THEN e.last ELSE e.first

checkEvents(events) ==
    {F("object", "event", normalizeReason(e.reason), scoreEventReason(e.reason))
        : e \in {x \in events : /\ x.warning
                                /\ eventLastSeen(x) <= EventLookback}}

-----------------------------------------------------------------------------
(* The other checks.  A number of replicas that is not set is 1 before it  *)
(* gets here.                                                              *)

checkWorkloads(w, made) ==
    If(w.list \in made /\ w.desired > w.ready,
       {F(w.list, "workload", CASE w.list = "deployments"  -> "available-replicas-below-desired"
                                [] w.list = "statefulsets" -> "ready-replicas-below-desired"
                                [] w.list = "daemonsets"   -> "ready-pods-below-desired", 65)})
    \cup If(w.list = "deployments" /\ w.list \in made /\ w.lag,
            {F(w.list, "workload", "generation-lag", 50)})

checkServices(s) ==
    If(~s.deleted /\ s.type # "ExternalName",
       If(s.type = "LoadBalancer" /\ ~s.ingress,
          {F("service", "service", "load-balancer-pending", 55)})
       \cup If(s.selector /\ s.matches = 0,
               {F("service", "service", "selector-matches-no-pods", 60)}))

\* condition-<type>-true and condition-<type>-false.
conditionTrue(type) ==
    CASE type = "resizing" -> "condition-resizing-true"
      [] type = "file-system-resize-pending" ->
             "condition-file-system-resize-pending-true"
      [] type = "stalled"  -> "condition-stalled-true"
      [] type = "failed"   -> "condition-failed-true"
conditionFalse(type) ==
    CASE type = "ready"     -> "condition-ready-false"
      [] type = "available" -> "condition-available-false"
      [] type = "healthy"   -> "condition-healthy-false"
      [] type = "synced"    -> "condition-synced-false"

checkPVCs(p) ==
    If(~p.deleted,
       If(p.phase = "Pending", {F("claim", "pvc", "pending", 60)})
       \cup If(p.phase = "Lost", {F("claim", "pvc", "lost", 85)})
       \cup {F("claim", "pvc", conditionTrue(c), 55) : c \in p.conditions})

checkScaling(h) ==
    If(~h.deleted,
       If(~h.active, {F("hpa", "scaling", "scaling-active-false", 70)})
       \cup If(~h.able, {F("hpa", "scaling", "able-to-scale-false", 65)})
       \cup If(h.limited, {F("hpa", "scaling", "scaling-limited", 55)})
       \cup If(h.current >= h.max /\ h.desired >= h.max,
               {F("hpa", "scaling", "max-replicas-reached", 65)})
       \cup If(h.desired > h.current,
               {F("hpa", "scaling", "desired-replicas-above-current", 55)}))

\* What a pattern may name: a group, a resource of it, or all of a group, with
\* or without the version.
Candidates(g, v, resource) ==
    {<<g>>, <<g, resource>>, <<g, v, resource>>, <<g, "*">>, <<g, v, "*">>}

\* One of the groups that are not custom.
isBuiltinGroup(group) == group = "apps"

customResourceAllowed(r) ==
    LET candidates == Candidates(r.group, "v1", "things")
    IN  /\ Excludelist \cap candidates = {}
        /\ Allowlist = {} \/ Allowlist \cap candidates # {}

\* A list that fails is passed over.
checkCustomResources(r, readable) ==
    If(/\ ~isBuiltinGroup(r.group)
       /\ r.namespaced /\ r.listed /\ customResourceAllowed(r)
       /\ readable,
       If(r.lag, {F("custom", "custom-resource", "generation-lag", 55)})
       \cup {F("custom", "custom-resource", conditionFalse(c), 65)
               : c \in {x \in DOMAIN r.conditions \cap Positive
                           : r.conditions[x] = "False"}}
       \cup {F("custom", "custom-resource", conditionTrue(c), 70)
               : c \in {x \in DOMAIN r.conditions \cap Negative
                           : r.conditions[x] = "True"}})

-----------------------------------------------------------------------------
(* A poll.                                                                 *)

Live == subject.kind = "pod" /\ ~subject.deleted

\* What the check finds when what is in made could be had, and what it reads
\* object by object is readable.
Findings(check, made, readable) ==
    CASE check = "pods"          -> If(Live, checkPods(subject))
      [] check = "resource-spec" -> If(Live, checkResourceSpecs(subject))
      [] check = "logs"          -> If(Live, checkLogs(subject, readable))
      [] check = "events"        -> If(subject.kind = "events",
                                       checkEvents({subject.e1, subject.e2}))
      [] check = "workloads"     -> If(subject.kind = "workload",
                                       checkWorkloads(subject, made))
      [] check = "services"      -> If(subject.kind = "service",
                                       checkServices(subject))
      [] check = "pvcs"          -> If(subject.kind = "pvc", checkPVCs(subject))
      [] check = "scaling"       -> If(subject.kind = "hpa", checkScaling(subject))
      [] check = "resource-usage" -> If(Live, checkResourceUsage(subject))
      [] check = "custom-resources" -> If(subject.kind = "custom",
                                          checkCustomResources(subject, readable))

\* checkWorkloads reports what it has; the others need all they read.
Poll(failed, readable) ==
    LET made  == listSnapshot(failed) \cup (Calls \ failed)
        whole == {c \in enabled : Needs(c) \subseteq made}
    IN  /\ complete' = whole
        /\ found' = UNION {Findings(c, made, readable) :
                              c \in whole \cup (enabled \cap {"workloads"})}
        /\ scanned' = ("logs" \in whole /\ Live /\ shouldScanLogs(subject))
        /\ polled' = (failed = {})
        /\ UNCHANGED <<enabled, metrics, subject>>

Init ==
    /\ enabled \in EnabledSets
    /\ metrics \in {"resource-usage" \in enabled, FALSE}
    /\ subject \in Subjects
    /\ found = {} /\ complete = {} /\ scanned = FALSE /\ polled = FALSE

NoPoll == /\ found' = {} /\ complete' = {} /\ scanned' = FALSE
          /\ polled' = FALSE /\ UNCHANGED <<enabled, metrics>>

Older(age) == IF age < MaxAge THEN age + 1 ELSE age
Age(e)     == [e EXCEPT !.first = Older(@), !.last = Older(@)]

\* Time passes.
Tick ==
    /\ NoPoll
    /\ \/ /\ subject.kind = "pod"
          /\ subject' = [subject EXCEPT !.age = Older(@)]
       \/ /\ subject.kind = "events"
          /\ subject' = [subject EXCEPT !.e1 = Age(@), !.e2 = Age(@)]

\* The first event occurs again.
Recur ==
    /\ NoPoll
    /\ subject.kind = "events"
    /\ subject' = [subject EXCEPT !.e1.last = 0]

Next ==
    \/ \E failed \in FailSets, readable \in BOOLEAN : Poll(failed, readable)
    \/ Tick
    \/ Recur

Spec == Init /\ [][Next]_vars

-----------------------------------------------------------------------------
(* Properties.                                                             *)

\* When nothing fails every enabled check is complete, whichever of the ten checks
\* are enabled, and with the metrics server or without: no check waits for a list
\* that another one would have asked for, in which case no poll could ever close a
\* finding.
EnabledIsListed == polled => complete = enabled

\* Findings of one poll that are the same (the same object, check and reason,
\* hence the same id) have the same score, however many containers, events or
\* conditions raise them.  Otherwise collectFindings would take one of them for
\* a change of the other and publish in every poll.  It takes two events with
\* one reason in two spellings to get two scores.
OneScorePerFinding ==
    (subject.kind = "events" =>
        {subject.e1.reason, subject.e2.reason} # {"FailedMount", "failed_mount"})
    => \A f, g \in found :
        f.name = g.name /\ f.check = g.check /\ f.reason = g.reason
            => f.score = g.score

\* The logs of every pod that is reported as unhealthy are read in the same
\* poll, unless all that is wrong with it is that it was once out of memory.
TroubledIsScanned ==
    "logs" \in complete =>
        \A f \in found : f.check = "pod-health" /\ f.reason # "oom-killed" => scanned

\* An event is reported if and only if it occurred within EventLookback, as
\* long as it is stamped or occurred once: one that recurs without a
\* LastTimestamp is reported by its first occurrence, and too seldom.
RecentEventsReported ==
    "events" \in complete /\ subject.kind = "events" =>
        \A e \in {subject.e1, subject.e2} :
            LET recent   == \E x \in {subject.e1, subject.e2} :
                               /\ normalizeReason(x.reason) = normalizeReason(e.reason)
                               /\ x.warning
                               /\ x.last <= EventLookback
                reported == \E f \in found : f.reason = normalizeReason(e.reason)
            IN  /\ reported => recent
                /\ e.warning /\ e.last <= EventLookback
                   /\ (e.stamped \/ e.first = e.last) => reported
=============================================================================
