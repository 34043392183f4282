---------------------------- MODULE ChecksProofs ----------------------------
(***************************************************************************)
(* Theorems about Checks, for every set of subjects, of enabled checks and *)
(* of lists that fail.                                                     *)
(***************************************************************************)
EXTENDS Checks, TLAPS

-----------------------------------------------------------------------------
(* The invariant: the checks that are enabled exist, and the subject has   *)
(* the fields of its kind.  An event never occurred last before it was     *)
(* made, at whatever time it is looked at.                                 *)

Subject == Pod \cup Events \cup Workload \cup Service \cup Claim \cup Scaler
           \cup Custom \cup Nothing

SubjectInv == enabled \in SUBSET Families /\ subject \in Subject /\ Possible(subject)

\* A subject of a kind has the fields of that kind.
LEMMA KindFields ==
    ASSUME NEW s \in Subject
    PROVE  /\ s.kind = "pod" => s \in Pod
           /\ s.kind = "events" => s \in Events
           /\ s.kind = "workload" => s \in Workload
           /\ s.kind = "pvc" => s \in Claim
           /\ s.kind = "custom" => s \in Custom
  BY DEF Subject, Pod, Events, Workload, Service, Claim, Scaler, Custom, Nothing

LEMMA OlderTypes ==
    ASSUME NEW a \in 0..MaxAge, NEW b \in 0..MaxAge
    PROVE  /\ Older(a) \in 0..MaxAge
           /\ a <= b => Older(a) <= Older(b)
  BY ChecksAssumption DEF Older

LEMMA AgeTypes ==
    ASSUME NEW e \in Event, e.last <= e.first
    PROVE  Age(e) \in Event /\ Age(e).last <= Age(e).first
  <1>1. e.first \in 0..MaxAge /\ e.last \in 0..MaxAge
    BY DEF Event
  <1>2. /\ Older(e.first) \in 0..MaxAge /\ Older(e.last) \in 0..MaxAge
        /\ Older(e.last) <= Older(e.first)
    BY <1>1, OlderTypes
  <1>. QED
    BY <1>2 DEF Age, Event

LEMMA SubjectInit == Init => SubjectInv
  BY ChecksAssumption, SubjectsAssumption DEF Init, SubjectInv, Subject

LEMMA SubjectStep == SubjectInv /\ [Next]_vars => SubjectInv'
  <1>. SUFFICES ASSUME SubjectInv, [Next]_vars PROVE SubjectInv'
    OBVIOUS
  <1>0. /\ enabled \in SUBSET Families /\ subject \in Subject /\ Possible(subject)
        /\ subject.kind = "pod" => subject \in Pod
        /\ subject.kind = "events" => subject \in Events
    BY KindFields DEF SubjectInv
  <1>1. ASSUME UNCHANGED <<enabled, subject>>
        PROVE  SubjectInv'
    BY <1>1 DEF SubjectInv, Possible
  <1>2. ASSUME subject.kind = "pod", UNCHANGED enabled,
               subject' = [subject EXCEPT !.age = Older(@)]
        PROVE  SubjectInv'
    <2>1. subject \in Pod /\ subject.age \in 0..MaxAge
      BY <1>0, <1>2 DEF Pod
    <2>2. Older(subject.age) \in 0..MaxAge
      BY <2>1, OlderTypes
    <2>3. /\ subject' \in Pod /\ subject'.kind = "pod"
          /\ subject'.pending = subject.pending /\ subject'.ready = subject.ready
      BY <1>2, <2>1, <2>2 DEF Pod
    <2>4. Possible(subject')
      BY <1>0, <1>2, <2>3 DEF Possible
    <2>. QED
      BY <1>0, <1>2, <2>3, <2>4 DEF SubjectInv, Subject
  <1>3. ASSUME subject.kind = "events", UNCHANGED enabled, NEW a, NEW b,
               subject' = [subject EXCEPT !.e1 = a, !.e2 = b],
               a \in Event, b \in Event, a.last <= a.first, b.last <= b.first
        PROVE  SubjectInv'
    <2>1. subject \in Events
      BY <1>0, <1>3
    <2>2. /\ subject' \in Events /\ subject'.kind = "events"
          /\ subject'.e1 = a /\ subject'.e2 = b
      BY <1>3, <2>1 DEF Events
    <2>3. Possible(subject')
      BY <1>3, <2>2 DEF Possible
    <2>. QED
      BY <1>0, <1>3, <2>2, <2>3 DEF SubjectInv, Subject
  <1>4. ASSUME subject.kind = "events"
        PROVE  /\ subject \in Events
               /\ subject.e1 \in Event /\ subject.e1.last <= subject.e1.first
               /\ subject.e2 \in Event /\ subject.e2.last <= subject.e2.first
    BY <1>0, <1>4 DEF Events, Possible
  <1>5. CASE \E failed \in FailSets, readable \in BOOLEAN : Poll(failed, readable)
    BY <1>1, <1>5 DEF Poll
  <1>6. CASE Tick
    <2>1. CASE subject.kind = "pod" /\ subject' = [subject EXCEPT !.age = Older(@)]
      BY <1>2, <1>6, <2>1 DEF Tick, NoPoll
    <2>2. CASE /\ subject.kind = "events"
               /\ subject' = [subject EXCEPT !.e1 = Age(@), !.e2 = Age(@)]
      <3>1. /\ Age(subject.e1) \in Event
            /\ Age(subject.e1).last <= Age(subject.e1).first
        BY <1>4, <2>2, AgeTypes
      <3>2. /\ Age(subject.e2) \in Event
            /\ Age(subject.e2).last <= Age(subject.e2).first
        BY <1>4, <2>2, AgeTypes
      <3>3. subject' = [subject EXCEPT !.e1 = Age(subject.e1), !.e2 = Age(subject.e2)]
        BY <1>4, <2>2 DEF Events
      <3>. QED
        BY <1>3, <1>6, <2>2, <3>1, <3>2, <3>3 DEF Tick, NoPoll
    <2>. QED
      BY <1>6, <2>1, <2>2 DEF Tick
  <1>7. CASE Recur
    <2>. DEFINE a == [subject.e1 EXCEPT !.last = 0]
    <2>1. subject.kind = "events"
      BY <1>7 DEF Recur
    <2>2. a \in Event /\ a.last <= a.first
      BY <1>4, <2>1, ChecksAssumption DEF Event
    <2>3. subject' = [subject EXCEPT !.e1 = a, !.e2 = subject.e2]
      BY <1>4, <1>7, <2>1 DEF Recur, Events
    <2>. HIDE DEF a
    <2>. QED
      BY <1>3, <1>4, <1>7, <2>1, <2>2, <2>3 DEF Recur, NoPoll
  <1>8. CASE UNCHANGED vars
    BY <1>1, <1>8 DEF vars
  <1>. QED
    BY <1>5, <1>6, <1>7, <1>8 DEF Next

-----------------------------------------------------------------------------
(* Complete checks.                                                        *)

LEMMA NeedsAreRead ==
    ASSUME NEW c \in Families
    PROVE  \A l \in Needs(c) : (l \in Lists /\ c \in ReadersOf(l)) \/ l \in Calls
  <1>1. CASE c \in {"pods", "resource-spec", "logs"}
    BY <1>1 DEF Needs, Lists, ReadersOf
  <1>2. CASE c = "events"
    BY <1>2 DEF Needs, Lists, ReadersOf
  <1>3. CASE c = "workloads"
    BY <1>3 DEF Needs, Lists, ReadersOf
  <1>4. CASE c = "services"
    BY <1>4 DEF Needs, Lists, ReadersOf
  <1>5. CASE c \in {"pvcs", "scaling"}
    BY <1>5 DEF Needs, Lists, ReadersOf
  <1>6. CASE c = "resource-usage"
    BY <1>6 DEF Needs, If, Lists, Calls, ReadersOf
  <1>7. CASE c = "custom-resources"
    BY <1>7 DEF Needs, Calls
  <1>. QED
    BY <1>1, <1>2, <1>3, <1>4, <1>5, <1>6, <1>7 DEF Families

\* What a poll gets of the lists and calls of the checks.
Made(failed) == listSnapshot(failed) \cup (Calls \ failed)

\* What a step does that is not a poll.
LEMMA OnlyPolls ==
    ASSUME [Next]_vars
    PROVE  \/ \E failed \in FailSets, readable \in BOOLEAN : Poll(failed, readable)
           \/ found' = {} /\ complete' = {} /\ polled' = FALSE
           \/ UNCHANGED vars
  BY DEF Next, Tick, Recur, NoPoll

LEMMA ListedStep == SubjectInv /\ EnabledIsListed /\ [Next]_vars => EnabledIsListed'
  <1>. SUFFICES ASSUME SubjectInv, EnabledIsListed, [Next]_vars
                PROVE  EnabledIsListed'
    OBVIOUS
  <1>1. ASSUME NEW failed \in FailSets, NEW readable \in BOOLEAN,
               Poll(failed, readable), failed = {}
        PROVE  complete' = enabled'
    <2>1. complete' = {c \in enabled : Needs(c) \subseteq Made(failed)}
          /\ enabled' = enabled
      BY <1>1 DEF Poll, Made
    <2>2. ASSUME NEW c \in enabled
          PROVE  Needs(c) \subseteq Made(failed)
      <3>1. \A l \in Needs(c) : (l \in Lists /\ c \in ReadersOf(l)) \/ l \in Calls
        BY NeedsAreRead DEF SubjectInv
      <3>. QED
        BY <1>1, <3>1 DEF Made, listSnapshot
    <2>. QED
      BY <2>1, <2>2
  <1>2. ASSUME NEW failed \in FailSets, NEW readable \in BOOLEAN,
               Poll(failed, readable)
        PROVE  polled' <=> failed = {}
    BY <1>2 DEF Poll
  <1>. QED
    BY <1>1, <1>2, OnlyPolls DEF EnabledIsListed, vars

\* When nothing fails every enabled check is complete, whichever of the ten checks
\* are enabled: listSnapshot makes each list for every check that reads it.
THEOREM EnabledAreListed == Spec => []EnabledIsListed
  <1>1. Init => EnabledIsListed
    BY DEF Init, EnabledIsListed
  <1>. QED
    BY <1>1, SubjectInit, SubjectStep, ListedStep, PTL DEF Spec

-----------------------------------------------------------------------------
(* Findings, by the check that makes them.                                 *)

LEMMA FShape ==
    ASSUME NEW name, NEW check, NEW reason, NEW score
    PROVE  /\ F(name, check, reason, score).name = name
           /\ F(name, check, reason, score).check = check
           /\ F(name, check, reason, score).reason = reason
           /\ F(name, check, reason, score).score = clampScore(score)
  BY DEF F

LEMMA IfShape ==
    ASSUME NEW condition, NEW S, NEW x \in If(condition, S)
    PROVE  condition /\ x \in S
  BY DEF If

LEMMA ReasonTable ==
    /\ normalizeReason("CrashLoopBackOff") = "crash-loop-back-off"
    /\ normalizeReason("ImagePullBackOff") = "image-pull-back-off"
    /\ normalizeReason("ContainerCreating") = "container-creating"
    /\ normalizeReason("FailedMount") = "failed-mount"
    /\ normalizeReason("failed_mount") = "failed-mount"
    /\ normalizeReason("BackOff") = "back-off"
    /\ normalizeReason("") = "unknown"
  BY DEF normalizeReason

\* Two reasons with one normal form have one score, unless it is an event that
\* has its reason in a spelling that scoreEventReason does not know.
LEMMA ReasonScores ==
    ASSUME NEW q \in Reasons, NEW r \in Reasons,
           normalizeReason(q) = normalizeReason(r)
    PROVE  /\ scoreWaitingReason(q) = scoreWaitingReason(r)
           /\ \/ scoreEventReason(q) = scoreEventReason(r)
              \/ {q, r} = {"FailedMount", "failed_mount"}
  <1>1. q = r \/ {q, r} = {"FailedMount", "failed_mount"}
    BY ReasonTable DEF Reasons
  <1>2. scoreWaitingReason("FailedMount") = scoreWaitingReason("failed_mount")
    BY DEF scoreWaitingReason
  <1>. QED
    BY <1>1, <1>2

LEMMA WaitingReasons ==
    ASSUME NEW r \in Reasons
    PROVE  normalizeReason(r) \notin {"pending-too-long", "not-ready", "oom-killed"}
  BY ReasonTable DEF Reasons

\* What checkPods finds, and why.
LEMMA PodFindings ==
    ASSUME NEW pod, NEW f \in checkPods(pod)
    PROVE  /\ f.name = "pod" /\ f.check = "pod-health"
           /\ \/ f.reason = "pending-too-long" /\ f.score = clampScore(55) /\ pod.pending
              \/ f.reason = "not-ready" /\ f.score = clampScore(60) /\ ~pod.ready
              \/ f.reason = "oom-killed" /\ f.score = clampScore(85)
              \/ \E c \in Containers(pod) :
                     /\ Waiting(c) /\ f.reason = normalizeReason(c.waiting)
                     /\ f.score = clampScore(scoreWaitingReason(c.waiting))
  <1>1. CASE f \in If(pod.pending /\ pod.age > 1,
                      {F("pod", "pod-health", "pending-too-long", 55)})
    BY <1>1, FShape DEF If
  <1>2. CASE f \in If(~pod.ready /\ pod.age > 1,
                      {F("pod", "pod-health", "not-ready", 60)})
    BY <1>2, FShape DEF If
  <1>3. ASSUME NEW c \in Containers(pod), Waiting(c),
               f = F("pod", "pod-health", normalizeReason(c.waiting),
                     scoreWaitingReason(c.waiting))
        PROVE  /\ f.name = "pod" /\ f.check = "pod-health"
               /\ f.reason = normalizeReason(c.waiting)
               /\ f.score = clampScore(scoreWaitingReason(c.waiting))
    BY <1>3, FShape
  <1>4. CASE f = F("pod", "pod-health", "oom-killed", 85)
    BY <1>4, FShape
  <1>. QED
    BY <1>1, <1>2, <1>3, <1>4 DEF checkPods

\* Findings with one reason have one score.
SameScore(S) ==
    \A f, g \in S : f.name = g.name /\ f.reason = g.reason => f.score = g.score

LEMMA PodScores ==
    ASSUME NEW pod \in Pod
    PROVE  SameScore(checkPods(pod))
  <1>. SUFFICES ASSUME NEW f \in checkPods(pod), NEW g \in checkPods(pod),
                       f.reason = g.reason
                PROVE  f.score = g.score
    BY DEF SameScore
  <1>1. \A c \in Containers(pod) : Waiting(c) => c.waiting \in Reasons
    BY DEF Containers, Waiting, Pod, Container
  <1>2. CASE f.reason \in {"pending-too-long", "not-ready", "oom-killed"}
    <2>1. \A h \in {f, g} : \/ h.reason = "pending-too-long" /\ h.score = clampScore(55)
                            \/ h.reason = "not-ready" /\ h.score = clampScore(60)
                            \/ h.reason = "oom-killed" /\ h.score = clampScore(85)
      BY <1>1, <1>2, PodFindings, WaitingReasons
    <2>. QED
      BY <2>1
  <1>3. CASE f.reason \notin {"pending-too-long", "not-ready", "oom-killed"}
    <2>1. PICK c \in Containers(pod) :
              /\ Waiting(c) /\ f.reason = normalizeReason(c.waiting)
              /\ f.score = clampScore(scoreWaitingReason(c.waiting))
      BY <1>3, PodFindings
    <2>2. PICK e \in Containers(pod) :
              /\ Waiting(e) /\ g.reason = normalizeReason(e.waiting)
              /\ g.score = clampScore(scoreWaitingReason(e.waiting))
      BY <1>3, PodFindings
    <2>3. scoreWaitingReason(c.waiting) = scoreWaitingReason(e.waiting)
      BY <1>1, <2>1, <2>2, ReasonScores
    <2>. QED
      BY <2>1, <2>2, <2>3
  <1>. QED
    BY <1>2, <1>3

LEMMA SpecFindings ==
    ASSUME NEW pod
    PROVE  /\ SameScore(checkResourceSpecs(pod))
           /\ \A f \in checkResourceSpecs(pod) : f.check = "resource-spec"
  <1>. DEFINE score(m) == IF m = "missing-cpu-request" THEN 30 ELSE 45
  <1>1. \A f \in checkResourceSpecs(pod) :
            f.check = "resource-spec" /\ f.score = clampScore(score(f.reason))
    BY FShape DEF checkResourceSpecs
  <1>. QED
    BY <1>1 DEF SameScore

LEMMA UsageFindings ==
    ASSUME NEW pod
    PROVE  /\ SameScore(checkResourceUsage(pod))
           /\ \A f \in checkResourceUsage(pod) : f.check = "resource-usage"
  <1>1. \A f \in checkResourceUsage(pod) :
            f = F("pod", "resource-usage", pod.memory, scoreMemory(pod.memory))
    BY DEF checkResourceUsage, If
  <1>. QED
    BY <1>1, FShape DEF SameScore

LEMMA LogFindings ==
    ASSUME NEW pod, NEW readable
    PROVE  /\ SameScore(checkLogs(pod, readable))
           /\ \A f \in checkLogs(pod, readable) : f.check = "log-pattern"
  <1>1. \A f \in scanContainerLogs(pod, readable) :
            f.check = "log-pattern" /\ f.score = clampScore(Pattern(f.reason).score)
    BY FShape DEF scanContainerLogs
  <1>. QED
    BY <1>1, IfShape DEF SameScore, checkLogs

\* What checkEvents finds, and why.
LEMMA EventFindings ==
    ASSUME NEW events, NEW f
    PROVE  f \in checkEvents(events) <=>
               \E e \in events : /\ e.warning /\ eventLastSeen(e) <= EventLookback
                                 /\ f = F("object", "event", normalizeReason(e.reason),
                                          scoreEventReason(e.reason))
  BY DEF checkEvents

LEMMA EventScores ==
    ASSUME NEW s \in Events,
           {s.e1.reason, s.e2.reason} # {"FailedMount", "failed_mount"}
    PROVE  SameScore(checkEvents({s.e1, s.e2}))
  <1>. SUFFICES ASSUME NEW f \in checkEvents({s.e1, s.e2}),
                       NEW g \in checkEvents({s.e1, s.e2}),
                       f.reason = g.reason
                PROVE  f.score = g.score
    BY DEF SameScore
  <1>1. PICK d \in {s.e1, s.e2} : f = F("object", "event", normalizeReason(d.reason),
                                        scoreEventReason(d.reason))
    BY EventFindings
  <1>2. PICK e \in {s.e1, s.e2} : g = F("object", "event", normalizeReason(e.reason),
                                        scoreEventReason(e.reason))
    BY EventFindings
  <1>3. d.reason \in Reasons /\ e.reason \in Reasons
    BY DEF Events, Event
  <1>4. normalizeReason(d.reason) = normalizeReason(e.reason)
    BY <1>1, <1>2, FShape
  <1>5. scoreEventReason(d.reason) = scoreEventReason(e.reason)
    BY <1>3, <1>4, ReasonScores
  <1>. QED
    BY <1>1, <1>2, <1>5, FShape

LEMMA WorkloadFindings ==
    ASSUME NEW w \in Workload, NEW made
    PROVE  /\ SameScore(checkWorkloads(w, made))
           /\ \A f \in checkWorkloads(w, made) : f.check = "workload"
  <1>. DEFINE below == CASE w.list = "deployments"  -> "available-replicas-below-desired"
                         [] w.list = "statefulsets" -> "ready-replicas-below-desired"
                         [] w.list = "daemonsets"   -> "ready-pods-below-desired"
  <1>1. below # "generation-lag"
    BY DEF Workload
  <1>2. checkWorkloads(w, made) =
            If(w.list \in made /\ w.desired > w.ready,
               {F(w.list, "workload", below, 65)})
            \cup If(w.list = "deployments" /\ w.list \in made /\ w.lag,
                    {F(w.list, "workload", "generation-lag", 50)})
    BY DEF checkWorkloads
  <1>. HIDE DEF below
  <1>3. \A f \in checkWorkloads(w, made) :
            /\ f.check = "workload"
            /\ \/ f.reason = below /\ f.score = clampScore(65)
               \/ f.reason = "generation-lag" /\ f.score = clampScore(50)
    BY <1>2, FShape DEF If
  <1>. QED
    BY <1>1, <1>3 DEF SameScore

LEMMA ServiceFindings ==
    ASSUME NEW s
    PROVE  /\ SameScore(checkServices(s))
           /\ \A f \in checkServices(s) : f.check = "service"
  <1>1. \A f \in checkServices(s) :
            /\ f.check = "service"
            /\ \/ f.reason = "load-balancer-pending" /\ f.score = clampScore(55)
               \/ f.reason = "selector-matches-no-pods" /\ f.score = clampScore(60)
    BY FShape DEF checkServices, If
  <1>. QED
    BY <1>1 DEF SameScore

LEMMA ConditionTable ==
    /\ \A c \in {"resizing", "file-system-resize-pending"} \cup Negative :
           conditionTrue(c) \in {"condition-resizing-true",
                                 "condition-file-system-resize-pending-true",
                                 "condition-stalled-true", "condition-failed-true"}
    /\ \A c \in Positive :
           conditionFalse(c) \in {"condition-ready-false", "condition-available-false",
                                  "condition-healthy-false", "condition-synced-false"}
  BY DEF conditionTrue, conditionFalse, Positive, Negative

LEMMA ClaimFindings ==
    ASSUME NEW p \in Claim
    PROVE  /\ SameScore(checkPVCs(p))
           /\ \A f \in checkPVCs(p) : f.check = "pvc"
  <1>1. \A f \in checkPVCs(p) :
            /\ f.check = "pvc"
            /\ \/ f.reason = "pending" /\ f.score = clampScore(60)
               \/ f.reason = "lost" /\ f.score = clampScore(85)
               \/ \E c \in p.conditions : /\ f.reason = conditionTrue(c)
                                           /\ f.score = clampScore(55)
    BY FShape DEF checkPVCs, If
  <1>2. \A c \in p.conditions : conditionTrue(c) \notin {"pending", "lost"}
    BY ConditionTable DEF Claim
  <1>. QED
    BY <1>1, <1>2 DEF SameScore

LEMMA ScalerFindings ==
    ASSUME NEW h
    PROVE  /\ SameScore(checkScaling(h))
           /\ \A f \in checkScaling(h) : f.check = "scaling"
  <1>1. \A f \in checkScaling(h) :
            /\ f.check = "scaling"
            /\ \/ f.reason = "scaling-active-false" /\ f.score = clampScore(70)
               \/ f.reason = "able-to-scale-false" /\ f.score = clampScore(65)
               \/ f.reason = "scaling-limited" /\ f.score = clampScore(55)
               \/ f.reason = "max-replicas-reached" /\ f.score = clampScore(65)
               \/ f.reason = "desired-replicas-above-current" /\ f.score = clampScore(55)
    BY FShape DEF checkScaling, If
  <1>. QED
    BY <1>1 DEF SameScore

LEMMA CustomFindings ==
    ASSUME NEW r \in Custom, NEW readable
    PROVE  /\ SameScore(checkCustomResources(r, readable))
           /\ \A f \in checkCustomResources(r, readable) : f.check = "custom-resource"
  <1>1. \A f \in checkCustomResources(r, readable) :
            /\ f.check = "custom-resource"
            /\ \/ f.reason = "generation-lag" /\ f.score = clampScore(55)
               \/ \E c \in Positive : /\ f.reason = conditionFalse(c)
                                       /\ f.score = clampScore(65)
               \/ \E c \in Negative : /\ f.reason = conditionTrue(c)
                                       /\ f.score = clampScore(70)
    <2>. SUFFICES ASSUME NEW f \in checkCustomResources(r, readable)
                  PROVE  /\ f.check = "custom-resource"
                         /\ \/ f.reason = "generation-lag" /\ f.score = clampScore(55)
                            \/ \E c \in Positive : /\ f.reason = conditionFalse(c)
                                                    /\ f.score = clampScore(65)
                            \/ \E c \in Negative : /\ f.reason = conditionTrue(c)
                                                    /\ f.score = clampScore(70)
      OBVIOUS
    <2>1. \/ f = F("custom", "custom-resource", "generation-lag", 55)
          \/ \E c \in Positive :
                 f = F("custom", "custom-resource", conditionFalse(c), 65)
          \/ \E c \in Negative :
                 f = F("custom", "custom-resource", conditionTrue(c), 70)
      BY DEF checkCustomResources, If
    <2>. QED
      BY <2>1, FShape
  <1>2. /\ \A c \in Positive, e \in Negative : conditionFalse(c) # conditionTrue(e)
        /\ \A c \in Positive : conditionFalse(c) # "generation-lag"
        /\ \A c \in Negative : conditionTrue(c) # "generation-lag"
    BY ConditionTable
  <1>3. SameScore(checkCustomResources(r, readable))
    <2>. DEFINE lag(x)  == x.reason = "generation-lag" /\ x.score = clampScore(55)
                pos(x)  == \E c \in Positive : /\ x.reason = conditionFalse(c)
                                               /\ x.score = clampScore(65)
                neg(x)  == \E c \in Negative : /\ x.reason = conditionTrue(c)
                                               /\ x.score = clampScore(70)
    <2>. SUFFICES ASSUME NEW f \in checkCustomResources(r, readable),
                         NEW g \in checkCustomResources(r, readable),
                         f.reason = g.reason
                  PROVE  f.score = g.score
      BY DEF SameScore
    <2>1. (lag(f) \/ pos(f) \/ neg(f)) /\ (lag(g) \/ pos(g) \/ neg(g))
      BY <1>1
    <2>2. ASSUME lag(f) PROVE lag(g)
      BY <1>2, <2>1, <2>2
    <2>3. ASSUME pos(f) PROVE pos(g)
      <3>1. PICK c \in Positive : f.reason = conditionFalse(c)
        BY <2>3
      <3>. QED
        BY <1>2, <2>1, <3>1
    <2>4. ASSUME neg(f) PROVE neg(g)
      <3>1. PICK c \in Negative : f.reason = conditionTrue(c)
        BY <2>4
      <3>. QED
        BY <1>2, <2>1, <3>1
    <2>. QED
      BY <2>1, <2>2, <2>3, <2>4
  <1>. QED
    BY <1>1, <1>3

-----------------------------------------------------------------------------
(* Findings of a poll.                                                     *)

CheckOf(family) ==
    CASE family = "pods" -> "pod-health"
      [] family = "resource-spec" -> "resource-spec"
      [] family = "logs" -> "log-pattern"
      [] family = "events" -> "event"
      [] family = "workloads" -> "workload"
      [] family = "services" -> "service"
      [] family = "pvcs" -> "pvc"
      [] family = "scaling" -> "scaling"
      [] family = "resource-usage" -> "resource-usage"
      [] family = "custom-resources" -> "custom-resource"

LEMMA CheckOfInjective ==
    \A c, d \in Families : CheckOf(c) = CheckOf(d) => c = d
  <1>1. /\ CheckOf("pods") = "pod-health" /\ CheckOf("resource-spec") = "resource-spec"
        /\ CheckOf("logs") = "log-pattern" /\ CheckOf("events") = "event"
        /\ CheckOf("workloads") = "workload" /\ CheckOf("services") = "service"
        /\ CheckOf("pvcs") = "pvc" /\ CheckOf("scaling") = "scaling"
        /\ CheckOf("resource-usage") = "resource-usage"
        /\ CheckOf("custom-resources") = "custom-resource"
    BY DEF CheckOf
  <1>. QED
    BY <1>1 DEF Families

\* The findings of one check carry its name.
LEMMA FamilyFindings ==
    ASSUME subject \in Subject, NEW c \in Families, NEW made, NEW readable,
           NEW f \in Findings(c, made, readable)
    PROVE  f.check = CheckOf(c)
  <1>1. CASE c = "pods"
    BY <1>1, PodFindings DEF Findings, If, CheckOf
  <1>2. CASE c = "resource-spec"
    BY <1>2, SpecFindings DEF Findings, If, CheckOf
  <1>3. CASE c = "logs"
    BY <1>3, LogFindings DEF Findings, If, CheckOf
  <1>4. CASE c = "events"
    BY <1>4, EventFindings, FShape DEF Findings, If, CheckOf
  <1>5. CASE c = "workloads"
    BY <1>5, KindFields, WorkloadFindings DEF Findings, If, CheckOf
  <1>6. CASE c = "services"
    BY <1>6, ServiceFindings DEF Findings, If, CheckOf
  <1>7. CASE c = "pvcs"
    BY <1>7, KindFields, ClaimFindings DEF Findings, If, CheckOf
  <1>8. CASE c = "scaling"
    BY <1>8, ScalerFindings DEF Findings, If, CheckOf
  <1>9. CASE c = "custom-resources"
    BY <1>9, KindFields, CustomFindings DEF Findings, If, CheckOf
  <1>10. CASE c = "resource-usage"
    BY <1>10, UsageFindings DEF Findings, If, CheckOf
  <1>. QED
    BY <1>1, <1>2, <1>3, <1>4, <1>5, <1>6, <1>7, <1>8, <1>9, <1>10 DEF Families

LEMMA FamilyScores ==
    ASSUME subject \in Subject, NEW c \in Families, NEW made, NEW readable,
           subject.kind = "events" =>
               {subject.e1.reason, subject.e2.reason} # {"FailedMount", "failed_mount"}
    PROVE  SameScore(Findings(c, made, readable))
  <1>0. SameScore({})
    BY DEF SameScore
  <1>1. CASE c = "pods"
    BY <1>0, <1>1, KindFields, PodScores DEF Findings, If, Live
  <1>2. CASE c = "resource-spec"
    BY <1>0, <1>2, SpecFindings DEF Findings, If
  <1>3. CASE c = "logs"
    BY <1>0, <1>3, LogFindings DEF Findings, If
  <1>4. CASE c = "events"
    BY <1>0, <1>4, KindFields, EventScores DEF Findings, If
  <1>5. CASE c = "workloads"
    BY <1>0, <1>5, KindFields, WorkloadFindings DEF Findings, If
  <1>6. CASE c = "services"
    BY <1>0, <1>6, ServiceFindings DEF Findings, If
  <1>7. CASE c = "pvcs"
    BY <1>0, <1>7, KindFields, ClaimFindings DEF Findings, If
  <1>8. CASE c = "scaling"
    BY <1>0, <1>8, ScalerFindings DEF Findings, If
  <1>9. CASE c = "custom-resources"
    BY <1>0, <1>9, KindFields, CustomFindings DEF Findings, If
  <1>10. CASE c = "resource-usage"
    BY <1>0, <1>10, UsageFindings DEF Findings, If
  <1>. QED
    BY <1>1, <1>2, <1>3, <1>4, <1>5, <1>6, <1>7, <1>8, <1>9, <1>10 DEF Families

\* What a poll finds, by the check.
LEMMA PollFinds ==
    ASSUME SubjectInv, NEW failed, NEW readable, Poll(failed, readable)
    PROVE  /\ complete' \subseteq enabled
           /\ \A f \in found' : \E c \in Families :
                  f \in Findings(c, Made(failed), readable)
           /\ \A c \in complete' :
                  Findings(c, Made(failed), readable) \subseteq found'
           /\ UNCHANGED <<enabled, subject>>
           /\ "logs" \in complete' => (scanned' <=> Live /\ shouldScanLogs(subject))
  <1>. DEFINE made == Made(failed)
              whole == {c \in enabled : Needs(c) \subseteq made}
  <1>1. /\ complete' = whole
        /\ found' = UNION {Findings(c, made, readable) :
                              c \in whole \cup (enabled \cap {"workloads"})}
        /\ scanned' = ("logs" \in whole /\ Live /\ shouldScanLogs(subject))
        /\ UNCHANGED <<enabled, subject>>
    BY DEF Poll, Made
  <1>2. whole \subseteq enabled /\ enabled \subseteq Families
    BY DEF SubjectInv
  <1>. HIDE DEF whole, made
  <1>3. complete' \subseteq enabled
    BY <1>1, <1>2
  <1>4. \A f \in found' : \E c \in Families : f \in Findings(c, made, readable)
    BY <1>1, <1>2
  <1>5. \A c \in complete' : Findings(c, made, readable) \subseteq found'
    BY <1>1
  <1>6. "logs" \in complete' => (scanned' <=> Live /\ shouldScanLogs(subject))
    BY <1>1
  <1>. QED
    BY <1>1, <1>3, <1>4, <1>5, <1>6 DEF made

LEMMA ScoresStep ==
    SubjectInv /\ OneScorePerFinding /\ [Next]_vars => OneScorePerFinding'
  <1>. SUFFICES ASSUME SubjectInv, OneScorePerFinding, [Next]_vars
                PROVE  OneScorePerFinding'
    OBVIOUS
  <1>1. ASSUME NEW failed, NEW readable, Poll(failed, readable)
        PROVE  OneScorePerFinding'
    <2>0. subject' = subject
      BY <1>1 DEF Poll
    <2>. SUFFICES ASSUME subject.kind = "events" =>
                             {subject.e1.reason, subject.e2.reason}
                                 # {"FailedMount", "failed_mount"},
                         NEW f \in found', NEW g \in found',
                         f.name = g.name, f.check = g.check, f.reason = g.reason
                  PROVE  f.score = g.score
      BY <2>0 DEF OneScorePerFinding
    <2>1. PICK c \in Families : f \in Findings(c, Made(failed), readable)
      BY <1>1, PollFinds
    <2>2. PICK d \in Families : g \in Findings(d, Made(failed), readable)
      BY <1>1, PollFinds
    <2>3. f.check = CheckOf(c) /\ g.check = CheckOf(d)
      BY <2>1, <2>2, FamilyFindings DEF SubjectInv
    <2>4. c = d
      BY <2>3, CheckOfInjective
    <2>5. SameScore(Findings(c, Made(failed), readable))
      BY FamilyScores DEF SubjectInv
    <2>. QED
      BY <2>1, <2>2, <2>4, <2>5 DEF SameScore
  <1>2. CASE found' = {}
    BY <1>2 DEF OneScorePerFinding
  <1>3. CASE UNCHANGED vars
    BY <1>3 DEF vars, OneScorePerFinding
  <1>. QED
    BY <1>1, <1>2, <1>3, OnlyPolls

\* Findings of one poll with one id have one score: normalizeReason maps no two
\* reasons with different scores to one name, except the two spellings of an
\* event's reason that the property excludes, and no two checks share a name.
THEOREM OneScoreEach == Spec => []OneScorePerFinding
  <1>1. Init => OneScorePerFinding
    BY DEF Init, OneScorePerFinding
  <1>. QED
    BY <1>1, SubjectInit, SubjectStep, ScoresStep, PTL DEF Spec

LEMMA ScannedStep ==
    SubjectInv /\ TroubledIsScanned /\ [Next]_vars => TroubledIsScanned'
  <1>. SUFFICES ASSUME SubjectInv, TroubledIsScanned, [Next]_vars
                PROVE  TroubledIsScanned'
    OBVIOUS
  <1>1. ASSUME NEW failed, NEW readable, Poll(failed, readable)
        PROVE  TroubledIsScanned'
    <2>. SUFFICES ASSUME "logs" \in complete', NEW f \in found',
                         f.check = "pod-health", f.reason # "oom-killed"
                  PROVE  scanned'
      BY DEF TroubledIsScanned
    <2>1. PICK c \in Families : f \in Findings(c, Made(failed), readable)
      BY <1>1, PollFinds
    <2>2. c = "pods"
      <3>1. f.check = CheckOf(c)
        BY <2>1, FamilyFindings DEF SubjectInv
      <3>2. CheckOf("pods") = "pod-health" /\ "pods" \in Families
        BY DEF CheckOf, Families
      <3>. QED
        BY <3>1, <3>2, CheckOfInjective
    <2>3. Live /\ f \in checkPods(subject)
      BY <2>1, <2>2 DEF Findings, If
    <2>4. subject.kind = "pod" /\ (subject.pending => ~subject.ready)
      BY <2>3 DEF Live, SubjectInv, Possible
    <2>5. shouldScanLogs(subject)
      BY <2>3, <2>4, PodFindings DEF shouldScanLogs
    <2>. QED
      BY <1>1, <2>3, <2>5, PollFinds
  <1>2. CASE complete' = {}
    BY <1>2 DEF TroubledIsScanned
  <1>3. CASE UNCHANGED vars
    BY <1>3 DEF vars, TroubledIsScanned
  <1>. QED
    BY <1>1, <1>2, <1>3, OnlyPolls

\* The logs of every pod that checkPods reports are read by checkLogs in the
\* same poll, unless all it reports is that the pod was once out of memory:
\* shouldScanLogs repeats the conditions of checkPods.
THEOREM TroubledAreScanned == Spec => []TroubledIsScanned
  <1>1. Init => TroubledIsScanned
    BY DEF Init, TroubledIsScanned
  <1>. QED
    BY <1>1, SubjectInit, SubjectStep, ScannedStep, PTL DEF Spec

LEMMA EventsStep ==
    SubjectInv /\ RecentEventsReported /\ [Next]_vars => RecentEventsReported'
  <1>. SUFFICES ASSUME SubjectInv, RecentEventsReported, [Next]_vars
                PROVE  RecentEventsReported'
    OBVIOUS
  <1>1. ASSUME NEW failed, NEW readable, Poll(failed, readable)
        PROVE  RecentEventsReported'
    <2>0. subject' = subject
      BY <1>1 DEF Poll
    <2>. DEFINE both == {subject.e1, subject.e2}
                recent(e) == \E x \in both :
                                /\ normalizeReason(x.reason) = normalizeReason(e.reason)
                                /\ x.warning /\ x.last <= EventLookback
                reported(e) == \E f \in found' : f.reason = normalizeReason(e.reason)
    <2>. SUFFICES ASSUME "events" \in complete', subject.kind = "events",
                         NEW e \in both
                  PROVE  /\ reported(e) => recent(e)
                         /\ /\ e.warning /\ e.last <= EventLookback
                            /\ e.stamped \/ e.first = e.last
                            => reported(e)
      BY <2>0 DEF RecentEventsReported
    <2>1. \A x \in both : x \in Event /\ x.last <= x.first
      BY KindFields DEF SubjectInv, Possible, Events
    <2>2. \A x \in both : eventLastSeen(x) = IF x.stamped THEN x.last ELSE x.first
      BY DEF eventLastSeen
    <2>3. Findings("events", Made(failed), readable) = checkEvents(both)
      BY DEF Findings, If
    <2>. HIDE DEF both
    <2>4. checkEvents(both) \subseteq found'
      BY <1>1, <2>3, PollFinds
    <2>5. ASSUME NEW f \in found'
          PROVE  f \in checkEvents(both)
      <3>1. PICK c \in Families : f \in Findings(c, Made(failed), readable)
        BY <1>1, PollFinds
      <3>2. c = "events"
        BY <3>1 DEF Families, Findings, If, Live
      <3>. QED
        BY <2>3, <3>1, <3>2
    <2>6. ASSUME reported(e)
          PROVE  recent(e)
      <3>1. PICK f \in checkEvents(both) : f.reason = normalizeReason(e.reason)
        BY <2>5, <2>6
      <3>2. PICK x \in both :
                /\ x.warning /\ eventLastSeen(x) <= EventLookback
                /\ f = F("object", "event", normalizeReason(x.reason),
                         scoreEventReason(x.reason))
        BY <3>1, EventFindings
      <3>3. normalizeReason(x.reason) = normalizeReason(e.reason)
        BY <3>1, <3>2, FShape
      <3>4. x.last \in Nat /\ x.first \in Nat /\ EventLookback \in Nat
        BY <2>1, ChecksAssumption DEF Event
      <3>5. x.last <= EventLookback
        BY <2>1, <2>2, <3>2, <3>4
      <3>. QED
        BY <3>2, <3>3, <3>5
    <2>7. ASSUME e.warning, e.last <= EventLookback, e.stamped \/ e.first = e.last
          PROVE  reported(e)
      <3>. DEFINE f == F("object", "event", normalizeReason(e.reason),
                         scoreEventReason(e.reason))
      <3>1. eventLastSeen(e) <= EventLookback
        BY <2>2, <2>7
      <3>2. f \in checkEvents(both)
        BY <2>7, <3>1, EventFindings
      <3>. QED
        BY <2>4, <3>2, FShape
    <2>. QED
      BY <2>6, <2>7
  <1>2. CASE complete' = {}
    BY <1>2 DEF RecentEventsReported
  <1>3. CASE UNCHANGED vars
    BY <1>3 DEF vars, RecentEventsReported
  <1>. QED
    BY <1>1, <1>2, <1>3, OnlyPolls

\* checkEvents reports an event only if it occurred within EventLookback, and
\* every such event that is stamped or occurred once.
THEOREM RecentEventsAreReported == Spec => []RecentEventsReported
  <1>1. Init => RecentEventsReported
    BY DEF Init, RecentEventsReported
  <1>. QED
    BY <1>1, SubjectInit, SubjectStep, EventsStep, PTL DEF Spec
=============================================================================
