---------------------------- MODULE Observations ----------------------------
(***************************************************************************)
(* What the monitor remembers of pods from poll to poll: a restart count   *)
(* to compare with (checkPods) and the last samples of memory usage        *)
(* (checkResourceUsage), kept in the state under the name of the pod,      *)
(* forgotten by age, by number and by size (monitor.go), saved now and     *)
(* then and reloaded when the process restarts.                            *)
(*                                                                         *)
(* A poll is one step here.  An observation is [age, count, samples]: the  *)
(* time since its LastSeen, up to MaxAge, the restart count and the        *)
(* samples, of which one is unused.  Pods come, go and come back under the *)
(* same name.                                                              *)
(***************************************************************************)
EXTENDS Integers, Sequences, FiniteSets

CONSTANTS
    Pods,                   \* names of pods
    Limited,                \* those with a memory limit
    Levels,                 \* memory usage, in percent of the limit
    RestartWindow,
    RestartWarningCount,
    ObservationRetention,   \* 0: none
    MaxObservations,        \* 0: no cap
    MaxStateBytes,          \* counted in observations, 0: no limit
    MaxSamples,
    MemoryWarningPercent,
    MemoryCriticalPercent,
    TimeSteps,              \* how far apart two polls may be
    MaxRestarts,            \* bound: restarts of a pod
    MaxFaults,              \* bound: crashes of the monitor
    MaxAge                  \* bound: where an age stops growing

ASSUME ObservationAssumption ==
    /\ IsFiniteSet(Pods) /\ Limited \subseteq Pods
    /\ Levels \subseteq Nat /\ Levels # {}
    /\ {RestartWindow, ObservationRetention, MaxObservations, MaxStateBytes,
        MemoryWarningPercent, MemoryCriticalPercent, MaxRestarts, MaxFaults,
        MaxAge} \subseteq Nat
    /\ {RestartWarningCount, MaxSamples} \subseteq Nat \ {0}
    /\ TimeSteps \subseteq Nat \ {0} /\ TimeSteps # {}
    /\ MaxAge > RestartWindow /\ MaxAge > ObservationRetention

VARIABLES
    pod,        \* the pods: [there, restarts]
    obs,        \* m.state.Observations
    saved,      \* those in the state ConfigMap
    faults,     \* crashes so far
    reported,   \* what this poll reported: pairs of a pod and a reason
    recent,     \* observer: the ages of the last restarts under a name
    noticed,    \* observer: those while there was a baseline in memory
    lowest,     \* observer: the lowest usage sampled under a name
    observed,   \* observer: what this poll observed, by key
    gone        \* observer: time since the pod was there

observer == <<recent, noticed, lowest, observed, gone>>
vars == <<pod, obs, saved, faults, reported, observer>>

Keys == (Pods \X {"restarts"}) \cup (Limited \X {"memory"})

None     == -1
Absent   == [age |-> None, count |-> 0, samples |-> <<>>]
Known(o) == {k \in Keys : o[k].age # None}

\* d units of time later.
Older(age, d) == CASE age = None -> None
                   [] age # None -> IF age + d > MaxAge THEN MaxAge ELSE age + d
Later(o, d) == [k \in Keys |-> [o[k] EXCEPT !.age = Older(o[k].age, d)]]

Init ==
    /\ pod \in [Pods -> [there : BOOLEAN, restarts : {0}]]
    /\ obs = [k \in Keys |-> Absent]
    /\ saved = obs
    /\ faults = 0
    /\ reported = {}
    /\ recent = [p \in Pods |-> [i \in 1..RestartWarningCount |->
                                    RestartWindow + 1]]
    /\ noticed = recent
    /\ lowest = [p \in Limited |-> None]
    /\ observed = <<>>
    /\ gone = [p \in Pods |-> IF pod[p].there THEN 0 ELSE MaxAge]

\* The ages of the last RestartWarningCount restarts, the latest first, which
\* stop growing beyond RestartWindow: d later, and after one more.
Aged(ages, d) == [i \in 1..RestartWarningCount |->
                     IF ages[i] + d > RestartWindow THEN RestartWindow + 1
                     ELSE ages[i] + d]
OneMore(ages) == [i \in 1..RestartWarningCount |->
                     IF i = 1 THEN 0 ELSE ages[i - 1]]

-----------------------------------------------------------------------------
(* checkPods: restarts.                                                    *)

\* Mutant: the baseline stays, as if it were new.
RestartBaseline_Kept(prior, p) ==
    [age |-> 0, samples |-> <<>>,
     count |-> IF prior[<<p, "restarts">>].age # None
               THEN prior[<<p, "restarts">>].count ELSE pod[p].restarts]

\* Each poll takes a new baseline, whatever it reports.
RestartBaseline(prior, p) ==
    [age |-> 0, count |-> pod[p].restarts, samples |-> <<>>]

RestartFindings(prior, R) ==
    {p \in R : LET o == prior[<<p, "restarts">>]
               IN  /\ o.age # None /\ o.age <= RestartWindow
                   /\ pod[p].restarts - o.count >= RestartWarningCount}
    \X {"restarts-increased"}

-----------------------------------------------------------------------------
(* checkResourceUsage: memory.                                             *)

\* Mutant: one sample too many is kept.
appendMemSample_OneMore(samples, pct) ==
    LET all == Append(samples, pct)
    IN  IF Len(all) > MaxSamples + 1
        THEN SubSeq(all, Len(all) - MaxSamples, Len(all)) ELSE all

appendMemSample(samples, pct) ==
    LET all == Append(samples, pct)
    IN  IF Len(all) > MaxSamples
        THEN SubSeq(all, Len(all) - MaxSamples + 1, Len(all)) ELSE all

\* Mutant: a fall counts like a rise.
memoryTrending_Spread(samples) ==
    /\ Len(samples) >= 3
    /\ \E i, j \in DOMAIN samples : samples[i] - samples[j] >= 10

memoryTrending(samples) ==
    /\ Len(samples) >= 3
    /\ samples[Len(samples)] - samples[1] >= 10

FirstSample == [age |-> 0, count |-> 0, samples |-> <<>>]

\* The LastSeen of a memory observation is that of its first sample.
MemorySampled(prior, p, pct) ==
    LET o == prior[<<p, "memory">>]
        from == IF o.age # None THEN o ELSE FirstSample
    IN  [from EXCEPT !.samples = appendMemSample(from.samples, pct)]

\* The reason reported for a usage, if any.
MemoryReasons(pct, trending) ==
    CASE pct >= MemoryCriticalPercent -> {"memory-critical"}
      [] pct < MemoryCriticalPercent /\ pct >= MemoryWarningPercent ->
             {IF trending THEN "memory-trending-to-limit" ELSE "memory-high"}
      [] pct < MemoryCriticalPercent /\ pct < MemoryWarningPercent ->
             {r \in {"memory-trending"} : trending /\ pct >= 50}

MemoryFindings(merged, M) ==
    UNION {{p} \X MemoryReasons(M[p],
                                memoryTrending(merged[<<p, "memory">>].samples))
           : p \in DOMAIN M}

\* applyResult of both checks.
Merged(prior, R, M) ==
    [k \in Keys |->
        IF k[2] = "restarts" /\ k[1] \in R THEN RestartBaseline(prior, k[1])
        ELSE IF k[2] = "memory" /\ k[1] \in DOMAIN M
        THEN MemorySampled(prior, k[1], M[k[1]]) ELSE prior[k]]

-----------------------------------------------------------------------------
(* Forgetting.                                                             *)

Forget(o, S) == [k \in Keys |-> IF k \in S THEN Absent ELSE o[k]]

\* Mutant: the age is that of the last sample, which a baseline has not.
pruneStaleObservations_Sampled(o) ==
    Forget(o, {k \in Known(o) : /\ ObservationRetention > 0
                                /\ o[k].samples # <<>>
                                /\ o[k].age > ObservationRetention})

pruneStaleObservations(o) ==
    Forget(o, {k \in Known(o) : /\ ObservationRetention > 0
                                /\ o[k].age > ObservationRetention})

\* Mutant: the freshest go first.
Oldest_Fresh(o, n) ==
    {S \in SUBSET Known(o) : Cardinality(S) = n /\
        \A x \in S, y \in Known(o) \ S : o[x].age <= o[y].age}

\* The sets of n observations that are the oldest ones: equally old ones are
\* taken in any order.
Oldest(o, n) ==
    {S \in SUBSET Known(o) : Cardinality(S) = n /\
        \A x \in S, y \in Known(o) \ S : o[x].age >= o[y].age}

Excess(o, bound) ==
    IF bound > 0 /\ Cardinality(Known(o)) > bound
    THEN Cardinality(Known(o)) - bound ELSE 0

pruneObservationCap(o) ==
    {Forget(o, S) : S \in Oldest(o, Excess(o, MaxObservations))}

\* Before a write, as many as it takes to fit.  The findings are in the same
\* state, so that even less room may be left.
pruneForStateSize(o) ==
    UNION {{Forget(o, S) : S \in Oldest(o, n)} :
               n \in {m \in 0..Cardinality(Known(o)) :
                         /\ m >= Excess(o, MaxStateBytes)
                         /\ MaxStateBytes = 0 => m = 0}}

-----------------------------------------------------------------------------
(* The monitor.                                                            *)

\* A poll, d after the last one, that observes the restarts of the pods R (all
\* there are, or none when the list or the check fails) and samples the memory
\* usage M of some of them (those the metrics server knows).
Poll(d, R, M) ==
    \E prior \in {Later(obs, d)} : \E merged \in {Merged(prior, R, M)} :
        /\ reported' = RestartFindings(prior, R) \cup MemoryFindings(merged, M)
        /\ \E fresh \in {pruneStaleObservations(merged)} :
           \E kept \in pruneObservationCap(fresh) :
              \/ obs' = kept /\ saved' = Later(saved, d)   \* throttled
              \/ \E o \in pruneForStateSize(kept) :
                    /\ obs' = o
                    /\ \/ saved' = o
                       \/ saved' = Later(saved, d)   \* failed, or still too large
        /\ recent' = [p \in Pods |-> Aged(recent[p], d)]
        /\ noticed' = [p \in Pods |-> Aged(noticed[p], d)]
        /\ observed' = [k \in (R \X {"restarts"}) \cup ((DOMAIN M) \X {"memory"}) |->
                           IF k[2] = "memory" THEN M[k[1]] ELSE pod[k[1]].restarts]
        /\ lowest' = [p \in Limited |->
                         IF p \in DOMAIN M /\ (lowest[p] = None \/ M[p] < lowest[p])
                         THEN M[p] ELSE lowest[p]]
        /\ gone' = [p \in Pods |-> IF pod[p].there THEN 0 ELSE Older(gone[p], d)]
        /\ UNCHANGED <<pod, faults>>

There == {p \in Pods : pod[p].there}

SomePoll ==
    \E d \in TimeSteps, R \in {{}, There}, S \in SUBSET (There \cap Limited) :
        \E M \in [S -> Levels] : Poll(d, R, M)

\* The process ends without saving and starts again, with what was saved last
\* or, when that cannot be read, with nothing.
Crash(readable) ==
    /\ faults < MaxFaults
    /\ faults' = faults + 1
    /\ obs' = IF readable THEN saved ELSE [k \in Keys |-> Absent]
    /\ reported' = {} /\ observed' = <<>>
    /\ UNCHANGED <<pod, saved, recent, noticed, lowest, gone>>

-----------------------------------------------------------------------------
(* The pods.                                                               *)

Restart(p) ==
    /\ pod[p].there /\ pod[p].restarts < MaxRestarts
    /\ pod' = [pod EXCEPT ![p].restarts = @ + 1]
    /\ recent' = [recent EXCEPT ![p] = OneMore(@)]
    /\ noticed' = IF obs[<<p, "restarts">>].age = None THEN noticed
                  ELSE [noticed EXCEPT ![p] = OneMore(@)]
    /\ reported' = {} /\ observed' = <<>>
    /\ UNCHANGED <<obs, saved, faults, lowest, gone>>

\* The pod is deleted, or made anew under its old name.
ComeOrGo(p) ==
    /\ pod' = [pod EXCEPT ![p].there = ~@, ![p].restarts = 0]
    /\ reported' = {} /\ observed' = <<>>
    /\ UNCHANGED <<obs, saved, faults, recent, noticed, lowest, gone>>

Next ==
    \/ SomePoll
    \/ \E readable \in BOOLEAN : Crash(readable)
    \/ \E p \in Pods : Restart(p) \/ ComeOrGo(p)

Spec == Init /\ [][Next]_vars

-----------------------------------------------------------------------------
(* Properties.                                                             *)

Observation == [age     : None..MaxAge,
                count   : 0..MaxRestarts,
                samples : Seq(Levels)]

\* Every variable has its type.
TypeOK ==
    /\ pod \in [Pods -> [there : BOOLEAN, restarts : 0..MaxRestarts]]
    /\ \A o \in {obs, saved} :
           /\ o \in [Keys -> Observation]
           /\ \A k \in Keys : Len(o[k].samples) <= MaxSamples
    /\ faults \in 0..MaxFaults
    /\ {recent, noticed} \subseteq [Pods -> [1..RestartWarningCount ->
                                             0..(RestartWindow + 1)]]
    /\ lowest \in [Limited -> Levels \cup {None}]
    /\ gone \in [Pods -> 0..MaxAge]

\* restarts-increased is only reported of a pod that did restart
\* RestartWarningCount times within RestartWindow: also when polls failed, the
\* monitor was down, an old baseline was reloaded, or the baseline is that of
\* an earlier pod of that name.
RestartsReal ==
    \A p \in Pods : <<p, "restarts-increased">> \in reported
                        => recent[p][RestartWarningCount] <= RestartWindow

\* A rising trend is only reported if a usage at least 10 points below the
\* present one was sampled under this name before: whatever part of the samples
\* was forgotten or comes from a reloaded state.
TrendReal ==
    \A p \in Limited :
        reported \cap ({p} \X {"memory-trending", "memory-trending-to-limit"}) # {}
            => observed[<<p, "memory">>] - lowest[p] >= 10

\* This step is a poll.
Polled == pod' = pod /\ faults' = faults

\* It makes the observation k, or makes it anew.
Made(k) == /\ k \in DOMAIN observed'
           /\ k[2] = "memory" => k \notin Known(obs)

\* A poll that forgets an observation before its time forgets the one that is
\* oldest by its LastSeen, and none that it has just made while it keeps one
\* from an earlier poll.
ForgetsOldest ==
    [][Polled => \A k \in (Known(obs) \cup DOMAIN observed') \ Known(obs'),
                    j \in Known(obs') :
          \/ obs'[j].age = 0
          \/ ~Made(k) /\ obs[k].age >= obs[j].age]_vars

\* After every poll, the pods that have been gone for longer than the retention
\* are forgotten, be it observed last in this poll, in an earlier one or by an
\* earlier process.
ForgottenInTime ==
    [][Polled /\ ObservationRetention > 0 =>
          \A k \in Keys : gone'[k[1]] > ObservationRetention
                             => obs'[k].age = None]_vars

\* A pod that restarts RestartWarningCount times within RestartWindow, all
\* after the monitor took a baseline of it, is reported by the poll that sees
\* the last of these restarts.
BurstReported ==
    [][\A p \in Pods :
          <<p, "restarts">> \in DOMAIN observed' /\ noticed[p][1] = 0
          /\ noticed'[p][RestartWarningCount] <= RestartWindow
              => <<p, "restarts-increased">> \in reported']_vars
=============================================================================
