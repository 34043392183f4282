------------------------- MODULE ObservationsProofs ------------------------
(***************************************************************************)
(* Theorems about Observations, for every number of pods, retention, cap,  *)
(* window and spacing of polls.                                            *)
(***************************************************************************)
EXTENDS Observations, SequenceTheorems, TLAPS

-----------------------------------------------------------------------------
(* Operators.                                                              *)

LEMMA BoundTypes ==
    /\ RestartWindow \in Nat /\ ObservationRetention \in Nat
    /\ MaxRestarts \in Nat /\ MaxFaults \in Nat /\ MaxAge \in Nat
    /\ RestartWarningCount \in Nat /\ RestartWarningCount >= 1
    /\ MaxSamples \in Nat /\ MaxSamples >= 1
    /\ MaxAge > RestartWindow /\ MaxAge > ObservationRetention
  BY ObservationAssumption

LEMMA KeyParts ==
    ASSUME NEW k \in Keys
    PROVE  /\ k[1] \in Pods /\ k[2] \in {"restarts", "memory"}
           /\ k[2] = "memory" => k[1] \in Limited
           /\ k = <<k[1], k[2]>>
  BY ObservationAssumption DEF Keys

LEMMA OlderShape ==
    ASSUME NEW age \in None..MaxAge, NEW d \in Nat
    PROVE  /\ Older(age, d) \in None..MaxAge
           /\ Older(age, d) = None <=> age = None
           /\ age # None => Older(age, d) = IF age + d > MaxAge THEN MaxAge
                                            ELSE age + d
  <1>1. CASE age = None
    <2>1. Older(age, d) = None
      BY <1>1 DEF Older
    <2>. QED
      BY <1>1, <2>1
  <1>2. CASE age # None
    <2>1. age \in Nat /\ MaxAge \in Nat
      BY <1>2, BoundTypes DEF None
    <2>2. Older(age, d) = IF age + d > MaxAge THEN MaxAge ELSE age + d
      BY <1>2 DEF Older
    <2>. QED
      BY <1>2, <2>1, <2>2 DEF None
  <1>. QED
    BY <1>1, <1>2

LEMMA AbsentType ==
    /\ Absent \in Observation /\ Len(Absent.samples) <= MaxSamples
    /\ Absent.age = None
  <1>1. <<>> \in Seq(Levels) /\ Len(<<>>) = 0
    OBVIOUS
  <1>. QED
    BY <1>1, BoundTypes DEF Absent, Observation, None

LEMMA LaterShape ==
    ASSUME NEW o \in [Keys -> Observation], NEW d \in Nat, NEW k \in Keys
    PROVE  /\ Later(o, d)[k] \in Observation
           /\ Later(o, d)[k].age = Older(o[k].age, d)
           /\ Later(o, d)[k].count = o[k].count
           /\ Later(o, d)[k].samples = o[k].samples
  <1>. DEFINE x == o[k]
  <1>1. x \in Observation
    OBVIOUS
  <1>2. Older(x.age, d) \in None..MaxAge
    BY <1>1, OlderShape DEF Observation
  <1>3. Later(o, d)[k] = [x EXCEPT !.age = Older(x.age, d)]
    BY DEF Later
  <1>. QED
    BY <1>1, <1>2, <1>3 DEF Observation

LEMMA LaterType ==
    ASSUME NEW o \in [Keys -> Observation], NEW d \in Nat
    PROVE  Later(o, d) \in [Keys -> Observation]
  <1>1. Later(o, d) = [k \in Keys |-> Later(o, d)[k]]
    BY DEF Later
  <1>. QED
    BY <1>1, LaterShape

LEMMA ForgetShape ==
    ASSUME NEW o \in [Keys -> Observation], NEW F
    PROVE  /\ Forget(o, F) \in [Keys -> Observation]
           /\ \A k \in Keys : Forget(o, F)[k] = IF k \in F THEN Absent ELSE o[k]
           /\ Known(Forget(o, F)) = Known(o) \ F
  BY AbsentType DEF Forget, Known

\* A sample is added at the end, and only the oldest one falls out.
LEMMA AppendShape ==
    ASSUME NEW samples \in Seq(Levels), NEW pct \in Levels
    PROVE  LET r == appendMemSample(samples, pct)
           IN  /\ r \in Seq(Levels) /\ Len(r) \in 1..MaxSamples
               /\ r[Len(r)] = pct
               /\ \A i \in DOMAIN r : \/ r[i] = pct
                                      \/ \E j \in DOMAIN samples : r[i] = samples[j]
  <1>. DEFINE all == Append(samples, pct)
              r == appendMemSample(samples, pct)
              from == Len(all) - MaxSamples + 1
  <1>1. /\ all \in Seq(Levels) /\ Len(all) = Len(samples) + 1 /\ Len(all) \in Nat
        /\ all[Len(all)] = pct
        /\ \A i \in 1..Len(all) : all[i] = pct \/ \E j \in DOMAIN samples :
                                                      all[i] = samples[j]
    OBVIOUS
  <1>2. r = IF Len(all) > MaxSamples THEN SubSeq(all, from, Len(all)) ELSE all
    BY DEF appendMemSample
  <1>3. CASE ~(Len(all) > MaxSamples)
    BY <1>1, <1>2, <1>3, BoundTypes
  <1>4. CASE Len(all) > MaxSamples
    <2>. DEFINE n == Len(all)
    <2>1. r = SubSeq(all, from, n)
      BY <1>2, <1>4
    <2>. HIDE DEF all
    <2>2. from \in 1..n /\ n \in Nat
      BY <1>1, <1>4, BoundTypes
    <2>3. Len(r) = MaxSamples /\ \A i \in 1..MaxSamples : r[i] = all[from + i - 1]
      BY <1>1, <2>1, <2>2, BoundTypes
    <2>4. r \in Seq(Levels)
      BY <1>1, <2>1, <2>2, SubSeqProperties
    <2>5. r[Len(r)] = pct
      BY <1>1, <2>3, BoundTypes
    <2>6. \A i \in 1..MaxSamples : from + i - 1 \in 1..n
      BY <1>1, <1>4, BoundTypes
    <2>7. DOMAIN r = 1..MaxSamples
      BY <2>3, <2>4
    <2>8. \A i \in DOMAIN r : r[i] = pct \/ \E j \in DOMAIN samples :
                                                r[i] = samples[j]
      <3>. SUFFICES ASSUME NEW i \in 1..MaxSamples
                    PROVE  r[i] = pct \/ \E j \in DOMAIN samples : r[i] = samples[j]
        BY <2>7
      <3>1. r[i] = all[from + i - 1] /\ from + i - 1 \in 1..Len(all)
        BY <2>3, <2>6
      <3>. QED
        BY <1>1, <3>1
    <2>. QED
      BY <2>3, <2>4, <2>5, <2>8, BoundTypes
  <1>. QED
    BY <1>3, <1>4

\* What the checks make of the prior observation of k.
Baseline(k, R) == k[2] = "restarts" /\ k[1] \in R
Sampled(k, M)  == k[2] = "memory" /\ k[1] \in DOMAIN M

IsMerged(x, R, M, k, m) ==
    /\ m \in Observation /\ Len(m.samples) <= MaxSamples
    /\ Baseline(k, R) => m.age = 0 /\ m.count = pod[k[1]].restarts
    /\ Sampled(k, M) =>
           /\ m.age = IF x.age # None THEN x.age ELSE 0
           /\ m.samples = appendMemSample(IF x.age # None THEN x.samples ELSE <<>>,
                                          M[k[1]])
    /\ ~Baseline(k, R) /\ ~Sampled(k, M) => m = x

LEMMA MergedShape ==
    ASSUME NEW prior \in [Keys -> Observation], NEW R \in SUBSET Pods, NEW M,
           \A p \in DOMAIN M : M[p] \in Levels,
           \A k \in Keys : Len(prior[k].samples) <= MaxSamples,
           pod \in [Pods -> [there : BOOLEAN, restarts : 0..MaxRestarts]],
           NEW k \in Keys
    PROVE  IsMerged(prior[k], R, M, k, Merged(prior, R, M)[k])
  <1>. DEFINE m == Merged(prior, R, M)[k]
              x == prior[k]
  <1>0. x \in Observation /\ Len(x.samples) <= MaxSamples
    OBVIOUS
  <1>1. CASE Baseline(k, R)
    <2>1. m = RestartBaseline(prior, k[1])
      BY <1>1 DEF Merged, Baseline
    <2>2. m = [age |-> 0, count |-> pod[k[1]].restarts, samples |-> <<>>]
      BY <2>1 DEF RestartBaseline
    <2>3. pod[k[1]].restarts \in 0..MaxRestarts /\ <<>> \in Seq(Levels)
          /\ Len(<<>>) <= MaxSamples /\ 0 \in None..MaxAge
      BY KeyParts, BoundTypes DEF None
    <2>. QED
      BY <1>1, <2>2, <2>3 DEF IsMerged, Observation, Baseline, Sampled
  <1>2. CASE Sampled(k, M)
    <2>1. m = MemorySampled(prior, k[1], M[k[1]])
      BY <1>2 DEF Merged, Sampled
    <2>. DEFINE from == IF x.age # None THEN x ELSE FirstSample
                new  == appendMemSample(from.samples, M[k[1]])
    <2>2. prior[<<k[1], "memory">>] = x
      BY <1>2, KeyParts DEF Sampled
    <2>3. m = [from EXCEPT !.samples = new]
      BY <2>1, <2>2 DEF MemorySampled
    <2>4. /\ from \in Observation
          /\ from.age = IF x.age # None THEN x.age ELSE 0
          /\ from.samples = IF x.age # None THEN x.samples ELSE <<>>
      <3>1. FirstSample \in Observation /\ FirstSample.age = 0
            /\ FirstSample.samples = <<>>
        <4>1. <<>> \in Seq(Levels) /\ 0 \in None..MaxAge /\ 0 \in 0..MaxRestarts
          BY BoundTypes DEF None
        <4>. QED
          BY <4>1 DEF FirstSample, Observation
      <3>. QED
        BY <1>0, <3>1
    <2>5. new \in Seq(Levels) /\ Len(new) \in 1..MaxSamples
      BY <1>2, <2>4, AppendShape DEF Observation, Sampled
    <2>. HIDE DEF from, new
    <2>6. m \in Observation /\ m.age = from.age /\ m.samples = new
      BY <2>3, <2>4, <2>5 DEF Observation
    <2>7. Len(m.samples) <= MaxSamples
      BY <2>5, <2>6, BoundTypes
    <2>8. m.samples = appendMemSample(from.samples, M[k[1]])
      BY <2>6 DEF new
    <2>. QED
      BY <1>2, <2>4, <2>6, <2>7, <2>8 DEF IsMerged, Baseline, Sampled
  <1>3. CASE ~Baseline(k, R) /\ ~Sampled(k, M)
    <2>1. m = x
      BY <1>3 DEF Merged, Baseline, Sampled
    <2>. QED
      BY <1>0, <1>3, <2>1 DEF IsMerged
  <1>. QED
    BY <1>1, <1>2, <1>3

-----------------------------------------------------------------------------
(* What a poll does to the observations.                                   *)

\* The inputs of a poll.
PollInput(d, R, M) ==
    /\ d \in TimeSteps /\ R \in {{}, There}
    /\ \E S \in SUBSET (There \cap Limited) : M \in [S -> Levels]

LEMMA InputTypes ==
    ASSUME NEW d, NEW R, NEW M, PollInput(d, R, M)
    PROVE  /\ d \in Nat /\ d > 0
           /\ R \in SUBSET Pods /\ R \subseteq There
           /\ DOMAIN M \subseteq There \cap Limited
           /\ \A p \in DOMAIN M : M[p] \in Levels
  BY ObservationAssumption DEF PollInput, There

LEMMA PriorTypes ==
    ASSUME TypeOK, NEW d, NEW R, NEW M, PollInput(d, R, M)
    PROVE  /\ Later(obs, d) \in [Keys -> Observation]
           /\ \A k \in Keys : Len(Later(obs, d)[k].samples) <= MaxSamples
  BY InputTypes, LaterShape, LaterType DEF TypeOK

\* F holds the oldest of the observations o, the stale ones among them.
ForgetsStalest(o, F) ==
    /\ F \subseteq Known(o)
    /\ \A k \in Known(o) : ObservationRetention > 0
                           /\ o[k].age > ObservationRetention => k \in F
    /\ \A x \in F, y \in Known(o) \ F : o[x].age >= o[y].age

LEMMA PollShape ==
    ASSUME TypeOK, NEW d, NEW R, NEW M, PollInput(d, R, M), Poll(d, R, M)
    PROVE  LET prior  == Later(obs, d)
               merged == Merged(prior, R, M)
           IN  /\ reported' = RestartFindings(prior, R) \cup MemoryFindings(merged, M)
               /\ \E F : obs' = Forget(merged, F) /\ ForgetsStalest(merged, F)
               /\ saved' = obs' \/ saved' = Later(saved, d)
  <1>. DEFINE prior  == Later(obs, d)
              merged == Merged(prior, R, M)
              E == {k \in Known(merged) : /\ ObservationRetention > 0
                                          /\ merged[k].age > ObservationRetention}
              fresh == pruneStaleObservations(merged)
  <1>1. /\ reported' = RestartFindings(prior, R) \cup MemoryFindings(merged, M)
        /\ \E kept \in pruneObservationCap(fresh) :
              \/ obs' = kept /\ saved' = Later(saved, d)
              \/ \E o \in pruneForStateSize(kept) :
                    obs' = o /\ (saved' = o \/ saved' = Later(saved, d))
    BY DEF Poll
  <1>2. fresh = Forget(merged, E)
    BY DEF pruneStaleObservations
  <1>3. prior \in [Keys -> Observation]
        /\ \A k \in Keys : Len(prior[k].samples) <= MaxSamples
    BY PriorTypes
  <1>4. merged \in [Keys -> Observation]
    <2>1. \A k \in Keys : merged[k] \in Observation
      BY <1>3, InputTypes, MergedShape DEF TypeOK, IsMerged
    <2>. QED
      BY <2>1 DEF Merged
  <1>. HIDE DEF merged, prior, fresh
  <1>5. PICK kept \in pruneObservationCap(fresh) :
              \/ obs' = kept /\ saved' = Later(saved, d)
              \/ \E o \in pruneForStateSize(kept) :
                    obs' = o /\ (saved' = o \/ saved' = Later(saved, d))
    BY <1>1
  <1>6. PICK S \in SUBSET Known(fresh) :
              kept = Forget(fresh, S)
              /\ \A x \in S, y \in Known(fresh) \ S : fresh[x].age >= fresh[y].age
    BY <1>5 DEF pruneObservationCap, Oldest
  <1>7. PICK Z \in SUBSET Known(kept) :
              obs' = Forget(kept, Z)
              /\ \A x \in Z, y \in Known(kept) \ Z : kept[x].age >= kept[y].age
    <2>1. CASE obs' = kept
      <3>1. kept = Forget(kept, {})
        BY <1>6 DEF Forget
      <3>. QED
        BY <2>1, <3>1
    <2>2. CASE obs' \in pruneForStateSize(kept)
      BY <2>2 DEF pruneForStateSize, Oldest
    <2>. QED
      BY <1>5, <2>1, <2>2
  <1>. DEFINE F == E \cup S \cup Z
  <1>8. /\ fresh \in [Keys -> Observation] /\ Known(fresh) = Known(merged) \ E
        /\ \A k \in Keys \ E : fresh[k] = merged[k]
    BY <1>2, <1>4, ForgetShape
  <1>9. /\ kept \in [Keys -> Observation] /\ Known(kept) = Known(fresh) \ S
        /\ \A k \in Keys \ S : kept[k] = fresh[k]
    BY <1>6, <1>8, ForgetShape
  <1>10. obs' = Forget(merged, F)
    BY <1>2, <1>6, <1>7 DEF Forget
  <1>11. ForgetsStalest(merged, F)
    <2>1. F \subseteq Known(merged) /\ Known(merged) \subseteq Keys
      BY <1>8, <1>9 DEF Known
    <2>2. ASSUME NEW x \in F, NEW y \in Known(merged) \ F
          PROVE  merged[x].age >= merged[y].age
      <3>0. merged[x].age \in Int /\ merged[y].age \in Int
        BY <1>4, <2>1, BoundTypes DEF Observation, None
      <3>1. CASE x \in E
        <4>1. /\ merged[x].age > ObservationRetention
              /\ ~(merged[y].age > ObservationRetention)
          BY <2>2, <3>1
        <4>. QED
          BY <3>0, <4>1, BoundTypes
      <3>2. CASE x \notin E /\ x \in S
        <4>1. fresh[x].age >= fresh[y].age
          BY <1>6, <1>8, <2>2, <3>2
        <4>2. fresh[x] = merged[x] /\ fresh[y] = merged[y]
          BY <1>8, <2>1, <2>2, <3>2
        <4>. QED
          BY <4>1, <4>2
      <3>3. CASE x \notin E /\ x \notin S /\ x \in Z
        <4>1. kept[x].age >= kept[y].age
          BY <1>7, <1>8, <1>9, <2>2, <3>3
        <4>2. kept[x] = merged[x] /\ kept[y] = merged[y]
          BY <1>8, <1>9, <2>1, <2>2, <3>3
        <4>. QED
          BY <4>1, <4>2
      <3>. QED
        BY <2>2, <3>1, <3>2, <3>3
    <2>. QED
      BY <2>1, <2>2 DEF ForgetsStalest
  <1>12. saved' = obs' \/ saved' = Later(saved, d)
    BY <1>5
  <1>. QED
    BY <1>1, <1>10, <1>11, <1>12 DEF merged, prior

LEMMA MergedTypes ==
    ASSUME TypeOK, NEW d, NEW R, NEW M, PollInput(d, R, M)
    PROVE  /\ Merged(Later(obs, d), R, M) \in [Keys -> Observation]
           /\ \A k \in Keys :
                  Len(Merged(Later(obs, d), R, M)[k].samples) <= MaxSamples
  <1>. DEFINE prior == Later(obs, d)
  <1>1. prior \in [Keys -> Observation]
        /\ \A k \in Keys : Len(prior[k].samples) <= MaxSamples
    BY PriorTypes
  <1>. HIDE DEF prior
  <1>2. \A k \in Keys : /\ Merged(prior, R, M)[k] \in Observation
                        /\ Len(Merged(prior, R, M)[k].samples) <= MaxSamples
    BY <1>1, InputTypes, MergedShape DEF TypeOK, IsMerged
  <1>3. Merged(prior, R, M) \in [Keys -> Observation]
    BY <1>2 DEF Merged
  <1>. QED
    BY <1>2, <1>3 DEF prior

LEMMA PollMerges ==
    ASSUME TypeOK, NEW d, NEW R, NEW M, PollInput(d, R, M), NEW k \in Keys
    PROVE  IsMerged(Later(obs, d)[k], R, M, k, Merged(Later(obs, d), R, M)[k])
  <1>. DEFINE prior == Later(obs, d)
  <1>1. prior \in [Keys -> Observation]
        /\ \A j \in Keys : Len(prior[j].samples) <= MaxSamples
    BY PriorTypes
  <1>. HIDE DEF prior
  <1>2. IsMerged(prior[k], R, M, k, Merged(prior, R, M)[k])
    BY <1>1, InputTypes, MergedShape DEF TypeOK
  <1>. QED
    BY <1>2 DEF prior

-----------------------------------------------------------------------------
(* Type correctness.                                                       *)

LEMMA RecentTypes ==
    ASSUME NEW ages \in [1..RestartWarningCount -> 0..(RestartWindow + 1)],
           NEW d \in Nat
    PROVE  /\ Aged(ages, d) \in [1..RestartWarningCount -> 0..(RestartWindow + 1)]
           /\ OneMore(ages) \in [1..RestartWarningCount -> 0..(RestartWindow + 1)]
  BY BoundTypes DEF Aged, OneMore

LEMMA NothingKnown ==
    /\ [k \in Keys |-> Absent] \in [Keys -> Observation]
    /\ \A k \in Keys : Len([j \in Keys |-> Absent][k].samples) <= MaxSamples
  BY AbsentType

LEMMA TypeInit == Init => TypeOK
  <1>. SUFFICES ASSUME Init PROVE TypeOK
    OBVIOUS
  <1>1. pod \in [Pods -> [there : BOOLEAN, restarts : 0..MaxRestarts]]
    BY BoundTypes DEF Init
  <1>2. recent \in [Pods -> [1..RestartWarningCount -> 0..(RestartWindow + 1)]]
    BY BoundTypes DEF Init
  <1>3. gone \in [Pods -> 0..MaxAge]
    BY BoundTypes DEF Init
  <1>4. faults \in 0..MaxFaults /\ lowest \in [Limited -> Levels \cup {None}]
    BY BoundTypes DEF Init
  <1>5. obs = [k \in Keys |-> Absent] /\ saved = obs /\ noticed = recent
    BY DEF Init
  <1>. QED
    BY <1>1, <1>2, <1>3, <1>4, <1>5, NothingKnown DEF TypeOK

LEMMA TypeStep == TypeOK /\ [Next]_vars => TypeOK'
  <1>. SUFFICES ASSUME TypeOK, [Next]_vars PROVE TypeOK'
    OBVIOUS
  <1>0. /\ pod \in [Pods -> [there : BOOLEAN, restarts : 0..MaxRestarts]]
        /\ obs \in [Keys -> Observation] /\ saved \in [Keys -> Observation]
        /\ \A k \in Keys : Len(obs[k].samples) <= MaxSamples
        /\ \A k \in Keys : Len(saved[k].samples) <= MaxSamples
        /\ recent \in [Pods -> [1..RestartWarningCount -> 0..(RestartWindow + 1)]]
        /\ noticed \in [Pods -> [1..RestartWarningCount -> 0..(RestartWindow + 1)]]
        /\ gone \in [Pods -> 0..MaxAge] /\ faults \in 0..MaxFaults
        /\ lowest \in [Limited -> Levels \cup {None}]
    BY DEF TypeOK
  <1>1. ASSUME NEW d, NEW R, NEW M, PollInput(d, R, M), Poll(d, R, M)
        PROVE  TypeOK'
    <2>. DEFINE merged == Merged(Later(obs, d), R, M)
    <2>0. d \in Nat /\ \A p \in DOMAIN M : M[p] \in Levels
      BY <1>1, InputTypes
    <2>1. merged \in [Keys -> Observation]
          /\ \A k \in Keys : Len(merged[k].samples) <= MaxSamples
      BY <1>1, MergedTypes
    <2>2. PICK F : obs' = Forget(merged, F)
      BY <1>1, PollShape
    <2>3. saved' = obs' \/ saved' = Later(saved, d)
      BY <1>1, PollShape
    <2>. HIDE DEF merged
    <2>4. obs' \in [Keys -> Observation]
          /\ \A k \in Keys : Len(obs'[k].samples) <= MaxSamples
      BY <2>1, <2>2, ForgetShape, AbsentType
    <2>5. Later(saved, d) \in [Keys -> Observation]
          /\ \A k \in Keys : Len(Later(saved, d)[k].samples) <= MaxSamples
      BY <1>0, <2>0, LaterShape, LaterType
    <2>6. saved' \in [Keys -> Observation]
          /\ \A k \in Keys : Len(saved'[k].samples) <= MaxSamples
      BY <2>3, <2>4, <2>5
    <2>7. /\ recent' \in [Pods -> [1..RestartWarningCount -> 0..(RestartWindow + 1)]]
          /\ noticed' \in [Pods -> [1..RestartWarningCount -> 0..(RestartWindow + 1)]]
      <3>1. /\ recent' = [p \in Pods |-> Aged(recent[p], d)]
            /\ noticed' = [p \in Pods |-> Aged(noticed[p], d)]
        BY <1>1 DEF Poll
      <3>. QED
        BY <1>0, <2>0, <3>1, RecentTypes
    <2>8. lowest' \in [Limited -> Levels \cup {None}]
      BY <1>0, <1>1, <2>0 DEF Poll
    <2>9. gone' \in [Pods -> 0..MaxAge]
      <3>1. \A a \in 0..MaxAge : Older(a, d) \in 0..MaxAge
        BY <2>0, BoundTypes DEF Older, None
      <3>. QED
        BY <1>0, <1>1, <3>1, BoundTypes DEF Poll
    <2>10. pod' = pod /\ faults' = faults
      BY <1>1 DEF Poll
    <2>. QED
      BY <1>0, <2>4, <2>6, <2>7, <2>8, <2>9, <2>10 DEF TypeOK
  <1>2. ASSUME NEW readable \in BOOLEAN, Crash(readable)
        PROVE  TypeOK'
    <2>1. obs' = saved \/ obs' = [k \in Keys |-> Absent]
      BY <1>2 DEF Crash
    <2>2. faults' \in 0..MaxFaults
      BY <1>0, <1>2, BoundTypes DEF Crash
    <2>. QED
      BY <1>0, <1>2, <2>1, <2>2, NothingKnown DEF Crash, TypeOK
  <1>3. ASSUME NEW p \in Pods, Restart(p)
        PROVE  TypeOK'
    <2>1. pod' \in [Pods -> [there : BOOLEAN, restarts : 0..MaxRestarts]]
      <3>. DEFINE new == [pod[p] EXCEPT !.restarts = @ + 1]
      <3>1. new \in [there : BOOLEAN, restarts : 0..MaxRestarts]
        <4>1. pod[p] \in [there : BOOLEAN, restarts : 0..MaxRestarts]
          BY <1>0
        <4>2. pod[p].restarts + 1 \in 0..MaxRestarts
          BY <1>3, <4>1, BoundTypes DEF Restart
        <4>. QED
          BY <4>1, <4>2
      <3>2. pod' = [pod EXCEPT ![p] = new]
        BY <1>3 DEF Restart
      <3>. QED
        BY <1>0, <3>1, <3>2
    <2>2. /\ recent' \in [Pods -> [1..RestartWarningCount -> 0..(RestartWindow + 1)]]
          /\ noticed' \in [Pods -> [1..RestartWarningCount -> 0..(RestartWindow + 1)]]
      BY <1>0, <1>3, RecentTypes DEF Restart
    <2>. QED
      BY <1>0, <1>3, <2>1, <2>2 DEF Restart, TypeOK
  <1>4. ASSUME NEW p \in Pods, ComeOrGo(p)
        PROVE  TypeOK'
    <2>1. pod' \in [Pods -> [there : BOOLEAN, restarts : 0..MaxRestarts]]
      <3>. DEFINE new == [pod[p] EXCEPT !.there = ~@, !.restarts = 0]
      <3>1. new \in [there : BOOLEAN, restarts : 0..MaxRestarts]
        <4>1. pod[p] \in [there : BOOLEAN, restarts : 0..MaxRestarts]
          BY <1>0
        <4>2. 0 \in 0..MaxRestarts
          BY BoundTypes
        <4>3. PICK b \in BOOLEAN : new = [pod[p] EXCEPT !.there = b, !.restarts = 0]
          BY <4>1
        <4>. QED
          BY <4>1, <4>2, <4>3
      <3>2. pod' = [pod EXCEPT ![p] = new]
        BY <1>4 DEF ComeOrGo
      <3>. QED
        BY <1>0, <3>1, <3>2
    <2>. QED
      BY <1>0, <1>4, <2>1 DEF ComeOrGo, TypeOK
  <1>5. CASE UNCHANGED vars
    BY <1>5 DEF vars, observer, TypeOK
  <1>. QED
    BY <1>1, <1>2, <1>3, <1>4, <1>5 DEF Next, SomePoll, PollInput

\* Every variable keeps its type: an observation never holds more samples than
\* MaxSamples, however often it is sampled, forgotten, saved and reloaded.
THEOREM ObservationsTypeCorrect == Spec => []TypeOK
  BY TypeInit, TypeStep, PTL DEF Spec

-----------------------------------------------------------------------------
(* What an observation x of the key k says is true: the pod was there when *)
(* it was made, as many of the last restarts as x lacks are not older than *)
(* x, and no usage sampled in x is below the lowest one.  Observations in  *)
(* memory and those that are saved, which a restart may bring back, differ *)
(* in age and must both be sound.                                          *)

GoneOK(g, k, x) == x.age # None => g[k[1]] <= x.age

RestartsOK(pods, ages, k, x) ==
    x.age # None /\ k[2] = "restarts" =>
        \A i \in 1..RestartWarningCount :
            i <= pods[k[1]].restarts - x.count => ages[k[1]][i] <= x.age

LowOK(low, k, x) ==
    x.age # None /\ k[2] = "memory" =>
        \A i \in DOMAIN x.samples : /\ low[k[1]] \in Levels
                                    /\ low[k[1]] <= x.samples[i]

Sound(g, pods, ages, low, k, x) ==
    GoneOK(g, k, x) /\ RestartsOK(pods, ages, k, x) /\ LowOK(low, k, x)

ObsInv == \A k \in Keys : /\ Sound(gone, pod, recent, lowest, k, obs[k])
                          /\ Sound(gone, pod, recent, lowest, k, saved[k])

LEMMA AbsentSound ==
    ASSUME NEW g, NEW pods, NEW ages, NEW low, NEW k
    PROVE  Sound(g, pods, ages, low, k, Absent)
  BY AbsentType DEF Sound, GoneOK, RestartsOK, LowOK

LEMMA LevelsNat == \A x \in Levels : x \in Nat /\ x # None
  BY ObservationAssumption DEF None

\* What a poll does to the observers.
LEMMA PollObserves ==
    ASSUME TypeOK, NEW d, NEW R, NEW M, PollInput(d, R, M), Poll(d, R, M)
    PROVE  /\ pod' = pod
           /\ \A p \in Pods : gone'[p] = IF pod[p].there THEN 0 ELSE Older(gone[p], d)
           /\ \A p \in Pods : \A i \in 1..RestartWarningCount :
                  recent'[p][i] = IF recent[p][i] + d > RestartWindow
                                  THEN RestartWindow + 1 ELSE recent[p][i] + d
           /\ \A p \in Limited : lowest[p] \in Levels =>
                  lowest'[p] \in Levels /\ lowest'[p] <= lowest[p]
           /\ \A p \in DOMAIN M : lowest'[p] \in Levels /\ lowest'[p] <= M[p]
  <1>1. /\ pod' = pod
        /\ gone' = [p \in Pods |-> IF pod[p].there THEN 0 ELSE Older(gone[p], d)]
        /\ recent' = [p \in Pods |-> Aged(recent[p], d)]
        /\ lowest' = [p \in Limited |->
                         IF p \in DOMAIN M /\ (lowest[p] = None \/ M[p] < lowest[p])
                         THEN M[p] ELSE lowest[p]]
    BY DEF Poll
  <1>2. DOMAIN M \subseteq Limited /\ \A p \in DOMAIN M : M[p] \in Levels
    BY InputTypes
  <1>3. lowest \in [Limited -> Levels \cup {None}]
    BY DEF TypeOK
  <1>4. \A p \in Limited : lowest[p] \in Levels =>
                  lowest'[p] \in Levels /\ lowest'[p] <= lowest[p]
    BY <1>1, <1>2, <1>3, LevelsNat
  <1>5. \A p \in DOMAIN M : lowest'[p] \in Levels /\ lowest'[p] <= M[p]
    BY <1>1, <1>2, <1>3, LevelsNat
  <1>. QED
    BY <1>1, <1>4, <1>5 DEF Aged

\* Time does not make a sound observation unsound.
LEMMA LaterSound ==
    ASSUME TypeOK, NEW d, NEW R, NEW M, PollInput(d, R, M), Poll(d, R, M),
           NEW o \in {obs, saved}, NEW k \in Keys,
           Sound(gone, pod, recent, lowest, k, o[k])
    PROVE  Sound(gone', pod', recent', lowest', k, Later(o, d)[k])
  <1>. DEFINE x == o[k]
              y == Later(o, d)[k]
              p == k[1]
  <1>1. o \in [Keys -> Observation] /\ x \in Observation /\ d \in Nat
    BY InputTypes DEF TypeOK
  <1>2. y.age = Older(x.age, d) /\ y.count = x.count /\ y.samples = x.samples
    BY <1>1, LaterShape
  <1>3. p \in Pods /\ (k[2] = "memory" => p \in Limited)
    BY KeyParts
  <1>4. /\ x.age \in None..MaxAge /\ x.count \in 0..MaxRestarts
        /\ x.samples \in Seq(Levels)
    BY <1>1 DEF Observation
  <1>. HIDE DEF x, y, p
  <1>5. /\ y.age = None <=> x.age = None
        /\ x.age # None => y.age = IF x.age + d > MaxAge THEN MaxAge ELSE x.age + d
    BY <1>1, <1>2, <1>4, OlderShape
  <1>6. GoneOK(gone', k, y)
    <2>. SUFFICES ASSUME y.age # None PROVE gone'[p] <= y.age
      BY DEF GoneOK, p
    <2>1. x.age \in 0..MaxAge /\ MaxAge \in Nat
      BY <1>4, <1>5, BoundTypes DEF None
    <2>2. gone[p] \in 0..MaxAge /\ gone[p] <= x.age
      BY <1>3, <1>5 DEF TypeOK, Sound, GoneOK, x, p
    <2>3. gone'[p] = 0 \/ gone'[p] = Older(gone[p], d)
      BY <1>3, PollObserves
    <2>4. Older(gone[p], d) = IF gone[p] + d > MaxAge THEN MaxAge ELSE gone[p] + d
      BY <1>1, <2>1, <2>2 DEF Older, None
    <2>. QED
      BY <1>1, <1>5, <2>1, <2>2, <2>3, <2>4
  <1>7. RestartsOK(pod', recent', k, y)
    <2>. SUFFICES ASSUME y.age # None, k[2] = "restarts",
                         NEW i \in 1..RestartWarningCount,
                         i <= pod[p].restarts - x.count
                  PROVE  recent'[p][i] <= y.age
      BY <1>2, PollObserves DEF RestartsOK, p
    <2>1. x.age \in 0..MaxAge /\ MaxAge \in Nat /\ RestartWindow \in Nat
          /\ MaxAge > RestartWindow
      BY <1>4, <1>5, BoundTypes DEF None
    <2>2. recent[p][i] <= x.age
      BY <1>5 DEF Sound, RestartsOK, x, p
    <2>3. recent[p][i] \in 0..(RestartWindow + 1)
      BY <1>3, BoundTypes DEF TypeOK
    <2>4. recent'[p][i] = IF recent[p][i] + d > RestartWindow
                          THEN RestartWindow + 1 ELSE recent[p][i] + d
      BY <1>3, PollObserves
    <2>. QED
      BY <1>1, <1>5, <2>1, <2>2, <2>3, <2>4
  <1>8. LowOK(lowest', k, y)
    <2>. SUFFICES ASSUME y.age # None, k[2] = "memory", NEW i \in DOMAIN x.samples
                  PROVE  lowest'[p] \in Levels /\ lowest'[p] <= x.samples[i]
      BY <1>2 DEF LowOK, p
    <2>1. lowest[p] \in Levels /\ lowest[p] <= x.samples[i]
      BY <1>5 DEF Sound, LowOK, x, p
    <2>2. lowest'[p] \in Levels /\ lowest'[p] <= lowest[p]
      BY <1>3, <2>1, PollObserves
    <2>3. x.samples[i] \in Levels
      BY <1>4
    <2>. QED
      BY <2>1, <2>2, <2>3, LevelsNat
  <1>. QED
    BY <1>6, <1>7, <1>8 DEF Sound, y

\* Neither does what the checks add.
LEMMA MergedSound ==
    ASSUME TypeOK, ObsInv, NEW d, NEW R, NEW M, PollInput(d, R, M), Poll(d, R, M),
           NEW k \in Keys
    PROVE  Sound(gone', pod', recent', lowest', k, Merged(Later(obs, d), R, M)[k])
  <1>. DEFINE prior == Later(obs, d)
              x == prior[k]
              m == Merged(prior, R, M)[k]
              p == k[1]
  <1>1. Sound(gone', pod', recent', lowest', k, x)
    BY LaterSound DEF ObsInv
  <1>2. /\ d \in Nat /\ R \in SUBSET Pods /\ R \subseteq There
        /\ DOMAIN M \subseteq There \cap Limited
        /\ \A q \in DOMAIN M : M[q] \in Levels
    BY InputTypes
  <1>3. IsMerged(x, R, M, k, m)
    BY PollMerges
  <1>5. p \in Pods /\ x \in Observation
    BY <1>2, KeyParts, LaterShape DEF TypeOK
  <1>6. \A q \in There : q \in Pods => gone'[q] = 0
    BY PollObserves DEF There
  <1>. HIDE DEF x, m, p
  <1>4. /\ m \in Observation
        /\ Baseline(k, R) => m.age = 0 /\ m.count = pod[p].restarts
        /\ Sampled(k, M) =>
               /\ m.age = IF x.age # None THEN x.age ELSE 0
               /\ m.samples = appendMemSample(
                      IF x.age # None THEN x.samples ELSE <<>>, M[p])
        /\ ~Baseline(k, R) /\ ~Sampled(k, M) => m = x
    BY <1>3 DEF IsMerged, p
  <1>7. CASE Baseline(k, R)
    <2>1. gone'[p] = 0 /\ k[2] = "restarts"
      BY <1>2, <1>5, <1>6, <1>7 DEF Baseline, p
    <2>2. GoneOK(gone', k, m)
      BY <1>4, <1>7, <2>1 DEF GoneOK, p
    <2>3. RestartsOK(pod', recent', k, m)
      <3>0. pod' = pod
        BY PollObserves
      <3>1. pod[p].restarts \in Int
        <4>1. pod[p].restarts \in 0..MaxRestarts
          BY <1>5 DEF TypeOK
        <4>. QED
          BY <4>1, BoundTypes
      <3>2. \A i \in 1..RestartWarningCount : ~(i <= pod'[p].restarts - m.count)
        BY <1>4, <1>7, <3>0, <3>1, BoundTypes
      <3>. QED
        BY <3>2 DEF RestartsOK, p
    <2>. QED
      BY <2>1, <2>2, <2>3 DEF Sound, LowOK, m
  <1>8. CASE Sampled(k, M)
    <2>1. gone'[p] = 0 /\ k[2] = "memory" /\ p \in DOMAIN M
      BY <1>2, <1>5, <1>6, <1>8 DEF Sampled, p
    <2>2. GoneOK(gone', k, m)
      <3>1. m.age \in None..MaxAge
        BY <1>4 DEF Observation
      <3>. QED
        BY <2>1, <3>1, BoundTypes DEF GoneOK, p, None
    <2>3. LowOK(lowest', k, m)
      <3>. SUFFICES ASSUME NEW i \in DOMAIN m.samples
                    PROVE  lowest'[p] \in Levels /\ lowest'[p] <= m.samples[i]
        BY DEF LowOK, p
      <3>. DEFINE old == IF x.age # None THEN x.samples ELSE <<>>
      <3>1. old \in Seq(Levels) /\ M[p] \in Levels
        BY <1>2, <1>5, <2>1 DEF Observation
      <3>2. m.samples = appendMemSample(old, M[p])
        BY <1>4, <1>8
      <3>. HIDE DEF old
      <3>3. m.samples[i] = M[p] \/ \E j \in DOMAIN old : m.samples[i] = old[j]
        BY <3>1, <3>2, AppendShape
      <3>4. lowest'[p] \in Levels /\ lowest'[p] <= M[p]
        BY <2>1, PollObserves
      <3>5. \A j \in DOMAIN old : lowest'[p] <= old[j]
        BY <1>1, <2>1 DEF Sound, LowOK, p, old
      <3>. QED
        BY <3>3, <3>4, <3>5
    <2>. QED
      BY <2>1, <2>2, <2>3 DEF Sound, RestartsOK, m
  <1>9. CASE ~Baseline(k, R) /\ ~Sampled(k, M)
    BY <1>1, <1>4, <1>9 DEF m
  <1>. QED
    BY <1>7, <1>8, <1>9

-----------------------------------------------------------------------------
(* The invariant.                                                          *)

LEMMA SoundInit == Init => ObsInv
  <1>. SUFFICES ASSUME Init, NEW k \in Keys
                PROVE  /\ Sound(gone, pod, recent, lowest, k, obs[k])
                       /\ Sound(gone, pod, recent, lowest, k, saved[k])
    BY DEF ObsInv
  <1>1. obs[k] = Absent /\ saved[k] = Absent
    BY DEF Init
  <1>. QED
    BY <1>1, AbsentSound

LEMMA SoundPoll ==
    ASSUME TypeOK, ObsInv, NEW d, NEW R, NEW M, PollInput(d, R, M), Poll(d, R, M)
    PROVE  ObsInv'
  <1>. DEFINE merged == Merged(Later(obs, d), R, M)
  <1>. SUFFICES ASSUME NEW k \in Keys
                PROVE  /\ Sound(gone', pod', recent', lowest', k, obs'[k])
                       /\ Sound(gone', pod', recent', lowest', k, saved'[k])
    BY DEF ObsInv
  <1>1. merged \in [Keys -> Observation]
    BY MergedTypes
  <1>2. PICK F : obs' = Forget(merged, F)
    BY PollShape
  <1>3. saved' = obs' \/ saved' = Later(saved, d)
    BY PollShape
  <1>4. Sound(gone', pod', recent', lowest', k, merged[k])
    BY MergedSound
  <1>. HIDE DEF merged
  <1>5. obs'[k] = Absent \/ obs'[k] = merged[k]
    BY <1>1, <1>2, ForgetShape
  <1>6. Sound(gone', pod', recent', lowest', k, obs'[k])
    BY <1>4, <1>5, AbsentSound
  <1>7. Sound(gone', pod', recent', lowest', k, Later(saved, d)[k])
    BY LaterSound DEF ObsInv
  <1>. QED
    BY <1>3, <1>6, <1>7

\* One restart more: every age in the list moves one place on.
LEMMA SoundRestart ==
    ASSUME TypeOK, NEW p \in Pods, Restart(p), NEW k \in Keys,
           NEW x \in Observation, Sound(gone, pod, recent, lowest, k, x)
    PROVE  Sound(gone', pod', recent', lowest', k, x)
  <1>. DEFINE q == k[1]
  <1>1. gone' = gone /\ lowest' = lowest
    BY DEF Restart
  <1>2. q \in Pods /\ x.age \in None..MaxAge /\ x.count \in 0..MaxRestarts
    BY KeyParts DEF Observation
  <1>3. pod[q] \in [there : BOOLEAN, restarts : 0..MaxRestarts]
    BY <1>2 DEF TypeOK
  <1>4. recent[q] \in [1..RestartWarningCount -> 0..(RestartWindow + 1)]
    BY <1>2 DEF TypeOK
  <1>5. RestartsOK(pod', recent', k, x)
    <2>. SUFFICES ASSUME x.age # None, k[2] = "restarts",
                         NEW i \in 1..RestartWarningCount,
                         i <= pod'[q].restarts - x.count
                  PROVE  recent'[q][i] <= x.age
      BY DEF RestartsOK
    <2>1. \A j \in 1..RestartWarningCount :
              j <= pod[q].restarts - x.count => recent[q][j] <= x.age
      BY DEF Sound, RestartsOK
    <2>2. CASE q = p
      <3>1. pod'[q].restarts = pod[q].restarts + 1
        BY <1>2, <1>3, <2>2 DEF Restart, TypeOK
      <3>2. recent'[q] = OneMore(recent[q])
        BY <1>2, <2>2 DEF Restart, TypeOK
      <3>3. recent'[q][i] = IF i = 1 THEN 0 ELSE recent[q][i - 1]
        BY <3>2 DEF OneMore
      <3>4. CASE i = 1
        BY <1>2, <3>3, <3>4, BoundTypes DEF None
      <3>5. CASE i # 1
        <4>1. i - 1 \in 1..RestartWarningCount
          BY <3>5, BoundTypes
        <4>2. pod[q].restarts \in Int /\ x.count \in Int
          BY <1>2, <1>3, BoundTypes
        <4>3. i - 1 <= pod[q].restarts - x.count
          BY <3>1, <4>2, BoundTypes
        <4>. QED
          BY <2>1, <3>3, <3>5, <4>1, <4>3
      <3>. QED
        BY <3>4, <3>5
    <2>3. CASE q # p
      <3>1. pod'[q] = pod[q] /\ recent'[q] = recent[q]
        BY <1>2, <2>3 DEF Restart, TypeOK
      <3>. QED
        BY <2>1, <3>1
    <2>. QED
      BY <2>2, <2>3
  <1>. QED
    BY <1>1, <1>5 DEF Sound

\* A pod made anew has restarted less often than any baseline says.
LEMMA SoundComeOrGo ==
    ASSUME TypeOK, NEW p \in Pods, ComeOrGo(p), NEW k \in Keys,
           NEW x \in Observation, Sound(gone, pod, recent, lowest, k, x)
    PROVE  Sound(gone', pod', recent', lowest', k, x)
  <1>. DEFINE q == k[1]
  <1>1. gone' = gone /\ lowest' = lowest /\ recent' = recent
    BY DEF ComeOrGo
  <1>2. q \in Pods /\ x.count \in 0..MaxRestarts
    BY KeyParts DEF Observation
  <1>3. RestartsOK(pod', recent', k, x)
    <2>1. CASE q = p
      <3>1. pod'[q].restarts = 0
        <4>1. pod[q] \in [there : BOOLEAN, restarts : 0..MaxRestarts]
          BY <1>2 DEF TypeOK
        <4>2. pod'[q] = [pod[q] EXCEPT !.there = ~@, !.restarts = 0]
          BY <1>2, <2>1 DEF ComeOrGo, TypeOK
        <4>. QED
          BY <4>1, <4>2
      <3>2. \A i \in 1..RestartWarningCount : ~(i <= pod'[q].restarts - x.count)
        BY <1>2, <3>1, BoundTypes
      <3>. QED
        BY <3>2 DEF RestartsOK
    <2>2. CASE q # p
      <3>1. pod'[q] = pod[q]
        BY <1>2, <2>2 DEF ComeOrGo, TypeOK
      <3>. QED
        BY <1>1, <3>1 DEF Sound, RestartsOK
    <2>. QED
      BY <2>1, <2>2
  <1>. QED
    BY <1>1, <1>3 DEF Sound

LEMMA SoundStep == TypeOK /\ ObsInv /\ [Next]_vars => ObsInv'
  <1>. SUFFICES ASSUME TypeOK, ObsInv, [Next]_vars PROVE ObsInv'
    OBVIOUS
  <1>0. \A k \in Keys : obs[k] \in Observation /\ saved[k] \in Observation
    BY DEF TypeOK
  <1>1. ASSUME NEW d, NEW R, NEW M, PollInput(d, R, M), Poll(d, R, M)
        PROVE  ObsInv'
    BY <1>1, SoundPoll
  <1>2. ASSUME NEW readable \in BOOLEAN, Crash(readable)
        PROVE  ObsInv'
    <2>1. /\ obs' = saved \/ obs' = [k \in Keys |-> Absent]
          /\ saved' = saved /\ gone' = gone /\ pod' = pod /\ recent' = recent
          /\ lowest' = lowest
      BY <1>2 DEF Crash
    <2>2. \A k \in Keys : obs'[k] = saved[k] \/ obs'[k] = Absent
      BY <2>1
    <2>. QED
      BY <2>1, <2>2, AbsentSound DEF ObsInv
  <1>3. ASSUME NEW p \in Pods, Restart(p)
        PROVE  ObsInv'
    <2>1. obs' = obs /\ saved' = saved
      BY <1>3 DEF Restart
    <2>. QED
      BY <1>0, <1>3, <2>1, SoundRestart DEF ObsInv
  <1>4. ASSUME NEW p \in Pods, ComeOrGo(p)
        PROVE  ObsInv'
    <2>1. obs' = obs /\ saved' = saved
      BY <1>4 DEF ComeOrGo
    <2>. QED
      BY <1>0, <1>4, <2>1, SoundComeOrGo DEF ObsInv
  <1>5. CASE UNCHANGED vars
    BY <1>5 DEF vars, observer, ObsInv
  <1>. QED
    BY <1>1, <1>2, <1>3, <1>4, <1>5 DEF Next, SomePoll, PollInput

LEMMA ObservationsSound == Spec => [](TypeOK /\ ObsInv)
  BY TypeInit, TypeStep, SoundInit, SoundStep, PTL DEF Spec

-----------------------------------------------------------------------------
(* What is reported.                                                       *)

LEMMA MemoryReasonsShape ==
    ASSUME NEW pct \in Levels, NEW trending
    PROVE  /\ "restarts-increased" \notin MemoryReasons(pct, trending)
           /\ \A r \in {"memory-trending", "memory-trending-to-limit"} :
                  r \in MemoryReasons(pct, trending) => trending
  <1>. DEFINE C == MemoryCriticalPercent
              W == MemoryWarningPercent
              low == {r \in {"memory-trending"} : trending /\ pct >= 50}
  <1>0. pct \in Nat /\ C \in Nat /\ W \in Nat
    BY ObservationAssumption, LevelsNat
  <1>1. CASE pct >= C
    <2>1. MemoryReasons(pct, trending) = {"memory-critical"}
      BY <1>0, <1>1 DEF MemoryReasons
    <2>. QED
      BY <2>1
  <1>2. CASE pct < C /\ pct >= W
    <2>1. MemoryReasons(pct, trending) =
              {IF trending THEN "memory-trending-to-limit" ELSE "memory-high"}
      BY <1>0, <1>2 DEF MemoryReasons
    <2>. QED
      BY <2>1
  <1>3. CASE pct < C /\ pct < W
    <2>1. MemoryReasons(pct, trending) = low
      BY <1>0, <1>3 DEF MemoryReasons
    <2>. QED
      BY <2>1
  <1>. QED
    BY <1>0, <1>1, <1>2, <1>3

LEMMA FindingsShape ==
    ASSUME NEW prior, NEW merged, NEW R, NEW M,
           \A p \in DOMAIN M : M[p] \in Levels
    PROVE  LET rep == RestartFindings(prior, R) \cup MemoryFindings(merged, M)
           IN  /\ \A p : <<p, "restarts-increased">> \in rep =>
                      /\ p \in R
                      /\ prior[<<p, "restarts">>].age # None
                      /\ prior[<<p, "restarts">>].age <= RestartWindow
                      /\ pod[p].restarts - prior[<<p, "restarts">>].count
                             >= RestartWarningCount
               /\ \A p : \A r \in {"memory-trending", "memory-trending-to-limit"} :
                      <<p, r>> \in rep =>
                          /\ p \in DOMAIN M
                          /\ memoryTrending(merged[<<p, "memory">>].samples)
  <1>1. ASSUME NEW p, NEW r, <<p, r>> \in RestartFindings(prior, R)
        PROVE  /\ r = "restarts-increased" /\ p \in R
               /\ prior[<<p, "restarts">>].age # None
               /\ prior[<<p, "restarts">>].age <= RestartWindow
               /\ pod[p].restarts - prior[<<p, "restarts">>].count
                      >= RestartWarningCount
    BY <1>1 DEF RestartFindings
  <1>2. ASSUME NEW p, NEW r, <<p, r>> \in MemoryFindings(merged, M)
        PROVE  /\ p \in DOMAIN M
               /\ r \in MemoryReasons(M[p],
                            memoryTrending(merged[<<p, "memory">>].samples))
    <2>. DEFINE reasons(q) ==
                    MemoryReasons(M[q], memoryTrending(merged[<<q, "memory">>].samples))
    <2>1. MemoryFindings(merged, M) = UNION {{q} \X reasons(q) : q \in DOMAIN M}
      BY DEF MemoryFindings
    <2>. HIDE DEF reasons
    <2>2. PICK q \in DOMAIN M : <<p, r>> \in {q} \X reasons(q)
      BY <1>2, <2>1
    <2>. QED
      BY <2>2 DEF reasons
  <1>. QED
    BY <1>1, <1>2, MemoryReasonsShape

\* What a poll observes.
LEMMA ObservedShape ==
    ASSUME TypeOK, NEW d, NEW R, NEW M, PollInput(d, R, M), Poll(d, R, M)
    PROVE  /\ \A k \in DOMAIN observed' :
                  k \in Keys /\ (Baseline(k, R) \/ Sampled(k, M))
           /\ \A k \in Keys : Baseline(k, R) \/ Sampled(k, M) =>
                  k \in DOMAIN observed'
           /\ \A p \in DOMAIN M : observed'[<<p, "memory">>] = M[p]
  <1>. DEFINE K == (R \X {"restarts"}) \cup ((DOMAIN M) \X {"memory"})
  <1>1. observed' = [k \in K |->
                        IF k[2] = "memory" THEN M[k[1]] ELSE pod[k[1]].restarts]
    BY DEF Poll
  <1>2. R \subseteq Pods /\ DOMAIN M \subseteq Limited
    BY InputTypes
  <1>3. \A k \in K : k \in Keys /\ (Baseline(k, R) \/ Sampled(k, M))
    BY <1>2 DEF Keys, Baseline, Sampled
  <1>4. \A k \in Keys : Baseline(k, R) \/ Sampled(k, M) => k \in K
    BY KeyParts DEF Baseline, Sampled
  <1>5. \A p \in DOMAIN M : observed'[<<p, "memory">>] = M[p]
    BY <1>1
  <1>. QED
    BY <1>1, <1>3, <1>4, <1>5

LEMMA PollReports ==
    ASSUME TypeOK, ObsInv, NEW d, NEW R, NEW M, PollInput(d, R, M), Poll(d, R, M)
    PROVE  RestartsReal' /\ TrendReal'
  <1>. DEFINE prior  == Later(obs, d)
              merged == Merged(prior, R, M)
  <1>0. /\ d \in Nat /\ R \subseteq Pods /\ DOMAIN M \subseteq Limited
        /\ \A p \in DOMAIN M : M[p] \in Levels
    BY InputTypes
  <1>1. reported' = RestartFindings(prior, R) \cup MemoryFindings(merged, M)
    BY PollShape
  <1>2. prior \in [Keys -> Observation]
    BY PriorTypes
  <1>3. \A k \in Keys : RestartsOK(pod', recent', k, prior[k])
    BY LaterSound DEF ObsInv, Sound
  <1>4. \A k \in Keys : LowOK(lowest', k, merged[k])
    BY MergedSound DEF Sound
  <1>5. \A k \in Keys : IsMerged(prior[k], R, M, k, merged[k])
    BY PollMerges
  <1>6. \A p \in DOMAIN M : observed'[<<p, "memory">>] = M[p]
    BY ObservedShape
  <1>. HIDE DEF merged, prior
  <1>7. RestartsReal'
    <2>. SUFFICES ASSUME NEW p \in Pods, <<p, "restarts-increased">> \in reported'
                  PROVE  recent'[p][RestartWarningCount] <= RestartWindow
      BY DEF RestartsReal
    <2>. DEFINE k == <<p, "restarts">>
    <2>1. /\ prior[k].age # None /\ prior[k].age <= RestartWindow
          /\ pod[p].restarts - prior[k].count >= RestartWarningCount
      BY <1>0, <1>1, FindingsShape
    <2>2. k \in Keys /\ k[1] = p /\ k[2] = "restarts"
      BY DEF Keys
    <2>3. prior[k].age \in None..MaxAge /\ prior[k].count \in 0..MaxRestarts
      BY <1>2, <2>2 DEF Observation
    <2>. HIDE DEF k
    <2>4. pod' = pod
      BY PollObserves
    <2>5. pod[p].restarts \in 0..MaxRestarts
      BY DEF TypeOK
    <2>6. RestartWarningCount \in 1..RestartWarningCount
          /\ RestartWarningCount <= pod'[p].restarts - prior[k].count
      BY <2>1, <2>3, <2>4, <2>5, BoundTypes
    <2>7. recent'[p][RestartWarningCount] <= prior[k].age
      BY <1>3, <2>1, <2>2, <2>6 DEF RestartsOK
    <2>8. recent'[p][RestartWarningCount] \in 0..(RestartWindow + 1)
      <3>1. TypeOK'
        BY TypeStep DEF Next, SomePoll, PollInput
      <3>2. recent' \in [Pods -> [1..RestartWarningCount -> 0..(RestartWindow + 1)]]
        BY <3>1 DEF TypeOK
      <3>3. recent'[p] \in [1..RestartWarningCount -> 0..(RestartWindow + 1)]
        BY <3>2
      <3>. QED
        BY <2>6, <3>3
    <2>. QED
      BY <2>1, <2>3, <2>7, <2>8, BoundTypes DEF None
  <1>8. TrendReal'
    <2>. SUFFICES ASSUME NEW p \in Limited,
                         NEW r \in {"memory-trending", "memory-trending-to-limit"},
                         <<p, r>> \in reported'
                  PROVE  observed'[<<p, "memory">>] - lowest'[p] >= 10
      <3>. DEFINE T == {"memory-trending", "memory-trending-to-limit"}
      <3>1. \A p \in Limited : reported' \cap ({p} \X T) # {} =>
                \E r \in T : <<p, r>> \in reported'
        OBVIOUS
      <3>. QED
        BY <3>1 DEF TrendReal
    <2>. DEFINE k == <<p, "memory">>
                samples == merged[k].samples
                old == IF prior[k].age # None THEN prior[k].samples ELSE <<>>
    <2>1. p \in DOMAIN M /\ memoryTrending(samples)
      BY <1>0, <1>1, FindingsShape
    <2>2. k \in Keys /\ k[1] = p /\ k[2] = "memory"
      BY DEF Keys
    <2>3. Sampled(k, M)
      BY <2>1, <2>2 DEF Sampled
    <2>4. /\ samples = appendMemSample(old, M[p])
          /\ merged[k].age = IF prior[k].age # None THEN prior[k].age ELSE 0
      BY <1>5, <2>2, <2>3 DEF IsMerged
    <2>5. old \in Seq(Levels) /\ M[p] \in Levels
      BY <1>0, <1>2, <2>1, <2>2 DEF Observation
    <2>6. merged[k].age # None
      BY <2>4 DEF None
    <2>. HIDE DEF old
    <2>7. /\ samples \in Seq(Levels) /\ Len(samples) \in 1..MaxSamples
          /\ samples[Len(samples)] = M[p]
      BY <2>4, <2>5, AppendShape
    <2>8. lowest'[p] \in Levels /\ lowest'[p] <= samples[1]
      <3>1. 1 \in DOMAIN samples
        BY <2>7, BoundTypes
      <3>. QED
        BY <1>4, <2>2, <2>6, <3>1 DEF LowOK
    <2>. HIDE DEF samples, k
    <2>9. M[p] - samples[1] >= 10
      BY <2>1, <2>7 DEF memoryTrending
    <2>10. samples[1] \in Levels
      BY <2>7, BoundTypes
    <2>11. observed'[<<p, "memory">>] = M[p]
      BY <1>6, <2>1
    <2>. QED
      BY <2>5, <2>8, <2>9, <2>10, <2>11, LevelsNat
  <1>. QED
    BY <1>7, <1>8

LEMMA ReportsStep ==
    TypeOK /\ ObsInv /\ RestartsReal /\ TrendReal /\ [Next]_vars
        => RestartsReal' /\ TrendReal'
  <1>. SUFFICES ASSUME TypeOK, ObsInv, RestartsReal, TrendReal, [Next]_vars
                PROVE  RestartsReal' /\ TrendReal'
    OBVIOUS
  <1>1. ASSUME NEW d, NEW R, NEW M, PollInput(d, R, M), Poll(d, R, M)
        PROVE  RestartsReal' /\ TrendReal'
    BY <1>1, PollReports
  <1>2. ASSUME reported' = {}
        PROVE  RestartsReal' /\ TrendReal'
    BY <1>2 DEF RestartsReal, TrendReal
  <1>3. CASE UNCHANGED vars
    BY <1>3 DEF vars, observer, RestartsReal, TrendReal
  <1>. QED
    BY <1>1, <1>2, <1>3 DEF Next, SomePoll, PollInput, Crash, Restart, ComeOrGo

LEMMA ReportsInit == Init => RestartsReal /\ TrendReal
  BY DEF Init, RestartsReal, TrendReal

\* restarts-increased is only reported of a pod that restarted at least
\* RestartWarningCount times within RestartWindow (checkPods compares with the
\* baseline that an earlier poll, or an earlier process, left under the name).
THEOREM RestartsAreReal == Spec => []RestartsReal
  BY TypeInit, TypeStep, SoundInit, SoundStep, ReportsInit, ReportsStep, PTL DEF Spec

\* A rising trend is only reported of a usage that is at least 10 points above
\* one sampled before (memoryTrending over the samples appendMemSample kept).
THEOREM TrendsAreReal == Spec => []TrendReal
  BY TypeInit, TypeStep, SoundInit, SoundStep, ReportsInit, ReportsStep, PTL DEF Spec

-----------------------------------------------------------------------------
(* What is forgotten.                                                      *)

\* Only a poll leaves the pods and the number of crashes as they are.
LEMMA PolledIsPoll ==
    ASSUME TypeOK, Next, Polled
    PROVE  \E d, R, M : PollInput(d, R, M) /\ Poll(d, R, M)
  <1>1. ASSUME NEW readable \in BOOLEAN, Crash(readable)
        PROVE  FALSE
    BY <1>1, BoundTypes DEF Crash, Polled, TypeOK
  <1>2. ASSUME NEW p \in Pods, Restart(p)
        PROVE  FALSE
    <2>1. pod[p] \in [there : BOOLEAN, restarts : 0..MaxRestarts]
      BY DEF TypeOK
    <2>2. pod'[p].restarts = pod[p].restarts + 1
      BY <1>2, <2>1 DEF Restart, TypeOK
    <2>. QED
      BY <2>1, <2>2, BoundTypes DEF Polled
  <1>3. ASSUME NEW p \in Pods, ComeOrGo(p)
        PROVE  FALSE
    <2>1. pod[p] \in [there : BOOLEAN, restarts : 0..MaxRestarts]
      BY DEF TypeOK
    <2>2. pod'[p] = [pod[p] EXCEPT !.there = ~@, !.restarts = 0]
      BY <1>3 DEF ComeOrGo, TypeOK
    <2>3. pod'[p].there = ~pod[p].there
      BY <2>1, <2>2
    <2>4. pod[p].there = ~pod[p].there
      BY <2>3 DEF Polled
    <2>. QED
      BY <2>4
  <1>. QED
    BY <1>1, <1>2, <1>3 DEF Next, SomePoll, PollInput

LEMMA ForgottenStep ==
    ASSUME TypeOK, ObsInv, Next, Polled, ObservationRetention > 0,
           NEW k \in Keys, gone'[k[1]] > ObservationRetention
    PROVE  obs'[k].age = None
  <1>1. PICK d, R, M : PollInput(d, R, M) /\ Poll(d, R, M)
    BY PolledIsPoll
  <1>. DEFINE merged == Merged(Later(obs, d), R, M)
  <1>2. merged \in [Keys -> Observation]
    BY <1>1, MergedTypes
  <1>3. PICK F : obs' = Forget(merged, F) /\ ForgetsStalest(merged, F)
    BY <1>1, PollShape
  <1>4. GoneOK(gone', k, merged[k])
    BY <1>1, MergedSound DEF Sound
  <1>. HIDE DEF merged
  <1>5. CASE merged[k].age = None
    BY <1>2, <1>3, <1>5, ForgetShape, AbsentType
  <1>6. CASE merged[k].age # None
    <2>1. gone'[k[1]] \in 0..MaxAge
      <3>1. TypeOK'
        BY TypeStep
      <3>2. gone' \in [Pods -> 0..MaxAge]
        BY <3>1 DEF TypeOK
      <3>. QED
        BY <3>2, KeyParts
    <2>2. merged[k].age \in None..MaxAge
      BY <1>2 DEF Observation
    <2>3. merged[k].age > ObservationRetention
      BY <1>4, <1>6, <2>1, <2>2, BoundTypes DEF GoneOK, None
    <2>4. k \in F
      BY <1>3, <1>6, <2>3 DEF ForgetsStalest, Known
    <2>. QED
      BY <1>2, <1>3, <2>4, ForgetShape, AbsentType
  <1>. QED
    BY <1>5, <1>6

\* After every poll the pods that have been gone for longer than the retention
\* are forgotten: pruneStaleObservations removes them also when a restart had
\* brought them back from the saved state.
THEOREM GoneIsForgotten == Spec => ForgottenInTime
  <1>1. TypeOK /\ ObsInv /\ [Next]_vars =>
          [Polled /\ ObservationRetention > 0 =>
              \A k \in Keys : gone'[k[1]] > ObservationRetention
                                 => obs'[k].age = None]_vars
    BY ForgottenStep
  <1>. QED
    BY <1>1, ObservationsSound, PTL DEF Spec, ForgottenInTime

\* What the checks of one poll make of an observation, by age.
LEMMA MergedAges ==
    ASSUME TypeOK, NEW d, NEW R, NEW M, PollInput(d, R, M), Poll(d, R, M),
           NEW k \in Keys
    PROVE  LET m == Merged(Later(obs, d), R, M)[k]
           IN  /\ m.age \in None..MaxAge
               /\ k \in Known(obs) \cup DOMAIN observed' => m.age # None
               /\ Made(k) => m.age = 0
               /\ ~Made(k) => m.age = Older(obs[k].age, d)
  <1>. DEFINE x == Later(obs, d)[k]
              m == Merged(Later(obs, d), R, M)[k]
  <1>1. IsMerged(x, R, M, k, m)
    BY PollMerges
  <1>2. obs[k] \in Observation /\ d \in Nat /\ x.age = Older(obs[k].age, d)
    BY InputTypes, LaterShape DEF TypeOK
  <1>. HIDE DEF x, m
  <1>3. obs[k].age \in None..MaxAge
    BY <1>2 DEF Observation
  <1>4. x.age \in None..MaxAge /\ (x.age = None <=> obs[k].age = None)
    BY <1>2, <1>3, OlderShape
  <1>5. k \in Known(obs) <=> obs[k].age # None
    BY DEF Known
  <1>6. /\ Baseline(k, R) => m.age = 0
        /\ Sampled(k, M) => m.age = IF x.age # None THEN x.age ELSE 0
        /\ ~Baseline(k, R) /\ ~Sampled(k, M) => m.age = x.age
        /\ m.age \in None..MaxAge
    BY <1>1 DEF IsMerged, Observation
  <1>7. k \in DOMAIN observed' <=> Baseline(k, R) \/ Sampled(k, M)
    BY ObservedShape
  <1>8. Made(k) <=> \/ Baseline(k, R)
                    \/ Sampled(k, M) /\ obs[k].age = None
    BY <1>5, <1>7 DEF Made, Baseline, Sampled
  <1>9. 0 # None
    BY DEF None
  <1>. QED
    BY <1>2, <1>4, <1>5, <1>6, <1>7, <1>8, <1>9 DEF m

LEMMA OldestStep ==
    ASSUME TypeOK, Next, Polled, ObservationRetention > 0,
           NEW k \in (Known(obs) \cup DOMAIN observed') \ Known(obs'),
           NEW j \in Known(obs')
    PROVE  \/ obs'[j].age = 0
           \/ ~Made(k) /\ obs[k].age >= obs[j].age
  <1>. SUFFICES ASSUME obs'[j].age # 0
                PROVE  ~Made(k) /\ obs[k].age >= obs[j].age
    OBVIOUS
  <1>1. PICK d, R, M : PollInput(d, R, M) /\ Poll(d, R, M)
    BY PolledIsPoll
  <1>. DEFINE merged == Merged(Later(obs, d), R, M)
  <1>2. merged \in [Keys -> Observation] /\ d \in Nat
    BY <1>1, InputTypes, MergedTypes
  <1>3. PICK F : obs' = Forget(merged, F) /\ ForgetsStalest(merged, F)
    BY <1>1, PollShape
  <1>4. k \in Keys /\ j \in Keys
    BY <1>1, ObservedShape DEF Known
  <1>5. \A h \in Keys :
            /\ merged[h].age \in None..MaxAge
            /\ h \in Known(obs) \cup DOMAIN observed' => merged[h].age # None
            /\ Made(h) => merged[h].age = 0
            /\ ~Made(h) => merged[h].age = Older(obs[h].age, d)
    BY <1>1, MergedAges
  <1>6. obs[k].age \in None..MaxAge /\ obs[j].age \in None..MaxAge
    BY <1>4 DEF TypeOK, Observation
  <1>. HIDE DEF merged
  <1>7. Known(obs') = Known(merged) \ F /\ obs'[j] = merged[j]
    BY <1>2, <1>3, <1>4, ForgetShape DEF Known
  <1>8. k \in Known(merged) /\ k \in F /\ j \in Known(merged) \ F
    BY <1>4, <1>5, <1>7 DEF Known
  <1>9. /\ merged[k].age >= merged[j].age
        /\ ~(merged[j].age > ObservationRetention)
    BY <1>3, <1>8 DEF ForgetsStalest
  <1>10. merged[j].age \in 1..ObservationRetention
    <2>1. merged[j].age # 0 /\ merged[j].age # None /\ merged[j].age \in None..MaxAge
      BY <1>4, <1>5, <1>7, <1>8 DEF Known
    <2>. QED
      BY <1>9, <2>1, BoundTypes DEF None
  <1>11. ~Made(k) /\ ~Made(j)
    <2>1. merged[k].age # 0 /\ merged[j].age # 0
      BY <1>4, <1>5, <1>9, <1>10, BoundTypes
    <2>. QED
      BY <1>4, <1>5, <2>1
  <1>12. /\ merged[k].age = Older(obs[k].age, d)
         /\ merged[j].age = Older(obs[j].age, d)
    BY <1>4, <1>5, <1>11
  <1>13. obs[k].age # None /\ obs[j].age # None
    <2>1. merged[k].age # None /\ merged[j].age # None
      BY <1>8 DEF Known
    <2>. QED
      BY <1>2, <1>6, <1>12, <2>1, OlderShape
  <1>14. /\ merged[k].age = IF obs[k].age + d > MaxAge THEN MaxAge ELSE obs[k].age + d
         /\ merged[j].age = IF obs[j].age + d > MaxAge THEN MaxAge ELSE obs[j].age + d
    BY <1>2, <1>6, <1>12, <1>13, OlderShape
  <1>. QED
    <2>1. obs[k].age \in Nat /\ obs[j].age \in Nat
      BY <1>6, <1>13, BoundTypes DEF None
    <2>. QED
      BY <1>2, <1>9, <1>10, <1>11, <1>14, <2>1, BoundTypes

\* A poll that forgets an observation before its time, because of the cap or
\* of the size of the state, forgets the oldest one (pruneObservationCap and
\* pruneForStateSize), and none it has just made while an earlier one stays.
\* The model lets ages grow up to MaxAge only, which is beyond the retention:
\* without a retention it does not tell apart observations of that age.
THEOREM OldestIsForgotten ==
    ASSUME ObservationRetention > 0
    PROVE  Spec => ForgetsOldest
  <1>1. TypeOK /\ [Next]_vars =>
          [Polled => \A k \in (Known(obs) \cup DOMAIN observed') \ Known(obs'),
                        j \in Known(obs') :
              \/ obs'[j].age = 0
              \/ ~Made(k) /\ obs[k].age >= obs[j].age]_vars
    BY OldestStep
  <1>. QED
    BY <1>1, ObservationsTypeCorrect, PTL DEF Spec, ForgetsOldest
=============================================================================
