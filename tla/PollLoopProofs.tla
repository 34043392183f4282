--------------------------- MODULE PollLoopProofs --------------------------
(***************************************************************************)
(* Theorems about PollLoop, for every interval, timeout, TTL, number of    *)
(* checks and duration of calls.                                           *)
(***************************************************************************)
EXTENDS PollLoop, FiniteSetTheorems, TLAPS

-----------------------------------------------------------------------------
(* Constants and stages.                                                   *)

LEMMA BoundTypes ==
    /\ PollInterval \in Nat /\ PollInterval > 0
    /\ CheckTimeout \in Nat /\ HealthMaxPollGap \in Nat /\ TTL \in Nat
    /\ Checks \in Nat /\ CallTime \in Nat /\ PublishTime \in Nat
    /\ MaxHangs \in Nat
  BY LoopAssumption

LEMMA DerivedTypes ==
    /\ EffectiveMaxPollGap \in Nat
    /\ MaxSpent \in Nat /\ MaxSpent >= 1 /\ MaxSpent >= TTL
  BY BoundTypes DEF EffectiveMaxPollGap, MaxSpent, Larger

\* The position of the stage in which the discovery cache is used.
Discovery == 2 * Checks + 3

\* There is one such stage, and the only check after it is the scan that is
\* given its answer.
LEMMA StagesShape ==
    /\ DOMAIN Stages = 1..(2 * Checks + 7)
    /\ Len(Stages) = 2 * Checks + 7
    /\ \A i \in DOMAIN Stages : Stages[i] = "discovery" <=> i = Discovery
    /\ \A i \in DOMAIN Stages : i > Discovery /\ Stages[i] = "check"
                                    => i = Discovery + 1
  <1>. DEFINE n == 2 * Checks
              middle == [i \in 1..n |-> IF i % 2 = 1 THEN "check" ELSE "publish"]
  <1>1. n \in Nat
    BY BoundTypes
  <1>2. middle \in Seq({"check", "publish"}) /\ Len(middle) = n
        /\ \A i \in 1..n : middle[i] \in {"check", "publish"}
    BY <1>1
  <1>3. Stages = <<"suppressions", "snapshot">> \o middle
                 \o <<"discovery", "check", "publish">> \o <<"resolve", "save">>
    BY DEF Stages
  <1>. HIDE DEF n, middle
  <1>. DEFINE all == {"suppressions", "snapshot", "check", "publish", "discovery",
                      "resolve", "save"}
              a == <<"suppressions", "snapshot">> \o middle
              b == a \o <<"discovery", "check", "publish">>
  <1>4. /\ a \in Seq(all) /\ Len(a) = n + 2
        /\ \A i \in 1..(n + 2) : a[i] # "discovery"
    BY <1>1, <1>2
  <1>. HIDE DEF a
  <1>5. /\ b \in Seq(all) /\ Len(b) = n + 5
        /\ \A i \in 1..(n + 2) : b[i] = a[i]
        /\ b[n + 3] = "discovery" /\ b[n + 4] = "check" /\ b[n + 5] = "publish"
    BY <1>1, <1>4
  <1>. HIDE DEF b
  <1>6. /\ Stages \in Seq(all) /\ Len(Stages) = n + 7
        /\ \A i \in 1..(n + 5) : Stages[i] = b[i]
        /\ Stages[n + 6] = "resolve" /\ Stages[n + 7] = "save"
    <2>1. Stages = b \o <<"resolve", "save">>
      BY <1>3 DEF a, b
    <2>. QED
      BY <1>1, <1>5, <2>1
  <1>7. DOMAIN Stages = 1..(n + 7)
    BY <1>6
  <1>8. ASSUME NEW i \in 1..(n + 7)
        PROVE  /\ Stages[i] = "discovery" <=> i = n + 3
               /\ i > n + 3 /\ Stages[i] = "check" => i = n + 4
    <2>1. CASE i \in 1..(n + 2)
      BY <1>1, <1>4, <1>5, <1>6, <2>1
    <2>2. CASE i \in {n + 3, n + 4, n + 5}
      BY <1>1, <1>5, <1>6, <2>2
    <2>3. CASE i \in {n + 6, n + 7}
      BY <1>1, <1>6, <2>3
    <2>4. i \in 1..(n + 2) \/ i \in {n + 3, n + 4, n + 5} \/ i \in {n + 6, n + 7}
      BY <1>1
    <2>. QED
      BY <2>1, <2>2, <2>3, <2>4
  <1>9. n = 2 * Checks /\ Discovery = n + 3
    BY DEF Discovery, n
  <1>. QED
    BY <1>1, <1>6, <1>7, <1>8, <1>9

-----------------------------------------------------------------------------
(* Type correctness.                                                       *)

LEMMA CacheTypes ==
    /\ Cardinality({}) <= 1
    /\ \A x : Cardinality({x}) <= 1
  BY FS_EmptySet, FS_Singleton

LEMMA StageOne == 1 \in DOMAIN Stages
  BY StagesShape, BoundTypes

LEMMA TypeInit == Init => TypeOK
  <1>. SUFFICES ASSUME Init PROVE TypeOK
    OBVIOUS
  <1>1. goneFor \in [Resources -> 0..(TTL + 1)]
    BY BoundTypes DEF Init
  <1>2. /\ pc \in {"down", "poll", "select"} /\ hung \in BOOLEAN
        /\ cache = {} /\ lists = {} /\ served \subseteq Resources
        /\ stage = 1 /\ spent = 0 /\ hangs = 0 /\ pollAge = 0 /\ lastPoll = -1
        /\ ticker = None /\ ticks = 0 /\ expires = 0
    BY DEF Init, None
  <1>. QED
    BY <1>1, <1>2, StageOne, BoundTypes, DerivedTypes, CacheTypes DEF TypeOK, None

\* The next stage of a poll that is not in its last one.
LEMMA NextStageType ==
    ASSUME TypeOK, NextStage, stage < Len(Stages)
    PROVE  /\ stage' \in DOMAIN Stages /\ spent' \in 0..MaxSpent
           /\ hung' \in BOOLEAN
  <1>1. hung' \in BOOLEAN /\ spent' = 0 /\ stage' = stage + 1
    BY DEF NextStage
  <1>2. stage' \in DOMAIN Stages
    BY <1>1, StagesShape, BoundTypes DEF TypeOK
  <1>. QED
    BY <1>1, <1>2, DerivedTypes

LEMMA DiscoveryNotLast ==
    ASSUME TypeOK, Kind = "discovery"
    PROVE  stage < Len(Stages) /\ stage = Discovery
  BY StagesShape, BoundTypes DEF TypeOK, Kind, Discovery

LEMMA TypeStep == TypeOK /\ [Next]_vars => TypeOK'
  <1>. SUFFICES ASSUME TypeOK, [Next]_vars PROVE TypeOK'
    OBVIOUS
  <1>. USE DEF loopVars, cacheVars, world
  <1>1. CASE Start
    BY <1>1 DEF Start, TypeOK
  <1>2. CASE BeginPoll
    BY <1>2 DEF BeginPoll, TypeOK
  <1>3. CASE EndStage
    BY <1>3, NextStageType DEF EndStage, NextStage, TypeOK
  <1>4. CASE UseCache
    <2>1. lists' \subseteq Resources
      BY <1>4 DEF UseCache, TypeOK
    <2>. QED
      BY <1>4, <2>1, NextStageType, DiscoveryNotLast DEF UseCache, NextStage, TypeOK
  <1>5. ASSUME NEW ok \in BOOLEAN, Discover(ok)
        PROVE  TypeOK'
    <2>1. lists' \subseteq Resources
      BY <1>5 DEF Discover, TypeOK
    <2>2. cache' \in SUBSET (SUBSET Resources) /\ Cardinality(cache') <= 1
      <3>1. cache' = cache \/ cache' = {served} \/ cache' = {}
        BY <1>5, BoundTypes DEF Discover
      <3>. QED
        BY <3>1, CacheTypes DEF TypeOK
    <2>3. expires' \in 0..TTL
      BY <1>5, BoundTypes, DerivedTypes DEF Discover, Larger, TypeOK
    <2>. QED
      BY <1>5, <2>1, <2>2, <2>3, NextStageType, DiscoveryNotLast
      DEF Discover, NextStage, TypeOK
  <1>6. CASE EndPoll
    <2>1. /\ pc' = "select" /\ stage' = 1 /\ spent' = 0 /\ hung' \in BOOLEAN
          /\ pollAge' = 0 /\ lastPoll' = 0 /\ lists' = {}
      BY <1>6 DEF EndPoll
    <2>2. ticker' \in {None} \cup (1..PollInterval)
      BY <1>6, BoundTypes DEF EndPoll, TypeOK
    <2>. QED
      BY <1>6, <2>1, <2>2, StageOne, BoundTypes, DerivedTypes DEF EndPoll, TypeOK, None
  <1>7. CASE Hang
    <2>1. hung' \in BOOLEAN /\ hangs' \in 0..MaxHangs
      BY <1>7, BoundTypes DEF Hang, TypeOK
    <2>. QED
      BY <1>7, <2>1 DEF Hang, TypeOK
  <1>8. CASE Advance
    <2>1. spent' \in 0..MaxSpent
      BY <1>8, DerivedTypes DEF Advance, Smaller, TypeOK
    <2>2. /\ pollAge' \in 0..(EffectiveMaxPollGap + 1)
          /\ lastPoll' \in None..(EffectiveMaxPollGap + 1)
      BY <1>8, DerivedTypes DEF Advance, Smaller, TypeOK, None
    <2>3. ticker' \in {None} \cup (1..PollInterval) /\ ticks' \in 0..1
      BY <1>8, BoundTypes DEF Advance, TypeOK, None
    <2>4. expires' \in 0..TTL
      BY <1>8, BoundTypes DEF Advance, Larger, TypeOK
    <2>5. goneFor' \in [Resources -> 0..(TTL + 1)]
      BY <1>8, BoundTypes DEF Advance, Smaller, TypeOK
    <2>6. UNCHANGED <<pc, stage, hung, hangs, cache, lists, served>>
      BY <1>8 DEF Advance
    <2>. QED
      BY <2>1, <2>2, <2>3, <2>4, <2>5, <2>6 DEF TypeOK
  <1>9. ASSUME NEW now \in SUBSET Resources, Serve(now)
        PROVE  TypeOK'
    <2>1. goneFor' \in [Resources -> 0..(TTL + 1)]
      BY <1>9, BoundTypes DEF Serve, TypeOK
    <2>. QED
      BY <1>9, <2>1 DEF Serve, TypeOK
  <1>10. CASE Kill
    <2>1. /\ pc' = "down" /\ stage' = 1 /\ spent' = 0 /\ hung' \in BOOLEAN
          /\ pollAge' = 0 /\ lastPoll' = -1 /\ ticker' = None /\ ticks' = 0
          /\ cache' = {} /\ expires' = 0 /\ lists' = {}
          /\ UNCHANGED <<hangs, served, goneFor>>
      BY <1>10 DEF Kill, None
    <2>. QED
      BY <2>1, StageOne, BoundTypes, DerivedTypes, CacheTypes DEF TypeOK, None
  <1>11. CASE UNCHANGED vars
    BY <1>11 DEF vars, TypeOK
  <1>. QED
    BY <1>1, <1>2, <1>3, <1>4, <1>5, <1>6, <1>7, <1>8, <1>9, <1>10, <1>11
    DEF Next, MainStep

\* Every variable of the loop keeps its type.
THEOREM LoopTypeCorrect == Spec => []TypeOK
  BY TypeInit, TypeStep, PTL DEF Spec

-----------------------------------------------------------------------------
(* The time since the last completed poll.  Between two polls it is what   *)
(* the ticker has left of its interval, and a tick that is waited for is   *)
(* taken at once; in a poll it is at most an interval more than the poll's *)
(* own age.                                                                *)

TimeInv ==
    /\ pc = "down" => lastPoll = None /\ ticker = None
    /\ pc # "poll" => pollAge = 0
    /\ pc = "select" =>
           /\ ticker # None /\ lastPoll # None
           /\ lastPoll <= PollInterval
           /\ ticks = 0 => lastPoll + ticker <= PollInterval
    /\ pc = "poll" /\ lastPoll # None => lastPoll <= PollInterval + pollAge

LEMMA TimeStep == TypeOK /\ TimeInv /\ [Next]_vars => TimeInv'
  <1>. SUFFICES ASSUME TypeOK, TimeInv, [Next]_vars PROVE TimeInv'
    OBVIOUS
  <1>. USE DEF loopVars
  <1>1. CASE Start
    BY <1>1 DEF Start, TimeInv
  <1>2. CASE BeginPoll
    BY <1>2, BoundTypes DEF BeginPoll, TimeInv, TypeOK, None
  <1>3. CASE EndStage \/ UseCache \/ Hang \/ \E ok \in BOOLEAN : Discover(ok)
    BY <1>3 DEF EndStage, UseCache, Discover, NextStage, Hang, TimeInv
  <1>4. CASE EndPoll
    BY <1>4, BoundTypes DEF EndPoll, TimeInv, TypeOK, None
  <1>5. CASE Advance
    <2>0. /\ pc' = pc
          /\ pc = "select" => ticks = 0
          /\ pollAge' = IF pc = "poll"
                        THEN Smaller(pollAge + 1, EffectiveMaxPollGap + 1)
                        ELSE pollAge
          /\ lastPoll' = IF lastPoll = None THEN None
                         ELSE Smaller(lastPoll + 1, EffectiveMaxPollGap + 1)
          /\ ticker = None => ticker' = None
          /\ ticker = 1 => ticker' = PollInterval /\ ticks' = 1
          /\ ticker # None /\ ticker # 1 => ticker' = ticker - 1 /\ ticks' = ticks
      BY <1>5, BoundTypes DEF Advance, TypeOK, None
    <2>1. CASE pc = "down"
      BY <2>0, <2>1 DEF TimeInv
    <2>2. CASE pc = "select"
      BY <2>0, <2>2, BoundTypes, DerivedTypes DEF TimeInv, TypeOK, Smaller, None
    <2>3. CASE pc = "poll"
      BY <2>0, <2>3, BoundTypes, DerivedTypes DEF TimeInv, TypeOK, Smaller, None
    <2>. QED
      BY <2>1, <2>2, <2>3 DEF TypeOK
  <1>6. ASSUME NEW now \in SUBSET Resources, Serve(now)
        PROVE  TimeInv'
    BY <1>6 DEF Serve, TimeInv
  <1>7. CASE Kill
    BY <1>7 DEF Kill, TimeInv
  <1>8. CASE UNCHANGED vars
    BY <1>8 DEF vars, TimeInv
  <1>. QED
    BY <1>1, <1>2, <1>3, <1>4, <1>5, <1>6, <1>7, <1>8 DEF Next, MainStep

\* With the default gap, /healthz fails only in a poll that has gone on for
\* more than two intervals and for longer than one check may take.
THEOREM NeverFalselyAlarmed == Spec => []NoFalseAlarm
  <1>1. Init => TimeInv
    BY DEF Init, TimeInv
  <1>2. TypeOK /\ TimeInv => NoFalseAlarm
    <2>. SUFFICES ASSUME TypeOK, TimeInv, ~isLive, HealthMaxPollGap = 0
                  PROVE  /\ pc = "poll"
                         /\ pollAge > Larger(2 * PollInterval, CheckTimeout)
      BY DEF NoFalseAlarm
    <2>1. /\ lastPoll # None /\ lastPoll \in Int /\ pollAge \in Nat
          /\ lastPoll > 3 * PollInterval
          /\ lastPoll > PollInterval + CheckTimeout
      BY BoundTypes, DerivedTypes
      DEF isLive, EffectiveMaxPollGap, Larger, TypeOK, None
    <2>2. pc = "poll"
      BY <2>1, BoundTypes DEF TimeInv, TypeOK
    <2>3. lastPoll <= PollInterval + pollAge
      BY <2>1, <2>2 DEF TimeInv
    <2>. QED
      BY <2>1, <2>2, <2>3, BoundTypes DEF Larger
  <1>. QED
    BY <1>1, <1>2, LoopTypeCorrect, TimeStep, PTL DEF Spec

-----------------------------------------------------------------------------
(* The discovery cache.  What a valid cache holds was served, at the       *)
(* latest, when its life began; an answer is used by the stage after it.   *)

CacheInv ==
    /\ \A r \in served : goneFor[r] = 0
    /\ expires > 0 => \A r \in UNION cache : goneFor[r] <= TTL - expires
    /\ pc # "poll" => lists = {} /\ stage = 1
    /\ stage <= Discovery => lists = {}
    /\ stage = Discovery + 1 /\ spent = 0 => \A r \in lists : goneFor[r] <= TTL

LEMMA CacheStep == TypeOK /\ TypeOK' /\ CacheInv /\ [Next]_vars => CacheInv'
  <1>. SUFFICES ASSUME TypeOK, TypeOK', CacheInv, [Next]_vars PROVE CacheInv'
    OBVIOUS
  <1>. USE DEF loopVars, cacheVars, world
  <1>0. /\ Discovery \in Nat /\ stage \in Nat /\ expires \in Nat /\ spent \in Nat
        /\ TTL \in Nat /\ Discovery > 1
    BY BoundTypes, StagesShape, DerivedTypes DEF Discovery, TypeOK
  <1>1. CASE Start \/ BeginPoll
    BY <1>1 DEF Start, BeginPoll, CacheInv
  <1>2. CASE EndStage
    <2>1. stage # Discovery /\ stage' = stage + 1 /\ pc = "poll" /\ pc' = "poll"
      BY <1>2, StagesShape DEF EndStage, NextStage, Kind, TypeOK
    <2>2. stage' # Discovery + 1
      BY <1>0, <2>1
    <2>3. stage' <= Discovery => stage <= Discovery
      BY <1>0, <2>1
    <2>. QED
      BY <1>2, <2>1, <2>2, <2>3 DEF EndStage, NextStage, CacheInv
  <1>3. CASE UseCache
    <2>1. /\ stage = Discovery /\ stage' = Discovery + 1 /\ expires > 0
          /\ pc' = "poll" /\ lists' = UNION cache
          /\ UNCHANGED <<cache, expires, served, goneFor>>
      BY <1>3, DiscoveryNotLast DEF UseCache, NextStage, CacheValid
    <2>2. \A r \in lists' : goneFor[r] <= TTL
      <3>. SUFFICES ASSUME NEW r \in UNION cache PROVE goneFor[r] <= TTL
        BY <2>1
      <3>1. goneFor[r] \in Nat /\ goneFor[r] <= TTL - expires
        BY <2>1, BoundTypes DEF CacheInv, TypeOK
      <3>. QED
        BY <1>0, <3>1
    <2>3. ~(stage' <= Discovery)
      BY <1>0, <2>1
    <2>. QED
      BY <2>1, <2>2, <2>3 DEF CacheInv
  <1>4. ASSUME NEW ok \in BOOLEAN, Discover(ok)
        PROVE  CacheInv'
    <2>1. /\ stage = Discovery /\ stage' = Discovery + 1
          /\ pc' = "poll" /\ goneFor' = goneFor
          /\ lists' \subseteq served
      BY <1>4, DiscoveryNotLast DEF Discover, NextStage
    <2>2. \A r \in lists' : goneFor[r] <= TTL
      BY <1>0, <2>1 DEF CacheInv
    <2>e. 0 <= TTL - expires'
      <3>1. \A x \in 0..TTL : 0 <= TTL - x
        BY <1>0
      <3>2. expires' \in 0..TTL
        BY DEF TypeOK
      <3>. QED
        BY <3>1, <3>2
    <2>3. ASSUME expires' > 0, NEW r \in UNION cache'
          PROVE  goneFor'[r] <= TTL - expires'
      <3>1. CASE ok
        <4>1. cache' \in {{served}, {}}
          BY <1>4, <3>1, BoundTypes DEF Discover
        <4>2. goneFor'[r] = 0
          BY <2>1, <2>3, <4>1 DEF CacheInv
        <4>. QED
          BY <2>e, <4>2
      <3>2. CASE ~ok
        BY <1>4, <2>1, <2>3, <3>2 DEF Discover, CacheInv
      <3>. QED
        BY <3>1, <3>2
    <2>4. ~(stage' <= Discovery)
      BY <1>0, <2>1
    <2>5. served' = served
      BY <1>4 DEF Discover, NextStage
    <2>. QED
      BY <2>1, <2>2, <2>3, <2>4, <2>5 DEF CacheInv
  <1>5. CASE EndPoll
    <2>1. stage' = 1 /\ lists' = {} /\ UNCHANGED <<cache, expires, served, goneFor>>
      BY <1>5 DEF EndPoll
    <2>. QED
      BY <2>1 DEF CacheInv
  <1>6. CASE Hang
    BY <1>6 DEF Hang, CacheInv
  <1>7. CASE Advance
    <2>1. /\ pc' = pc /\ stage' = stage /\ cache' = cache /\ lists' = lists
          /\ served' = served
          /\ expires' = IF expires - 1 > 0 THEN expires - 1 ELSE 0
          /\ \A r \in Resources :
                 goneFor'[r] = IF r \in served THEN 0
                               ELSE Smaller(goneFor[r] + 1, TTL + 1)
      BY <1>7 DEF Advance, Larger
    <2>2. ASSUME pc = "poll" PROVE spent' # 0
      BY <1>0, <1>7, <2>2, DerivedTypes DEF Advance, Smaller
    <2>3. ASSUME expires' > 0, NEW r \in UNION cache
          PROVE  goneFor'[r] <= TTL - expires'
      <3>1. r \in Resources /\ goneFor[r] \in Nat
        BY BoundTypes DEF TypeOK
      <3>2. expires > 0 /\ expires' = expires - 1
        BY <1>0, <2>1, <2>3
      <3>3. goneFor[r] <= TTL - expires
        BY <3>2 DEF CacheInv
      <3>4. goneFor'[r] <= goneFor[r] + 1
        BY <1>0, <2>1, <3>1 DEF Smaller
      <3>5. goneFor'[r] \in Nat
        BY <3>1, BoundTypes DEF TypeOK
      <3>. QED
        BY <1>0, <3>1, <3>2, <3>3, <3>4, <3>5
    <2>4. \A r \in served' : goneFor'[r] = 0
      BY <2>1 DEF TypeOK
    <2>5. stage' = Discovery + 1 /\ spent' = 0 => lists' = {}
      BY <1>0, <2>1, <2>2 DEF CacheInv
    <2>. QED
      BY <2>1, <2>3, <2>4, <2>5 DEF CacheInv
  <1>8. ASSUME NEW now \in SUBSET Resources, Serve(now)
        PROVE  CacheInv'
    <2>1. /\ UNCHANGED <<pc, stage, spent, cache, expires, lists>> /\ served' = now
          /\ \A r \in Resources : goneFor'[r] = IF r \in now THEN 0 ELSE goneFor[r]
      BY <1>8 DEF Serve
    <2>2. ASSUME NEW r \in Resources PROVE goneFor'[r] <= goneFor[r]
      BY <2>1, BoundTypes DEF TypeOK
    <2>3. ASSUME expires > 0, NEW r \in UNION cache
          PROVE  goneFor'[r] <= TTL - expires
      <3>1. r \in Resources /\ goneFor[r] \in Nat /\ goneFor'[r] \in Nat
        BY BoundTypes DEF TypeOK
      <3>2. goneFor[r] <= TTL - expires
        BY <2>3 DEF CacheInv
      <3>. QED
        BY <1>0, <2>2, <3>1, <3>2
    <2>4. ASSUME stage = Discovery + 1, spent = 0, NEW r \in lists
          PROVE  goneFor'[r] <= TTL
      <3>1. r \in Resources /\ goneFor[r] \in Nat /\ goneFor'[r] \in Nat
        BY BoundTypes DEF TypeOK
      <3>2. goneFor[r] <= TTL
        BY <2>4 DEF CacheInv
      <3>. QED
        BY <1>0, <2>2, <3>1, <3>2
    <2>5. \A r \in served' : goneFor'[r] = 0
      BY <2>1
    <2>. QED
      BY <2>1, <2>3, <2>4, <2>5 DEF CacheInv
  <1>9. CASE Kill
    BY <1>9 DEF Kill, CacheInv
  <1>10. CASE UNCHANGED vars
    BY <1>10 DEF vars, CacheInv
  <1>. QED
    BY <1>1, <1>2, <1>3, <1>4, <1>5, <1>6, <1>7, <1>8, <1>9, <1>10
    DEF Next, MainStep

\* What the scan of custom resources is given was served not longer ago than
\* the cache lives: failed discovery, restarts and calls that hang included.
THEOREM ScansWhatIsRecent == Spec => []ListsAreRecent
  <1>1. Init => CacheInv
    BY DEF Init, CacheInv
  <1>2. TypeOK /\ CacheInv => ListsAreRecent
    <2>. SUFFICES ASSUME TypeOK, CacheInv, NEW r \in lists, Kind = "check",
                         spent = 0
                  PROVE  goneFor[r] <= TTL
      BY DEF ListsAreRecent
    <2>1. stage \in DOMAIN Stages /\ stage \in Nat /\ Discovery \in Nat
      BY BoundTypes, StagesShape DEF TypeOK, Discovery
    <2>2. ~(stage <= Discovery)
      BY DEF CacheInv
    <2>3. stage = Discovery + 1
      BY <2>1, <2>2, StagesShape DEF Kind
    <2>. QED
      BY <2>3 DEF CacheInv
  <1>. QED
    BY <1>1, <1>2, LoopTypeCorrect, CacheStep, PTL DEF Spec
=============================================================================
