------------------------------ MODULE PollLoop ------------------------------
(***************************************************************************)
(* The main loop in time: the first poll, the ticker made after it, the    *)
(* stages of each poll and how long they may block the main goroutine, the *)
(* discovery cache that one of the stages keeps (checks.go), and the       *)
(* health the HTTP server derives from completed polls (health.go), on     *)
(* which kubelet restarts the process.                                     *)
(*                                                                         *)
(* Time passes in steps of one unit.  Instants are kept relative to now,   *)
(* as ages or as what remains, up to where nothing compares them any more. *)
(***************************************************************************)
EXTENDS Integers, Sequences, FiniteSets

CONSTANTS
    PollInterval,
    CheckTimeout,        \* 0: listing and checks have no deadline
    HealthMaxPollGap,    \* 0: the default formula
    TTL,                 \* CustomResourceDiscoveryTTL, 0: no cache
    Checks,              \* enabled checks, custom resources not counted
    Resources,           \* custom resources the API server may serve
    CallTime,            \* bound: duration of a call that does not hang
    PublishTime,         \* bound: duration of the publishes after a check, each
                         \* of which PublishTimeout limits
    MaxHangs             \* bound: calls that hang

ASSUME LoopAssumption ==
    /\ PollInterval \in Nat \ {0}
    /\ {CheckTimeout, HealthMaxPollGap, TTL, Checks, CallTime, PublishTime,
        MaxHangs} \subseteq Nat
    /\ IsFiniteSet(Resources)

VARIABLES
    pc,         \* "down" | "poll" | "select"
    stage,      \* of the poll: position in Stages
    spent,      \* time spent in that stage
    hung,       \* its call does not return
    hangs,      \* calls that hung so far
    pollAge,    \* observer: duration of the poll in progress
    lastPoll,   \* time since lastPollNano, None while it is 0
    ticker,     \* time to the next tick, None before the ticker is made
    ticks,      \* ticks waiting in the channel of the ticker
    cache,      \* customResourceDiscovery: {lists}, or {} for none
    expires,    \* what remains of it
    lists,      \* the resources this poll's scan is given
    served,     \* the custom resources the API server serves
    goneFor     \* observer: time since each of them was last served

loopVars  == <<pc, stage, spent, hung, pollAge, ticker, ticks>>
cacheVars == <<cache, expires, lists>>
world     == <<served, goneFor>>
vars == <<loopVars, hangs, lastPoll, cacheVars, world>>

None == -1
Larger(x, y)  == IF x > y THEN x ELSE y
Smaller(x, y) == IF x < y THEN x ELSE y

\* Bound: where the time spent in a stage stops growing.
MaxSpent == Larger(Larger(1, TTL),
                   Larger(CheckTimeout, Larger(CallTime, PublishTime)))

-----------------------------------------------------------------------------
(* health.go.                                                              *)

\* Mutant: the shorter of the two gaps.
EffectiveMaxPollGap_Short ==
    IF HealthMaxPollGap > 0 THEN HealthMaxPollGap
    ELSE Smaller(3 * PollInterval, PollInterval + CheckTimeout)

EffectiveMaxPollGap ==
    IF HealthMaxPollGap > 0 THEN HealthMaxPollGap
    ELSE Larger(3 * PollInterval, PollInterval + CheckTimeout)

isReady == lastPoll # None

\* Mutant: /healthz answers as /readyz does, without looking at the time.
isLive_Ready == lastPoll = None \/ isReady

isLive == lastPoll = None \/ lastPoll <= EffectiveMaxPollGap

-----------------------------------------------------------------------------
(* The stages of a poll, in order.                                         *)

Stages ==
    <<"suppressions", "snapshot">>
    \o [i \in 1..(2 * Checks) |-> IF i % 2 = 1 THEN "check" ELSE "publish"]
    \o <<"discovery", "check", "publish">>
    \o <<"resolve", "save">>

Kind == Stages[stage]

\* An answer of discovery is never empty (it names the builtin resources too),
\* so only its time decides.
CacheValid == cache # {} /\ expires > 0

\* How long a stage lasts when no call hangs.  A listing and a check are left
\* at their deadline whatever their calls do.
Limit(kind) ==
    CASE kind \in {"snapshot", "check"} ->
             IF CheckTimeout > 0 THEN CheckTimeout ELSE CallTime
      [] kind \in {"publish", "resolve"} -> PublishTime
      [] kind = "discovery" -> IF CacheValid THEN 0 ELSE CallTime
      [] kind \in {"suppressions", "save"} -> CallTime

\* These calls block the main goroutine without a deadline: the Get of the
\* suppressions, discovery unless the cache answers, the Update of the state.
MayHang(kind) ==
    \/ kind \in {"suppressions", "save"}
    \/ kind = "discovery" /\ ~CacheValid
    \/ kind \in {"snapshot", "check"} /\ CheckTimeout = 0

Init ==
    /\ pc = "down" /\ stage = 1 /\ spent = 0 /\ hung = FALSE /\ hangs = 0
    /\ pollAge = 0
    /\ lastPoll = None /\ ticker = None /\ ticks = 0
    /\ cache = {} /\ expires = 0 /\ lists = {}
    /\ served \in SUBSET Resources
    /\ goneFor = [r \in Resources |-> IF r \in served THEN 0 ELSE TTL + 1]

-----------------------------------------------------------------------------
(* main.go.                                                                *)

\* The process starts and polls at once.
Start ==
    /\ pc = "down"
    /\ pc' = "poll"
    /\ UNCHANGED <<stage, spent, hung, pollAge, ticker, ticks, hangs, lastPoll,
                   cacheVars, world>>

BeginPoll ==
    /\ pc = "select" /\ ticks > 0
    /\ pc' = "poll"
    /\ ticks' = ticks - 1
    /\ UNCHANGED <<stage, spent, hung, pollAge, ticker, hangs, lastPoll,
                   cacheVars, world>>

NextStage ==
    /\ stage' = stage + 1
    /\ spent' = 0 /\ hung' = FALSE
    /\ UNCHANGED <<pc, pollAge, ticker, ticks, hangs, lastPoll, world>>

\* A stage ends, a bounded one at its deadline at the latest.
EndStage ==
    /\ pc = "poll" /\ Kind # "discovery" /\ stage < Len(Stages)
    /\ NextStage
    /\ UNCHANGED cacheVars

\* Mutant: every use of the cache extends its life.
UseCache_Sliding ==
    /\ pc = "poll" /\ Kind = "discovery" /\ CacheValid
    /\ lists' = UNION cache
    /\ expires' = TTL
    /\ NextStage
    /\ UNCHANGED cache

\* customResourceAPILists answers from the cache.
UseCache ==
    /\ pc = "poll" /\ Kind = "discovery" /\ CacheValid
    /\ lists' = UNION cache
    /\ NextStage
    /\ UNCHANGED <<cache, expires>>

\* Mutant: when discovery fails, what the cache still holds is used.
Discover_Stale(ok) ==
    /\ pc = "poll" /\ Kind = "discovery" /\ ~CacheValid
    /\ lists' = IF ok THEN served ELSE UNION cache
    /\ cache' = IF ok THEN {served : x \in {y \in {TTL} : y > 0}} ELSE cache
    /\ expires' = IF ok THEN Larger(TTL - spent, 0) ELSE expires
    /\ NextStage

\* Mutant: the life of the answer counts from the next poll.
Discover_Longer(ok) ==
    /\ pc = "poll" /\ Kind = "discovery" /\ ~CacheValid
    /\ lists' = IF ok THEN served ELSE {}
    /\ cache' = IF ok THEN {served} ELSE cache
    /\ expires' = IF ok THEN TTL + PollInterval ELSE expires
    /\ NextStage

\* It asks the API server.  The answer lives for TTL from before the call; on
\* an error the old one, which has expired, stays and nothing is scanned.
Discover(ok) ==
    /\ pc = "poll" /\ Kind = "discovery" /\ ~CacheValid
    /\ lists' = IF ok THEN served ELSE {}
    /\ cache' = CASE ~ok           -> cache
                  [] ok /\ TTL > 0 -> {served}
                  [] ok /\ TTL = 0 -> {}
    /\ expires' = IF ok THEN Larger(TTL - spent, 0) ELSE expires
    /\ NextStage

\* The last stage ends: MarkPollComplete, and main returns to its select.
\* After the first poll it makes the ticker.
EndPoll ==
    /\ pc = "poll" /\ stage = Len(Stages)
    /\ pc' = "select"
    /\ stage' = 1 /\ spent' = 0 /\ hung' = FALSE /\ pollAge' = 0
    /\ lastPoll' = 0
    /\ ticker' = IF ticker = None THEN PollInterval ELSE ticker
    /\ lists' = {}
    /\ UNCHANGED <<ticks, hangs, cache, expires, world>>

-----------------------------------------------------------------------------
(* The rest of the world.                                                  *)

\* The call of this stage does not return for now.
Hang ==
    /\ pc = "poll" /\ MayHang(Kind) /\ ~hung /\ hangs < MaxHangs
    /\ hung' = TRUE /\ hangs' = hangs + 1
    /\ UNCHANGED <<pc, stage, spent, pollAge, ticker, ticks, lastPoll,
                   cacheVars, world>>

\* One unit of time passes, unless the process would not let it: a stage whose
\* time is up ends, and a tick that is waited for starts a poll.
Advance ==
    /\ pc = "poll" => hung \/ spent < Limit(Kind)
    /\ pc = "select" => ticks = 0
    /\ spent' = IF pc = "poll" THEN Smaller(spent + 1, MaxSpent) ELSE spent
    /\ pollAge' = IF pc = "poll"
                  THEN Smaller(pollAge + 1, EffectiveMaxPollGap + 1)
                  ELSE pollAge
    /\ lastPoll' = IF lastPoll = None THEN None
                   ELSE Smaller(lastPoll + 1, EffectiveMaxPollGap + 1)
    /\ ticker' = CASE ticker = None -> None
                   [] ticker = 1    -> PollInterval
                   [] ticker > 1    -> ticker - 1
    /\ ticks' = IF ticker = 1 THEN 1 ELSE ticks   \* at most one waits
    /\ expires' = Larger(expires - 1, 0)
    /\ goneFor' = [r \in Resources |->
                      IF r \in served THEN 0
                      ELSE Smaller(goneFor[r] + 1, TTL + 1)]
    /\ UNCHANGED <<pc, stage, hung, hangs, cache, lists, served>>

\* Custom resources come and go.
Serve(now) ==
    /\ served' = now
    /\ goneFor' = [r \in Resources |-> IF r \in now THEN 0 ELSE goneFor[r]]
    /\ UNCHANGED <<loopVars, hangs, lastPoll, cacheVars>>

\* kubelet kills a process whose /healthz fails.
Kill ==
    /\ pc # "down" /\ ~isLive
    /\ pc' = "down"
    /\ stage' = 1 /\ spent' = 0 /\ hung' = FALSE /\ pollAge' = 0
    /\ lastPoll' = None /\ ticker' = None /\ ticks' = 0
    /\ cache' = {} /\ expires' = 0 /\ lists' = {}
    /\ UNCHANGED <<hangs, world>>

MainStep == BeginPoll \/ EndStage \/ UseCache \/ EndPoll
            \/ \E ok \in BOOLEAN : Discover(ok)

Next ==
    \/ Start \/ MainStep
    \/ Hang \/ Advance \/ Kill
    \/ \E now \in SUBSET Resources \ {served} : Serve(now)

Spec == Init /\ [][Next]_vars

\* Time passes; the main goroutine goes on unless a call hangs; kubelet
\* restarts what fails its probe, and what has ended; discovery that is tried
\* again and again succeeds some time.
Fairness ==
    /\ WF_vars(Advance) /\ WF_vars(Start) /\ WF_vars(Kill)
    /\ WF_vars(~hung /\ MainStep)
    /\ SF_vars(~hung /\ Discover(TRUE))

FairSpec == Spec /\ Fairness

-----------------------------------------------------------------------------
(* Properties.                                                             *)

\* Every variable has its type.
TypeOK ==
    /\ pc \in {"down", "poll", "select"}
    /\ stage \in DOMAIN Stages
    /\ spent \in 0..MaxSpent
    /\ hung \in BOOLEAN /\ hangs \in 0..MaxHangs
    /\ pollAge \in 0..(EffectiveMaxPollGap + 1)
    /\ lastPoll \in None..(EffectiveMaxPollGap + 1)
    /\ ticker \in {None} \cup (1..PollInterval) /\ ticks \in 0..1
    /\ cache \in SUBSET (SUBSET Resources) /\ Cardinality(cache) <= 1
    /\ expires \in 0..TTL /\ lists \subseteq Resources
    /\ served \subseteq Resources
    /\ goneFor \in [Resources -> 0..(TTL + 1)]

\* With the default gap /healthz fails only in the middle of a poll that has
\* gone on for more than two intervals and for longer than one check may take:
\* waiting for the ticker, ticks lost in a slow poll and one check that runs
\* into its deadline are never taken for a wedged loop.  (Several checks that
\* do so in one poll are.)
NoFalseAlarm ==
    ~isLive /\ HealthMaxPollGap = 0
        => /\ pc = "poll"
           /\ pollAge > Larger(2 * PollInterval, CheckTimeout)

\* What the scan is given was served not longer ago than the cache lives.
ListsAreRecent == \A r \in lists : pc = "poll" /\ Kind = "check" /\ spent = 0
                                       => goneFor[r] <= TTL

\* Once a process has completed a poll, no later poll of it goes on for ever:
\* it ends, or the process is restarted, although three of its calls have no
\* deadline.
WedgedPollEnds == (pc = "poll" /\ isReady) ~> pc # "poll" \/ ~isReady

\* When calls return, a custom resource that stays served is scanned again and
\* again: no cached answer outlives its time, in spite of restarts.
ServedIsScanned ==
    []<>(~hung) => \A r \in Resources : []<>(r \in lists \/ r \notin served)
=============================================================================
