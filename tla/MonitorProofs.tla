--------------------------- MODULE MonitorProofs ---------------------------
(***************************************************************************)
(* Theorems about Monitor, for every value of its constants.               *)
(***************************************************************************)
EXTENDS Monitor, FiniteSetTheorems, TLAPS

-----------------------------------------------------------------------------
(* Types of the operators on records and maps.                             *)

LEMMA ConstantTypes ==
    /\ MaxCooldown \in Nat /\ MaxAge \in Nat /\ Retention \in Nat
    /\ DownstreamCooldown \in 0..MaxCooldown
    /\ DownstreamCooldownIncident \in 0..MaxCooldown
    /\ WriteInterval \in Nat /\ MaxFaults \in Nat
  BY ConfigAssumption DEF MaxCooldown

LEMMA AbsentType == Absent \in FindingState
  BY ConstantTypes DEF Absent, FindingState

LEMMA NewStateType == newMonitorState \in [Ids -> FindingState]
  BY AbsentType DEF newMonitorState

LEMMA TickType ==
    ASSUME NEW fs \in [Ids -> FindingState], NEW d \in Nat
    PROVE  Tick(fs, d) \in [Ids -> FindingState]
  <1>1. \A k \in -1..MaxCooldown : Remaining(k, d) \in -1..MaxCooldown
    BY ConstantTypes DEF Remaining
  <1>2. \A k \in 0..MaxAge : Older(k, d) \in 0..MaxAge
    BY ConstantTypes DEF Older
  <1>3. SUFFICES ASSUME NEW id \in Ids
                 PROVE  Tick(fs, d)[id] \in FindingState
    BY DEF Tick
  <1>4. fs[id] \in FindingState
    OBVIOUS
  <1>. QED
    BY <1>1, <1>2, <1>4 DEF Tick, FindingState

LEMMA CooldownForType ==
    ASSUME NEW f PROVE CooldownFor(f) \in 0..MaxCooldown
  BY ConstantTypes DEF CooldownFor

LEMMA SeenType ==
    ASSUME NEW st \in FindingState, NEW f, f.score \in 0..100
    PROVE  Seen(st, f) \in FindingState
  BY ConstantTypes DEF Seen, FindingState

LEMMA FailedType ==
    ASSUME NEW st \in FindingState
    PROVE  [st EXCEPT !.failed = TRUE] \in FindingState
  BY DEF FindingState

LEMMA AfterPublishType ==
    ASSUME NEW st \in FindingState, NEW f, f.score \in 0..100,
           NEW acked \in BOOLEAN
    PROVE  AfterPublish(st, f, acked) \in FindingState
  <1>1. Published(st, f) \in FindingState
    BY CooldownForType, ConstantTypes DEF Published, FindingState
  <1>2. [Seen(st, f) EXCEPT !.failed = TRUE] \in FindingState
    BY SeenType, FailedType
  <1>. QED
    BY <1>1, <1>2 DEF AfterPublish

LEMMA AfterResolveType ==
    ASSUME NEW st \in FindingState, NEW acked \in BOOLEAN
    PROVE  AfterResolve(st, acked) \in FindingState
  <1>1. Closed(st) \in FindingState
    BY ConstantTypes DEF Closed, FindingState
  <1>2. [st EXCEPT !.failed = TRUE] \in FindingState
    BY DEF FindingState
  <1>. QED
    BY <1>1, <1>2 DEF AfterResolve

LEMMA DropType ==
    ASSUME NEW fs \in [Ids -> FindingState], NEW S
    PROVE  Drop(fs, S) \in [Ids -> FindingState]
  BY AbsentType DEF Drop

\* Pruning only ever drops candidates.
LEMMA PruneDrops ==
    ASSUME NEW fs, NEW candidates, NEW n,
           NEW gs \in pruneFindingsByStatus(fs, candidates, n)
    PROVE  \E S \in SUBSET candidates : gs = Drop(fs, S)
  BY DEF pruneFindingsByStatus, kSubset

LEMMA CapType ==
    ASSUME NEW fs \in [Ids -> FindingState], NEW gs \in pruneFindingCap(fs)
    PROVE  gs \in [Ids -> FindingState]
  BY PruneDrops, DropType DEF pruneFindingCap

LEMMA SizeType ==
    ASSUME NEW fs \in [Ids -> FindingState], NEW gs \in pruneForStateSize(fs)
    PROVE  gs \in [Ids -> FindingState]
  BY PruneDrops, DropType DEF pruneForStateSize

LEMMA ExpireType ==
    ASSUME NEW fs \in [Ids -> FindingState]
    PROVE  expireResolvedFindings(fs) \in [Ids -> FindingState]
  BY DropType DEF expireResolvedFindings

\* A publish keeps the observer's variables within their types.
LEMMA DeliverType ==
    ASSUME NEW m \in Message, NEW outcome, Deliver(m, outcome),
           view \in [Ids -> View], quiet \in [Ids -> -1..MaxCooldown]
    PROVE  /\ view' \in [Ids -> View]
           /\ quiet' \in [Ids -> -1..MaxCooldown]
           /\ sent' \in Message \cup {NoMessage}
  <1>1. m.id \in Ids /\ m.status \in {"ongoing", "resolved"}
        /\ m.score \in 0..100
    BY DEF Message
  <1>2. view' \in [Ids -> View]
    BY <1>1 DEF Deliver, View
  <1>3. quiet' \in [Ids -> -1..MaxCooldown]
    BY <1>1, CooldownForType, ConstantTypes DEF Deliver
  <1>. QED
    BY <1>2, <1>3 DEF Deliver

\* The finding at a position of a check's result.
LEMMA ReportedType ==
    ASSUME cluster \in Worlds, NEW k \in Enabled, NEW i \in DOMAIN cluster[k]
    PROVE  cluster[k][i] \in Reported
  BY WorldsAssumption

\* What maybeSave leaves behind.
LEMMA SaveType ==
    ASSUME NEW fs \in [Ids -> FindingState], NEW changed \in BOOLEAN,
           NEW throttled, NEW results, maybeSave(fs, changed, throttled, results),
           saved \in [Ids -> FindingState], writeAge \in 0..WriteInterval,
           loaded \in BOOLEAN
    PROVE  /\ findings' \in [Ids -> FindingState]
           /\ saved' \in [Ids -> FindingState]
           /\ dirty' \in BOOLEAN
           /\ writeAge' \in 0..WriteInterval
           /\ loaded' \in BOOLEAN
  <1>1. CASE ~changed \/ throttled
    <2>1. CASE findings' = fs /\ dirty' = changed /\ UNCHANGED storeVars
      BY <2>1 DEF storeVars
    <2>2. CASE changed /\ ~throttled
      BY <1>1, <2>2
    <2>. QED
      BY <2>1, <2>2 DEF maybeSave
  <1>2. CASE changed /\ ~throttled
    <2>1. PICK gs \in pruneForStateSize(fs) :
             /\ findings' = gs
             /\ \/ dirty' = TRUE /\ UNCHANGED storeVars
                \/ \E result \in results :
                         /\ dirty' = (result # "saved")
                         /\ saved' = IF result = "failed" THEN saved ELSE gs
                         /\ writeAge' = IF result = "saved" THEN 0
                                        ELSE writeAge
                         /\ loaded' = (loaded \/ result = "saved")
      BY <1>2 DEF maybeSave
    <2>2. gs \in [Ids -> FindingState]
      BY SizeType
    <2>3. CASE dirty' = TRUE /\ UNCHANGED storeVars
      BY <2>1, <2>2, <2>3 DEF storeVars
    <2>4. CASE \E result \in results :
                         /\ dirty' = (result # "saved")
                         /\ saved' = IF result = "failed" THEN saved ELSE gs
                         /\ writeAge' = IF result = "saved" THEN 0
                                        ELSE writeAge
                         /\ loaded' = (loaded \/ result = "saved")
      BY <2>1, <2>2, <2>4, ConstantTypes
    <2>. QED
      BY <2>1, <2>3, <2>4
  <1>. QED
    BY <1>1, <1>2

-----------------------------------------------------------------------------
(* Type correctness.  TypeOK alone is not inductive: a change of the       *)
(* cluster keeps `left' within the result only because nothing is being    *)
(* collected then, which PhaseOK adds.                                     *)

TypeInv == TypeOK /\ PhaseOK

LEMMA TypeInit == Init => TypeInv
  <1>. SUFFICES ASSUME Init PROVE TypeInv
    OBVIOUS
  <1>1. view \in [Ids -> View]
    BY DEF Init, View
  <1>2. quiet \in [Ids -> -1..MaxCooldown]
    BY ConstantTypes DEF Init
  <1>3. writeAge \in 0..WriteInterval /\ faults \in 0..MaxFaults
    BY ConstantTypes DEF Init
  <1>. QED
    BY <1>1, <1>2, <1>3, NewStateType DEF Init, TypeInv, TypeOK, PhaseOK

\* A step of any kind keeps the types and the phases.
LEMMA TypeStep == TypeInv /\ [Next]_vars => TypeInv'
  <1>. SUFFICES ASSUME TypeInv, [Next]_vars PROVE TypeInv'
    OBVIOUS
  <1>. USE DEF TypeInv
  <1>1. ASSUME NEW d \in TimeSteps, NEW s \in SuppressSets, BeginPoll(d, s)
        PROVE  TypeInv'
    <2>1. d \in Nat /\ s \subseteq Ids
      BY ConfigAssumption, SuppressAssumption
    <2>2. /\ findings' \in [Ids -> FindingState]
          /\ saved' \in [Ids -> FindingState]
      BY <1>1, <2>1, TickType DEF BeginPoll, TypeOK
    <2>3. quiet' \in [Ids -> -1..MaxCooldown]
      BY <1>1, <2>1, ConstantTypes DEF BeginPoll, TypeOK, Remaining
    <2>4. writeAge' \in 0..WriteInterval
      BY <1>1, <2>1, ConstantTypes DEF BeginPoll, TypeOK
    <2>. QED
      BY <1>1, <2>1, <2>2, <2>3, <2>4
      DEF BeginPoll, TypeOK, PhaseOK
  <1>2. ASSUME NEW c \in todo, NEW r \in Results(c), RunCheck(c, r)
        PROVE  TypeInv'
    <2>1. c \in Enabled
      BY DEF TypeOK
    <2>2. r.found \subseteq DOMAIN cluster[c] /\ r.complete \in BOOLEAN
      <3>1. PICK S \in SUBSET DOMAIN cluster[c], ok \in BOOLEAN : r = Result(S, ok)
        BY DEF Results
      <3>. QED
        BY <3>1 DEF Result
    <2>. QED
      BY <1>2, <2>1, <2>2 DEF RunCheck, TypeOK, PhaseOK, storeVars, observer
  <1>3. ASSUME NEW i \in left, SkipSuppressed(i)
        PROVE  TypeInv'
    BY <1>3 DEF SkipSuppressed, NextFinding, TypeOK, PhaseOK, storeVars, observer
  <1>5. ASSUME NEW i \in left, CollectQuietly(i)
        PROVE  TypeInv'
    <2>. DEFINE f == cluster[current][i]
    <2>1. f \in Reported
      BY ReportedType DEF TypeOK
    <2>2. f.id \in Ids /\ f.score \in 0..100
      BY <2>1 DEF Reported
    <2>3. findings' = [findings EXCEPT ![f.id] = Seen(findings[f.id], f)]
      BY <1>5 DEF CollectQuietly
    <2>4. findings' \in [Ids -> FindingState]
      BY <2>2, <2>3, SeenType DEF TypeOK
    <2>. QED
      BY <1>5, <2>2, <2>4
      DEF CollectQuietly, NextFinding, TypeOK, PhaseOK, storeVars, observer
  <1>6. ASSUME NEW i \in left, NEW outcome \in Outcomes,
               CollectAndPublish(i, outcome)
        PROVE  TypeInv'
    <2>. DEFINE f == cluster[current][i]
                m == [id |-> f.id, status |-> "ongoing", score |-> f.score,
                      triage |-> TriageDue(findings[f.id], f)]
    <2>1. f \in Reported
      BY ReportedType DEF TypeOK
    <2>2. f.id \in Ids /\ f.score \in 0..100
      BY <2>1 DEF Reported
    <2>3. findings' = [findings EXCEPT ![f.id] =
                          AfterPublish(findings[f.id], f, outcome = "acked")]
      BY <1>6 DEF CollectAndPublish
    <2>4. findings' \in [Ids -> FindingState]
      BY <2>2, <2>3, AfterPublishType DEF TypeOK
    <2>5. TriageDue(findings[f.id], f) \in BOOLEAN
      BY ConfigAssumption DEF TriageDue
    <2>6. m \in Message
      BY <2>2, <2>5 DEF Message
    <2>7. Deliver(m, outcome)
      BY <1>6 DEF CollectAndPublish
    <2>8. /\ view' \in [Ids -> View]
          /\ quiet' \in [Ids -> -1..MaxCooldown]
          /\ sent' \in Message \cup {NoMessage}
      BY <2>6, <2>7, DeliverType DEF TypeOK
    <2>. QED
      BY <1>6, <2>2, <2>4, <2>8
      DEF CollectAndPublish, NextFinding, TypeOK, PhaseOK, storeVars
  <1>7. CASE EndChecks
    BY <1>7 DEF EndChecks, Missing, Ongoing, TypeOK, PhaseOK, storeVars, observer
  <1>8. ASSUME NEW id \in pending, NEW outcome \in Outcomes, Resolve(id, outcome)
        PROVE  TypeInv'
    <2>. DEFINE m == [id |-> id, status |-> "resolved", score |-> 0,
                      triage |-> FALSE]
    <2>1. id \in Ids
      BY DEF TypeOK
    <2>2. findings' \in [Ids -> FindingState]
      BY <1>8, <2>1, AfterResolveType DEF Resolve, TypeOK
    <2>3. m \in Message
      BY <2>1 DEF Message
    <2>4. Deliver(m, outcome)
      BY <1>8 DEF Resolve
    <2>5. /\ view' \in [Ids -> View]
          /\ quiet' \in [Ids -> -1..MaxCooldown]
          /\ sent' \in Message \cup {NoMessage}
      BY <2>3, <2>4, DeliverType DEF TypeOK
    <2>. QED
      BY <1>8, <2>2, <2>5 DEF Resolve, TypeOK, PhaseOK, storeVars
  <1>9. CASE FinishPoll
    <2>1. PICK fs \in pruneFindingCap(expireResolvedFindings(findings)),
               forgot \in BOOLEAN :
             \E results : maybeSave(fs, Changed(fs, forgot), Throttled(0), results)
      BY <1>9 DEF FinishPoll
    <2>2. fs \in [Ids -> FindingState]
      BY ExpireType, CapType DEF TypeOK
    <2>3. Changed(fs, forgot) \in BOOLEAN
      BY DEF Changed, TypeOK
    <2>4. /\ findings' \in [Ids -> FindingState]
          /\ saved' \in [Ids -> FindingState]
          /\ dirty' \in BOOLEAN
          /\ writeAge' \in 0..WriteInterval
          /\ loaded' \in BOOLEAN
      BY <2>1, <2>2, <2>3, SaveType DEF TypeOK
    <2>. QED
      BY <1>9, <2>4 DEF FinishPoll, TypeOK, PhaseOK, observer
  <1>10. ASSUME NEW ok \in BOOLEAN, Start(ok)
         PROVE  TypeInv'
    <2>1. findings' \in [Ids -> FindingState]
      BY <1>10, NewStateType DEF Start, TypeOK
    <2>2. faults' \in 0..MaxFaults /\ writeAge' \in 0..WriteInterval
      BY <1>10, ConstantTypes DEF Start, TypeOK
    <2>. QED
      BY <1>10, <2>1, <2>2 DEF Start, TypeOK, PhaseOK, pollVars, observer
  <1>11. CASE ClusterChange
    BY <1>11 DEF ClusterChange, TypeOK, PhaseOK, pollVars, storeVars, observer
  <1>12. CASE Signal
    BY <1>12 DEF Signal, TypeOK, PhaseOK, pollVars, storeVars, observer
  <1>13. CASE Shutdown
    <2>1. \E results : maybeSave(findings, dirty, Throttled(WriteInterval), results)
      BY <1>13 DEF Shutdown
    <2>2. /\ findings' \in [Ids -> FindingState]
          /\ saved' \in [Ids -> FindingState]
          /\ dirty' \in BOOLEAN
          /\ writeAge' \in 0..WriteInterval
          /\ loaded' \in BOOLEAN
      BY <2>1, SaveType DEF TypeOK
    <2>3. faults' \in 0..MaxFaults
      BY <1>13, ConstantTypes DEF Shutdown, TypeOK
    <2>. QED
      BY <1>13, <2>2, <2>3 DEF Shutdown, TypeOK, PhaseOK, pollVars, observer
  <1>14. CASE Crash
    <2>1. faults' \in 0..MaxFaults
      BY <1>14, ConstantTypes DEF Crash, TypeOK
    <2>. QED
      BY <1>14, <2>1 DEF Crash, TypeOK, PhaseOK, storeVars, observer
  <1>15. CASE UNCHANGED vars
    BY <1>15 DEF vars, TypeOK, PhaseOK, pollVars, storeVars, observer
  <1>. QED
    BY <1>1, <1>2, <1>3, <1>5, <1>6, <1>7, <1>8, <1>9, <1>10, <1>11, <1>12,
       <1>13, <1>14, <1>15 DEF Next, PollStep

LEMMA TypeAlways == Spec => []TypeInv
  BY TypeInit, TypeStep, PTL DEF Spec

\* Every variable of the monitor keeps its type, whatever the configuration,
\* the cluster, the broker and the API server do.
THEOREM TypeCorrect == Spec => []TypeOK
  <1>1. TypeInv => TypeOK
    BY DEF TypeInv
  <1>. QED
    BY <1>1, TypeAlways, PTL

-----------------------------------------------------------------------------
(* The dirty mark.                                                         *)

\* maybeSave clears the mark only when it stored what it leaves in memory.
LEMMA SaveMarks ==
    ASSUME NEW fs, NEW changed \in BOOLEAN, NEW throttled \in BOOLEAN,
           NEW results, maybeSave(fs, changed, throttled, results), ~dirty'
    PROVE  \/ saved' = findings'
           \/ /\ ~changed /\ findings' = fs
              /\ saved' = saved /\ loaded' = loaded
  <1>1. CASE ~changed \/ throttled
    BY <1>1 DEF maybeSave, storeVars
  <1>2. CASE changed /\ ~throttled
    <2>1. PICK gs \in pruneForStateSize(fs) :
             /\ findings' = gs
             /\ \/ dirty' = TRUE
                \/ \E result \in results :
                         /\ dirty' = (result # "saved")
                         /\ saved' = IF result = "failed" THEN saved ELSE gs
      BY <1>2 DEF maybeSave
    <2>. QED
      BY <2>1
  <1>. QED
    BY <1>1, <1>2

\* A clean in-memory state is the stored one, also after crashes, failed loads
\* and states that were too large to write.
THEOREM CleanStaysSaved == Spec => []CleanMeansSaved
  <1>. DEFINE Inv == TypeInv /\ CleanMeansSaved
  <1>1. Init => Inv
    BY TypeInit DEF Init, CleanMeansSaved
  <1>2. Inv /\ [Next]_vars => Inv'
    <2>. SUFFICES ASSUME Inv, [Next]_vars, ~(pc' = "down"), loaded', ~dirty'
                  PROVE  saved' = findings'
      BY TypeStep DEF CleanMeansSaved
    <2>1. ASSUME NEW d \in TimeSteps, NEW s \in SuppressSets, BeginPoll(d, s)
          PROVE  saved' = findings'
      BY <2>1 DEF BeginPoll, CleanMeansSaved
    <2>2. ASSUME NEW c \in todo, NEW r \in Results(c), RunCheck(c, r)
          PROVE  saved' = findings'
      <3>1. ~dirty
        <4>1. PICK x : dirty' \in {dirty, dirty \/ x}
          BY <2>2 DEF RunCheck
        <4>. QED
          BY <4>1 DEF TypeInv, TypeOK
      <3>. QED
        BY <2>2, <3>1 DEF RunCheck, CleanMeansSaved, storeVars
    <2>3. ASSUME NEW i \in left, SkipSuppressed(i)
          PROVE  saved' = findings'
      BY <2>3 DEF SkipSuppressed, NextFinding, CleanMeansSaved, storeVars
    <2>4. ASSUME NEW i \in left,
                 CollectQuietly(i)
                 \/ \E outcome \in Outcomes : CollectAndPublish(i, outcome)
          PROVE  FALSE
      BY <2>4 DEF CollectQuietly, CollectAndPublish
    <2>5. CASE EndChecks
      BY <2>5 DEF EndChecks, CleanMeansSaved, storeVars
    <2>6. ASSUME NEW id \in pending, NEW outcome \in Outcomes,
                 Resolve(id, outcome)
          PROVE  FALSE
      BY <2>6 DEF Resolve
    <2>7. CASE FinishPoll
      <3>1. PICK fs \in pruneFindingCap(expireResolvedFindings(findings)),
                 forgot \in BOOLEAN :
               \E results : maybeSave(fs, Changed(fs, forgot), Throttled(0), results)
        BY <2>7 DEF FinishPoll
      <3>2. Changed(fs, forgot) \in BOOLEAN /\ Throttled(0) \in BOOLEAN
        BY DEF Changed, Throttled, TypeInv, TypeOK
      <3>3. \/ saved' = findings'
            \/ /\ ~Changed(fs, forgot) /\ findings' = fs
               /\ saved' = saved /\ loaded' = loaded
        BY <3>1, <3>2, SaveMarks
      <3>4. pc = "resolve"
        BY <2>7 DEF FinishPoll
      <3>. QED
        BY <3>3, <3>4 DEF Changed, CleanMeansSaved
    <2>8. ASSUME NEW ok \in BOOLEAN, Start(ok) PROVE saved' = findings'
      BY <2>8 DEF Start
    <2>9. CASE ClusterChange
      BY <2>9 DEF ClusterChange, CleanMeansSaved, storeVars
    <2>10. CASE Signal
      BY <2>10 DEF Signal, CleanMeansSaved, storeVars
    <2>11. CASE Shutdown \/ Crash
      BY <2>11 DEF Shutdown, Crash
    <2>12. CASE UNCHANGED vars
      BY <2>12 DEF vars, CleanMeansSaved, storeVars
    <2>. QED
      BY <2>1, <2>2, <2>3, <2>4, <2>5, <2>6, <2>7, <2>8, <2>9, <2>10, <2>11,
         <2>12 DEF Next, PollStep
  <1>. QED
    BY <1>1, <1>2, PTL DEF Spec

\* A stop by signal stores everything, as long as no state is too large to be
\* stored: throttle or not, and although the last poll could not save.
THEOREM StopStores ==
    ASSUME MaxStateSize = 0
    PROVE  Spec => StopSaves
  <1>. DEFINE Stored == stopping /\ pc' = "down" /\ faults' = faults
                            /\ (loaded \/ dirty) => saved' = findings'
  <1>1. TypeInv /\ CleanMeansSaved /\ [Next]_vars => [Stored]_vars
    <2>. SUFFICES ASSUME TypeInv, CleanMeansSaved, Next, stopping, pc' = "down",
                         faults' = faults, loaded \/ dirty
                  PROVE  saved' = findings'
      OBVIOUS
    <2>1. CASE Shutdown
      <3>1. PICK results :
               /\ "failed" \notin results
               /\ maybeSave(findings, dirty, Throttled(WriteInterval), results)
        <4>1. PICK results \in {{"saved"}, {"failed"}, {"unconfirmed"}} :
                 /\ faults' = IF results = {"failed"} THEN faults + 1 ELSE faults
                 /\ maybeSave(findings, dirty, Throttled(WriteInterval), results)
          BY <2>1 DEF Shutdown
        <4>2. results # {"failed"}
          BY <4>1 DEF TypeInv, TypeOK
        <4>. QED
          BY <4>1, <4>2
      <3>2. ~Throttled(WriteInterval) /\ pc # "down"
        BY <2>1, ConstantTypes DEF Shutdown, Throttled, TypeInv, TypeOK
      <3>3. pruneForStateSize(findings) = {findings} /\ ~TooLarge(findings)
        BY DEF pruneForStateSize, TooLarge
      <3>4. CASE dirty
        BY <3>1, <3>2, <3>3, <3>4 DEF maybeSave
      <3>5. CASE ~dirty
        BY <3>1, <3>2, <3>5 DEF maybeSave, storeVars, CleanMeansSaved
      <3>. QED
        BY <3>4, <3>5
    <2>2. pc # "down"
      BY DEF TypeInv, PhaseOK
    <2>3. CASE Crash
      BY <2>3 DEF Crash, TypeInv, TypeOK
    <2>4. Shutdown \/ Crash
      BY <2>2 DEF Next, PollStep, BeginPoll, RunCheck, SkipSuppressed, NextFinding,
          CollectQuietly, CollectAndPublish, EndChecks, Resolve, FinishPoll, Start,
          ClusterChange, Signal
    <2>. QED
      BY <2>1, <2>3, <2>4
  <1>. QED
    BY <1>1, TypeAlways, CleanStaysSaved, PTL DEF Spec, StopSaves

-----------------------------------------------------------------------------
(* What expiry, the cap and the size limit forget.                         *)

LEMMA Dropped ==
    ASSUME NEW fs, NEW S
    PROVE  /\ Known(Drop(fs, S)) = Known(fs) \ S
           /\ Resolved(Drop(fs, S)) = Resolved(fs) \ S
           /\ Ongoing(Drop(fs, S)) = Ongoing(fs) \ S
           /\ \A id \in Ids \ S : Drop(fs, S)[id] = fs[id]
  BY DEF Known, Resolved, Ongoing, Drop, Absent

LEMMA KnownFinite ==
    ASSUME NEW fs
    PROVE  /\ IsFiniteSet(Known(fs)) /\ Cardinality(Known(fs)) \in Nat
           /\ Resolved(fs) \subseteq Known(fs)
           /\ IsFiniteSet(Resolved(fs)) /\ Cardinality(Resolved(fs)) \in Nat
           /\ Cardinality(Resolved(fs)) <= Cardinality(Known(fs))
  <1>1. /\ Known(fs) \subseteq Ids /\ Resolved(fs) \subseteq Ids
        /\ Resolved(fs) \subseteq Known(fs)
    BY DEF Known, Resolved
  <1>2. IsFiniteSet(Known(fs)) /\ IsFiniteSet(Resolved(fs))
    BY <1>1, ConfigAssumption, FS_Subset
  <1>. QED
    BY <1>1, <1>2, FS_CardinalityType, FS_Subset

\* S holds the oldest of the candidates C.
OldestOf(fs, C, S) ==
    /\ S \subseteq C
    /\ \A x \in S, y \in C \ S : fs[x].lastSeen >= fs[y].lastSeen

LEMMA PruneShape ==
    ASSUME NEW fs, NEW C \in SUBSET Known(fs), NEW n \in Nat,
           NEW gs \in pruneFindingsByStatus(fs, C, n)
    PROVE  \E S \in SUBSET C :
               /\ gs = Drop(fs, S) /\ OldestOf(fs, C, S)
               /\ Cardinality(S) = IF n > Cardinality(C) THEN Cardinality(C) ELSE n
               /\ Cardinality(Known(gs)) = Cardinality(Known(fs)) - Cardinality(S)
               /\ n >= Cardinality(C) => S = C
  <1>1. PICK S \in SUBSET C :
           /\ gs = Drop(fs, S)
           /\ Cardinality(S) = IF n > Cardinality(C) THEN Cardinality(C) ELSE n
           /\ \A x \in S, y \in C \ S : fs[x].lastSeen >= fs[y].lastSeen
    BY DEF pruneFindingsByStatus, kSubset
  <1>2. IsFiniteSet(Known(fs)) /\ IsFiniteSet(C)
    BY KnownFinite, FS_Subset
  <1>3. Cardinality(Known(fs) \ S) = Cardinality(Known(fs)) - Cardinality(S)
    <2>1. Known(fs) \cap S = S
      OBVIOUS
    <2>. QED
      BY <1>2, <2>1, FS_Difference
  <1>4. n >= Cardinality(C) => S = C
    <2>1. Cardinality(C) \in Nat
      BY <1>2, FS_CardinalityType
    <2>. QED
      BY <1>1, <1>2, <2>1, FS_Subset
  <1>. QED
    BY <1>1, <1>3, <1>4, Dropped DEF OldestOf

\* T is what the cap takes from fs: the oldest resolved findings, or all of
\* those and the oldest ongoing ones, down to the cap.
CapTakes(fs, T) ==
    \/ OldestOf(fs, Resolved(fs), T)
    \/ /\ MaxFindings > 0
       /\ Resolved(fs) \subseteq T /\ T \subseteq Known(fs)
       /\ Cardinality(Known(fs) \ T) = MaxFindings
       /\ \A x \in T \ Resolved(fs), y \in Known(fs) \ T :
              fs[x].lastSeen >= fs[y].lastSeen

LEMMA CapShape ==
    ASSUME NEW fs \in [Ids -> FindingState], NEW gs \in pruneFindingCap(fs)
    PROVE  /\ \E T \in SUBSET Known(fs) : gs = Drop(fs, T) /\ CapTakes(fs, T)
           /\ MaxFindings > 0 => Cardinality(Known(gs)) <= MaxFindings
  <1>. DEFINE over(x) == Excess(x, MaxFindings)
  <1>0. MaxFindings \in Nat /\ \A x : over(x) \in Int
    BY ConfigAssumption, KnownFinite DEF Excess
  <1>1. CASE MaxFindings = 0 \/ over(fs) <= 0
    <2>1. gs = fs
      BY <1>1 DEF pruneFindingCap
    <2>2. gs = Drop(fs, {})
      BY <2>1 DEF Drop
    <2>3. CapTakes(fs, {})
      BY DEF CapTakes, OldestOf
    <2>4. MaxFindings > 0 => Cardinality(Known(gs)) <= MaxFindings
      BY <1>0, <1>1, <2>1, KnownFinite DEF Excess
    <2>. QED
      BY <2>2, <2>3, <2>4
  <1>2. CASE ~(MaxFindings = 0 \/ over(fs) <= 0)
    <2>0. MaxFindings > 0 /\ over(fs) \in Nat
      BY <1>0, <1>2
    <2>1. PICK hs \in pruneFindingsByStatus(fs, Resolved(fs), over(fs)) :
             \/ over(hs) <= 0 /\ gs = hs
             \/ ~(over(hs) <= 0)
                /\ gs \in pruneFindingsByStatus(hs, Known(hs), over(hs))
      BY <1>2 DEF pruneFindingCap
    <2>2. PICK S \in SUBSET Resolved(fs) :
             /\ hs = Drop(fs, S) /\ OldestOf(fs, Resolved(fs), S)
             /\ Cardinality(S) = IF over(fs) > Cardinality(Resolved(fs))
                                 THEN Cardinality(Resolved(fs)) ELSE over(fs)
             /\ Cardinality(Known(hs)) = Cardinality(Known(fs)) - Cardinality(S)
             /\ over(fs) >= Cardinality(Resolved(fs)) => S = Resolved(fs)
      BY <2>0, <2>1, KnownFinite, PruneShape
    <2>3. CASE over(hs) <= 0 /\ gs = hs
      <3>1. Cardinality(Known(gs)) <= MaxFindings
        BY <1>0, <2>3, KnownFinite DEF Excess
      <3>2. S \in SUBSET Known(fs)
        BY KnownFinite
      <3>. QED
        BY <2>2, <2>3, <3>1, <3>2 DEF CapTakes
    <2>4. CASE ~(over(hs) <= 0)
               /\ gs \in pruneFindingsByStatus(hs, Known(hs), over(hs))
      <3>0. over(hs) \in Nat
        BY <1>0, <2>4
      <3>1. S = Resolved(fs)
        <4>1. over(hs) = over(fs) - Cardinality(S)
          BY <2>2, KnownFinite, <1>0 DEF Excess
        <4>2. Cardinality(Resolved(fs)) \in Nat
          BY KnownFinite
        <4>. QED
          BY <1>0, <2>2, <2>4, <4>1, <4>2
      <3>2. PICK U \in SUBSET Known(hs) :
               /\ gs = Drop(hs, U) /\ OldestOf(hs, Known(hs), U)
               /\ Cardinality(U) = IF over(hs) > Cardinality(Known(hs))
                                   THEN Cardinality(Known(hs)) ELSE over(hs)
               /\ Cardinality(Known(gs)) = Cardinality(Known(hs)) - Cardinality(U)
        BY <2>4, <3>0, PruneShape
      <3>3. Cardinality(Known(gs)) = MaxFindings
        BY <1>0, <3>2, KnownFinite DEF Excess
      <3>. DEFINE T == Resolved(fs) \cup U
      <3>4. Known(hs) = Known(fs) \ Resolved(fs)
        BY <2>2, <3>1, Dropped
      <3>5. gs = Drop(fs, T)
        BY <2>2, <3>1, <3>2 DEF Drop
      <3>6. T \subseteq Known(fs) /\ T \ Resolved(fs) = U
        BY <3>4, KnownFinite
      <3>7. Known(gs) = Known(fs) \ T
        BY <3>5, Dropped
      <3>8. \A x \in U, y \in Known(hs) \ U : fs[x].lastSeen >= fs[y].lastSeen
        <4>1. \A x \in Known(hs) : hs[x] = fs[x]
          BY <2>2, <3>1, <3>4 DEF Drop, Known
        <4>. QED
          BY <3>2, <4>1 DEF OldestOf
      <3>9. CapTakes(fs, T)
        <4>1. Known(fs) \ T = Known(hs) \ U
          BY <3>4
        <4>. QED
          BY <2>0, <3>3, <3>6, <3>7, <3>8, <4>1 DEF CapTakes
      <3>. QED
        BY <1>0, <3>3, <3>5, <3>6, <3>9
    <2>. QED
      BY <2>1, <2>3, <2>4
  <1>. QED
    BY <1>1, <1>2

\* The size limit takes the oldest resolved findings.
LEMMA SizeShape ==
    ASSUME NEW fs \in [Ids -> FindingState], NEW gs \in pruneForStateSize(fs)
    PROVE  \E Z : gs = Drop(fs, Z) /\ OldestOf(fs, Resolved(fs), Z)
  <1>1. CASE gs = fs
    <2>1. gs = Drop(fs, {}) /\ OldestOf(fs, Resolved(fs), {})
      BY <1>1 DEF Drop, OldestOf
    <2>. QED
      BY <2>1
  <1>2. CASE gs # fs
    <2>1. gs \in pruneFindingsByStatus(fs, Resolved(fs), Excess(fs, MaxStateSize))
          /\ ~(Excess(fs, MaxStateSize) <= 0)
      BY <1>2 DEF pruneForStateSize
    <2>2. Excess(fs, MaxStateSize) \in Nat
      BY <2>1, KnownFinite, ConfigAssumption DEF Excess
    <2>. QED
      BY <2>1, <2>2, KnownFinite, PruneShape
  <1>. QED
    BY <1>1, <1>2

LEMMA SaveShape ==
    ASSUME NEW fs \in [Ids -> FindingState], NEW changed \in BOOLEAN,
           NEW throttled \in BOOLEAN, NEW results,
           maybeSave(fs, changed, throttled, results)
    PROVE  \E Z : findings' = Drop(fs, Z) /\ OldestOf(fs, Resolved(fs), Z)
  <1>1. findings' = fs \/ findings' \in pruneForStateSize(fs)
    BY DEF maybeSave
  <1>2. fs = Drop(fs, {}) /\ OldestOf(fs, Resolved(fs), {})
    BY DEF Drop, OldestOf
  <1>. QED
    BY <1>1, <1>2, SizeShape

\* What the end of a poll forgets: expired findings E, what the cap takes (T),
\* and what the size limit takes from the rest (Z).
EndForgets(E, T, Z) ==
    LET es == Drop(findings, E)
        fs == Drop(es, T)
    IN  /\ \A x \in E : /\ x \in Resolved(findings)
                        /\ Retention > 0 /\ findings[x].lastSeen > Retention
        /\ T \subseteq Known(es) /\ CapTakes(es, T)
        /\ OldestOf(fs, Resolved(fs), Z)
        /\ MaxFindings > 0 => Cardinality(Known(fs)) <= MaxFindings
        /\ findings' = Drop(fs, Z)

LEMMA EndShape ==
    ASSUME TypeInv, FinishPoll
    PROVE  \E E, T, Z : EndForgets(E, T, Z)
  <1>. DEFINE E  == {id \in Resolved(findings) :
                        Retention > 0 /\ findings[id].lastSeen > Retention}
              es == expireResolvedFindings(findings)
  <1>1. es = Drop(findings, E) /\ es \in [Ids -> FindingState]
    BY ExpireType DEF expireResolvedFindings, TypeInv, TypeOK
  <1>2. PICK fs \in pruneFindingCap(es), forgot \in BOOLEAN :
           \E results : maybeSave(fs, Changed(fs, forgot), Throttled(0), results)
    BY DEF FinishPoll
  <1>3. PICK T \in SUBSET Known(es) : fs = Drop(es, T) /\ CapTakes(es, T)
    BY <1>1, <1>2, CapShape
  <1>4. MaxFindings > 0 => Cardinality(Known(fs)) <= MaxFindings
    BY <1>1, <1>2, CapShape
  <1>5. PICK Z : findings' = Drop(fs, Z) /\ OldestOf(fs, Resolved(fs), Z)
    <2>1. fs \in [Ids -> FindingState]
      BY <1>1, <1>2, CapType
    <2>2. Changed(fs, forgot) \in BOOLEAN /\ Throttled(0) \in BOOLEAN
      BY DEF Changed, Throttled, TypeInv, TypeOK
    <2>. QED
      BY <1>2, <2>1, <2>2, SaveShape
  <1>6. EndForgets(E, T, Z)
    BY <1>1, <1>3, <1>4, <1>5 DEF EndForgets
  <1>. QED
    BY <1>6

\* No poll ends with more findings than the cap allows: pruning resolved
\* findings first, and ongoing ones when that is not enough, always reaches it.
THEOREM CapHolds == Spec => []FindingCap
  <1>. DEFINE Inv == TypeInv /\ FindingCap
  <1>1. Init => Inv
    BY TypeInit DEF Init, FindingCap
  <1>2. Inv /\ [Next]_vars => Inv'
    <2>. SUFFICES ASSUME Inv, [Next]_vars, pc' = "idle", MaxFindings > 0
                  PROVE  Cardinality(Known(findings')) <= MaxFindings
      BY TypeStep DEF FindingCap, Known
    <2>1. CASE FinishPoll
      <3>1. PICK E, T, Z : EndForgets(E, T, Z)
        BY <2>1, EndShape
      <3>. DEFINE fs == Drop(Drop(findings, E), T)
      <3>2. /\ findings' = Drop(fs, Z) /\ Cardinality(Known(fs)) <= MaxFindings
        BY <3>1 DEF EndForgets
      <3>. HIDE DEF fs
      <3>3. Known(findings') \subseteq Known(fs)
        BY <3>2, Dropped
      <3>4. Cardinality(Known(findings')) <= Cardinality(Known(fs))
        BY <3>3, KnownFinite, FS_Subset
      <3>5. MaxFindings \in Nat
        BY ConfigAssumption
      <3>. QED
        BY <3>2, <3>4, <3>5, KnownFinite
    <2>2. CASE pc = "idle" /\ findings' = findings
      BY <2>2 DEF FindingCap
    <2>3. FinishPoll \/ (pc = "idle" /\ findings' = findings)
      BY DEF Next, PollStep, BeginPoll, RunCheck, SkipSuppressed, NextFinding,
          CollectQuietly, CollectAndPublish, EndChecks, Resolve, Start,
          ClusterChange, Signal, Shutdown, Crash, vars
    <2>. QED
      BY <2>1, <2>2, <2>3
  <1>. QED
    BY <1>1, <1>2, PTL DEF Spec

\* The end of a poll gives up expired findings, then resolved before ongoing
\* ones, and staler before fresher ones.
THEOREM PrunesInOrder == Spec => PruneOrder
  <1>. DEFINE Fits(x, y) ==
                LET fx == findings[x]
                    fy == findings[y]
                IN  \/ /\ fx.status = "resolved"
                       /\ \/ Retention > 0 /\ fx.lastSeen > Retention
                          \/ fy.status = "ongoing"
                          \/ fx.lastSeen >= fy.lastSeen
                    \/ fx.status = "ongoing" /\ fy.status = "ongoing"
                       /\ fx.lastSeen >= fy.lastSeen
              Ordered == pc = "resolve" /\ pc' = "idle" =>
                \A x \in Known(findings) \ Known(findings'),
                   y \in Known(findings') : Fits(x, y)
  <1>1. TypeInv /\ [Next]_vars => [Ordered]_vars
    <2>. SUFFICES ASSUME TypeInv, Next, pc = "resolve", pc' = "idle",
                         NEW x \in Known(findings) \ Known(findings'),
                         NEW y \in Known(findings')
                  PROVE  Fits(x, y)
      OBVIOUS
    <2>1. FinishPoll
      BY DEF Next, PollStep, BeginPoll, RunCheck, SkipSuppressed, NextFinding,
          CollectQuietly, CollectAndPublish, EndChecks, Resolve, Start,
          ClusterChange, Signal, Shutdown, Crash
    <2>2. PICK E, T, Z : EndForgets(E, T, Z)
      BY <2>1, EndShape
    <2>. DEFINE es == Drop(findings, E)
                fs == Drop(es, T)
    <2>3. /\ \A z \in E : /\ z \in Resolved(findings)
                          /\ Retention > 0 /\ findings[z].lastSeen > Retention
          /\ CapTakes(es, T) /\ OldestOf(fs, Resolved(fs), Z)
          /\ findings' = Drop(fs, Z)
      BY <2>2 DEF EndForgets
    <2>4. /\ Known(es) = Known(findings) \ E
          /\ Resolved(es) = Resolved(findings) \ E
          /\ \A id \in Ids \ E : es[id] = findings[id]
          /\ Known(fs) = Known(es) \ T
          /\ Resolved(fs) = Resolved(es) \ T
          /\ \A id \in Ids \ T : fs[id] = es[id]
          /\ Known(findings') = Known(fs) \ Z
      BY <2>3, Dropped
    <2>. HIDE DEF es, fs
    <2>5. /\ x \in Ids /\ y \in Ids /\ y \in Known(findings) /\ x \in Known(findings)
          /\ y \notin E /\ y \notin T /\ y \notin Z
          /\ x \in E \cup T \cup Z
      BY <2>4 DEF Known
    <2>6. /\ findings[x].status \in {"ongoing", "resolved"}
          /\ findings[y].status \in {"ongoing", "resolved"}
          /\ x \in Resolved(findings) <=> findings[x].status = "resolved"
          /\ y \in Resolved(findings) <=> findings[y].status = "resolved"
      BY <2>5 DEF Known, Resolved, TypeInv, TypeOK, FindingState
    <2>7. es[y] = findings[y] /\ fs[y] = findings[y]
      BY <2>4, <2>5
    <2>8. CASE x \in E
      BY <2>3, <2>6, <2>8
    <2>9. CASE x \notin E /\ x \in T
      <3>1. es[x] = findings[x]
        BY <2>4, <2>5, <2>9
      <3>2. CASE OldestOf(es, Resolved(es), T)
        <4>1. x \in Resolved(findings)
          BY <2>4, <2>9, <3>2 DEF OldestOf
        <4>2. y \in Resolved(findings) => findings[x].lastSeen >= findings[y].lastSeen
          BY <2>4, <2>5, <2>7, <2>9, <3>1, <3>2 DEF OldestOf
        <4>. QED
          BY <2>6, <4>1, <4>2
      <3>3. CASE /\ Resolved(es) \subseteq T
                 /\ \A u \in T \ Resolved(es), v \in Known(es) \ T :
                        es[u].lastSeen >= es[v].lastSeen
        <4>1. y \notin Resolved(findings)
          BY <2>4, <2>5, <3>3
        <4>2. x \notin Resolved(findings) => findings[x].lastSeen >= findings[y].lastSeen
          BY <2>4, <2>5, <2>7, <2>9, <3>1, <3>3
        <4>. QED
          BY <2>6, <4>1, <4>2
      <3>. QED
        BY <2>3, <3>2, <3>3 DEF CapTakes
    <2>10. CASE x \notin E /\ x \notin T /\ x \in Z
      <3>1. fs[x] = findings[x]
        BY <2>4, <2>5, <2>10
      <3>2. x \in Resolved(findings)
        BY <2>3, <2>4, <2>10 DEF OldestOf
      <3>3. y \in Resolved(findings) => findings[x].lastSeen >= findings[y].lastSeen
        BY <2>3, <2>4, <2>5, <2>7, <2>10, <3>1 DEF OldestOf
      <3>. QED
        BY <2>6, <3>2, <3>3
    <2>. QED
      BY <2>5, <2>8, <2>9, <2>10
  <1>. QED
    BY <1>1, TypeAlways, PTL DEF Spec, PruneOrder

\* A step that is not the end of a poll, of a process that runs, forgets no
\* ongoing finding.
LEMMA OngoingStays ==
    ASSUME TypeInv, [Next]_vars, pc # "down", ~FinishPoll
    PROVE  Ongoing(findings) \subseteq Known(findings')
  <1>. SUFFICES ASSUME NEW o \in Ids, findings[o].status = "ongoing"
                PROVE  findings'[o].status # "absent"
    BY DEF Ongoing, Known
  <1>0. findings \in [Ids -> FindingState]
    BY DEF TypeInv, TypeOK
  <1>1. ASSUME NEW d \in TimeSteps, NEW s \in SuppressSets, BeginPoll(d, s)
        PROVE  findings'[o].status # "absent"
    BY <1>1 DEF BeginPoll, Tick
  <1>2. ASSUME NEW i \in left, CollectQuietly(i)
        PROVE  findings'[o].status # "absent"
    <2>. DEFINE f == cluster[current][i]
    <2>1. findings' = [findings EXCEPT ![f.id] = Seen(findings[f.id], f)]
      BY <1>2 DEF CollectQuietly
    <2>2. Seen(findings[f.id], f).status = "ongoing"
      BY DEF Seen
    <2>. QED
      BY <1>0, <2>1, <2>2
  <1>3. ASSUME NEW i \in left, NEW outcome \in Outcomes,
               CollectAndPublish(i, outcome)
        PROVE  findings'[o].status # "absent"
    <2>. DEFINE f  == cluster[current][i]
                st == AfterPublish(findings[f.id], f, outcome = "acked")
    <2>1. findings' = [findings EXCEPT ![f.id] = st]
      BY <1>3 DEF CollectAndPublish
    <2>2. st.status = "ongoing"
      BY DEF AfterPublish, Published, Seen
    <2>. QED
      BY <1>0, <2>1, <2>2
  <1>4. ASSUME NEW id \in pending, NEW outcome \in Outcomes, Resolve(id, outcome)
        PROVE  findings'[o].status # "absent"
    <2>. DEFINE st == AfterResolve(findings[id], outcome = "acked")
    <2>1. findings' = [findings EXCEPT ![id] = st]
      BY <1>4 DEF Resolve
    <2>2. CASE id = o
      <3>1. findings[o] \in FindingState
        BY <1>0
      <3>2. st.status # "absent"
        BY <2>2, <3>1 DEF AfterResolve, Closed, FindingState
      <3>. QED
        BY <1>0, <2>1, <2>2, <3>2
    <2>3. CASE id # o
      BY <1>0, <2>1, <2>3
    <2>. QED
      BY <2>2, <2>3
  <1>5. CASE Shutdown
    <2>1. PICK results :
             maybeSave(findings, dirty, Throttled(WriteInterval), results)
      BY <1>5 DEF Shutdown
    <2>2. dirty \in BOOLEAN /\ Throttled(WriteInterval) \in BOOLEAN
      BY DEF Throttled, TypeInv, TypeOK
    <2>3. PICK Z : findings' = Drop(findings, Z)
                   /\ OldestOf(findings, Resolved(findings), Z)
      BY <1>0, <2>1, <2>2, SaveShape
    <2>. QED
      BY <2>3 DEF OldestOf, Resolved, Drop
  <1>6. CASE findings' = findings
    BY <1>6
  <1>. QED
    BY <1>1, <1>2, <1>3, <1>4, <1>5, <1>6
    DEF Next, PollStep, RunCheck, SkipSuppressed, EndChecks, Start, ClusterChange,
        Signal, Crash, vars

\* Only the cap makes a running process forget an ongoing finding, and only
\* when no resolved one is left to forget.
THEOREM KeepsOngoing == Spec => OngoingKept
  <1>. DEFINE Held ==
                pc # "down"
                    /\ Ongoing(findings) \cap Known(findings') # Ongoing(findings)
                => /\ MaxFindings > 0
                   /\ Resolved(findings') = {}
                   /\ Cardinality(Known(findings')) = MaxFindings
  <1>1. TypeInv /\ [Next]_vars => [Held]_vars
    <2>. SUFFICES ASSUME TypeInv, [Next]_vars, pc # "down",
                         Ongoing(findings) \cap Known(findings') # Ongoing(findings)
                  PROVE  /\ MaxFindings > 0
                         /\ Resolved(findings') = {}
                         /\ Cardinality(Known(findings')) = MaxFindings
      OBVIOUS
    <2>1. FinishPoll
      BY OngoingStays
    <2>2. PICK E, T, Z : EndForgets(E, T, Z)
      BY <2>1, EndShape
    <2>. DEFINE es == Drop(findings, E)
                fs == Drop(es, T)
    <2>3. /\ E \subseteq Resolved(findings)
          /\ CapTakes(es, T) /\ OldestOf(fs, Resolved(fs), Z)
          /\ findings' = Drop(fs, Z)
      BY <2>2 DEF EndForgets
    <2>4. /\ Known(es) = Known(findings) \ E
          /\ Resolved(es) = Resolved(findings) \ E
          /\ Known(fs) = Known(es) \ T
          /\ Resolved(fs) = Resolved(es) \ T
          /\ Known(findings') = Known(fs) \ Z
          /\ Resolved(findings') = Resolved(fs) \ Z
      BY <2>3, Dropped
    <2>. HIDE DEF es, fs
    <2>5. PICK o \in Ongoing(findings) : o \notin Known(findings')
      OBVIOUS
    <2>6. o \in Known(findings) /\ o \notin Resolved(findings)
      BY DEF Ongoing, Known, Resolved
    <2>7. o \notin Z
      BY <2>3, <2>4, <2>6 DEF OldestOf
    <2>8. o \in T /\ o \notin Resolved(es)
      BY <2>3, <2>4, <2>5, <2>6, <2>7
    <2>9. /\ MaxFindings > 0 /\ Resolved(es) \subseteq T
          /\ Cardinality(Known(es) \ T) = MaxFindings
      BY <2>3, <2>8 DEF CapTakes, OldestOf
    <2>10. Resolved(fs) = {} /\ Z = {}
      BY <2>3, <2>4, <2>9 DEF OldestOf
    <2>11. Known(findings') = Known(es) \ T /\ Resolved(findings') = {}
      BY <2>4, <2>10
    <2>. QED
      BY <2>9, <2>11
  <1>. QED
    BY <1>1, TypeAlways, PTL DEF Spec, OngoingKept

-----------------------------------------------------------------------------
(* What is closed.                                                         *)

\* As long as every check was complete, what the checks that have run report
\* was seen in this poll, or is suppressed, or is still being collected.  The
\* lenient checks may miss something and still call themselves complete.
CoverInv ==
    complete /\ pc = "checks" =>
        \A k \in Enabled \ (todo \cup LenientChecks) :
            \A i \in DOMAIN cluster[k] :
                \/ k = current /\ i \in left
                \/ cluster[k][i].id \in active \cup suppressed

\* What is still to be closed is suppressed, or no check reports it.
PendingInv ==
    \A id \in pending :
        \/ id \in suppressed
        \/ \A k \in Enabled \ LenientChecks : ~ReportedBy(k, id)

\* A check that is not lenient is complete only with all there is to report.
LEMMA CompleteResult ==
    ASSUME NEW c \in Enabled \ LenientChecks, NEW r \in Results(c), r.complete
    PROVE  r.found = DOMAIN cluster[c]
  <1>1. r = Result(DOMAIN cluster[c], TRUE) \/ \E S : r = Result(S, FALSE)
    BY DEF Results
  <1>. QED
    BY <1>1 DEF Result

LEMMA CoverStep ==
    ASSUME TypeInv, CoverInv, PendingInv, [Next]_vars
    PROVE  CoverInv' /\ PendingInv'
  <1>y. TypeOK /\ PhaseOK
    BY DEF TypeInv
  <1>1. ASSUME NEW d \in TimeSteps, NEW s \in SuppressSets, BeginPoll(d, s)
        PROVE  CoverInv' /\ PendingInv'
    <2>1. pending' = {} /\ todo' = Enabled
      BY <1>1, <1>y DEF BeginPoll, PhaseOK
    <2>. QED
      BY <2>1 DEF CoverInv, PendingInv
  <1>2. ASSUME NEW c \in todo, NEW r \in Results(c), RunCheck(c, r)
        PROVE  CoverInv' /\ PendingInv'
    <2>1. /\ pc = "checks" /\ left = {} /\ todo' = todo \ {c} /\ current' = c
          /\ left' = r.found /\ complete' = (complete /\ r.complete)
          /\ UNCHANGED <<cluster, pc, active, suppressed, pending>>
      BY <1>2 DEF RunCheck
    <2>2. pending' = {}
      BY <1>y, <2>1 DEF PhaseOK
    <2>3. CoverInv'
      <3>. SUFFICES ASSUME complete',
                           NEW k \in Enabled \ (todo' \cup LenientChecks),
                           NEW i \in DOMAIN cluster[k]
                    PROVE  \/ k = current' /\ i \in left'
                           \/ cluster[k][i].id \in active \cup suppressed
        BY <2>1 DEF CoverInv
      <3>0. complete /\ r.complete
        <4>1. complete \in BOOLEAN
          BY <1>y DEF TypeOK
        <4>2. PICK S \in SUBSET DOMAIN cluster[c], ok \in BOOLEAN :
                 r = Result(S, ok)
          BY DEF Results
        <4>3. r.complete = ok
          BY <4>2 DEF Result
        <4>. QED
          BY <2>1, <4>1, <4>3
      <3>1. CASE k = c
        <4>1. r.found = DOMAIN cluster[c]
          BY <3>0, <3>1, CompleteResult
        <4>. QED
          BY <2>1, <3>1, <4>1
      <3>2. CASE k # c
        BY <2>1, <3>0, <3>2 DEF CoverInv
      <3>. QED
        BY <3>1, <3>2
    <2>. QED
      BY <2>2, <2>3 DEF PendingInv
  <1>3. ASSUME NEW i \in left,
               \/ SkipSuppressed(i)
               \/ CollectQuietly(i)
               \/ \E outcome \in Outcomes : CollectAndPublish(i, outcome)
        PROVE  CoverInv' /\ PendingInv'
    <2>1. /\ pc = "checks" /\ left' = left \ {i}
          /\ UNCHANGED <<cluster, pc, todo, current, complete, pending, suppressed>>
          /\ active \subseteq active'
          /\ cluster[current][i].id \in active' \cup suppressed
      BY <1>3 DEF SkipSuppressed, CollectQuietly, CollectAndPublish, NextFinding
    <2>2. pending' = {}
      BY <1>y, <2>1 DEF PhaseOK
    <2>. QED
      BY <2>1, <2>2 DEF CoverInv, PendingInv
  <1>4. CASE EndChecks
    <2>1. /\ pc = "checks" /\ pc' = "resolve" /\ todo = {} /\ left = {}
          /\ pending' = IF complete THEN Ongoing(findings) \ active ELSE {}
          /\ UNCHANGED <<cluster, suppressed>>
      BY <1>4 DEF EndChecks, Missing
    <2>2. ASSUME NEW id \in pending'
          PROVE  \/ id \in suppressed
                 \/ \A k \in Enabled \ LenientChecks : ~ReportedBy(k, id)
      <3>1. complete /\ id \notin active
        BY <2>1, <2>2
      <3>. QED
        BY <2>1, <3>1 DEF CoverInv, ReportedBy
    <2>. QED
      BY <2>1, <2>2 DEF CoverInv, PendingInv, ReportedBy
  <1>5. ASSUME NEW id \in pending, NEW outcome \in Outcomes, Resolve(id, outcome)
        PROVE  CoverInv' /\ PendingInv'
    BY <1>5 DEF Resolve, CoverInv, PendingInv, ReportedBy
  <1>6. CASE FinishPoll
    BY <1>6 DEF FinishPoll, CoverInv, PendingInv
  <1>7. ASSUME NEW ok \in BOOLEAN, Start(ok)
        PROVE  CoverInv' /\ PendingInv'
    BY <1>7 DEF Start, CoverInv, PendingInv, ReportedBy, pollVars
  <1>8. CASE ClusterChange
    BY <1>8, <1>y DEF ClusterChange, CoverInv, PendingInv, PhaseOK, pollVars
  <1>9. CASE Signal
    BY <1>9 DEF Signal, CoverInv, PendingInv, ReportedBy, pollVars
  <1>10. CASE Shutdown
    BY <1>10, <1>y DEF Shutdown, CoverInv, PendingInv, PhaseOK, pollVars
  <1>11. CASE Crash
    BY <1>11 DEF Crash, CoverInv, PendingInv
  <1>12. CASE UNCHANGED vars
    BY <1>12 DEF vars, CoverInv, PendingInv, ReportedBy, pollVars
  <1>. QED
    BY <1>1, <1>2, <1>3, <1>4, <1>5, <1>6, <1>7, <1>8, <1>9, <1>10, <1>11, <1>12
    DEF Next, PollStep

LEMMA CoverAlways == Spec => [](TypeInv /\ CoverInv /\ PendingInv)
  <1>. DEFINE Inv == TypeInv /\ CoverInv /\ PendingInv
  <1>1. Init => Inv
    BY TypeInit DEF Init, CoverInv, PendingInv
  <1>2. Inv /\ [Next]_vars => Inv'
    BY TypeStep, CoverStep
  <1>. QED
    BY <1>1, <1>2, PTL DEF Spec

\* A finding is closed on the topic only when no check reports it, or it is
\* suppressed, or only a lenient check does: for any order of checks, any
\* failures of checks, publishes and saves, and any crashes.
THEOREM ResolvesSoundly == Spec => ResolutionSound
  <1>. DEFINE Sound ==
                sent'.id \in Ids /\ sent'.status = "resolved" =>
                    \/ sent'.id \in suppressed
                    \/ \A k \in Enabled \ LenientChecks : ~ReportedBy(k, sent'.id)
  <1>1. TypeInv /\ CoverInv /\ PendingInv /\ [Next]_vars => [Sound]_vars
    <2>. SUFFICES ASSUME PendingInv, Next, sent'.id \in Ids,
                         sent'.status = "resolved"
                  PROVE  \/ sent'.id \in suppressed
                         \/ \A k \in Enabled \ LenientChecks :
                                ~ReportedBy(k, sent'.id)
      OBVIOUS
    <2>1. sent' # NoMessage
      BY ConfigAssumption DEF NoMessage
    <2>2. ASSUME NEW i \in left, NEW outcome \in Outcomes,
                 CollectAndPublish(i, outcome)
          PROVE  FALSE
      <3>1. sent'.status = "ongoing"
        BY <2>1, <2>2 DEF CollectAndPublish, Deliver
      <3>. QED
        BY <3>1
    <2>3. ASSUME NEW id \in pending, NEW outcome \in Outcomes,
                 Resolve(id, outcome)
          PROVE  sent'.id \in pending
      BY <2>1, <2>3 DEF Resolve, Deliver
    <2>4. sent'.id \in pending
      BY <2>1, <2>2, <2>3
      DEF Next, PollStep, BeginPoll, RunCheck, SkipSuppressed, CollectQuietly,
          EndChecks, FinishPoll, Start, ClusterChange, Signal, Shutdown, Crash
    <2>. QED
      BY <2>4 DEF PendingInv
  <1>. QED
    BY <1>1, CoverAlways, PTL DEF Spec, ResolutionSound
=============================================================================
