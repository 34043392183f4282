------------------------- MODULE MonitorSyncProofs -------------------------
(***************************************************************************)
(* What the monitor and the readers of its topic agree on, for every value *)
(* of the constants that excludes loss of memory: no crash, failed load or *)
(* failed last save (MaxFaults = 0), and no write refused for its size     *)
(* (MaxStateSize = 0).  Failed and ambiguous publishes, incomplete checks, *)
(* suppression, caps, throttled and failed saves and graceful restarts are *)
(* all included.  The last section shows, with crashes and failed loads,   *)
(* how the findings are stored.                                            *)
(***************************************************************************)
EXTENDS MonitorProofs

\* What the process goes by, or will go by once it is started.
Memory == IF pc = "down" THEN saved ELSE findings

\* The stored state may only lag behind while the state is marked dirty.
StoreInv == pc # "down" => loaded /\ (~dirty => saved = findings)

\* A finding seen in this poll is ongoing, and was published or its publish
\* failed; it is not among those to be closed.
ActiveInv ==
    /\ \A id \in active : /\ findings[id].status = "ongoing"
                          /\ findings[id].published \/ findings[id].failed
    /\ active \cap pending = {}
    /\ pc \in {"down", "idle"} => active = {}

SyncInv ==
    /\ TypeInv
    /\ StoreInv
    /\ ActiveInv
    /\ \A id \in Ids : Agrees(Memory[id], view[id])

-----------------------------------------------------------------------------
(* Lemmas.                                                                 *)

\* Time does not change what was said about a finding.
LEMMA TickAgrees ==
    ASSUME NEW fs \in [Ids -> FindingState], NEW d, NEW id \in Ids, NEW v,
           Agrees(fs[id], v)
    PROVE  Agrees(Tick(fs, d)[id], v)
  BY DEF Tick, Agrees

\* A finding that need not be published again still agrees after its score
\* fell within its classification.
LEMMA QuietAgrees ==
    ASSUME NEW st \in FindingState, NEW f, f.score \in 0..100,
           NEW v \in View, Agrees(st, v), ~StateChange(st, f)
    PROVE  Agrees(Seen(st, f), v)
  <1>1. /\ st.status = "ongoing" /\ st.published /\ ~st.failed
        /\ ~(f.score > st.score)
        /\ classificationForScore(f.score) = classificationForScore(st.score)
    BY DEF StateChange, FindingState
  <1>2. /\ v.status = "ongoing" /\ v.score >= st.score
        /\ classificationForScore(v.score) = classificationForScore(st.score)
    BY <1>1 DEF Agrees
  <1>3. st.score \in Int /\ v.score \in Int /\ f.score \in Int
    BY DEF FindingState, View
  <1>4. v.score >= f.score
    <2>. DEFINE x == st.score
                y == v.score
                z == f.score
    <2>1. x \in Int /\ y \in Int /\ z \in Int /\ ~(z > x) /\ y >= x
      BY <1>1, <1>2, <1>3
    <2>. HIDE DEF x, y, z
    <2>2. y >= z
      BY <2>1
    <2>. QED
      BY <2>2 DEF y, z
  <1>5. Seen(st, f).status = "ongoing" /\ Seen(st, f).score = f.score
    BY DEF Seen
  <1>. QED
    BY <1>1, <1>2, <1>4, <1>5 DEF Agrees

\* An unconfirmed publish leaves a record that claims nothing.
LEMMA PublishAgrees ==
    ASSUME NEW st \in FindingState, NEW f, NEW v,
           NEW acked \in BOOLEAN,
           acked => v = [status |-> "ongoing", score |-> f.score],
           f.score \in 0..100
    PROVE  Agrees(AfterPublish(st, f, acked), v)
  <1>1. CASE acked
    BY <1>1 DEF AfterPublish, Published, Agrees
  <1>2. CASE ~acked
    BY <1>2 DEF AfterPublish, Seen, Agrees
  <1>. QED
    BY <1>1, <1>2

LEMMA ResolveAgrees ==
    ASSUME NEW st \in FindingState, NEW v, NEW acked \in BOOLEAN,
           acked => v = [status |-> "resolved", score |-> 0]
    PROVE  Agrees(AfterResolve(st, acked), v)
  <1>1. CASE acked
    BY <1>1 DEF AfterResolve, Closed, Agrees
  <1>2. CASE ~acked
    BY <1>2 DEF AfterResolve, Agrees, FindingState
  <1>. QED
    BY <1>1, <1>2

\* Dropping findings leaves nothing to disagree about.
KeptOrAbsent(fs, gs) == \A id \in Ids : gs[id] = fs[id] \/ gs[id] = Absent

LEMMA DropKeeps ==
    ASSUME NEW fs, NEW S PROVE KeptOrAbsent(fs, Drop(fs, S))
  BY DEF KeptOrAbsent, Drop

LEMMA TrimKeeps ==
    ASSUME NEW fs \in [Ids -> FindingState],
           NEW gs \in pruneFindingCap(expireResolvedFindings(fs))
    PROVE  gs \in [Ids -> FindingState] /\ KeptOrAbsent(fs, gs)
  <1>. DEFINE es == expireResolvedFindings(fs)
  <1>1. es \in [Ids -> FindingState] /\ KeptOrAbsent(fs, es)
    BY ExpireType, DropKeeps DEF expireResolvedFindings
  <1>2. gs \in [Ids -> FindingState]
    BY <1>1, CapType
  <1>3. KeptOrAbsent(es, gs)
    <2>1. CASE gs = es
      BY <2>1 DEF KeptOrAbsent
    <2>2. CASE gs # es
      <3>1. PICK hs \in pruneFindingsByStatus(es, Resolved(es),
                                              Excess(es, MaxFindings)) :
               gs = hs \/ gs \in pruneFindingsByStatus(hs, Known(hs),
                                              Excess(hs, MaxFindings))
        BY <2>2 DEF pruneFindingCap
      <3>2. KeptOrAbsent(es, hs)
        BY <3>1, PruneDrops, DropKeeps
      <3>3. KeptOrAbsent(hs, gs) \/ gs = hs
        BY <3>1, PruneDrops, DropKeeps
      <3>. QED
        BY <3>2, <3>3 DEF KeptOrAbsent
    <2>. QED
      BY <2>1, <2>2
  <1>. QED
    BY <1>1, <1>2, <1>3 DEF KeptOrAbsent

\* Without a size limit, a save writes all there is or leaves the state dirty.
LEMMA SaveEffect ==
    ASSUME MaxStateSize = 0, NEW fs, NEW changed \in BOOLEAN,
           NEW throttled \in BOOLEAN, NEW results,
           maybeSave(fs, changed, throttled, results),
           loaded \in BOOLEAN
    PROVE  /\ findings' = fs
           /\ loaded => loaded'
           /\ \/ dirty' = changed /\ saved' = saved /\ (~changed \/ throttled)
              \/ dirty' = TRUE /\ saved' = saved /\ "failed" \in results
              \/ saved' = fs
  <1>1. pruneForStateSize(fs) = {fs} /\ ~TooLarge(fs)
    BY DEF pruneForStateSize, TooLarge
  <1>2. CASE ~changed \/ throttled
    BY <1>2 DEF maybeSave, storeVars
  <1>3. CASE changed /\ ~throttled
    <2>1. PICK result \in results :
             /\ findings' = fs
             /\ dirty' = (result # "saved")
             /\ saved' = IF result = "failed" THEN saved ELSE fs
             /\ loaded' = (loaded \/ result = "saved")
      BY <1>1, <1>3 DEF maybeSave
    <2>. QED
      BY <2>1
  <1>. QED
    BY <1>2, <1>3

-----------------------------------------------------------------------------
(* The invariant is inductive.                                             *)

LEMMA SyncInit == Init => SyncInv
  <1>. SUFFICES ASSUME Init PROVE SyncInv
    OBVIOUS
  <1>1. \A id \in Ids : Agrees(Memory[id], view[id])
    BY DEF Init, Memory, newMonitorState, Absent, Agrees
  <1>. QED
    BY <1>1, TypeInit DEF Init, SyncInv, StoreInv, ActiveInv

\* Each kind of step keeps the memory and the readers in agreement.
LEMMA SyncStep ==
    ASSUME MaxFaults = 0, MaxStateSize = 0, SyncInv, [Next]_vars
    PROVE  SyncInv'
  <1>. USE DEF SyncInv
  <1>t. TypeInv'
    BY TypeStep
  <1>y. TypeOK /\ PhaseOK
    BY DEF TypeInv
  <1>0. faults = 0
    BY <1>y DEF TypeOK
  <1>1. ASSUME NEW d \in TimeSteps, NEW s \in SuppressSets, BeginPoll(d, s)
        PROVE  SyncInv'
    <2>1. \A id \in Ids : Agrees(Memory'[id], view'[id])
      BY <1>1, <1>y, TickAgrees DEF BeginPoll, Memory, TypeOK
    <2>2. StoreInv'
      BY <1>1 DEF BeginPoll, StoreInv
    <2>3. ActiveInv'
      BY <1>1 DEF BeginPoll, ActiveInv
    <2>. QED
      BY <1>t, <2>1, <2>2, <2>3
  <1>2. ASSUME NEW c \in todo, NEW r \in Results(c), RunCheck(c, r)
        PROVE  SyncInv'
    BY <1>2, <1>t DEF RunCheck, StoreInv, ActiveInv, Memory, storeVars, observer
  <1>3. ASSUME NEW i \in left, SkipSuppressed(i)
        PROVE  SyncInv'
    BY <1>3, <1>t
    DEF SkipSuppressed, StoreInv, ActiveInv, Memory, storeVars, observer
  <1>4. ASSUME NEW i \in left, CollectQuietly(i)
        PROVE  SyncInv'
    <2>. DEFINE f  == cluster[current][i]
                st == findings[f.id]
    <2>1. f.id \in Ids /\ f.score \in 0..100
      BY <1>y, ReportedType DEF TypeOK, Reported
    <2>2. /\ pc = "checks" /\ pc' = "checks" /\ ~StateChange(st, f)
          /\ findings' = [findings EXCEPT ![f.id] = Seen(st, f)]
          /\ view' = view /\ active' = active \cup {f.id} /\ dirty' = TRUE
          /\ pending' = pending /\ loaded' = loaded
      BY <1>4 DEF CollectQuietly, NextFinding, storeVars, observer
    <2>3. st \in FindingState /\ view[f.id] \in View
      BY <1>y, <2>1 DEF TypeOK
    <2>4. Agrees(Seen(st, f), view[f.id])
      BY <2>1, <2>2, <2>3, QuietAgrees DEF Memory
    <2>5. \A id \in Ids : Agrees(Memory'[id], view'[id])
      BY <1>y, <2>1, <2>2, <2>4 DEF Memory, TypeOK
    <2>6. Seen(st, f).status = "ongoing"
          /\ (Seen(st, f).published \/ Seen(st, f).failed)
      BY <2>2 DEF Seen, StateChange
    <2>7. ActiveInv'
      <3>1. findings'[f.id] = Seen(st, f)
            /\ \A id \in Ids \ {f.id} : findings'[id] = findings[id]
        BY <1>y, <2>1, <2>2 DEF TypeOK
      <3>2. active \subseteq Ids /\ pending = {}
        BY <1>y, <2>2 DEF TypeOK, PhaseOK
      <3>3. \A id \in active' :
               /\ findings'[id].status = "ongoing"
               /\ findings'[id].published \/ findings'[id].failed
        BY <2>2, <2>6, <3>1, <3>2 DEF ActiveInv
      <3>4. pending' = {} /\ pc' = "checks"
        BY <2>2, <3>2
      <3>5. active' \cap pending' = {}
        BY <3>4
      <3>6. pc' \notin {"down", "idle"}
        BY <3>4
      <3>. QED
        BY <3>3, <3>5, <3>6 DEF ActiveInv
    <2>. QED
      BY <1>t, <2>2, <2>5, <2>7 DEF StoreInv
  <1>5. ASSUME NEW i \in left, NEW outcome \in Outcomes,
               CollectAndPublish(i, outcome)
        PROVE  SyncInv'
    <2>. DEFINE f  == cluster[current][i]
                st == findings[f.id]
                acked == outcome = "acked"
                m == [id |-> f.id, status |-> "ongoing", score |-> f.score,
                      triage |-> TriageDue(st, f)]
    <2>1. f.id \in Ids /\ f.score \in 0..100
      BY <1>y, ReportedType DEF TypeOK, Reported
    <2>2. /\ pc = "checks" /\ pc' = "checks"
          /\ findings' = [findings EXCEPT ![f.id] = AfterPublish(st, f, acked)]
          /\ active' = active \cup {f.id} /\ dirty' = TRUE
          /\ pending' = pending /\ loaded' = loaded
      BY <1>5 DEF CollectAndPublish, NextFinding, storeVars
    <2>3. Deliver(m, outcome)
      BY <1>5 DEF CollectAndPublish
    <2>4. /\ \A id \in Ids \ {f.id} : view'[id] = view[id]
          /\ acked => view'[f.id] = [status |-> "ongoing", score |-> f.score]
      BY <1>y, <2>1, <2>3 DEF Deliver, TypeOK
    <2>5. st \in FindingState
      BY <1>y, <2>1 DEF TypeOK
    <2>6. Agrees(AfterPublish(st, f, acked), view'[f.id])
      BY <2>1, <2>4, <2>5, PublishAgrees
    <2>7. \A id \in Ids : Agrees(Memory'[id], view'[id])
      BY <1>y, <2>1, <2>2, <2>4, <2>6 DEF Memory, TypeOK
    <2>8. AfterPublish(st, f, acked).status = "ongoing"
          /\ (AfterPublish(st, f, acked).published
                  \/ AfterPublish(st, f, acked).failed)
      BY DEF AfterPublish, Published, Seen
    <2>9. ActiveInv'
      <3>1. findings'[f.id] = AfterPublish(st, f, acked)
            /\ \A id \in Ids \ {f.id} : findings'[id] = findings[id]
        BY <1>y, <2>1, <2>2 DEF TypeOK
      <3>2. active \subseteq Ids /\ pending = {}
        BY <1>y, <2>2 DEF TypeOK, PhaseOK
      <3>3. \A id \in active' :
               /\ findings'[id].status = "ongoing"
               /\ findings'[id].published \/ findings'[id].failed
        BY <2>2, <2>8, <3>1, <3>2 DEF ActiveInv
      <3>4. pending' = {} /\ pc' = "checks"
        BY <2>2, <3>2
      <3>5. active' \cap pending' = {}
        BY <3>4
      <3>6. pc' \notin {"down", "idle"}
        BY <3>4
      <3>. QED
        BY <3>3, <3>5, <3>6 DEF ActiveInv
    <2>. QED
      BY <1>t, <2>2, <2>7, <2>9 DEF StoreInv
  <1>6. CASE EndChecks
    BY <1>6, <1>t
    DEF EndChecks, Missing, StoreInv, ActiveInv, Memory, storeVars, observer
  <1>7. ASSUME NEW id \in pending, NEW outcome \in Outcomes, Resolve(id, outcome)
        PROVE  SyncInv'
    <2>. DEFINE acked == outcome = "acked"
                m == [id |-> id, status |-> "resolved", score |-> 0,
                      triage |-> FALSE]
    <2>1. id \in Ids /\ id \notin active
      BY <1>y DEF TypeOK, ActiveInv
    <2>2. /\ pc = "resolve" /\ pc' = "resolve"
          /\ findings' = [findings EXCEPT ![id] =
                             AfterResolve(findings[id], acked)]
          /\ active' = active /\ dirty' = TRUE
          /\ pending' = pending \ {id} /\ loaded' = loaded
      BY <1>7 DEF Resolve, storeVars
    <2>3. Deliver(m, outcome)
      BY <1>7 DEF Resolve
    <2>4. /\ \A x \in Ids \ {id} : view'[x] = view[x]
          /\ acked => view'[id] = [status |-> "resolved", score |-> 0]
      BY <1>y, <2>1, <2>3 DEF Deliver, TypeOK
    <2>5. Agrees(AfterResolve(findings[id], acked), view'[id])
      BY <1>y, <2>1, <2>4, ResolveAgrees DEF TypeOK
    <2>6. \A x \in Ids : Agrees(Memory'[x], view'[x])
      BY <1>y, <2>1, <2>2, <2>4, <2>5 DEF Memory, TypeOK
    <2>7. ActiveInv'
      BY <1>y, <2>1, <2>2 DEF ActiveInv, TypeOK
    <2>. QED
      BY <1>t, <2>2, <2>6, <2>7 DEF StoreInv
  <1>8. CASE FinishPoll
    <2>1. PICK fs \in pruneFindingCap(expireResolvedFindings(findings)),
               forgot \in BOOLEAN :
             \E results : maybeSave(fs, Changed(fs, forgot), Throttled(0), results)
      BY <1>8 DEF FinishPoll
    <2>2. fs \in [Ids -> FindingState] /\ KeptOrAbsent(findings, fs)
      BY <1>y, TrimKeeps DEF TypeOK
    <2>3. Changed(fs, forgot) \in BOOLEAN /\ Throttled(0) \in BOOLEAN
      BY <1>y DEF Changed, Throttled, TypeOK
    <2>4. /\ findings' = fs
          /\ loaded => loaded'
          /\ \/ dirty' = Changed(fs, forgot) /\ saved' = saved
             \/ dirty' = TRUE
             \/ saved' = fs
      BY <1>y, <2>1, <2>3, SaveEffect DEF TypeOK
    <2>5. pc = "resolve" /\ pc' = "idle" /\ view' = view /\ active' = {}
      BY <1>8 DEF FinishPoll, observer
    <2>6. StoreInv'
      BY <2>4, <2>5 DEF StoreInv, Changed
    <2>7. \A id \in Ids : Agrees(Memory'[id], view'[id])
      BY <2>2, <2>4, <2>5 DEF Memory, KeptOrAbsent, Agrees, Absent
    <2>. QED
      BY <1>t, <2>5, <2>6, <2>7 DEF ActiveInv
  <1>9. ASSUME NEW ok \in BOOLEAN, Start(ok)
        PROVE  SyncInv'
    <2>1. ok = TRUE
      BY <1>9, <1>0 DEF Start
    <2>. QED
      BY <1>9, <1>t, <2>1 DEF Start, StoreInv, ActiveInv, Memory, pollVars, observer
  <1>10. CASE ClusterChange
    BY <1>10, <1>t
    DEF ClusterChange, StoreInv, ActiveInv, Memory, pollVars, storeVars, observer
  <1>11. CASE Signal
    BY <1>11, <1>t
    DEF Signal, StoreInv, ActiveInv, Memory, pollVars, storeVars, observer
  <1>12. CASE Shutdown
    <2>1. PICK results :
             /\ results # {"failed"} /\ results \in {{"saved"}, {"unconfirmed"}}
             /\ maybeSave(findings, dirty, Throttled(WriteInterval), results)
      BY <1>12, <1>0 DEF Shutdown
    <2>2. Throttled(WriteInterval) = FALSE
      BY <1>y, ConstantTypes DEF Throttled, TypeOK
    <2>3. findings' = findings /\ saved' = findings
      <3>0. /\ dirty \in BOOLEAN /\ loaded \in BOOLEAN
            /\ Throttled(WriteInterval) \in BOOLEAN
        BY <1>y, <2>2 DEF TypeOK
      <3>1. /\ findings' = findings
            /\ loaded => loaded'
            /\ \/ dirty' = dirty /\ saved' = saved
                  /\ (~dirty \/ Throttled(WriteInterval))
               \/ dirty' = TRUE /\ saved' = saved /\ "failed" \in results
               \/ saved' = findings
        BY <2>1, <3>0, SaveEffect
      <3>2. "failed" \notin results
        BY <2>1
      <3>. QED
        BY <1>12, <2>2, <3>1, <3>2 DEF Shutdown, StoreInv
    <2>4. pc = "idle" /\ pc' = "down" /\ view' = view /\ active' = active
          /\ pending' = pending
      BY <1>12 DEF Shutdown, pollVars, observer
    <2>. QED
      BY <1>t, <2>3, <2>4 DEF StoreInv, ActiveInv, Memory
  <1>13. CASE Crash
    BY <1>0, <1>13 DEF Crash
  <1>14. CASE UNCHANGED vars
    BY <1>14, <1>t
    DEF vars, StoreInv, ActiveInv, Memory, pollVars, storeVars, observer
  <1>. QED
    BY <1>1, <1>2, <1>3, <1>4, <1>5, <1>6, <1>7, <1>8, <1>9, <1>10, <1>11,
       <1>12, <1>13, <1>14 DEF Next, PollStep

LEMMA SyncAlways ==
    ASSUME MaxFaults = 0, MaxStateSize = 0
    PROVE  Spec => []SyncInv
  <1>1. SyncInv /\ [Next]_vars => SyncInv'
    BY SyncStep
  <1>. QED
    BY <1>1, SyncInit, PTL DEF Spec

\* What the monitor believes it has published is what its consumers were told
\* last, for any configuration, as long as no memory is lost: the reason why
\* collectFindings may stay silent about an unchanged finding.
THEOREM ConsumerStaysInSync ==
    ASSUME MaxFaults = 0, MaxStateSize = 0
    PROVE  Spec => []ConsumerInSync
  <1>1. SyncInv => ConsumerInSync
    BY DEF SyncInv, ConsumerInSync, Memory
  <1>. QED
    BY <1>1, SyncAlways, PTL

\* Every finding a poll saw is open on the topic when the poll has collected
\* its findings, or recorded as still to be published.
THEOREM SeenStaysAnnounced ==
    ASSUME MaxFaults = 0, MaxStateSize = 0
    PROVE  Spec => []SeenIsAnnounced
  <1>1. SyncInv => SeenIsAnnounced
    <2>. SUFFICES ASSUME SyncInv, pc = "resolve", NEW id \in active,
                         ~findings[id].failed
                  PROVE  /\ view[id].status = "ongoing"
                         /\ classificationForScore(view[id].score)
                                = classificationForScore(findings[id].score)
      BY DEF SeenIsAnnounced
    <2>1. id \in Ids
      BY DEF SyncInv, TypeInv, TypeOK
    <2>2. findings[id].status = "ongoing" /\ findings[id].published
      BY DEF SyncInv, ActiveInv
    <2>. QED
      BY <2>1, <2>2 DEF SyncInv, Memory, Agrees
  <1>. QED
    BY <1>1, SyncAlways, PTL

-----------------------------------------------------------------------------
(* What no cap on the findings (MaxFindings = 0) adds: the end of a poll   *)
(* forgets only what has outlived its retention.                           *)

\* Steps that neither publish nor let time pass leave the memory as it is, a
\* stop and a start included.
LEMMA MemoryStays ==
    ASSUME MaxFaults = 0, MaxStateSize = 0, SyncInv,
           \/ \E c \in todo : \E r \in Results(c) : RunCheck(c, r)
           \/ \E i \in left : SkipSuppressed(i)
           \/ EndChecks \/ ClusterChange \/ Signal \/ Shutdown \/ Crash
           \/ \E ok \in BOOLEAN : Start(ok)
           \/ UNCHANGED vars
    PROVE  Memory' = Memory /\ view' = view /\ quiet' = quiet
  <1>y. TypeOK
    BY DEF SyncInv, TypeInv
  <1>0. faults = 0
    BY <1>y DEF TypeOK
  <1>1. CASE Shutdown
    <2>1. PICK results :
             /\ "failed" \notin results
             /\ maybeSave(findings, dirty, Throttled(WriteInterval), results)
      BY <1>0, <1>1 DEF Shutdown
    <2>2. ~Throttled(WriteInterval) /\ Throttled(WriteInterval) \in BOOLEAN
      BY <1>y, ConstantTypes DEF Throttled, TypeOK
    <2>3. dirty \in BOOLEAN /\ loaded \in BOOLEAN
      BY <1>y DEF TypeOK
    <2>4. \/ saved' = saved /\ ~dirty
          \/ saved' = findings
      BY <2>1, <2>2, <2>3, SaveEffect
    <2>5. pc = "idle" /\ pc' = "down" /\ view' = view /\ quiet' = quiet
      BY <1>1 DEF Shutdown, observer
    <2>. QED
      BY <2>4, <2>5 DEF Memory, SyncInv, StoreInv
  <1>2. ASSUME NEW ok \in BOOLEAN, Start(ok)
        PROVE  Memory' = Memory /\ view' = view /\ quiet' = quiet
    <2>1. ok = TRUE
      BY <1>0, <1>2 DEF Start
    <2>. QED
      BY <1>2, <2>1 DEF Start, Memory, observer
  <1>3. CASE Crash
    BY <1>0, <1>3 DEF Crash
  <1>4. CASE \/ \E c \in todo : \E r \in Results(c) : RunCheck(c, r)
             \/ \E i \in left : SkipSuppressed(i)
             \/ EndChecks \/ ClusterChange \/ Signal \/ UNCHANGED vars
    BY <1>4 DEF RunCheck, SkipSuppressed, NextFinding, EndChecks, ClusterChange,
        Signal, vars, Memory, storeVars, observer
  <1>. QED
    BY <1>1, <1>2, <1>3, <1>4

LEMMA EndExpires ==
    ASSUME MaxStateSize = 0, MaxFindings = 0, SyncInv, FinishPoll
    PROVE  /\ Memory = findings /\ Memory' = expireResolvedFindings(findings)
           /\ view' = view /\ quiet' = quiet
  <1>. DEFINE fs == expireResolvedFindings(findings)
  <1>1. PICK forgot \in BOOLEAN :
           \E results : maybeSave(fs, Changed(fs, forgot), Throttled(0), results)
    BY DEF FinishPoll, pruneFindingCap
  <1>2. /\ Changed(fs, forgot) \in BOOLEAN /\ Throttled(0) \in BOOLEAN
        /\ loaded \in BOOLEAN
    BY DEF Changed, Throttled, SyncInv, TypeInv, TypeOK
  <1>3. findings' = fs
    BY <1>1, <1>2, SaveEffect
  <1>. QED
    BY <1>3 DEF FinishPoll, Memory, observer

\* A finding that is open on the topic is ongoing in memory.
TrackedInv ==
    \A id \in Ids : view[id].status = "ongoing" => Memory[id].status = "ongoing"

LEMMA TrackedStep ==
    ASSUME MaxFaults = 0, MaxStateSize = 0, MaxFindings = 0,
           SyncInv, TrackedInv, [Next]_vars
    PROVE  TrackedInv'
  <1>y. TypeOK
    BY DEF SyncInv, TypeInv
  <1>1. ASSUME NEW d \in TimeSteps, NEW s \in SuppressSets, BeginPoll(d, s)
        PROVE  TrackedInv'
    BY <1>1 DEF BeginPoll, TrackedInv, Memory, Tick
  <1>2. ASSUME NEW i \in left, CollectQuietly(i)
        PROVE  TrackedInv'
    <2>. DEFINE f == cluster[current][i]
    <2>1. /\ pc = "checks" /\ pc' = "checks" /\ view' = view
          /\ findings' = [findings EXCEPT ![f.id] = Seen(findings[f.id], f)]
      BY <1>2 DEF CollectQuietly, NextFinding, observer
    <2>2. Seen(findings[f.id], f).status = "ongoing"
      BY DEF Seen
    <2>. QED
      BY <1>y, <2>1, <2>2 DEF TrackedInv, Memory, TypeOK
  <1>3. ASSUME NEW i \in left, NEW outcome \in Outcomes,
               CollectAndPublish(i, outcome)
        PROVE  TrackedInv'
    <2>. DEFINE f  == cluster[current][i]
                st == AfterPublish(findings[f.id], f, outcome = "acked")
                m  == [id |-> f.id, status |-> "ongoing", score |-> f.score,
                       triage |-> TriageDue(findings[f.id], f)]
    <2>1. /\ pc = "checks" /\ pc' = "checks" /\ Deliver(m, outcome)
          /\ findings' = [findings EXCEPT ![f.id] = st]
      BY <1>3 DEF CollectAndPublish, NextFinding
    <2>2. st.status = "ongoing"
      BY DEF AfterPublish, Published, Seen
    <2>3. \A id \in Ids \ {f.id} : view'[id] = view[id]
      BY <1>y, <2>1 DEF Deliver, TypeOK
    <2>. QED
      BY <1>y, <2>1, <2>2, <2>3 DEF TrackedInv, Memory, TypeOK
  <1>4. ASSUME NEW id \in pending, NEW outcome \in Outcomes, Resolve(id, outcome)
        PROVE  TrackedInv'
    <2>. DEFINE st == AfterResolve(findings[id], outcome = "acked")
                m  == [id |-> id, status |-> "resolved", score |-> 0,
                       triage |-> FALSE]
    <2>1. /\ pc = "resolve" /\ pc' = "resolve" /\ Deliver(m, outcome)
          /\ findings' = [findings EXCEPT ![id] = st]
      BY <1>4 DEF Resolve
    <2>2. id \in Ids /\ findings[id] \in FindingState
      BY <1>y DEF TypeOK
    <2>3. /\ \A x \in Ids \ {id} : view'[x] = view[x]
          /\ outcome # "rejected" => view'[id].status = "resolved"
          /\ outcome = "rejected" => view'[id] = view[id]
      BY <1>y, <2>1, <2>2 DEF Deliver, TypeOK
    <2>4. outcome = "rejected" => st.status = findings[id].status
      BY <2>2 DEF AfterResolve, FindingState
    <2>. QED
      BY <1>y, <2>1, <2>2, <2>3, <2>4 DEF TrackedInv, Memory, TypeOK
  <1>5. CASE FinishPoll
    BY <1>5, EndExpires DEF TrackedInv, expireResolvedFindings, Drop, Resolved
  <1>6. CASE Memory' = Memory /\ view' = view
    BY <1>6 DEF TrackedInv
  <1>. QED
    BY <1>1, <1>2, <1>3, <1>4, <1>5, <1>6, MemoryStays DEF Next, PollStep

\* A finding the consumers believe open is one the monitor still tracks and
\* can close, as long as no memory is lost and no cap makes it forget.
THEOREM NothingOrphaned ==
    ASSUME MaxFaults = 0, MaxStateSize = 0, MaxFindings = 0
    PROVE  Spec => []NoOrphan
  <1>1. Init => TrackedInv
    BY DEF Init, TrackedInv
  <1>2. SyncInv /\ TrackedInv /\ [Next]_vars => TrackedInv'
    BY TrackedStep
  <1>3. TrackedInv => NoOrphan
    BY DEF TrackedInv, NoOrphan, Memory
  <1>. QED
    BY <1>1, <1>2, <1>3, SyncAlways, PTL DEF Spec

-----------------------------------------------------------------------------
(* Cooldowns.  The record of a finding has to outlive its cooldown: what   *)
(* remains of it and the age of the record add up to at most the longest   *)
(* cooldown, so that a record whose retention is over has none left.       *)

CoolInv ==
    \A id \in Ids :
        /\ quiet[id] <= Memory[id].cooldown
        /\ \/ Memory[id].cooldown < 0
           \/ Memory[id].cooldown + Memory[id].lastSeen <= MaxCooldown

\* The record st keeps the cooldown q that was announced.
Cools(st, q) ==
    /\ q <= st.cooldown
    /\ st.cooldown < 0 \/ st.cooldown + st.lastSeen <= MaxCooldown

LEMMA CoolInvCools == CoolInv <=> \A id \in Ids : Cools(Memory[id], quiet[id])
  BY DEF CoolInv, Cools

LEMMA TickCools ==
    ASSUME NEW st \in FindingState, NEW q \in -1..MaxCooldown, NEW d \in Nat \ {0},
           Cools(st, q), NEW rt,
           rt.cooldown = Remaining(st.cooldown, d),
           rt.lastSeen = Older(st.lastSeen, d)
    PROVE  Cools(rt, Remaining(q, d))
  <1>. DEFINE c == st.cooldown
              a == st.lastSeen
  <1>1. c \in -1..MaxCooldown /\ a \in 0..MaxAge /\ q <= c
        /\ (c < 0 \/ c + a <= MaxCooldown) /\ MaxCooldown \in Nat /\ MaxAge \in Nat
    BY ConstantTypes DEF FindingState, Cools
  <1>2. rt.cooldown = Remaining(c, d) /\ rt.lastSeen = Older(a, d)
    OBVIOUS
  <1>. HIDE DEF c, a
  <1>3. /\ Remaining(q, d) <= Remaining(c, d)
        /\ Remaining(c, d) < 0 \/ Remaining(c, d) + Older(a, d) <= MaxCooldown
    BY <1>1 DEF Remaining, Older
  <1>. QED
    BY <1>2, <1>3 DEF Cools

\* A record that is seen or closed again only gets younger.
LEMMA FreshCools ==
    ASSUME NEW st \in FindingState, NEW q \in -1..MaxCooldown, Cools(st, q),
           NEW rt \in FindingState, rt.cooldown = st.cooldown,
           rt.lastSeen = 0 \/ rt.lastSeen = st.lastSeen
    PROVE  Cools(rt, q)
  <1>1. st.cooldown \in -1..MaxCooldown /\ st.lastSeen \in 0..MaxAge
        /\ MaxCooldown \in Nat /\ MaxAge \in Nat
    BY ConstantTypes DEF FindingState
  <1>. QED
    BY <1>1 DEF Cools

LEMMA CoolStep ==
    ASSUME MaxFaults = 0, MaxStateSize = 0, MaxFindings = 0,
           Retention = 0 \/ Retention >= MaxCooldown,
           SyncInv, CoolInv, [Next]_vars
    PROVE  CoolInv'
  <1>y. TypeOK /\ TypeOK'
    BY TypeStep DEF SyncInv, TypeInv
  <1>h. \A id \in Ids : Cools(Memory[id], quiet[id])
    BY CoolInvCools
  <1>s. SUFFICES \A id \in Ids : Cools(Memory'[id], quiet'[id])
    BY DEF CoolInv, Cools
  <1>1. ASSUME NEW d \in TimeSteps, NEW s \in SuppressSets, BeginPoll(d, s),
               NEW id \in Ids
        PROVE  Cools(Memory'[id], quiet'[id])
    <2>1. /\ Memory = findings /\ Memory' = Tick(findings, d)
          /\ quiet'[id] = Remaining(quiet[id], d)
      BY <1>1 DEF BeginPoll, Memory
    <2>2. findings[id] \in FindingState /\ quiet[id] \in -1..MaxCooldown
          /\ d \in Nat \ {0}
      BY <1>y, ConfigAssumption DEF TypeOK
    <2>3. Cools(findings[id], quiet[id])
      BY <1>h, <2>1
    <2>. DEFINE st == findings[id]
                rt == Tick(findings, d)[id]
    <2>5. CASE st.status # "absent"
      <3>1. /\ rt.cooldown = Remaining(st.cooldown, d)
            /\ rt.lastSeen = Older(st.lastSeen, d)
        BY <2>5 DEF Tick
      <3>2. Cools(rt, Remaining(quiet[id], d))
        BY <2>2, <2>3, <3>1, TickCools
      <3>. QED
        BY <2>1, <3>2
    <2>6. CASE st.status = "absent"
      <3>1. Tick(findings, d)[id] = st
        BY <2>6 DEF Tick
      <3>2. Remaining(quiet[id], d) <= quiet[id]
        BY <2>2, ConstantTypes DEF Remaining
      <3>3. Cools(st, Remaining(quiet[id], d))
        <4>1. /\ st.cooldown \in Int /\ quiet[id] \in Int
              /\ Remaining(quiet[id], d) \in Int
          BY <2>2, ConstantTypes DEF FindingState, Remaining
        <4>. QED
          BY <2>3, <3>2, <4>1 DEF Cools
      <3>. QED
        BY <2>1, <3>1, <3>3
    <2>. QED
      BY <2>5, <2>6
  <1>2. ASSUME NEW i \in left, CollectQuietly(i), NEW id \in Ids
        PROVE  Cools(Memory'[id], quiet'[id])
    <2>. DEFINE f == cluster[current][i]
    <2>1. /\ pc = "checks" /\ pc' = "checks" /\ quiet' = quiet
          /\ findings' = [findings EXCEPT ![f.id] = Seen(findings[f.id], f)]
      BY <1>2 DEF CollectQuietly, NextFinding, observer
    <2>2. Memory = findings /\ Memory' = findings'
      BY <2>1 DEF Memory
    <2>3. CASE id = f.id
      <3>1. findings'[id] = Seen(findings[id], f)
        BY <1>y, <2>1, <2>3 DEF TypeOK
      <3>2. Seen(findings[id], f).cooldown = findings[id].cooldown
            /\ Seen(findings[id], f).lastSeen = 0
        BY DEF Seen
      <3>. QED
        BY <1>y, <1>h, <2>1, <2>2, <3>1, <3>2, FreshCools DEF TypeOK
    <2>4. CASE id # f.id
      BY <1>y, <1>h, <2>1, <2>2, <2>4 DEF TypeOK
    <2>. QED
      BY <2>3, <2>4
  <1>3. ASSUME NEW i \in left, NEW outcome \in Outcomes,
               CollectAndPublish(i, outcome), NEW id \in Ids
        PROVE  Cools(Memory'[id], quiet'[id])
    <2>. DEFINE f  == cluster[current][i]
                due == TriageDue(findings[f.id], f)
                st == AfterPublish(findings[f.id], f, outcome = "acked")
                m  == [id |-> f.id, status |-> "ongoing", score |-> f.score,
                       triage |-> due]
    <2>1. /\ pc = "checks" /\ pc' = "checks" /\ Deliver(m, outcome)
          /\ findings' = [findings EXCEPT ![f.id] = st]
      BY <1>3 DEF CollectAndPublish, NextFinding
    <2>2. Memory = findings /\ Memory' = findings'
      BY <2>1 DEF Memory
    <2>3. /\ CooldownFor(m) = CooldownFor(f)
          /\ CooldownFor(f) \in 0..MaxCooldown
      BY CooldownForType DEF CooldownFor
    <2>4. quiet' = IF outcome = "acked" /\ due
                   THEN [quiet EXCEPT ![f.id] = CooldownFor(f)] ELSE quiet
      BY <2>1, <2>3 DEF Deliver
    <2>5. CASE id = f.id
      <3>1. findings'[id] = st /\ st \in FindingState
        BY <1>y, <2>1, <2>5 DEF TypeOK
      <3>2. st.lastSeen = 0
        BY DEF AfterPublish, Published, Seen
      <3>3. CASE outcome = "acked" /\ due
        <4>1. st.cooldown = CooldownFor(f) /\ quiet'[id] = CooldownFor(f)
          BY <1>y, <2>4, <2>5, <3>3 DEF AfterPublish, Published, TypeOK
        <4>. QED
          BY <2>2, <2>3, <3>1, <3>2, <4>1, ConstantTypes DEF Cools
      <3>4. CASE ~(outcome = "acked" /\ due)
        <4>1. st.cooldown = findings[id].cooldown /\ quiet' = quiet
          BY <2>4, <2>5, <3>4 DEF AfterPublish, Published, Seen
        <4>. QED
          BY <1>y, <1>h, <2>2, <3>1, <3>2, <4>1, FreshCools DEF TypeOK
      <3>. QED
        BY <3>3, <3>4
    <2>6. CASE id # f.id
      <3>1. findings'[id] = findings[id] /\ quiet'[id] = quiet[id]
        BY <1>y, <2>1, <2>4, <2>6 DEF TypeOK
      <3>. QED
        BY <1>h, <2>2, <3>1
    <2>. QED
      BY <2>5, <2>6
  <1>4. ASSUME NEW x \in pending, NEW outcome \in Outcomes, Resolve(x, outcome),
               NEW id \in Ids
        PROVE  Cools(Memory'[id], quiet'[id])
    <2>. DEFINE st == AfterResolve(findings[x], outcome = "acked")
                m  == [id |-> x, status |-> "resolved", score |-> 0,
                       triage |-> FALSE]
    <2>1. /\ pc = "resolve" /\ pc' = "resolve" /\ Deliver(m, outcome)
          /\ findings' = [findings EXCEPT ![x] = st]
      BY <1>4 DEF Resolve
    <2>2. Memory = findings /\ Memory' = findings'
      BY <2>1 DEF Memory
    <2>3. quiet' = quiet
      BY <2>1 DEF Deliver
    <2>4. CASE id = x
      <3>1. findings'[id] = st /\ findings[id] \in FindingState /\ st \in FindingState
        BY <1>y, <2>1, <2>4 DEF TypeOK
      <3>2. st.cooldown = findings[id].cooldown
            /\ (st.lastSeen = 0 \/ st.lastSeen = findings[id].lastSeen)
        BY <2>4, <3>1 DEF AfterResolve, Closed, FindingState
      <3>. QED
        BY <1>y, <1>h, <2>2, <2>3, <3>1, <3>2, FreshCools DEF TypeOK
    <2>5. CASE id # x
      BY <1>y, <1>h, <2>1, <2>2, <2>3, <2>5 DEF TypeOK
    <2>. QED
      BY <2>4, <2>5
  <1>5. ASSUME FinishPoll, NEW id \in Ids
        PROVE  Cools(Memory'[id], quiet'[id])
    <2>1. /\ Memory = findings /\ Memory' = expireResolvedFindings(findings)
          /\ quiet' = quiet
      BY <1>5, EndExpires
    <2>2. findings[id] \in FindingState /\ quiet[id] \in -1..MaxCooldown
      BY <1>y DEF TypeOK
    <2>3. CASE Memory'[id] = findings[id]
      BY <1>h, <2>1, <2>3
    <2>4. CASE Memory'[id] # findings[id]
      <3>1. /\ Memory'[id] = Absent
            /\ Retention > 0 /\ findings[id].lastSeen > Retention
        BY <2>1, <2>4 DEF expireResolvedFindings, Drop
      <3>2. findings[id].cooldown < 0
        <4>1. /\ findings[id].cooldown \in Int /\ findings[id].lastSeen \in Int
              /\ MaxCooldown \in Nat /\ Retention \in Nat
          BY <2>2, ConstantTypes DEF FindingState
        <4>2. Cools(findings[id], quiet[id])
          BY <1>h, <2>1
        <4>. QED
          BY <3>1, <4>1, <4>2 DEF Cools
      <3>3. quiet[id] <= -1
        <4>1. findings[id].cooldown \in Int /\ quiet[id] <= findings[id].cooldown
          BY <1>h, <2>1, <2>2, ConstantTypes DEF FindingState, Cools
        <4>. QED
          BY <2>2, <3>2, <4>1, ConstantTypes
      <3>. QED
        BY <2>1, <3>1, <3>3 DEF Cools, Absent
    <2>. QED
      BY <2>3, <2>4
  <1>6. CASE Memory' = Memory /\ quiet' = quiet
    BY <1>h, <1>6
  <1>. QED
    BY <1>1, <1>2, <1>3, <1>4, <1>5, <1>6, MemoryStays DEF Next, PollStep

\* No triage flag is put on the topic for a finding before the cooldown that
\* the last acknowledged one announced is over, as long as no memory is lost,
\* nothing is capped, and resolved findings are kept at least as long as the
\* longest cooldown.
THEOREM CooldownsRespected ==
    ASSUME MaxFaults = 0, MaxStateSize = 0, MaxFindings = 0,
           Retention = 0 \/ Retention >= MaxCooldown
    PROVE  Spec => CooldownRespected
  <1>. DEFINE Respected == sent'.id \in Ids /\ sent'.triage => quiet[sent'.id] < 0
  <1>1. Init => CoolInv
    BY DEF Init, CoolInv, Memory, newMonitorState, Absent
  <1>2. SyncInv /\ CoolInv /\ [Next]_vars => CoolInv'
    BY CoolStep
  <1>3. SyncInv /\ CoolInv /\ [Next]_vars => [Respected]_vars
    <2>. SUFFICES ASSUME SyncInv, CoolInv, Next, sent'.id \in Ids, sent'.triage
                  PROVE  quiet[sent'.id] < 0
      OBVIOUS
    <2>0. sent' # NoMessage
      BY ConfigAssumption DEF NoMessage
    <2>1. ASSUME NEW i \in left, NEW outcome \in Outcomes,
                 CollectAndPublish(i, outcome)
          PROVE  quiet[sent'.id] < 0
      <3>. DEFINE f == cluster[current][i]
      <3>1. /\ pc = "checks" /\ sent'.id = f.id
            /\ sent'.triage = TriageDue(findings[f.id], f)
        BY <2>0, <2>1 DEF CollectAndPublish, NextFinding, Deliver
      <3>2. findings[f.id].cooldown < 0 /\ f.id \in Ids
        BY <3>1 DEF TriageDue
      <3>3. quiet[f.id] <= findings[f.id].cooldown
        BY <3>1, <3>2 DEF CoolInv, Memory
      <3>4. quiet[f.id] \in Int /\ findings[f.id].cooldown \in Int
        BY <3>2, ConstantTypes DEF SyncInv, TypeInv, TypeOK, FindingState
      <3>5. quiet[f.id] < 0
        <4>. DEFINE q == quiet[f.id]
                    c == findings[f.id].cooldown
        <4>1. q \in Int /\ c \in Int /\ q <= c /\ c < 0
          BY <3>2, <3>3, <3>4
        <4>. HIDE DEF q, c
        <4>2. q < 0
          BY <4>1
        <4>. QED
          BY <4>2 DEF q
      <3>. QED
        BY <3>1, <3>5
    <2>2. ASSUME NEW id \in pending, NEW outcome \in Outcomes,
                 Resolve(id, outcome)
          PROVE  FALSE
      <3>1. sent'.triage = FALSE
        BY <2>0, <2>2 DEF Resolve, Deliver
      <3>. QED
        BY <3>1
    <2>. QED
      BY <2>0, <2>1, <2>2
      DEF Next, PollStep, BeginPoll, RunCheck, SkipSuppressed, CollectQuietly,
          EndChecks, FinishPoll, Start, ClusterChange, Signal, Shutdown, Crash
  <1>. QED
    BY <1>1, <1>2, <1>3, SyncAlways, PTL DEF Spec, CooldownRespected

-----------------------------------------------------------------------------
(* The refinement of StateRegister, with any number of crashes, failed     *)
(* loads and failed saves: a step that changes the findings is a Change, a *)
(* save a Save, a start an Open, and a stop or a crash a Close.            *)

LEMMA KeptType ==
    ASSUME NEW fs \in [Ids -> FindingState]
    PROVE  Kept(fs) \in [Ids -> [status : {"absent", "ongoing", "resolved"},
                                 score : 0..100, published : BOOLEAN,
                                 failed : BOOLEAN]]
  <1>. SUFFICES ASSUME NEW id \in Ids
                PROVE  Kept(fs)[id] \in
                          [status : {"absent", "ongoing", "resolved"},
                           score : 0..100, published : BOOLEAN, failed : BOOLEAN]
    BY DEF Kept
  <1>1. fs[id] \in FindingState
    OBVIOUS
  <1>. QED
    BY <1>1 DEF Kept, FindingState

LEMMA TickKept ==
    ASSUME NEW fs, NEW d PROVE Kept(Tick(fs, d)) = Kept(fs)
  BY DEF Kept, Tick

LEMMA KeepsStep ==
    ASSUME MaxStateSize = 0, TypeInv, [Next]_vars
    PROVE  [Store!Next]_(Store!vars)
  <1>y. TypeOK /\ PhaseOK /\ TypeOK'
    BY TypeStep DEF TypeInv
  <1>t. /\ findings \in [Ids -> FindingState] /\ findings' \in [Ids -> FindingState]
        /\ saved \in [Ids -> FindingState] /\ dirty \in BOOLEAN
        /\ loaded \in BOOLEAN
    BY <1>y DEF TypeOK
  <1>1. ASSUME NEW d \in TimeSteps, NEW s \in SuppressSets, BeginPoll(d, s)
        PROVE  UNCHANGED Store!vars
    <2>1. /\ pc # "down" /\ pc' # "down" /\ dirty' = dirty
          /\ findings' = Tick(findings, d) /\ saved' = Tick(saved, d)
      BY <1>1 DEF BeginPoll
    <2>2. Kept(findings') = Kept(findings) /\ Kept(saved') = Kept(saved)
      BY <2>1, TickKept
    <2>. QED
      BY <2>1, <2>2 DEF Store!vars
  <1>2. CASE /\ pc # "down" /\ pc' # "down" /\ dirty' = TRUE /\ saved' = saved
    <2>1. Store!Change
      BY <1>2, <1>t, KeptType DEF Store!Change
    <2>. QED
      BY <2>1 DEF Store!Next
  <1>3. CASE /\ pc # "down" <=> pc' # "down"
             /\ findings' = findings /\ dirty' = dirty /\ saved' = saved
    BY <1>3 DEF Store!vars
  <1>4. ASSUME NEW c \in todo, NEW r \in Results(c), RunCheck(c, r)
        PROVE  [Store!Next]_(Store!vars)
    <2>1. dirty' = dirty \/ dirty' = TRUE
      <3>1. PICK x \in BOOLEAN : dirty' \in {dirty, dirty \/ x}
        BY <1>4 DEF RunCheck
      <3>. QED
        BY <1>t, <3>1
    <2>2. /\ pc # "down" /\ pc' # "down" /\ findings' = findings /\ saved' = saved
      BY <1>4 DEF RunCheck, storeVars
    <2>. QED
      BY <1>2, <1>3, <2>1, <2>2
  <1>5. ASSUME \/ \E i \in left : CollectQuietly(i)
               \/ \E i \in left, outcome \in Outcomes :
                      CollectAndPublish(i, outcome)
               \/ \E id \in pending, outcome \in Outcomes : Resolve(id, outcome)
        PROVE  [Store!Next]_(Store!vars)
    BY <1>2, <1>5
    DEF CollectQuietly, CollectAndPublish, NextFinding, Resolve, storeVars
  <1>6. CASE FinishPoll
    <2>1. PICK fs \in pruneFindingCap(expireResolvedFindings(findings)),
               forgot \in BOOLEAN :
             \E results : maybeSave(fs, Changed(fs, forgot), Throttled(0), results)
      BY <1>6 DEF FinishPoll
    <2>2. Changed(fs, forgot) \in BOOLEAN /\ Throttled(0) \in BOOLEAN
      BY <1>y DEF Changed, Throttled, TypeOK
    <2>3. /\ findings' = fs
          /\ \/ dirty' = Changed(fs, forgot) /\ saved' = saved
             \/ dirty' = TRUE /\ saved' = saved
             \/ saved' = fs
      BY <1>t, <2>1, <2>2, SaveEffect
    <2>4. pc = "resolve" /\ pc' = "idle"
      BY <1>6 DEF FinishPoll
    <2>5. CASE saved' = fs
      <3>1. dirty' \in BOOLEAN
        BY <1>y DEF TypeOK
      <3>2. Store!Save
        BY <1>t, <2>3, <2>4, <2>5, <3>1, KeptType DEF Store!Save
      <3>. QED
        BY <3>2 DEF Store!Next
    <2>6. CASE dirty' = TRUE /\ saved' = saved
      BY <1>2, <2>4, <2>6
    <2>7. CASE dirty' = Changed(fs, forgot) /\ saved' = saved
      <3>1. CASE Changed(fs, forgot)
        BY <1>2, <2>2, <2>4, <2>7, <3>1
      <3>2. CASE ~Changed(fs, forgot)
        <4>1. ~dirty /\ fs = findings /\ ~dirty'
          BY <2>7, <3>2 DEF Changed
        <4>. QED
          BY <1>3, <1>t, <2>2, <2>3, <2>4, <2>7, <3>2, <4>1
      <3>. QED
        BY <3>1, <3>2
    <2>. QED
      BY <2>3, <2>5, <2>6, <2>7
  <1>7. ASSUME NEW ok \in BOOLEAN, Start(ok)
        PROVE  [Store!Next]_(Store!vars)
    <2>1. /\ pc = "down" /\ pc' = "start" /\ dirty' = FALSE /\ saved' = saved
          /\ findings' = saved \/ findings' = newMonitorState
      BY <1>7 DEF Start
    <2>2. Store!Open
      BY <1>t, <2>1, KeptType DEF Store!Open
    <2>. QED
      BY <2>2 DEF Store!Next
  <1>8. CASE Shutdown \/ Crash
    <2>1. pc # "down" /\ pc' = "down" /\ (saved' = saved \/ saved' = findings)
      <3>1. CASE Crash
        BY <3>1 DEF Crash, storeVars
      <3>2. CASE Shutdown
        <4>1. PICK results :
                 maybeSave(findings, dirty, Throttled(WriteInterval), results)
          BY <3>2 DEF Shutdown
        <4>2. Throttled(WriteInterval) \in BOOLEAN
          BY DEF Throttled
        <4>3. saved' = saved \/ saved' = findings
          BY <1>t, <4>1, <4>2, SaveEffect
        <4>. QED
          BY <3>2, <4>3 DEF Shutdown
      <3>. QED
        BY <1>8, <3>1, <3>2
    <2>2. Store!Close
      BY <2>1 DEF Store!Close
    <2>. QED
      BY <2>2 DEF Store!Next
  <1>. QED
    BY <1>1, <1>3, <1>4, <1>5, <1>6, <1>7, <1>8
    DEF Next, PollStep, SkipSuppressed, NextFinding, EndChecks, ClusterChange,
        Signal, vars, storeVars

\* Polls, throttled and failed saves, stops, crashes and restarts use the
\* ConfigMap as the register that state.go makes of it, as long as no state is
\* too large to store.
THEOREM MonitorKeepsState ==
    ASSUME MaxStateSize = 0
    PROVE  Spec => KeepsState
  <1>1. Init => Store!Init
    <2>. SUFFICES ASSUME Init PROVE Store!Init
      OBVIOUS
    <2>1. pc = "down" /\ saved = newMonitorState
      BY DEF Init
    <2>. QED
      BY <2>1 DEF Store!Init
  <1>2. TypeInv /\ [Next]_vars => [Store!Next]_(Store!vars)
    BY KeepsStep
  <1>. QED
    BY <1>1, <1>2, TypeAlways, PTL DEF Spec, KeepsState, Store!Spec
=============================================================================
