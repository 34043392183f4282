------------------------- MODULE CheckRunnerProofs -------------------------
(***************************************************************************)
(* Theorems about CheckRunner, for any number of goroutines, checks and    *)
(* abandoned goroutines.                                                   *)
(***************************************************************************)
EXTENDS CheckRunner, TLAPS

Slot == [job : {"none", "list", "check"}, snap : Slots \cup {NoSlot},
         ok : SUBSET (1..Checks), check : 0..Checks,
         state : {"free", "running", "sent"}, complete : BOOLEAN]

\* What a snapshot may hold for: the checks that read it.
Readers == (1..Checks) \ Independent

\* Between polls, and while the cluster is listed, no check has run.
BeforeChecks == pc \in {"idle", "listing"} => check = 1 /\ complete = TRUE

\* The goroutine main waits for is the one it made: it fills this poll's
\* snapshot, or runs the check whose turn it is on that snapshot.
WorkerInv ==
    /\ pc = "listing" => /\ slot[worker].job = "list"
                         /\ slot[worker].state # "free"
                         /\ snap = worker
    /\ pc = "waiting" => /\ slot[worker].job = "check"
                         /\ slot[worker].state # "free"
                         /\ slot[worker].check = check
                         /\ slot[worker].ok = ok
                         /\ slot[worker].snap = snap
                         /\ check <= Checks

\* A listing fills the snapshot named after it and lists for checks that read
\* it; a check is complete only if its inputs were listed.
SlotInv ==
    \A s \in Slots :
        /\ slot[s].job = "list" => slot[s].snap = s /\ slot[s].ok \subseteq Readers
        /\ slot[s].complete => /\ slot[s].job = "check"
                               /\ slot[s].check \in slot[s].ok \cup Independent

RunnerInv ==
    TypeOK /\ BeforeChecks /\ WorkerInv /\ SlotInv /\ NoSnapshotRace

LEMMA FreeType == Free \in Slot
  BY RunnerAssumption DEF Free, Slot

\* TypeOK with the record of a goroutine under its name.
LEMMA TypeFacts ==
    ASSUME TypeOK
    PROVE  /\ slot \in [Slots -> Slot]
           /\ pc \in {"listing", "waiting"} => worker \in Slots
           /\ pc \notin {"listing", "waiting"} => worker = NoSlot
           /\ \A s \in Slots : slot[s] \in Slot
  BY DEF TypeOK, Slot

LEMMA RunnerInit == Init => RunnerInv
  <1>. SUFFICES ASSUME Init PROVE RunnerInv
    OBVIOUS
  <1>1. slot \in [Slots -> Slot]
    BY FreeType DEF Init
  <1>2. timed \in BOOLEAN /\ expired \in BOOLEAN /\ complete \in BOOLEAN
    BY DEF Init
  <1>3. check \in 1..(Checks + 1) /\ ok \subseteq 1..Checks
    BY RunnerAssumption DEF Init
  <1>4. pc = "idle" /\ worker = NoSlot /\ snap = NoSlot
    BY DEF Init
  <1>5. TypeOK
    BY <1>1, <1>2, <1>3, <1>4 DEF TypeOK, Slot
  <1>6. BeforeChecks
    BY DEF Init, BeforeChecks
  <1>7. \A s \in Slots : /\ slot[s].job = "none" /\ slot[s].state = "free"
                         /\ slot[s].complete = FALSE
    BY DEF Init, Free
  <1>. QED
    BY <1>4, <1>5, <1>6, <1>7
    DEF RunnerInv, WorkerInv, SlotInv, NoSnapshotRace, Running

\* A step of any kind keeps the invariant.
LEMMA RunnerStep == RunnerInv /\ [Next]_vars => RunnerInv'
  <1>. SUFFICES ASSUME RunnerInv, [Next]_vars PROVE RunnerInv'
    OBVIOUS
  <1>. USE RunnerAssumption DEF RunnerInv
  <1>0. /\ slot \in [Slots -> Slot]
        /\ pc \in {"listing", "waiting"} => worker \in Slots
        /\ pc \notin {"listing", "waiting"} => worker = NoSlot
        /\ \A s \in Slots : slot[s] \in Slot
    BY TypeFacts
  <1>1. ASSUME NEW s \in Slots, BuildSnapshot(s) PROVE RunnerInv'
    <2>. DEFINE new == [Free EXCEPT !.job = "list", !.snap = s,
                                    !.state = "running"]
    <2>1. /\ pc' = "listing" /\ worker' = s /\ snap' = s /\ ok' = {}
          /\ expired' \in BOOLEAN /\ complete' = TRUE /\ check' = 1
          /\ timed' = timed /\ slot' = [slot EXCEPT ![s] = new]
      BY <1>1 DEF BuildSnapshot
    <2>2. /\ new \in Slot /\ new.job = "list" /\ new.snap = s /\ new.ok = {}
          /\ new.state = "running" /\ ~new.complete
      BY FreeType DEF Slot, Free
    <2>3. slot' \in [Slots -> Slot]
      BY <1>0, <2>1, <2>2
    <2>4. TypeOK'
      BY <2>1, <2>3 DEF TypeOK, Slot
    <2>5. slot'[s] = new /\ \A t \in Slots \ {s} : slot'[t] = slot[t]
      BY <1>0, <2>1
    <2>6. \A t \in Slots : slot[t].state # "free" => slot[t].snap # s
      BY <1>1 DEF BuildSnapshot, Unused
    <2>. HIDE DEF new
    <2>7. NoSnapshotRace'
      BY <1>0, <2>1, <2>2, <2>5, <2>6 DEF NoSnapshotRace, Running, SlotInv
    <2>8. SlotInv'
      BY <2>2, <2>5 DEF SlotInv
    <2>. QED
      BY <2>1, <2>2, <2>4, <2>5, <2>7, <2>8 DEF BeforeChecks, WorkerInv
  <1>2. ASSUME NEW s \in Slots, StartCheck(s) PROVE RunnerInv'
    <2>. DEFINE new == [job |-> "check", snap |-> snap, ok |-> ok,
                        check |-> check, state |-> "running", complete |-> FALSE]
    <2>1. /\ pc = "checks" /\ pc' = "waiting" /\ worker' = s
          /\ expired' \in BOOLEAN /\ check <= Checks
          /\ UNCHANGED <<timed, check, snap, ok, complete>>
          /\ slot' = [slot EXCEPT ![s] = new]
      BY <1>2 DEF StartCheck
    <2>2. new \in Slot
      BY <2>1 DEF Slot, TypeOK
    <2>3. slot' \in [Slots -> Slot]
      BY <1>0, <2>1, <2>2
    <2>4. TypeOK'
      BY <2>1, <2>3 DEF TypeOK, Slot
    <2>5. slot'[s] = new /\ \A t \in Slots \ {s} : slot'[t] = slot[t]
      BY <1>0, <2>1
    <2>7. NoSnapshotRace'
      BY <2>1, <2>5 DEF NoSnapshotRace, Running
    <2>8. SlotInv'
      BY <2>5 DEF SlotInv
    <2>. QED
      BY <2>1, <2>4, <2>5, <2>7, <2>8 DEF BeforeChecks, WorkerInv
  <1>3. ASSUME NEW s \in Slots, CheckDone(s) PROVE RunnerInv'
    <2>1. /\ pc = "waiting" /\ pc' = "checks" /\ s = worker
          /\ check' = check + 1 /\ worker' = NoSlot
          /\ complete' = (complete /\ slot[s].complete)
          /\ UNCHANGED <<timed, snap, ok, expired>>
          /\ slot' = [slot EXCEPT ![s] = Free]
      BY <1>3 DEF CheckDone, ResultFrom
    <2>2. check' \in 1..(Checks + 1) /\ complete' \in BOOLEAN
      BY <1>0, <2>1 DEF WorkerInv, TypeOK, Slot
    <2>3. slot' \in [Slots -> Slot]
      BY <1>0, <2>1, FreeType
    <2>4. TypeOK'
      BY <2>1, <2>2, <2>3 DEF TypeOK, Slot
    <2>5. slot'[s] = Free /\ \A t \in Slots \ {s} : slot'[t] = slot[t]
      BY <1>0, <2>1
    <2>6. NoSnapshotRace' /\ SlotInv'
      BY <2>1, <2>5 DEF NoSnapshotRace, SlotInv, Running, Free
    <2>. QED
      BY <2>1, <2>4, <2>6 DEF BeforeChecks, WorkerInv
  <1>4. CASE SnapshotDone
    <2>1. /\ pc = "listing" /\ pc' = "checks" /\ worker' = NoSlot
          /\ ok' = slot[worker].ok
          /\ UNCHANGED <<timed, check, snap, expired, complete>>
          /\ slot' = [slot EXCEPT ![worker] = Free]
      BY <1>4 DEF SnapshotDone
    <2>2. worker \in Slots /\ ok' \subseteq 1..Checks
      BY <1>0, <2>1 DEF Slot
    <2>3. slot' \in [Slots -> Slot]
      BY <1>0, <2>1, FreeType
    <2>4. TypeOK'
      BY <2>1, <2>2, <2>3 DEF TypeOK, Slot
    <2>5. slot'[worker] = Free /\ \A t \in Slots \ {worker} : slot'[t] = slot[t]
      BY <1>0, <2>1, <2>2
    <2>6. NoSnapshotRace' /\ SlotInv'
      BY <2>1, <2>2, <2>5 DEF NoSnapshotRace, SlotInv, Running, Free, WorkerInv
    <2>. QED
      BY <2>1, <2>4, <2>6 DEF BeforeChecks, WorkerInv
  <1>5. CASE SnapshotTimeout
    BY <1>5 DEF SnapshotTimeout, TypeOK, BeforeChecks, WorkerInv, SlotInv,
                NoSnapshotRace, Running
  <1>6. CASE CheckTimeout
    <2>1. /\ pc = "waiting" /\ pc' = "checks" /\ worker' = NoSlot
          /\ check' = check + 1 /\ complete' \in BOOLEAN
          /\ UNCHANGED <<timed, snap, ok, expired, slot>>
      BY <1>6 DEF CheckTimeout
    <2>. QED
      BY <2>1 DEF TypeOK, BeforeChecks, WorkerInv, SlotInv, NoSnapshotRace, Running
  <1>7. CASE EndPoll
    <2>1. /\ pc = "checks" /\ pc' = "idle" /\ check' = 1 /\ complete' = TRUE
          /\ snap' = NoSlot /\ ok' = {} /\ expired' \in BOOLEAN
          /\ UNCHANGED <<timed, worker, slot>>
      BY <1>7 DEF EndPoll
    <2>. QED
      BY <2>1 DEF TypeOK, BeforeChecks, WorkerInv, SlotInv, NoSnapshotRace, Running
  <1>8. CASE Deadline
    <2>1. expired' \in BOOLEAN /\ UNCHANGED <<timed, pc, check, worker, snap, ok,
                                              complete, slot>>
      BY <1>8 DEF Deadline
    <2>. QED
      BY <2>1 DEF TypeOK, BeforeChecks, WorkerInv, SlotInv, NoSnapshotRace, Running
  <1>9. ASSUME NEW s \in Slots, NEW listed \in SUBSET Readers,
               FinishListing(s, listed)
        PROVE  RunnerInv'
    <2>. DEFINE new == [slot[s] EXCEPT !.state = "sent", !.ok = listed]
    <2>1. /\ slot[s].job = "list" /\ UNCHANGED mainVars
          /\ slot' = [slot EXCEPT ![s] = new]
      BY <1>9 DEF FinishListing
    <2>2. /\ new \in Slot /\ new.state = "sent" /\ new.job = "list"
          /\ new.snap = slot[s].snap /\ new.ok = listed
          /\ new.complete = slot[s].complete
      BY <1>0, <2>1 DEF Slot, Readers
    <2>3. slot' \in [Slots -> Slot]
      BY <1>0, <2>1, <2>2
    <2>4. TypeOK'
      BY <2>1, <2>3 DEF TypeOK, Slot, mainVars
    <2>5. slot'[s] = new /\ \A t \in Slots \ {s} : slot'[t] = slot[t]
      BY <1>0, <2>1
    <2>. HIDE DEF new
    <2>6. NoSnapshotRace' /\ SlotInv'
      BY <2>1, <2>2, <2>5 DEF NoSnapshotRace, SlotInv, Running, mainVars
    <2>7. WorkerInv'
      BY <1>0, <2>1, <2>2, <2>5 DEF WorkerInv, mainVars
    <2>. QED
      BY <2>1, <2>4, <2>6, <2>7 DEF BeforeChecks, mainVars
  <1>10. ASSUME NEW s \in Slots, NEW result \in BOOLEAN, FinishCheck(s, result)
         PROVE  RunnerInv'
    <2>. DEFINE new == [slot[s] EXCEPT !.state = "sent", !.complete = result]
    <2>1. /\ slot[s].job = "check" /\ UNCHANGED mainVars
          /\ slot' = [slot EXCEPT ![s] = new]
          /\ result => slot[s].check \in slot[s].ok \cup Independent
      BY <1>10 DEF FinishCheck, MayComplete
    <2>2. /\ new \in Slot /\ new.state = "sent" /\ new.job = "check"
          /\ new.snap = slot[s].snap /\ new.ok = slot[s].ok
          /\ new.check = slot[s].check /\ new.complete = result
      BY <1>0, <2>1 DEF Slot
    <2>3. slot' \in [Slots -> Slot]
      BY <1>0, <2>1, <2>2
    <2>4. TypeOK'
      BY <2>1, <2>3 DEF TypeOK, Slot, mainVars
    <2>5. slot'[s] = new /\ \A t \in Slots \ {s} : slot'[t] = slot[t]
      BY <1>0, <2>1
    <2>. HIDE DEF new
    <2>6. NoSnapshotRace' /\ SlotInv'
      BY <2>1, <2>2, <2>5 DEF NoSnapshotRace, SlotInv, Running, mainVars
    <2>7. WorkerInv'
      BY <1>0, <2>1, <2>2, <2>5 DEF WorkerInv, mainVars
    <2>. QED
      BY <2>1, <2>4, <2>6, <2>7 DEF BeforeChecks, mainVars
  <1>11. ASSUME NEW s \in Slots, Collect(s) PROVE RunnerInv'
    <2>1. /\ s # worker /\ UNCHANGED mainVars
          /\ slot' = [slot EXCEPT ![s] = Free]
      BY <1>11 DEF Collect
    <2>2. slot' \in [Slots -> Slot]
      BY <1>0, <2>1, FreeType
    <2>3. TypeOK'
      BY <2>1, <2>2 DEF TypeOK, Slot, mainVars
    <2>4. slot'[s] = Free /\ \A t \in Slots \ {s} : slot'[t] = slot[t]
      BY <1>0, <2>1
    <2>5. NoSnapshotRace' /\ SlotInv'
      BY <2>1, <2>4 DEF NoSnapshotRace, SlotInv, Running, Free, mainVars
    <2>6. WorkerInv'
      BY <1>0, <2>1, <2>4 DEF WorkerInv, mainVars
    <2>. QED
      BY <2>1, <2>3, <2>5, <2>6 DEF BeforeChecks, mainVars
  <1>12. CASE UNCHANGED vars
    BY <1>12 DEF vars, mainVars, TypeOK, BeforeChecks, WorkerInv, SlotInv,
                 NoSnapshotRace, Running
  <1>. QED
    BY <1>1, <1>2, <1>3, <1>4, <1>5, <1>6, <1>7, <1>8, <1>9, <1>10, <1>11,
       <1>12 DEF Next, MainStep, Finish, Readers

LEMMA RunnerAlways == Spec => []RunnerInv
  BY RunnerInit, RunnerStep, PTL DEF Spec

\* Every variable keeps its type; in particular main waits for a goroutine
\* exactly when it is in one of its two selects.
THEOREM RunnerTypeCorrect == Spec => []TypeOK
  <1>1. RunnerInv => TypeOK
    BY DEF RunnerInv
  <1>. QED
    BY <1>1, RunnerAlways, PTL

\* No snapshot is written by a listing and read by a check at the same time,
\* however many listings and checks of earlier polls were abandoned and still
\* run.
THEOREM SnapshotsDoNotRace == Spec => []NoSnapshotRace
  <1>1. RunnerInv => NoSnapshotRace
    BY DEF RunnerInv
  <1>. QED
    BY <1>1, RunnerAlways, PTL

\* The result main takes is that of the check it waits for, on the snapshot of
\* this poll.
THEOREM ResultIsItsOwn == Spec => AppliesOwnResult
  <1>. DEFINE Own == pc = "waiting" /\ pc' = "checks" =>
                        \A s \in Slots :
                            slot[s].state = "sent" /\ slot'[s] = Free
                                => slot[s].check = check /\ slot[s].snap = snap
  <1>1. RunnerInv /\ [Next]_vars => [Own]_vars
    <2>. SUFFICES ASSUME RunnerInv, Next, pc = "waiting", pc' = "checks",
                         NEW s \in Slots, slot[s].state = "sent",
                         slot'[s] = Free
                  PROVE  slot[s].check = check /\ slot[s].snap = snap
      OBVIOUS
    <2>1. /\ slot \in [Slots -> Slot] /\ worker \in Slots
          /\ \A t \in Slots : slot[t] \in Slot
      BY TypeFacts DEF RunnerInv
    <2>2. slot'[s] # slot[s]
      BY DEF Free
    <2>3. slot' # slot
      BY <2>2
    <2>4. slot' = [slot EXCEPT ![worker] = Free]
      BY <2>3 DEF Next, MainStep, BuildSnapshot, StartCheck, CheckDone, ResultFrom,
          SnapshotDone, SnapshotTimeout, CheckTimeout, EndPoll, Deadline, Finish,
          FinishListing, FinishCheck, Collect, mainVars
    <2>5. s = worker
      BY <2>1, <2>2, <2>4
    <2>. QED
      BY <2>5 DEF RunnerInv, WorkerInv
  <1>. QED
    BY <1>1, RunnerAlways, PTL DEF Spec, AppliesOwnResult

-----------------------------------------------------------------------------
(* The refinement of CheckSequence, less its fairness.                     *)

\* The steps of CheckSequence, without the promise that a poll ends.
SequenceSafety == Sequence!Init /\ [][Sequence!Next]_(Sequence!vars)

InChecks == pc \in {"checks", "waiting"}

\* A step inside a phase of the poll, or between two, that concludes nothing.
LEMMA SequenceStutters ==
    ASSUME InChecks' = InChecks, UNCHANGED <<check, complete>>,
           InChecks => ok' = ok
    PROVE  UNCHANGED Sequence!vars
  BY DEF InChecks, Sequence!vars

LEMMA SequenceStep ==
    ASSUME RunnerInv, [Next]_vars
    PROVE  [Sequence!Next]_(Sequence!vars)
  <1>0. TypeOK /\ BeforeChecks /\ WorkerInv /\ SlotInv
    BY DEF RunnerInv
  <1>1. ASSUME NEW s \in Slots, BuildSnapshot(s) PROVE UNCHANGED Sequence!vars
    BY <1>0, <1>1, SequenceStutters DEF BuildSnapshot, BeforeChecks, InChecks
  <1>2. ASSUME NEW s \in Slots, StartCheck(s) PROVE UNCHANGED Sequence!vars
    BY <1>2, SequenceStutters DEF StartCheck, InChecks
  <1>3. ASSUME NEW s \in Slots, CheckDone(s) PROVE Sequence!Next
    <2>1. /\ pc = "waiting" /\ pc' = "checks" /\ check' = check + 1
          /\ complete' = (complete /\ slot[s].complete) /\ ok' = ok
          /\ s = worker
      BY <1>3 DEF CheckDone, ResultFrom
    <2>2. slot[s].complete \in BOOLEAN /\ check <= Checks
      BY <1>0, <2>1, TypeFacts DEF Slot, WorkerInv
    <2>3. slot[s].complete => check \in ok \cup Independent
      BY <1>0, <2>1 DEF WorkerInv, SlotInv
    <2>4. Sequence!Run(slot[s].complete)
      BY <2>1, <2>2, <2>3 DEF Sequence!Run
    <2>. QED
      BY <2>2, <2>4 DEF Sequence!Next
  <1>4. CASE SnapshotDone
    <2>1. /\ pc = "listing" /\ pc' = "checks" /\ UNCHANGED <<check, complete>>
          /\ ok' = slot[worker].ok
      BY <1>4 DEF SnapshotDone
    <2>2. check = 1 /\ complete = TRUE /\ ok' \in SUBSET Readers
      BY <1>0, <2>1, TypeFacts DEF BeforeChecks, WorkerInv, SlotInv
    <2>3. Sequence!Begin(ok')
      BY <2>1, <2>2 DEF Sequence!Begin
    <2>. QED
      BY <2>2, <2>3 DEF Sequence!Next, Readers
  <1>5. CASE SnapshotTimeout
    <2>1. /\ pc = "listing" /\ pc' = "checks" /\ UNCHANGED <<check, complete>>
          /\ ok' = {}
      BY <1>5 DEF SnapshotTimeout
    <2>2. Sequence!Begin({})
      BY <1>0, <2>1 DEF Sequence!Begin, BeforeChecks
    <2>. QED
      BY <2>2 DEF Sequence!Next
  <1>6. CASE CheckTimeout
    <2>1. /\ pc = "waiting" /\ pc' = "checks" /\ check' = check + 1
          /\ ~complete' /\ complete' \in BOOLEAN /\ ok' = ok
      BY <1>6 DEF CheckTimeout
    <2>2. check <= Checks
      BY <1>0, <2>1 DEF WorkerInv
    <2>3. complete' = (complete /\ FALSE)
      BY <2>1
    <2>4. Sequence!Run(FALSE)
      BY <2>1, <2>2, <2>3 DEF Sequence!Run
    <2>. QED
      BY <2>4 DEF Sequence!Next
  <1>7. CASE EndPoll
    <2>1. Sequence!End
      BY <1>7 DEF EndPoll, Sequence!End
    <2>. QED
      BY <2>1 DEF Sequence!Next
  <1>8. CASE Deadline
    BY <1>8, SequenceStutters DEF Deadline, InChecks
  <1>9. ASSUME NEW s \in Slots, Finish(s) \/ Collect(s)
        PROVE  UNCHANGED Sequence!vars
    BY <1>9, SequenceStutters
    DEF Finish, FinishListing, FinishCheck, Collect, mainVars, InChecks
  <1>10. CASE UNCHANGED vars
    BY <1>10, SequenceStutters DEF vars, mainVars, InChecks
  <1>. QED
    BY <1>1, <1>2, <1>3, <1>4, <1>5, <1>6, <1>7, <1>8, <1>9, <1>10
    DEF Next, MainStep

\* Whatever goroutines are abandoned and whatever they still do, the checks of a
\* poll run in turn, each once, on the lists of this poll, and none is complete
\* without its lists: the safety part of RunsInSequence.
THEOREM RunsInSequenceSafely == Spec => SequenceSafety
  <1>1. Init => Sequence!Init
    BY DEF Init, Sequence!Init
  <1>2. RunnerInv /\ [Next]_vars => [Sequence!Next]_(Sequence!vars)
    BY SequenceStep
  <1>. QED
    BY <1>1, <1>2, RunnerAlways, PTL DEF Spec, SequenceSafety
=============================================================================
