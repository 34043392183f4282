-------------------------- MODULE StateStoreProofs --------------------------
(***************************************************************************)
(* Theorems about StateStore, for any number of changes, failed calls,     *)
(* edits and deletions.                                                    *)
(***************************************************************************)
EXTENDS StateStore, TLAPS

\* A process that loads its state has a fresh one and has read nothing yet.
LoadPhase ==
    pc \in {"load", "create"} => state = 0 /\ ~dirty /\ writeable /\ touched

\* Save runs on a changed state that may be written, and has attempts left.
SavePhase ==
    pc \in {"get", "update"} =>
        dirty /\ writeable /\ attempt < stateSaveConflictRetries

\* A store that may write has not read a state it cannot use.
ReadableInv == writeable /\ ~touched => object.data # Incompatible

StoreInv ==
    TypeOK /\ LoadPhase /\ SavePhase /\ ReadableInv /\ CleanMeansStored

LEMMA BoundTypes ==
    /\ MaxState \in Nat /\ MaxLoadErrors \in Nat
    /\ MaxEdits \in Nat /\ MaxDeletes \in Nat
  BY StoreAssumption

LEMMA WrittenType ==
    ASSUME NEW d \in Data PROVE Written(d) \in [exists : BOOLEAN, data : Data]
  BY DEF Written

LEMMA StoreInit == Init => StoreInv
  <1>. SUFFICES ASSUME Init PROVE StoreInv
    OBVIOUS
  <1>1. object \in [exists : BOOLEAN, data : Data]
    <2>1. {Empty, Incompatible, 0} \subseteq Data
      BY BoundTypes DEF Data
    <2>. QED
      BY <2>1 DEF Init
  <1>2. TypeOK
    <2>1. dirty \in BOOLEAN /\ writeable \in BOOLEAN /\ touched \in BOOLEAN
      BY DEF Init
    <2>2. state \in 0..MaxState /\ attempt \in 0..stateSaveConflictRetries
      BY BoundTypes DEF Init, stateSaveConflictRetries
    <2>3. loadErrors \in 0..MaxLoadErrors /\ edits \in 0..MaxEdits
          /\ deletes \in 0..MaxDeletes
      BY BoundTypes DEF Init
    <2>4. pc = "down" /\ cached = "nil"
      BY DEF Init
    <2>. QED
      BY <1>1, <2>1, <2>2, <2>3, <2>4 DEF TypeOK
  <1>. QED
    BY <1>2 DEF Init, StoreInv, LoadPhase, SavePhase, ReadableInv,
                CleanMeansStored

\* The object keeps its type: what a step writes is a state, or one of the
\* contents others may put there.
LEMMA ObjectStep ==
    ASSUME TypeOK, [Next]_vars
    PROVE  object' \in [exists : BOOLEAN, data : Data]
  <1>1. {0, state, Empty, Incompatible} \subseteq Data
    BY BoundTypes DEF TypeOK, Data
  <1>2. /\ Written(state) \in [exists : BOOLEAN, data : Data]
        /\ \A d \in {0, Empty, Incompatible} :
               Written(d) \in [exists : BOOLEAN, data : Data]
        /\ [exists |-> FALSE, data |-> Empty] \in [exists : BOOLEAN, data : Data]
    BY <1>1, WrittenType
  <1>. QED
    BY <1>2 DEF TypeOK, Next, vars, server, Start, LoadStep, LoadGet,
        LoadNotFound, LoadCreate, LoadFails, Change, SaveStep, SaveBegin, SaveGet,
        SaveGetFails, SaveUpdate, SaveConflict, SaveUpdateFails, Stop, Edit,
        Delete

LEMMA StoreStep == StoreInv /\ [Next]_vars => StoreInv'
  <1>. SUFFICES ASSUME StoreInv, [Next]_vars PROVE StoreInv'
    OBVIOUS
  <1>. USE BoundTypes
       DEF StoreInv, TypeOK, LoadPhase, SavePhase, ReadableInv, CleanMeansStored,
           stateSaveConflictRetries, server, process
  <1>0. object' \in [exists : BOOLEAN, data : Data]
    BY ObjectStep
  <1>1. CASE Start
    <2>1. /\ pc' = "load" /\ state' = 0 /\ cached' = "nil"
          /\ ~dirty' /\ writeable' /\ touched'
          /\ {dirty', writeable', touched'} \subseteq BOOLEAN
          /\ UNCHANGED <<edits, deletes, attempt, loadErrors>>
      BY <1>1 DEF Start
    <2>. QED
      BY <1>0, <2>1
  <1>2. CASE LoadGet
    BY <1>0, <1>2 DEF LoadGet, Data, Empty, Incompatible
  <1>3. CASE LoadNotFound
    BY <1>0, <1>3 DEF LoadNotFound
  <1>4. CASE LoadCreate
    <2>1. /\ pc' = "idle" /\ cached' = "current" /\ object' = Written(0)
          /\ state' = 0 /\ ~touched' /\ touched' \in BOOLEAN
          /\ UNCHANGED <<dirty, writeable, edits, deletes, attempt, loadErrors>>
      BY <1>4 DEF LoadCreate
    <2>. QED
      BY <1>0, <2>1 DEF Written, Incompatible
  <1>5. ASSUME NEW applied \in BOOLEAN, LoadFails(applied) PROVE StoreInv'
    BY <1>0, <1>5 DEF LoadFails
  <1>6. CASE Change
    BY <1>0, <1>6 DEF Change
  <1>7. CASE SaveBegin
    BY <1>0, <1>7 DEF SaveBegin
  <1>8. CASE SaveGet \/ SaveGetFails
    BY <1>0, <1>8 DEF SaveGet, SaveGetFails
  <1>9. CASE SaveUpdate
    <2>1. /\ pc' = "idle" /\ cached' = "current" /\ object' = Written(state)
          /\ ~dirty' /\ ~touched' /\ {dirty', touched'} \subseteq BOOLEAN
          /\ UNCHANGED <<state, writeable, edits, deletes, attempt, loadErrors>>
      BY <1>9 DEF SaveUpdate
    <2>. QED
      BY <1>0, <2>1 DEF Written, Empty, Incompatible
  <1>10. CASE SaveConflict
    BY <1>0, <1>10 DEF SaveConflict
  <1>11. ASSUME NEW applied \in BOOLEAN, SaveUpdateFails(applied) PROVE StoreInv'
    BY <1>0, <1>11 DEF SaveUpdateFails, Outdated, Written, Empty, Incompatible
  <1>12. CASE Stop
    BY <1>0, <1>12 DEF Stop
  <1>13. ASSUME NEW d \in {Empty, Incompatible, 0}, Edit(d) PROVE StoreInv'
    BY <1>0, <1>13 DEF Edit, Outdated
  <1>14. CASE Delete
    BY <1>0, <1>14 DEF Delete, Outdated
  <1>15. CASE UNCHANGED vars
    BY <1>15 DEF vars
  <1>. QED
    BY <1>1, <1>2, <1>3, <1>4, <1>5, <1>6, <1>7, <1>8, <1>9, <1>10, <1>11,
       <1>12, <1>13, <1>14, <1>15 DEF Next, LoadStep, SaveStep

LEMMA StoreAlways == Spec => []StoreInv
  BY StoreInit, StoreStep, PTL DEF Spec

\* Every variable of the store keeps its type: in particular Save never makes
\* a fourth attempt and never updates without a version.
THEOREM StoreTypeCorrect == Spec => []TypeOK
  <1>1. StoreInv => TypeOK
    BY DEF StoreInv
  <1>. QED
    BY <1>1, StoreAlways, PTL

\* While nobody else touches the ConfigMap, a state that is not marked dirty is
\* the stored one, after any number of lost answers, conflicts and retries.
THEOREM CleanStaysStored == Spec => []CleanMeansStored
  <1>1. StoreInv => CleanMeansStored
    BY DEF StoreInv
  <1>. QED
    BY <1>1, StoreAlways, PTL

\* A stored state that the process found unreadable when it started is never
\* replaced by it.
THEOREM NeverReplacesWhatItRead == Spec => RefusesWhatItRead
  <1>1. StoreInv /\ [Next]_vars
            => [MonitorWrites /\ ~touched => object.data # Incompatible]_vars
    <2>. SUFFICES ASSUME StoreInv, Next, MonitorWrites, ~touched,
                         object.data = Incompatible
                  PROVE  FALSE
      BY DEF vars
    <2>1. pc \notin {"load", "create", "get", "update"}
      BY DEF StoreInv, LoadPhase, SavePhase, ReadableInv
    <2>. QED
      BY <2>1 DEF StoreInv, TypeOK, MonitorWrites, Next, server, Start, LoadStep,
          LoadGet, LoadNotFound, LoadCreate, LoadFails, Change, SaveStep,
          SaveBegin, SaveGet, SaveGetFails, SaveUpdate, SaveConflict,
          SaveUpdateFails, Stop, Edit, Delete
  <1>. QED
    BY <1>1, StoreAlways, PTL DEF Spec, RefusesWhatItRead

-----------------------------------------------------------------------------
(* The refinement of StateRegister.  A step of Load or Save that ends the  *)
(* loading is an Open, one that changes the object a Save, and all others  *)
(* leave the register as it is.                                            *)

\* What the register sees of a step that neither loads nor stops nor writes.
LEMMA RegisterStutters ==
    ASSUME UNCHANGED <<object, state, dirty, edits, deletes>>, Loaded' = Loaded
    PROVE  UNCHANGED Register!vars
  BY DEF Register!vars, Stored

LEMMA RegisterStep ==
    ASSUME StoreInv, [Next]_vars
    PROVE  [Register!Next]_(Register!vars)
  <1>. USE DEF server, process
  <1>0. TypeOK /\ LoadPhase /\ SavePhase
    BY DEF StoreInv
  <1>1. CASE Start \/ LoadNotFound
    BY <1>1 DEF Start, LoadNotFound, Loaded, Stored, Register!vars
  <1>2. CASE LoadGet
    <2>1. Register!Open
      BY <1>0, <1>2
      DEF LoadGet, LoadPhase, TypeOK, Register!Open, Loaded, Stored
    <2>. QED
      BY <2>1 DEF Register!Next
  <1>3. CASE LoadCreate
    <2>1. Register!Open
      BY <1>0, <1>3
      DEF LoadCreate, LoadPhase, TypeOK, Register!Open, Loaded, Stored, Written
    <2>. QED
      BY <2>1 DEF Register!Next
  <1>4. ASSUME NEW applied \in BOOLEAN, LoadFails(applied)
        PROVE  Register!Next
    <2>1. Register!Open
      BY <1>0, <1>4
      DEF LoadFails, LoadPhase, TypeOK, Register!Open, Loaded, Stored, Written
    <2>. QED
      BY <2>1 DEF Register!Next
  <1>5. CASE Change
    <2>1. Register!Change
      BY <1>0, <1>5, BoundTypes
      DEF Change, TypeOK, Register!Change, Loaded, Stored
    <2>. QED
      BY <2>1 DEF Register!Next
  <1>6. CASE SaveBegin \/ SaveGet \/ SaveGetFails \/ SaveConflict
    <2>1. Loaded /\ Loaded'
      BY <1>6 DEF SaveBegin, SaveGet, SaveGetFails, SaveConflict, Loaded
    <2>2. UNCHANGED <<object, state, dirty, edits, deletes>>
      BY <1>6 DEF SaveBegin, SaveGet, SaveGetFails, SaveConflict
    <2>. QED
      BY <2>1, <2>2, RegisterStutters
  <1>7. CASE SaveUpdate
    <2>1. Register!Save
      BY <1>0, <1>7 DEF SaveUpdate, TypeOK, Register!Save, Loaded, Stored, Written
    <2>. QED
      BY <2>1 DEF Register!Next
  <1>8. ASSUME NEW applied \in BOOLEAN, SaveUpdateFails(applied)
        PROVE  [Register!Next]_(Register!vars)
    <2>1. CASE applied
      <3>1. Register!Save
        BY <1>0, <1>8, <2>1
        DEF SaveUpdateFails, TypeOK, Register!Save, Loaded, Stored, Written
      <3>. QED
        BY <3>1 DEF Register!Next
    <2>2. CASE ~applied
      BY <1>8, <2>2, RegisterStutters DEF SaveUpdateFails, Loaded
    <2>. QED
      BY <2>1, <2>2
  <1>9. CASE Stop
    <2>1. CASE Loaded
      <3>1. Register!Close
        BY <1>0, <1>9, <2>1 DEF Stop, TypeOK, Register!Close, Loaded, Stored
      <3>. QED
        BY <3>1 DEF Register!Next
    <2>2. CASE ~Loaded
      BY <1>9, <2>2, RegisterStutters DEF Stop, Loaded
    <2>. QED
      BY <2>1, <2>2
  <1>10. CASE (\E d \in {Empty, Incompatible, 0} : Edit(d)) \/ Delete
    <2>1. edits' + deletes' > edits + deletes
      BY <1>0, <1>10, BoundTypes DEF Edit, Delete, TypeOK
    <2>2. Stored' \in 0..MaxState \cup {Empty, Incompatible} \cup {Nothing}
      BY <1>10, BoundTypes DEF Edit, Delete, Stored, Written
    <2>3. UNCHANGED <<pc, state, dirty>>
      BY <1>10 DEF Edit, Delete
    <2>4. Register!OthersWrite
      BY <2>1, <2>2, <2>3 DEF Register!OthersWrite, Loaded
    <2>. QED
      BY <2>4 DEF Register!Next
  <1>11. CASE UNCHANGED vars
    BY <1>11, RegisterStutters DEF vars, Loaded
  <1>. QED
    BY <1>1, <1>2, <1>3, <1>4, <1>5, <1>6, <1>7, <1>8, <1>9, <1>10, <1>11
    DEF Next, LoadStep, SaveStep

\* However many calls, retries, conflicts and lost answers a Load or a Save
\* takes, the store is the register that the lifecycle of findings relies on.
THEOREM StoreIsRegister == Spec => IsRegister
  <1>1. Init => Register!Init
    <2>. SUFFICES ASSUME Init PROVE Register!Init
      OBVIOUS
    <2>1. ~Loaded /\ edits + deletes = 0
      BY DEF Init, Loaded
    <2>2. Stored \in 0..MaxState \cup {Empty, Incompatible} \cup {Nothing}
      <3>1. object.data \in {Empty, Incompatible, 0}
        BY DEF Init
      <3>2. 0 \in 0..MaxState
        BY BoundTypes
      <3>. QED
        BY <3>1, <3>2 DEF Stored
    <2>. QED
      BY <2>1, <2>2 DEF Register!Init
  <1>2. StoreInv /\ [Next]_vars => [Register!Next]_(Register!vars)
    BY RegisterStep
  <1>. QED
    BY <1>1, <1>2, StoreAlways, PTL DEF Spec, IsRegister, Register!Spec
=============================================================================
