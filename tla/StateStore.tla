---------------------------- MODULE StateStore ----------------------------
(***************************************************************************)
(* state.go: how the monitor's state gets into the state ConfigMap and     *)
(* back, one API call at a time.  Load and Save run on the main goroutine, *)
(* but the ConfigMap is the API server's: others may edit or delete it     *)
(* between any two calls, any call may fail, and a write may be applied    *)
(* although its answer is lost.                                            *)
(*                                                                         *)
(* Of the resourceVersion only its comparison matters: the copy the store  *)
(* keeps is current or stale, and an Update of a stale copy is refused as  *)
(* a conflict.  The monitor's state is a counter of the changes made to    *)
(* it, the fresh state being 0.                                            *)
(***************************************************************************)
EXTENDS Integers

CONSTANTS
    MaxState,       \* bound: changes of the monitor's state
    MaxLoadErrors,  \* bound: Gets and Creates that fail while loading
    MaxEdits,       \* bound: edits by others
    MaxDeletes      \* bound: deletions by others

ASSUME StoreAssumption ==
    {MaxState, MaxLoadErrors, MaxEdits, MaxDeletes} \subseteq Nat

stateSaveConflictRetries == 3

\* What data["state.json"] holds: nothing, something this version cannot
\* read, or a state.
Empty        == -1
Incompatible == -2
Data         == {Empty, Incompatible} \cup (0..MaxState)

VARIABLES
    object,      \* the ConfigMap: [exists, data]
    pc,          \* "down" | "load" | "create" | "idle" | "get" | "update"
    state,       \* MonitorState in memory
    dirty,       \* it differs from what was saved last
    cached,      \* s.configMap: "nil", or a copy that is "current" or "stale"
    writeable,   \* s.writeable
    attempt,     \* of Save
    loadErrors, edits, deletes,
    touched      \* observer: others changed the object since this process
                 \* last read or wrote it, or it never did either

server  == <<object, edits, deletes>>
process == <<state, dirty, cached, writeable>>
vars == <<server, pc, process, attempt, loadErrors, touched>>

Init ==
    /\ object \in [exists : {TRUE}, data : {Empty, Incompatible, 0}]
                  \cup [exists : {FALSE}, data : {Empty}]
    /\ pc = "down"
    /\ state = 0 /\ dirty = FALSE /\ cached = "nil" /\ writeable = TRUE
    /\ attempt = 0
    /\ loadErrors = 0 /\ edits = 0 /\ deletes = 0
    /\ touched = TRUE

\* The object as a write of d leaves it.
Written(d) == [exists |-> TRUE, data |-> d]

\* Someone else's write, or one whose answer was lost, outdates the copy.
Outdated == IF cached = "current" THEN "stale" ELSE cached

-----------------------------------------------------------------------------
(* NewStateStore and Load.                                                 *)

Start ==
    /\ pc = "down"
    /\ pc' = "load"
    /\ state' = 0 /\ dirty' = FALSE /\ cached' = "nil" /\ writeable' = TRUE
    /\ touched' = TRUE
    /\ UNCHANGED <<server, attempt, loadErrors>>

\* Mutant: an unreadable state does not block later writes.
LoadGet_Writeable ==
    /\ pc = "load" /\ object.exists
    /\ cached' = "current"
    /\ state' = IF object.data \in 0..MaxState THEN object.data ELSE 0
    /\ pc' = "idle"
    /\ touched' = FALSE
    /\ UNCHANGED <<server, dirty, writeable, attempt, loadErrors>>

\* The ConfigMap is there: its state is adopted; an empty one stands for a
\* fresh state, an unreadable one is kept and makes the store read-only.
LoadGet ==
    /\ pc = "load" /\ object.exists
    /\ cached' = "current"
    /\ state' = IF object.data \in 0..MaxState THEN object.data ELSE 0
    /\ writeable' = (object.data # Incompatible)
    /\ pc' = "idle"
    /\ touched' = FALSE
    /\ UNCHANGED <<server, dirty, attempt, loadErrors>>

LoadNotFound ==
    /\ pc = "load" /\ ~object.exists
    /\ pc' = "create"
    /\ UNCHANGED <<server, process, attempt, loadErrors, touched>>

LoadCreate ==
    /\ pc = "create" /\ ~object.exists
    /\ object' = Written(0)
    /\ cached' = "current"
    /\ pc' = "idle"
    /\ touched' = FALSE
    /\ UNCHANGED <<edits, deletes, state, dirty, writeable, attempt, loadErrors>>

\* The Get or the Create fails, the latter perhaps although it was applied:
\* main carries on with a fresh state and a store that may write.
LoadFails(applied) ==
    /\ pc \in {"load", "create"}
    /\ applied => pc = "create" /\ ~object.exists
    /\ \/ /\ loadErrors < MaxLoadErrors
          /\ loadErrors' = loadErrors + 1
       \/ /\ pc = "create" /\ object.exists     \* AlreadyExists
          /\ UNCHANGED loadErrors
    /\ object' = IF applied THEN Written(0) ELSE object
    /\ pc' = "idle"
    /\ UNCHANGED <<edits, deletes, process, attempt, touched>>

-----------------------------------------------------------------------------
(* Save.                                                                   *)

\* A poll changes the state.
Change ==
    /\ pc = "idle"
    /\ state < MaxState
    /\ state' = state + 1
    /\ dirty' = TRUE
    /\ UNCHANGED <<server, pc, cached, writeable, attempt, loadErrors, touched>>

SaveBegin ==
    /\ pc = "idle" /\ dirty
    /\ writeable
    /\ attempt' = 0
    /\ pc' = IF cached = "nil" THEN "get" ELSE "update"
    /\ UNCHANGED <<server, process, loadErrors, touched>>

SaveGet ==
    /\ pc = "get" /\ object.exists
    /\ cached' = "current"
    /\ pc' = "update"
    /\ UNCHANGED <<server, state, dirty, writeable, attempt, loadErrors, touched>>

\* The Get fails, or finds nothing: Save gives up.
SaveGetFails ==
    /\ pc = "get"
    /\ pc' = "idle"
    /\ UNCHANGED <<server, process, attempt, loadErrors, touched>>

SaveUpdate ==
    /\ pc = "update" /\ object.exists /\ cached = "current"
    /\ object' = Written(state)
    /\ cached' = "current"
    /\ dirty' = FALSE
    /\ touched' = FALSE
    /\ pc' = "idle"
    /\ UNCHANGED <<edits, deletes, state, writeable, attempt, loadErrors>>

\* Mutant: a retry does not read the object again.
SaveConflict_NoRefresh ==
    /\ pc = "update" /\ object.exists /\ cached = "stale"
    /\ attempt' = attempt + 1
    /\ pc' = IF attempt' < stateSaveConflictRetries THEN "update" ELSE "idle"
    /\ UNCHANGED <<server, process, loadErrors, touched>>

\* Mutant: one attempt too many.
SaveConflict_OneMore ==
    /\ pc = "update" /\ object.exists /\ cached = "stale"
    /\ cached' = "nil"
    /\ attempt' = attempt + 1
    /\ pc' = IF attempt <= stateSaveConflictRetries THEN "get" ELSE "idle"
    /\ UNCHANGED <<server, state, dirty, writeable, loadErrors, touched>>

\* The version is outdated: read it again, or give up after three attempts.
SaveConflict ==
    /\ pc = "update" /\ object.exists /\ cached = "stale"
    /\ cached' = "nil"
    /\ attempt' = attempt + 1
    /\ pc' = IF attempt' < stateSaveConflictRetries THEN "get" ELSE "idle"
    /\ UNCHANGED <<server, state, dirty, writeable, loadErrors, touched>>

\* Mutant: a write without an answer counts as done.
SaveUpdateFails_Clean(applied) ==
    /\ pc = "update"
    /\ applied => object.exists /\ cached = "current"
    /\ object' = IF applied THEN Written(state) ELSE object
    /\ cached' = IF applied THEN Outdated ELSE cached
    /\ pc' = "idle"
    /\ dirty' = FALSE
    /\ UNCHANGED <<edits, deletes, state, writeable, attempt, loadErrors,
                   touched>>

\* Any other failure, an object that is gone included: Save gives up, and
\* keeps the version it holds.  The write may have been applied.
SaveUpdateFails(applied) ==
    /\ pc = "update"
    /\ applied => object.exists /\ cached = "current"
    /\ object' = IF applied THEN Written(state) ELSE object
    /\ cached' = IF applied THEN Outdated ELSE cached
    /\ pc' = "idle"
    /\ UNCHANGED <<edits, deletes, state, dirty, writeable, attempt, loadErrors,
                   touched>>

-----------------------------------------------------------------------------
(* The rest of the world.                                                  *)

\* The process ends, in whatever it does.
Stop ==
    /\ pc # "down"
    /\ pc' = "down"
    /\ UNCHANGED <<server, process, attempt, loadErrors, touched>>

\* Someone else writes the ConfigMap, or creates it.
Edit(d) ==
    /\ edits < MaxEdits
    /\ edits' = edits + 1
    /\ object' = Written(d)
    /\ cached' = Outdated
    /\ touched' = TRUE
    /\ UNCHANGED <<deletes, pc, state, dirty, writeable, attempt, loadErrors>>

Delete ==
    /\ object.exists /\ deletes < MaxDeletes
    /\ deletes' = deletes + 1
    /\ object' = [exists |-> FALSE, data |-> Empty]
    /\ cached' = Outdated
    /\ touched' = TRUE
    /\ UNCHANGED <<edits, pc, state, dirty, writeable, attempt, loadErrors>>

LoadStep == LoadGet \/ LoadNotFound \/ LoadCreate
            \/ \E applied \in BOOLEAN : LoadFails(applied)

SaveStep == SaveBegin \/ SaveGet \/ SaveGetFails \/ SaveUpdate \/ SaveConflict
            \/ \E applied \in BOOLEAN : SaveUpdateFails(applied)

Next ==
    \/ Start \/ LoadStep
    \/ Change \/ SaveStep
    \/ Stop
    \/ \E d \in {Empty, Incompatible, 0} : Edit(d)
    \/ Delete

Spec == Init /\ [][Next]_vars

\* The main goroutine goes on and the process is restarted; a call that is
\* made again and again is answered some time; the pod is not restarted for
\* ever.
Fairness ==
    /\ WF_vars(Start) /\ WF_vars(LoadStep) /\ WF_vars(SaveStep)
    /\ SF_vars(SaveGet) /\ SF_vars(SaveUpdate) /\ SF_vars(SaveConflict)
    /\ <>[](pc # "down")

FairSpec == Spec /\ Fairness

-----------------------------------------------------------------------------
(* Properties.                                                             *)

\* Every variable has its type.
TypeOK ==
    /\ object \in [exists : BOOLEAN, data : Data]
    /\ pc \in {"down", "load", "create", "idle", "get", "update"}
    /\ state \in 0..MaxState /\ dirty \in BOOLEAN
    /\ cached \in {"nil", "current", "stale"}
    /\ writeable \in BOOLEAN /\ touched \in BOOLEAN
    /\ attempt \in 0..stateSaveConflictRetries
    /\ loadErrors \in 0..MaxLoadErrors
    /\ edits \in 0..MaxEdits /\ deletes \in 0..MaxDeletes
    /\ pc = "update" => cached # "nil"

\* While nobody else touches the ConfigMap, a state that is not marked dirty
\* is the stored one: after any mix of lost answers, conflicts and retries.
CleanMeansStored ==
    pc = "idle" /\ ~dirty /\ writeable /\ ~touched
        => /\ object.exists
           /\ object.data = IF state = 0 /\ object.data = Empty THEN Empty
                            ELSE state

\* This step is one of the monitor's own that changes the object.
MonitorWrites == object' # object /\ edits' = edits /\ deletes' = deletes

\* The monitor never replaces a stored state it cannot read.
RefusesToOverwrite == [][MonitorWrites => object.data # Incompatible]_vars

\* It never replaces one that it found there when it started.
RefusesWhatItRead ==
    [][MonitorWrites /\ ~touched => object.data # Incompatible]_vars

\* What the ConfigMap holds, for the register below.
Nothing == -3
Stored  == IF object.exists THEN object.data ELSE Nothing
Loaded  == pc \in {"idle", "get", "update"}

Register == INSTANCE StateRegister WITH
    States <- 0..MaxState, Fresh <- 0, Unusable <- {Empty, Incompatible},
    up <- Loaded, state <- IF Loaded THEN state ELSE 0,
    dirty <- Loaded /\ dirty, stored <- Stored, others <- edits + deletes

\* The calls of Load and Save, with their retries, conflicts and lost answers,
\* amount to a register: a state is stored as a whole, as it is in memory, and
\* taken for stored only in the step that stores it.
IsRegister == Register!Spec

\* A changed state is stored some time, however other writers interfere, as
\* long as the object is there and readable.
EventuallyStored ==
    []<>(~dirty \/ ~writeable \/ pc = "down" \/ ~object.exists)
=============================================================================
