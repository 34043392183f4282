--------------------------- MODULE StateRegister ---------------------------
(***************************************************************************)
(* What the lifecycle of findings relies on when it keeps its state in a   *)
(* ConfigMap, whatever calls, retries and conflicts this takes (state.go)  *)
(* and whenever it is done (maybeSave): the stored state changes as a      *)
(* whole, to the state in memory or by the hand of others; the monitor     *)
(* believes its state stored only if a step stored it; and nothing but the *)
(* stored state survives the process.                                      *)
(***************************************************************************)
EXTENDS Naturals

CONSTANTS
    States,     \* the states of a monitor
    Fresh,      \* the one it starts with
    Nothing,    \* what is stored when there is no ConfigMap
    Unusable    \* other contents that are no state

VARIABLES
    up,         \* a process runs, and has loaded its state
    state,      \* its state
    dirty,      \* it may differ from the stored one
    stored,     \* what is stored
    others      \* number of writes by others

vars == <<up, state, dirty, stored, others>>

Init ==
    /\ up = FALSE /\ state = Fresh /\ dirty = FALSE
    /\ stored \in States \cup Unusable \cup {Nothing}
    /\ others = 0

\* A process has loaded its state: the stored one, or a fresh one.  It stores
\* a fresh one if there is nothing.
Open ==
    /\ ~up /\ up' = TRUE
    /\ state' \in {Fresh} \cup ({stored} \cap States)
    /\ dirty' = FALSE
    /\ stored' \in {stored} \cup {s \in {Fresh} : stored = Nothing}
    /\ UNCHANGED others

Change ==
    /\ up
    /\ state' \in States
    /\ dirty' = TRUE
    /\ UNCHANGED <<up, stored, others>>

\* The state, as a last change leaves it, is stored: confirmed or not.
Save ==
    /\ up
    /\ state' \in States
    /\ stored' = state'
    /\ dirty' \in BOOLEAN
    /\ UNCHANGED <<up, others>>

\* The process ends, and may store its state as its last act.
Close ==
    /\ up /\ up' = FALSE
    /\ state' = Fresh /\ dirty' = FALSE
    /\ stored' \in {stored, state}
    /\ UNCHANGED others

OthersWrite ==
    /\ others' > others
    /\ stored' \in States \cup Unusable \cup {Nothing}
    /\ UNCHANGED <<up, state, dirty>>

Next == Open \/ Change \/ Save \/ Close \/ OthersWrite

Spec == Init /\ [][Next]_vars
=============================================================================
