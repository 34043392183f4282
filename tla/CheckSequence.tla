--------------------------- MODULE CheckSequence ---------------------------
(***************************************************************************)
(* What a poll relies on when it runs its checks, whatever goroutines and  *)
(* deadlines this takes (runCheck, buildSnapshot): the checks run one      *)
(* after the other, each once and in order, on one listing of the cluster; *)
(* a check is complete only if what it reads was listed in this poll; the  *)
(* poll is complete only if every check was; and every poll ends.          *)
(***************************************************************************)
EXTENDS Naturals

CONSTANTS
    Checks,       \* number of checks
    Independent   \* those that read no listing

VARIABLES
    running,      \* a poll runs its checks
    next,         \* the check to run
    listed,       \* the checks whose inputs were listed in this poll
    complete      \* every check so far was complete

vars == <<running, next, listed, complete>>

Init == running = FALSE /\ next = 1 /\ listed = {} /\ complete = TRUE

Begin(inputs) ==
    /\ ~running /\ running' = TRUE
    /\ next' = 1 /\ complete' = TRUE
    /\ listed' = inputs

Run(result) ==
    /\ running /\ next <= Checks
    /\ result => next \in listed \cup Independent
    /\ next' = next + 1
    /\ complete' = (complete /\ result)
    /\ UNCHANGED <<running, listed>>

End ==
    /\ running /\ next > Checks
    /\ running' = FALSE
    /\ next' = 1 /\ listed' = {} /\ complete' = TRUE

Next ==
    \/ \E inputs \in SUBSET ((1..Checks) \ Independent) : Begin(inputs)
    \/ \E result \in BOOLEAN : Run(result)
    \/ End

Spec == Init /\ [][Next]_vars /\ WF_vars(Next)
=============================================================================
