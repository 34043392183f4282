---------------------------- MODULE CheckRunner ----------------------------
(***************************************************************************)
(* The goroutines of a poll.  The main goroutine lists the cluster into a  *)
(* snapshot (buildSnapshot) and then runs the checks one after the other   *)
(* on it (runCheck).  Both hand the work to a goroutine and wait for it or *)
(* for CheckTimeout, whichever comes first; a goroutine that is not waited *)
(* for any longer is abandoned, not stopped, and may still be at work when *)
(* later checks, or later polls, run.  With a CheckTimeout of 0 main does  *)
(* the work itself, which is like waiting for a goroutine without limit.   *)
(*                                                                         *)
(* A goroutine is a slot; its channel is the slot's own.  Snapshots are    *)
(* objects named after the slot of the goroutine that fills them.          *)
(***************************************************************************)
EXTENDS Naturals, FiniteSets

CONSTANTS
    Slots,       \* bound: goroutines at a time
    Checks,      \* number of enabled checks
    Independent, \* those that do not read the snapshot (custom resources, or
                 \* resource usage without a metrics client)
    Hanging,     \* goroutines whose calls may ignore the end of their context
    NoSlot

ASSUME RunnerAssumption ==
    /\ IsFiniteSet(Slots) /\ NoSlot \notin Slots
    /\ Checks \in Nat
    /\ Independent \subseteq 1..Checks
    /\ Hanging \subseteq Slots

VARIABLES
    timed,     \* CheckTimeout > 0
    pc,        \* "idle" | "listing" (in select) | "checks" | "waiting" (in select)
    check,     \* the check that runs, or runs next
    worker,    \* the goroutine main waits for
    snap,      \* the snapshot the checks of this poll read: the slot that
               \* filled it, or NoSlot for the empty one built on a timeout
    ok,        \* its *OK flags: the checks all of whose inputs were listed
    expired,   \* the deadline of what main waits for has passed
    slot,      \* the goroutines: what they do, on which snapshot, for which
               \* check, and what they hand over
    complete   \* of this poll

mainVars == <<timed, pc, check, worker, snap, ok, expired, complete>>
vars == <<mainVars, slot>>

Free == [job |-> "none", snap |-> NoSlot, ok |-> {}, check |-> 0,
         state |-> "free", complete |-> FALSE]

Running(s) == slot[s].state = "running"

\* s can be used for a new goroutine: nobody reads its channel, or the
\* snapshot it filled, any more.
Unused(s) == slot[s].state = "free" /\ s # snap /\ s # worker
             /\ \A t \in Slots : slot[t].state # "free" => slot[t].snap # s

Init ==
    /\ timed \in BOOLEAN
    /\ pc = "idle" /\ check = 1 /\ worker = NoSlot /\ snap = NoSlot
    /\ ok = {} /\ expired = FALSE /\ complete = TRUE
    /\ slot = [s \in Slots |-> Free]

-----------------------------------------------------------------------------
(* The main goroutine.                                                     *)

\* Poll starts: buildSnapshot makes a snapshot and a goroutine to fill it.
BuildSnapshot(s) ==
    /\ pc = "idle" /\ Unused(s)
    /\ pc' = "listing"
    /\ worker' = s /\ snap' = s /\ ok' = {} /\ expired' = FALSE
    /\ complete' = TRUE /\ check' = 1
    /\ slot' = [slot EXCEPT ![s] = [Free EXCEPT !.job = "list", !.snap = s,
                                                !.state = "running"]]
    /\ UNCHANGED timed

\* done is closed: the snapshot is used as it was filled.
SnapshotDone ==
    /\ pc = "listing" /\ slot[worker].state = "sent"
    /\ pc' = "checks"
    /\ ok' = slot[worker].ok
    /\ slot' = [slot EXCEPT ![worker] = Free]
    /\ worker' = NoSlot
    /\ UNCHANGED <<timed, check, snap, expired, complete>>

\* Mutant: the half-filled snapshot is used after a timeout.
SnapshotTimeout_Keep ==
    /\ pc = "listing" /\ expired
    /\ pc' = "checks"
    /\ worker' = NoSlot
    /\ UNCHANGED <<timed, check, snap, ok, expired, complete, slot>>

\* The deadline passes: the goroutine is abandoned with its snapshot, and the
\* checks get an empty one.
SnapshotTimeout ==
    /\ pc = "listing" /\ expired
    /\ pc' = "checks"
    /\ snap' = NoSlot /\ ok' = {}
    /\ worker' = NoSlot
    /\ UNCHANGED <<timed, check, expired, complete, slot>>

\* runCheck starts the next check.
StartCheck(s) ==
    /\ pc = "checks" /\ check <= Checks /\ Unused(s)
    /\ pc' = "waiting"
    /\ worker' = s /\ expired' = FALSE
    /\ slot' = [slot EXCEPT ![s] = [job |-> "check", snap |-> snap, ok |-> ok,
                                    check |-> check, state |-> "running",
                                    complete |-> FALSE]]
    /\ UNCHANGED <<timed, check, snap, ok, complete>>

\* Mutant: results come over one channel shared by all checks.
ResultFrom_Shared(s) == slot[s].job = "check"

\* The channel belongs to one call.
ResultFrom(s) == s = worker

\* The result arrives, before the deadline or after it: select prefers
\* neither of two ready cases.
CheckDone(s) ==
    /\ pc = "waiting" /\ ResultFrom(s) /\ slot[s].state = "sent"
    /\ pc' = "checks"
    /\ check' = check + 1
    /\ complete' = (complete /\ slot[s].complete)
    /\ slot' = [slot EXCEPT ![s] = Free]
    /\ worker' = NoSlot
    /\ UNCHANGED <<timed, snap, ok, expired>>

\* Mutant: the goroutine is waited for before its check is given up.
CheckTimeout_Joins ==
    /\ pc = "waiting" /\ expired /\ slot[worker].state = "sent"
    /\ pc' = "checks"
    /\ check' = check + 1
    /\ complete' = FALSE
    /\ worker' = NoSlot
    /\ UNCHANGED <<timed, snap, ok, expired, slot>>

\* Mutant: the channel of the abandoned goroutine is kept.
CheckTimeout_KeepsChannel ==
    /\ pc = "waiting" /\ expired
    /\ pc' = "checks"
    /\ check' = check + 1
    /\ complete' = FALSE
    /\ UNCHANGED <<timed, worker, snap, ok, expired, slot>>

\* The deadline is seen first: the check counts as incomplete, its result
\* will not be looked at.
CheckTimeout ==
    /\ pc = "waiting" /\ expired
    /\ pc' = "checks"
    /\ check' = check + 1
    /\ complete' = FALSE
    /\ worker' = NoSlot
    /\ UNCHANGED <<timed, snap, ok, expired, slot>>

EndPoll ==
    /\ pc = "checks" /\ check > Checks
    /\ pc' = "idle"
    /\ snap' = NoSlot /\ ok' = {} /\ expired' = FALSE /\ check' = 1
    /\ complete' = TRUE
    /\ UNCHANGED <<timed, worker, slot>>

\* The context ends: CheckTimeout is over, or the process is told to stop.
Deadline ==
    /\ timed /\ pc \in {"listing", "waiting"} /\ ~expired
    /\ expired' = TRUE
    /\ UNCHANGED <<timed, pc, check, worker, snap, ok, complete, slot>>

-----------------------------------------------------------------------------
(* The goroutines.                                                         *)

\* Mutant: the channel is unbuffered, so the send waits for a receiver.
CanSend_Unbuffered(s) == s = worker

\* done is closed, or has room for the one result that is ever sent on it.
CanSend(s) == TRUE

\* A check that reads lists which failed is incomplete.
MayComplete(s) == slot[s].check \in slot[s].ok \cup Independent

\* listSnapshot is done: any of its lists may have failed.
FinishListing(s, listed) ==
    /\ Running(s) /\ slot[s].job = "list" /\ CanSend(s)
    /\ slot' = [slot EXCEPT ![s].state = "sent", ![s].ok = listed]
    /\ UNCHANGED mainVars

\* A check is done, complete or not.
FinishCheck(s, result) ==
    /\ Running(s) /\ slot[s].job = "check" /\ CanSend(s)
    /\ result => MayComplete(s)
    /\ slot' = [slot EXCEPT ![s].state = "sent", ![s].complete = result]
    /\ UNCHANGED mainVars

\* The goroutine has ended and nobody holds its channel: it is collected.
Collect(s) ==
    /\ slot[s].state = "sent" /\ s # worker
    /\ slot' = [slot EXCEPT ![s] = Free]
    /\ UNCHANGED mainVars

MainStep ==
    \/ \E s \in Slots : BuildSnapshot(s) \/ StartCheck(s) \/ CheckDone(s)
    \/ SnapshotDone \/ SnapshotTimeout \/ CheckTimeout \/ EndPoll

Finish(s) ==
    \/ \E listed \in SUBSET ((1..Checks) \ Independent) : FinishListing(s, listed)
    \/ \E result \in BOOLEAN : FinishCheck(s, result)

Next ==
    \/ MainStep
    \/ Deadline
    \/ \E s \in Slots : Finish(s) \/ Collect(s)

Spec == Init /\ [][Next]_vars

\* The runtime schedules every goroutine and fires every timer; the calls a
\* goroutine makes end, since their context ends, unless it is a hanging one.
\* Without a CheckTimeout a call that hangs stops the polls for good, and none is
\* assumed to hang.
Fairness ==
    /\ WF_vars(MainStep) /\ WF_vars(Deadline)
    /\ \A s \in Slots : WF_vars((timed => s \notin Hanging) /\ Finish(s))
    /\ \A s \in Slots : WF_vars(Collect(s))

FairSpec == Spec /\ Fairness

-----------------------------------------------------------------------------
(* Properties.                                                             *)

\* Every variable has its type.
TypeOK ==
    /\ timed \in BOOLEAN
    /\ pc \in {"idle", "listing", "checks", "waiting"}
    /\ check \in 1..(Checks + 1)
    /\ worker \in Slots \cup {NoSlot} /\ snap \in Slots \cup {NoSlot}
    /\ ok \subseteq 1..Checks
    /\ {expired, complete} \subseteq BOOLEAN
    /\ slot \in [Slots -> [job : {"none", "list", "check"},
                           snap : Slots \cup {NoSlot}, ok : SUBSET (1..Checks),
                           check : 0..Checks,
                           state : {"free", "running", "sent"},
                           complete : BOOLEAN]]
    /\ pc \in {"listing", "waiting"} <=> worker # NoSlot

\* No snapshot is written and read at the same time: a listing that still
\* runs fills a snapshot that neither the poll nor any check goroutine,
\* abandoned ones included, reads.
NoSnapshotRace ==
    \A s \in Slots :
        Running(s) /\ slot[s].job = "list" =>
            /\ pc \in {"checks", "waiting"} => snap # slot[s].snap
            /\ \A t \in Slots : Running(t) /\ slot[t].job = "check"
                                    => slot[t].snap # slot[s].snap

\* A result that main takes from a channel is that of the check it waits for,
\* computed on this poll's snapshot: what an abandoned check finds is never
\* used.
AppliesOwnResult ==
    [][pc = "waiting" /\ pc' = "checks" =>
          \A s \in Slots :
              slot[s].state = "sent" /\ slot'[s] = Free
                  => slot[s].check = check /\ slot[s].snap = snap]_vars

Sequence == INSTANCE CheckSequence WITH
    running <- pc \in {"checks", "waiting"}, next <- check,
    listed <- IF pc \in {"checks", "waiting"} THEN ok ELSE {}

\* The goroutines, channels and deadlines, with what is left of earlier polls,
\* amount to checks that run in turn, each once, on the lists of this poll,
\* and every poll comes to its end.
RunsInSequence == Sequence!Spec

\* Every goroutine whose calls end does end, abandoned or not: none waits for
\* ever to hand over its result.
NoLeak == \A s \in Slots \ Hanging : []<>(~Running(s))
=============================================================================
