----------------------------- MODULE MCMonitor -----------------------------
(***************************************************************************)
(* Small instances of Monitor for TLC.  A world says what each enabled     *)
(* check would report: at most one result per check, with the scores of    *)
(* checks.go (60 degraded, 65 degraded, 85 incident-likely).               *)
(***************************************************************************)
EXTENDS Monitor

CONSTANTS a, b, c

\* One finding that comes, goes and changes its score, of a check that passes
\* over what it cannot read, or of one that does not.
OneFinding   == {<<>>, <<NewFinding(a, 60)>>, <<NewFinding(a, 65)>>,
                 <<NewFinding(a, 85)>>}
LenientCheck  == {"custom-resources"}
LenientWorlds == {[k \in LenientCheck |-> w] : w \in OneFinding}
OneCheck      == {"pods"}
OneWorlds     == {[k \in OneCheck |-> w] : w \in OneFinding}

\* Three findings, for a cap of two and room for one in the ConfigMap.  The
\* third replaces the others, which may be resolved one poll apart, or not yet.
ThreeWorlds ==
    {[k \in OneCheck |-> w] :
        w \in {<<>>, <<NewFinding(a, 65), NewFinding(b, 85)>>,
               <<NewFinding(c, 65)>>}}

\* Two checks: a finding of the one, which can be partial, raised by one
\* object or two, while the other has nothing to report but may fail.
TwoChecks == {"pods", "workloads"}
TwoWorlds ==
    {[k \in TwoChecks |-> IF k = "pods" THEN <<>> ELSE w] :
        w \in {<<>>, <<NewFinding(a, 60), NewFinding(a, 60)>>,
               <<NewFinding(a, 65)>>}}

NoSuppression  == {{}}
MaySuppressOne == {{}, {a}}
OneId          == {a}
TwoIds         == {a, b}
ThreeIds       == {a, b, c}
Every          == {1}
EveryOrLater   == {1, 3}
=============================================================================
