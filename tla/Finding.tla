------------------------------ MODULE Finding ------------------------------
(***************************************************************************)
(* What finding.go computes from a score.  A finding's identity (the hash  *)
(* of namespace, kind, name, check and reason) is abstract: findings are   *)
(* told apart by a model value, and the same problem always has the same   *)
(* one, which is all the monitor uses of the hash.                         *)
(***************************************************************************)
EXTENDS Integers

\* finding.go confines every score to 0..100 before it is used.
clampScore(score) ==
    IF score < 0 THEN 0 ELSE IF score > 100 THEN 100 ELSE score

classificationForScore(score) ==
    LET s == clampScore(score)
    IN  CASE s >= 80            -> "incident-likely"
          [] s >= 60 /\ s < 80  -> "degraded"
          [] s >= 40 /\ s < 60  -> "suspicious"
          [] s >= 20 /\ s < 40  -> "watch"
          [] s < 20             -> "healthy"

\* A finding as a check builds it: its score is clamped, and its
\* classification is a function of that score.
NewFinding(id, score) == [id |-> id, score |-> clampScore(score)]

=============================================================================
