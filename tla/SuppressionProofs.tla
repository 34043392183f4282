------------------------- MODULE SuppressionProofs -------------------------
(***************************************************************************)
(* What the lookup of suppression keys finds, for any kinds, names,        *)
(* reasons and keys.                                                       *)
(***************************************************************************)
EXTENDS Suppression, TLAPS

\* The rules in force are the keys that the last poll read, folded.
RulesInv ==
    /\ configMap \subseteq Key
    /\ read \subseteq Key
    /\ suppressions = {FoldKey(k) : k \in read}

\* Folding a field never makes a wildcard of it.
LEMMA FoldStar ==
    ASSUME LowerAssumption
    PROVE  /\ Fold(Star) = Star
           /\ \A x \in Kinds \cup Names \cup Reasons : Fold(x) # Star
  BY DEF LowerAssumption, Fold

\* A field of a folded key is looked up if and only if it matches.
LEMMA FieldLookup ==
    ASSUME LowerAssumption,
           NEW pattern \in Kinds \cup Names \cup Reasons \cup {Star},
           NEW x \in Kinds \cup Names \cup Reasons
    PROVE  /\ FieldMatches(pattern, x) <=> Fold(pattern) \in {Fold(x), Star}
           /\ Fold(pattern) = Star <=> pattern = Star
           /\ Fold(x) # Star
  BY FoldStar DEF FieldMatches

\* The one form of key that isSuppressed does not look up: "*/name/*".
NameOnly(k) == k.kind = Star /\ k.name # Star /\ k.reason = Star

\* A key is looked up for a finding if and only if it matches it and names more
\* than an object's name.
LEMMA KeyLookup ==
    ASSUME LowerAssumption, NEW k \in Key, NEW f \in Finding
    PROVE  FoldKey(k) \in Candidates(f) <=> ~NameOnly(k) /\ Matches(k, f)
  <1>. DEFINE kk == Fold(k.kind)
              kn == Fold(k.name)
              kr == Fold(k.reason)
              fk == Fold(f.kind)
              fn == Fold(f.name)
              fr == Fold(f.reason)
  <1>1. /\ FieldMatches(k.kind, f.kind) <=> kk \in {fk, Star}
        /\ FieldMatches(k.name, f.name) <=> kn \in {fn, Star}
        /\ FieldMatches(k.reason, f.reason) <=> kr \in {fr, Star}
        /\ kk = Star <=> k.kind = Star
        /\ kn = Star <=> k.name = Star
        /\ kr = Star <=> k.reason = Star
        /\ fk # Star /\ fn # Star /\ fr # Star
    BY FieldLookup DEF Key, Finding
  <1>2. FoldKey(k) \in Candidates(f) <=>
            \/ kk = fk /\ kn = fn /\ kr = fr
            \/ kk = fk /\ kn = fn /\ kr = Star
            \/ kk = fk /\ kn = Star /\ kr = fr
            \/ kk = Star /\ kn = fn /\ kr = fr
            \/ kk = fk /\ kn = Star /\ kr = Star
            \/ kk = Star /\ kn = Star /\ kr = fr
            \/ kk = Star /\ kn = Star /\ kr = Star
    BY DEF FoldKey, Candidates
  <1>. HIDE DEF kk, kn, kr, fk, fn, fr
  <1>. QED
    BY <1>1, <1>2 DEF Matches, NameOnly

LEMMA RulesStep == RulesInv /\ [Next]_vars => RulesInv'
  <1>. SUFFICES ASSUME RulesInv, [Next]_vars PROVE RulesInv'
    OBVIOUS
  <1>1. ASSUME NEW k \in Key, AddKey(k) PROVE RulesInv'
    BY <1>1 DEF AddKey, RulesInv
  <1>2. ASSUME NEW k \in configMap, RemoveKey(k) PROVE RulesInv'
    BY <1>2 DEF RemoveKey, RulesInv
  <1>3. ASSUME NEW ok \in BOOLEAN, loadSuppressions(ok) PROVE RulesInv'
    BY <1>3 DEF loadSuppressions, RulesInv
  <1>4. CASE UNCHANGED vars
    BY <1>4 DEF vars, RulesInv
  <1>. QED
    BY <1>1, <1>2, <1>3, <1>4 DEF Next

LEMMA RulesInit == Init => RulesInv
  BY DEF Init, RulesInv

\* What isSuppressed hides, by the keys that the last poll read.
LEMMA Hidden ==
    ASSUME LowerAssumption, RulesInv, NEW f \in Finding
    PROVE  isSuppressed(f) <=> \E k \in read : ~NameOnly(k) /\ Matches(k, f)
  <1>1. isSuppressed(f) <=> \E k \in read : FoldKey(k) \in Candidates(f)
    BY DEF isSuppressed, RulesInv
  <1>. QED
    BY <1>1, KeyLookup DEF RulesInv

\* isSuppressed hides no finding that no key of the ConfigMap, as this poll read
\* it, matches.
HidesOnlyWhatMatches ==
    \A f \in Finding : isSuppressed(f) => \E k \in read : Matches(k, f)

\* isSuppressed hides no finding that no key matches: not for a key that was taken
\* out since the last poll, nor in a poll that could not read the ConfigMap.
THEOREM HidesNothingElse ==
    ASSUME LowerAssumption
    PROVE  Spec => []HidesOnlyWhatMatches
  <1>1. RulesInv => HidesOnlyWhatMatches
    BY Hidden DEF HidesOnlyWhatMatches
  <1>. QED
    BY <1>1, RulesInit, RulesStep, PTL DEF Spec

\* What the code leaves of SuppressesWhatMatches: it holds as long as the
\* ConfigMap has no key of the form "*/name/*".
THEOREM ExactWithoutNameOnlyKeys ==
    ASSUME LowerAssumption
    PROVE  Spec => []((\A k \in read : ~NameOnly(k)) => SuppressesWhatMatches)
  <1>1. RulesInv => ((\A k \in read : ~NameOnly(k)) => SuppressesWhatMatches)
    BY Hidden DEF SuppressesWhatMatches
  <1>. QED
    BY <1>1, RulesInit, RulesStep, PTL DEF Spec
=============================================================================
