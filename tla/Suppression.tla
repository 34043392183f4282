---------------------------- MODULE Suppression ----------------------------
(***************************************************************************)
(* Suppression rules: the keys of an optional ConfigMap, read again at the *)
(* start of every poll (loadSuppressions), and the test collectFindings    *)
(* makes on each finding (isSuppressed).                                   *)
(*                                                                         *)
(* A key "kind/name/reason" is a triple.  Lower is the case folding both   *)
(* functions apply; the values of a field are told apart by it only.       *)
(***************************************************************************)
EXTENDS Naturals, FiniteSets

CONSTANTS
    Kinds, Names, Reasons,   \* as findings spell them
    Lower,                   \* [every spelling -> its lower case form]
    MaxKeys                  \* bound: keys in the ConfigMap

Star == "*"

Finding == [kind : Kinds, name : Names, reason : Reasons]

\* A field of a key may be spelt in any case; folding leaves "*" alone.
Fold(x) == IF x = Star THEN Star ELSE Lower[x]

Key == [kind   : Kinds   \cup {Star},
        name   : Names   \cup {Star},
        reason : Reasons \cup {Star}]

FoldKey(k) == [kind |-> Fold(k.kind), name |-> Fold(k.name),
               reason |-> Fold(k.reason)]

\* What the theorems assume of case folding.
LowerAssumption ==
    /\ Kinds \cup Names \cup Reasons \subseteq DOMAIN Lower
    /\ Star \notin DOMAIN Lower
    /\ \A x \in DOMAIN Lower : Lower[x] \in DOMAIN Lower
                               /\ Lower[Lower[x]] = Lower[x]

VARIABLES
    configured,     \* SUPPRESS_CONFIGMAP is set
    configMap,      \* the keys of the ConfigMap; {} also when there is none
    suppressions,   \* m.suppressions, {} for nil
    read            \* observer: the keys as the last poll read them, {} if it
                    \* could not

vars == <<configured, configMap, suppressions, read>>

-----------------------------------------------------------------------------

\* The keys that isSuppressed looks up.
Candidates(f) ==
    LET kind   == Fold(f.kind)
        name   == Fold(f.name)
        reason == Fold(f.reason)
        K(k, n, r) == [kind |-> k, name |-> n, reason |-> r]
    IN  {K(kind, name, reason), K(kind, name, Star), K(kind, Star, reason),
         K(Star, name, reason), K(kind, Star, Star), K(Star, Star, reason),
         K(Star, Star, Star)}

isSuppressed(f) == Candidates(f) \cap suppressions # {}

Init ==
    /\ configured \in BOOLEAN
    /\ configMap = {}
    /\ suppressions = {}
    /\ read = {}

\* Someone adds a key to the ConfigMap, or takes one out.
AddKey(k) ==
    /\ Cardinality(configMap \cup {k}) <= MaxKeys
    /\ k \notin configMap
    /\ configMap' = configMap \cup {k}
    /\ UNCHANGED <<configured, suppressions, read>>

RemoveKey(k) ==
    /\ configMap' = configMap \ {k}
    /\ UNCHANGED <<configured, suppressions, read>>

\* A poll reads it; when it cannot, nothing is suppressed in that poll.
loadSuppressions(ok) ==
    /\ read' = IF configured /\ ok THEN configMap ELSE {}
    /\ suppressions' = IF configured /\ ok THEN {FoldKey(k) : k \in configMap}
                       ELSE {}
    /\ UNCHANGED <<configured, configMap>>

Next ==
    \/ \E k \in Key : AddKey(k)
    \/ \E k \in configMap : RemoveKey(k)
    \/ \E ok \in BOOLEAN : loadSuppressions(ok)

Spec == Init /\ [][Next]_vars

-----------------------------------------------------------------------------
(* The documented meaning: a key matches a finding when each of its fields *)
(* is "*" or names, in any case, the finding's.                            *)

FieldMatches(pattern, x) == pattern = Star \/ Fold(pattern) = Fold(x)

Matches(k, f) ==
    /\ FieldMatches(k.kind, f.kind)
    /\ FieldMatches(k.name, f.name)
    /\ FieldMatches(k.reason, f.reason)

\* isSuppressed hides exactly the findings that a key matches: any field of a key
\* may be "*" (the comment of loadSuppressions, and the README's table of
\* settings).
SuppressesWhatMatches ==
    \A f \in Finding : isSuppressed(f) <=> \E k \in read : Matches(k, f)
=============================================================================
