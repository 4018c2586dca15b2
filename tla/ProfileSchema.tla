---------------------------- MODULE ProfileSchema ----------------------------
(***************************************************************************)
(* Classification profiles as data (src-tauri/src/profiles/schema.rs), the *)
(* differences between two of them (profile_diff of store.rs), and the     *)
(* classification of evidence by a profile (proposal.rs).                  *)
(*                                                                         *)
(* Abstractions.  Identifiers, titles and path segments are values; that   *)
(* each is short, printable and safe as a file name is the single field    *)
(* "legible".  The evidence that a file carries is the set of the terms    *)
(* that its references contain, each term with its kind.                   *)
(***************************************************************************)
EXTENDS Integers, Sequences, FiniteSets

CONSTANTS MaxRules, MaxCategories, MaxDestinationDepth, MaxTaxonomyDepth

ASSUME SchemaLimits ==
    {MaxRules, MaxCategories, MaxDestinationDepth, MaxTaxonomyDepth} \subseteq Nat

NoParent == "none"      \* a category of the first level

-----------------------------------------------------------------------------
Elements(s) == {s[i] : i \in DOMAIN s}
Paths(profile) == {c.path : c \in Elements(profile.categories)}

HasUniqueKeys(s, key) == \A i, j \in DOMAIN s : s[i][key] = s[j][key] => i = j

\* depth 0 of a governance: the profile has none.
GovernanceFits(profile) ==
    IF profile.schema = 1 THEN profile.categories = <<>> /\ profile.maximumDepth = 0
    ELSE profile.categories # <<>> /\ profile.maximumDepth \in 1 .. MaxTaxonomyDepth

CategoryIsPlaced(profile, c) ==
    /\ c.depth \in 1 .. profile.maximumDepth
    /\ Len(c.path) = c.depth
    /\ IF c.depth = 1 THEN c.parent = NoParent
       ELSE \E p \in Elements(profile.categories) :
                /\ p.id = c.parent
                /\ p.depth + 1 = c.depth
                /\ p.path = SubSeq(c.path, 1, Len(c.path) - 1)

ValidTaxonomy(profile) ==
    /\ GovernanceFits(profile)
    /\ Len(profile.categories) <= MaxCategories
    /\ HasUniqueKeys(profile.categories, "id")
    /\ \A c \in Elements(profile.categories) : CategoryIsPlaced(profile, c)

RuleIsPlaced(profile, r) ==
    /\ Len(r.destination) \in 1 .. MaxDestinationDepth
    /\ profile.schema = 2 => r.destination \in Paths(profile)
    /\ r.needs # {}

ValidProfile(profile) ==
    /\ profile.schema \in {1, 2}
    /\ profile.legible
    /\ ValidTaxonomy(profile)
    /\ Len(profile.rules) <= MaxRules
    /\ HasUniqueKeys(profile.rules, "id")
    /\ \A r \in Elements(profile.rules) : RuleIsPlaced(profile, r)

\* What may be imported: it never claims to be approved already.
IsCandidate(profile) == ValidProfile(profile) /\ profile.status = "candidate"

-----------------------------------------------------------------------------
\* The rules, or the categories, of a profile by their identifiers.
ById(s) == [k \in {e.id : e \in Elements(s)} |-> CHOOSE e \in Elements(s) : e.id = k]

Differences(old, new) ==
    [added |-> DOMAIN new \ DOMAIN old,
     removed |-> DOMAIN old \ DOMAIN new,
     changed |-> {k \in DOMAIN old \cap DOMAIN new : old[k] # new[k]}]

\* base is a sequence with at most one profile.
ProfileDiff(base, candidate) ==
    LET Of(field) == IF base = <<>> THEN <<>> ELSE ById(base[1][field])
    IN  [rules |-> Differences(Of("rules"), ById(candidate.rules)),
         categories |-> Differences(Of("categories"), ById(candidate.categories))]

NoDifference == [added |-> {}, removed |-> {}, changed |-> {}]

-----------------------------------------------------------------------------
\* A rule matches when every requirement of it is met by the evidence.
Matches(profile, evidence) == {r \in Elements(profile.rules) : r.needs \subseteq evidence}

Review(profile, rules, reason) ==
    [profile |-> <<profile.id, profile.version>>, rules |-> {r.id : r \in rules},
     destination |-> <<>>, reason |-> reason, committable |-> FALSE]

\* The rules that match agree on one destination, or a person decides.
Classify(profile, evidence) ==
    LET rules == Matches(profile, evidence)
        destinations == {r.destination : r \in rules}
    IN  IF destinations = {} THEN Review(profile, rules, "missingEvidence")
        ELSE IF \E d \in destinations : destinations = {d}
        THEN [Review(profile, rules, "none") EXCEPT
                !.destination = CHOOSE d \in destinations : TRUE,
                !.committable = profile.status = "approved"]
        ELSE Review(profile, rules, "conflictingRules")
=============================================================================
