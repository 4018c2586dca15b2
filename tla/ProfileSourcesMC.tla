-------------------------- MODULE ProfileSourcesMC --------------------------
(* A small instance of ProfileSources: two versions of one profile, a second *)
(* file that claims the first version, a file that is no candidate, and one   *)
(* URL that redirects to another.                                             *)
EXTENDS ProfileSources

CONSTANTS s1, s2, s3, s4, draft, u1, u2, u3

Category(id, parent, path) == [id |-> id, parent |-> parent, path |-> path, depth |-> Len(path)]
Rule(id, destination, needs) == [id |-> id, destination |-> destination, needs |-> needs]
Profile(id, version, status, rules) ==
    [schema |-> 2, legible |-> TRUE, id |-> id, version |-> version, status |-> status,
     categories |-> <<Category("c1", NoParent, <<"A">>), Category("c2", "c1", <<"A", "B">>)>>,
     maximumDepth |-> 2, rules |-> rules]

Documents ==
    s1 :> Profile("p", "1", "candidate", <<Rule("r1", <<"A">>, {"t"})>>)
    @@ s2 :> Profile("p", "2", "candidate",
                <<Rule("r1", <<"A">>, {"t"}), Rule("r2", <<"A", "B">>, {"t"})>>)
    @@ s3 :> Profile("p", "1", "candidate", <<>>)
    @@ s4 :> Profile("p", "3", "candidate", <<Rule("r1", <<"C">>, {"t"})>>)
    @@ draft :> Profile("q", "0", "draft", <<>>)

Sites == u1 :> {} @@ u2 :> {s2} @@ u3 :> {s1}
=============================================================================
