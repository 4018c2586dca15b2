--------------------------- MODULE ModelRuntimeMC ---------------------------
(***************************************************************************)
(* Two configurations and two calls; two documents with an excerpt each,   *)
(* and a file with one category.                                           *)
(***************************************************************************)
EXTENDS ModelRuntime, TLC

CONSTANTS doc1, doc2, item

Document == [task |-> "relations", evidence |-> {"e1"}, categories |-> {}]
File == [task |-> "file", evidence |-> {"e1"}, categories |-> {"main"}]
Envelopes == doc1 :> Document @@ doc2 :> Document @@ item :> File

NoAnswer == [value |-> {}, error |-> "unsound"]
Answer(v) == [value |-> {v}, error |-> "sound"]

Relates(cites) ==
    Answer([summary |-> "sound", relations |-> <<[text |-> "sound", cites |-> cites]>>])
Suggests(category, cites) ==
    Answer([summary |-> "sound", category |-> category, cites |-> cites, facts |-> <<>>,
            uncertainty |-> IF category = {} THEN {"sound"} ELSE {}])

Answers ==
    doc1 :> {NoAnswer, Relates(<<"e1">>)}
    @@ doc2 :> {NoAnswer, Relates(<<"e2">>)}
    @@ item :> {NoAnswer, Suggests({"main"}, <<"e1">>)}

Verdict(decision, side) ==
    Answer([decision |-> decision, reason |-> "sound", cites |-> <<"e1">>,
            side |-> side, relations |-> <<>>, revised |-> {}])

Decisions ==
    doc1 :> {NoAnswer, Verdict("accept", {"desktop"})}
    @@ doc2 :> {NoAnswer, Verdict("review", {})}
    @@ item :> {NoAnswer, Verdict("accept", {})}
=============================================================================
