--------------------------- MODULE MCFetchPipeline ---------------------------
(* Instances of FetchPipeline for TLC. *)
EXTENDS FetchPipeline

Leaf(kind) == [kind |-> kind, input |-> NoInput, subregexps |-> <<>>, ref |-> "", id |-> "",
               mentions |-> {}]
Of(kind, input) == [Leaf(kind) EXCEPT !.input = input]

(* A page found through another page; a REST call to replace in; a script; *)
(* and a regexp that puts the outputs of two others together, the first of *)
(* them found on the network.                                              *)
MCFetchData ==
    [page     |-> Of("url", "link"),
     link     |-> Of("url", "address"),
     address  |-> Leaf("raw"),
     title    |-> Of("replace", "call"),
     call     |-> Leaf("rest"),
     script   |-> Leaf("script"),
     mixed    |-> [Leaf("regexp") EXCEPT !.subregexps = <<"first", "second">>,
                                         !.ref = "a", !.mentions = {"b"}],
     first    |-> [Of("regexp", "site") EXCEPT !.id = "a"],
     site     |-> Of("url", "path"),
     path     |-> Leaf("raw"),
     second   |-> [Of("regexp", "field") EXCEPT !.id = "b"],
     field    |-> Leaf("raw"),
     found    |-> [Of("regexp", "answer") EXCEPT !.subregexps = <<"query">>,
                                                 !.mentions = {"q"}],
     answer   |-> Leaf("rest"),
     query    |-> [Leaf("regexp") EXCEPT !.id = "q"]]

MCRoots == {"page", "title", "script", "mixed", "found"}

MCMixed == {"mixed"}
=============================================================================
