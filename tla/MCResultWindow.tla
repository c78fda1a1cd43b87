--------------------------- MODULE MCResultWindow ---------------------------
(* Instances of ResultWindow for TLC. *)
EXTENDS ResultWindow

Template(format, operation, query, select) ==
    [format |-> format, operation |-> operation, query |-> query, select |-> select]

(* Templates of every kind the scan tells apart: other format, other       *)
(* operation, no expression, no nodes, few nodes, many nodes.              *)
MCTemplates ==
    {Template("xml", AnyOperation, 1, Missing),
     Template("xml", "search", 3, 0),
     Template("xml", "other", 2, 2),
     Template("xml", AnyOperation, 0, 2),
     Template("json", AnyOperation, 2, 1)}

OperationCallData(resolve, format, skip_, countAttr, asked) ==
    [resolve |-> resolve, format |-> format, id |-> "search", skip |-> skip_,
     countAttr |-> countAttr, asked |-> asked]

(* Browse and search take skip and count; the schema gives a resolve none. *)
MCCalls ==
    {OperationCallData(FALSE, f, s, n, a) :
        f \in {"xml", "json"}, s \in 0..4, n \in {0, 2}, a \in {1, 3, Unbounded}}
    \cup {OperationCallData(TRUE, f, 0, 0, a) : f \in {"xml", "json"}, a \in {1, Unbounded}}

(* Calls that skip results of a source and ask for all that follow.        *)
MCUnboundedCalls == {OperationCallData(FALSE, "xml", s, 0, Unbounded) : s \in 1..2}
=============================================================================
