----------------------------- MODULE ResultWindow -----------------------------
(***************************************************************************)
(* The beginning of operation_call_send_xml_results and of                 *)
(* operation_call_send_json_results: which media templates match the       *)
(* document, and which of the nodes they found become the media of the     *)
(* call, once `skip` and `count` are applied.  The two functions take the  *)
(* same decisions; only the query language differs.                        *)
(*                                                                         *)
(* The document is what the queries of the templates find in it: a         *)
(* template record says how many nodes its `query` and its `select` have.  *)
(***************************************************************************)
EXTENDS Integers, SequencesExt

CONSTANTS
    Unbounded,    \* G_MAXUINT, an infinite count: 2^32 - 1 in the code
    MaxTemplates, \* bound: most media templates of the source
    Templates,    \* what a media template may be
    Calls         \* what an operation call may ask for

(* The sum of two guints: what is above the largest one wraps around.      *)
Plus(a, b) == IF a + b <= Unbounded THEN a + b ELSE a + b - (Unbounded + 1)

AnyOperation == "any"         \* operation_id is NULL
Missing == -1                 \* no such attribute, or not a valid expression

MinOf(a, b) == IF a <= b THEN a ELSE b

ASSUME UnboundedAssumption == Unbounded \in Nat \ {0}
ASSUME MaxTemplatesAssumption == MaxTemplates \in Nat
ASSUME TemplatesAssumption ==
    \A t \in Templates : t.query \in -1..Unbounded /\ t.select \in -1..Unbounded
(* Grilo passes a count of at least one; `skip` and `countAttr` are the     *)
(* numbers the attributes of the operation expand to, 0 without them.      *)
ASSUME CallsAssumption ==
    \A c \in Calls : /\ c.skip \in 0..Unbounded
                     /\ c.countAttr \in 0..Unbounded
                     /\ c.asked \in 1..Unbounded

VARIABLES
    call,       \* the OperationCallData: resolve, format, id, skip, countAttr, asked
    templates,  \* media_templates of the source
    tested,     \* how many of them the scan has tested
    matching,   \* matching_templates, by their place in templates
    total,      \* data->total_results
    step,       \* "scan", "build", and how it ended: "nothing", "built", "dropped"
    place,      \* pt and px: where the item loop is in matching
    node,       \* i: the next node of that template
    skip,       \* what the item loop still has to skip
    pending,    \* what it still has to build
    items       \* the nodes it built a SendItem of: <<template, node>>

vars == <<call, templates, tested, matching, total, step, place, node, skip, pending,
          items>>

TypeOK ==
    /\ call \in Calls
    /\ templates \in UNION {[1..n -> Templates] : n \in 0..MaxTemplates}
    /\ tested \in 0..Len(templates)
    /\ matching \in Seq(1..Len(templates))
    /\ {total, node, skip, pending} \subseteq 0..Unbounded
    /\ step \in {"scan", "build", "nothing", "built", "dropped"}
    /\ place \in Nat
    /\ items \in Seq((1..Len(templates)) \X (0..Unbounded))

(* expandable_string_to_number: no number, or 0, means the default.        *)
ToNumber(number, default) == IF number = 0 THEN default ELSE number

(* data->count, as operation_call computes it.                             *)
Count == MinOf(ToNumber(call.countAttr, IF call.resolve THEN 1 ELSE Unbounded), call.asked)

(* How many nodes a template finds with the expression the call looks at.  *)
Found(t) == IF call.resolve THEN templates[t].select ELSE templates[t].query

Fits(t) ==
    /\ templates[t].format = call.format
    /\ templates[t].operation \in {AnyOperation, call.id}
    /\ Found(t) > 0

Init ==
    /\ call \in Calls
    /\ templates \in UNION {[1..n -> Templates] : n \in 0..MaxTemplates}
    /\ tested = 0 /\ matching = <<>> /\ total = 0
    /\ step = "scan"
    /\ place = 1 /\ node = 0 /\ skip = 0 /\ pending = 0
    /\ items = <<>>

-----------------------------------------------------------------------------
(* Scan all media templates, finding those that match the results.         *)

(* Seeded fault: the scan stops before it has the results to skip as well. *)
ScanningForCount == tested < Len(templates) /\ total < Count

Scanning == tested < Len(templates) /\ total < Plus(call.skip, Count)

TestTemplate ==
    /\ step = "scan" /\ Scanning
    /\ tested' = tested + 1
    /\ IF Fits(tested + 1)
       THEN /\ matching' = Append(matching, tested + 1)
            /\ total' = Plus(total, Found(tested + 1))
       ELSE UNCHANGED <<matching, total>>
    /\ UNCHANGED <<call, templates, step, place, node, skip, pending, items>>

(* Seeded fault: a total of exactly `skip` results is not seen as the end. *)
NoMoreBeforeSkip == total < call.skip

(* There are no more elements.                                             *)
NoMore == total <= call.skip

(* callback (NULL, 0, ...).                                                *)
NoResults ==
    /\ step = "scan" /\ ~Scanning /\ NoMore
    /\ step' = "nothing"
    /\ UNCHANGED <<call, templates, tested, matching, total, place, node, skip, pending,
                   items>>

(* Seeded fault: the results that are skipped are counted with the rest.   *)
WindowWithSkipped == MinOf(total, Count)

(* How many results are sent: what is left after `skip`, at most `count`.  *)
Window == MinOf(total - call.skip, Count)

(* When none is, operation_call_send_list_run frees the operation and      *)
(* nothing answers the caller.                                             *)
SkipResults ==
    /\ step = "scan" /\ ~Scanning /\ ~NoMore
    /\ total' = Window
    /\ IF total' = 0
       THEN /\ step' = "dropped"
            /\ UNCHANGED <<node, skip, pending>>
       ELSE /\ step' = "build"
            /\ pending' = total' /\ skip' = call.skip /\ node' = call.skip
    /\ UNCHANGED <<call, templates, tested, matching, place, items>>

-----------------------------------------------------------------------------
(* The loop that builds the items, one template after the other.           *)

InTemplate == pending > 0 /\ node < Found(matching[place])

BuildItem ==
    /\ step = "build" /\ InTemplate
    /\ items' = Append(items, <<matching[place], node>>)
    /\ node' = node + 1
    /\ pending' = pending - 1
    /\ UNCHANGED <<call, templates, tested, matching, total, step, place, skip>>

(* Seeded fault: a template can have fewer nodes than there are to skip.   *)
SkipBelowZero == skip - Found(matching[place])

(* What the nodes of this template leave to skip in the next ones.         *)
SkipLeft == skip - MinOf(skip, Found(matching[place]))

NextTemplate ==
    /\ step = "build" /\ ~InTemplate
    /\ skip' = SkipLeft /\ node' = SkipLeft
    /\ place' = place + 1
    /\ step' = IF pending = 0 THEN "built" ELSE "build"
    /\ UNCHANGED <<call, templates, tested, matching, total, pending, items>>

(* The call went on to its answers.                                        *)
Done ==
    /\ step \in {"nothing", "built", "dropped"}
    /\ UNCHANGED vars

Next == TestTemplate \/ NoResults \/ SkipResults \/ BuildItem \/ NextTemplate \/ Done

Spec == Init /\ [][Next]_vars
-----------------------------------------------------------------------------
(* Properties.                                                             *)

(* What the templates of the source have for the call, in their order: the *)
(* whole result the window is cut from.                                    *)
AllNodes ==
    FlattenSeq([t \in 1..Len(templates) |->
                  IF Fits(t) THEN [n \in 1..Found(t) |-> <<t, n - 1>>] ELSE <<>>])

(* The media of the call are the nodes from number `skip` on, `count` of   *)
(* them at most, as if the templates were one list: none only if there is  *)
(* none.  skip + count is computed in a guint and has to fit one.          *)
WindowIsSlice ==
    step \in {"nothing", "built"} /\ call.skip + Count <= Unbounded =>
        /\ items = SubSeq(AllNodes, call.skip + 1,
                          MinOf(call.skip + Count, Len(AllNodes)))
        /\ step = "nothing" <=> Len(AllNodes) <= call.skip

(* The item loop follows pt and px without testing them: as long as items  *)
(* are pending there is a template to take them from.  In the end it made  *)
(* as many as total_results announces in the `remaining` of every answer.  *)
TemplatesLastForItems ==
    /\ step = "build" /\ pending > 0 => place <= Len(matching)
    /\ step = "built" => Len(items) = total

(* A call that asks for at least one result is never freed unanswered.     *)
NeverDropped == step # "dropped"

(* "There are no more elements": a call is told so only when the source    *)
(* has no result after the skipped ones.                                   *)
EmptyMeansNoMore == step = "nothing" => Len(AllNodes) <= call.skip
=============================================================================
