----------------------------- MODULE ResultCache -----------------------------
(***************************************************************************)
(* The cache of one ResultData, which all the calls of the operations that *)
(* share it (result id / ref) read and fill, and the references to the     *)
(* documents that pass through it.  Calls overlap: their fetches and their *)
(* items wait on the main loop, and a callback may make another call.      *)
(*                                                                         *)
(* A call fetches at most one document, which is named after the call.     *)
(***************************************************************************)
EXTENDS Integers, FiniteSets

CONSTANTS
    Calls,       \* operation calls on the ResultData
    MaxItems,    \* bound: most items of one call
    NoDoc        \* NULL

ASSUME CallsAssumption == IsFiniteSet(Calls)
ASSUME MaxItemsAssumption == MaxItems \in Nat
ASSUME NoDocAssumption == NoDoc \notin Calls

VARIABLES
    format,      \* ResultData.format
    caching,     \* ResultData.cache_time > 0
    cache,       \* ResultData.cache
    valid,       \* ResultData.cache_valid
    timers,      \* pending cache_expired_cb, by the call that added it
    step,        \* where each OperationCallData is
    doc,         \* its xml_doc_reffed or json_parser
    looping,     \* its send_*_results builds items
    raws,        \* GetRawData of its items that are not freed
    refs,        \* reference count of the document each call fetched
    replaced     \* documents the cache forgot without dropping its reference

vars == <<format, caching, cache, valid, timers, step, doc, looping, raws, refs, replaced>>

stored == <<format, caching, cache, valid, timers, replaced>>

(* "new":      operation_call has not been reached                         *)
(* "fetching": the document has been asked for                             *)
(* "ready":    send_*_results is about to run, or waits in an idle source  *)
(* "sending":  its items are built, and handed over                        *)
(* "freed":    operation_call_data_free was called                         *)
(* "empty":    the same, after the answer that there are no results        *)
Steps == {"new", "fetching", "ready", "sending", "freed", "empty"}

TypeOK ==
    /\ format \in {"xml", "json"}
    /\ caching \in BOOLEAN
    /\ cache \in Calls \cup {NoDoc}
    /\ valid \in BOOLEAN
    /\ timers \subseteq Calls
    /\ step \in [Calls -> Steps]
    /\ doc \in [Calls -> Calls \cup {NoDoc}]
    /\ looping \in [Calls -> BOOLEAN]
    /\ raws \in [Calls -> 0..MaxItems]
    /\ refs \in [Calls -> Nat]
    /\ replaced \subseteq Calls

Init ==
    /\ format \in {"xml", "json"}
    /\ caching \in BOOLEAN
    /\ cache = NoDoc /\ valid = FALSE /\ timers = {}
    /\ step = [c \in Calls |-> "new"]
    /\ doc = [c \in Calls |-> NoDoc]
    /\ looping = [c \in Calls |-> FALSE]
    /\ raws = [c \in Calls |-> 0]
    /\ refs = [c \in Calls |-> 0]
    /\ replaced = {}

(* References taken and dropped: a JSON parser has no reference from the   *)
(* items nor from the item loop, and operation_call_data_free keeps its.   *)
Taken(d) == IF format = "xml" THEN [refs EXCEPT ![d] = @ + 1] ELSE refs
Dropped(d) == IF format = "xml" THEN [refs EXCEPT ![d] = @ - 1] ELSE refs

Go(c, to) == step' = [step EXCEPT ![c] = to]

-----------------------------------------------------------------------------
(* operation_call: reuse the cached result, or fetch it.                   *)

Hit == cache # NoDoc /\ valid

Reuse(c) ==
    /\ step[c] = "new" /\ Hit
    /\ doc' = [doc EXCEPT ![c] = cache]
    /\ refs' = [refs EXCEPT ![cache] = @ + 1]
    /\ Go(c, "ready")
    /\ UNCHANGED <<stored, looping, raws>>

Fetch(c) ==
    /\ step[c] = "new" /\ ~Hit
    /\ Go(c, "fetching")
    /\ UNCHANGED <<stored, doc, looping, raws, refs>>

(* operation_call_data_fetched, in error, cancelled or not parsed.         *)
FetchFails(c) ==
    /\ step[c] = "fetching"
    /\ Go(c, "freed")
    /\ UNCHANGED <<stored, doc, looping, raws, refs>>

(* operation_call_data_fetched with a document.                            *)
FetchUncached(c) ==
    /\ step[c] = "fetching" /\ ~caching
    /\ doc' = [doc EXCEPT ![c] = c]
    /\ refs' = [refs EXCEPT ![c] = 1]
    /\ Go(c, "ready")
    /\ UNCHANGED <<stored, looping, raws>>

(* The expired document of the cache is dropped; one that is still valid,  *)
(* because another call stored it since, is only forgotten.                *)
Outdated == cache # NoDoc /\ ~valid

(* Seeded fault: a pending timer is not started again for a new document.  *)
OneTimer(c) == IF timers = {} THEN {c} ELSE timers

NewTimer(c) == timers \cup {c}

FetchCached(c) ==
    /\ step[c] = "fetching" /\ caching
    /\ doc' = [doc EXCEPT ![c] = c]
    /\ refs' = [d \in Calls |-> IF d = c THEN 2
                                ELSE IF d = cache /\ Outdated THEN refs[d] - 1
                                ELSE refs[d]]
    /\ replaced' = IF Outdated THEN replaced ELSE replaced \cup ({cache} \ {NoDoc})
    /\ cache' = c /\ valid' = TRUE
    /\ timers' = NewTimer(c)
    /\ Go(c, "ready")
    /\ UNCHANGED <<format, caching, looping, raws>>

(* cache_expired_cb.  A timer is never removed: one of a document that was *)
(* replaced invalidates the one that replaced it.                          *)
CacheExpires(c) ==
    /\ c \in timers
    /\ timers' = timers \ {c}
    /\ valid' = FALSE
    /\ UNCHANGED <<format, caching, cache, step, doc, looping, raws, refs, replaced>>

-----------------------------------------------------------------------------
(* operation_call_send_xml_results, operation_call_send_json_results.      *)

Cancelled(c) ==
    /\ step[c] = "ready"
    /\ refs' = Dropped(doc[c])
    /\ Go(c, "freed")
    /\ UNCHANGED <<stored, doc, looping, raws>>

(* The XML function takes a reference first, and returns with it when      *)
(* there are no results to send.                                           *)
NoResults(c) ==
    /\ step[c] = "ready"
    /\ Go(c, "empty")
    /\ UNCHANGED <<stored, doc, looping, raws, refs>>

SendResults(c) ==
    /\ step[c] = "ready"
    /\ looping' = [looping EXCEPT ![c] = TRUE]
    /\ refs' = Taken(doc[c])
    /\ Go(c, "sending")
    /\ UNCHANGED <<stored, doc, raws>>

(* Seeded fault: an item shares the reference of the item loop.            *)
NewItemWithoutReference(c) ==
    /\ step[c] = "sending" /\ looping[c] /\ raws[c] < MaxItems
    /\ raws' = [raws EXCEPT ![c] = @ + 1]
    /\ UNCHANGED <<stored, step, doc, looping, refs>>

(* An item is built, with a GetRawData for the fetches of its keys.        *)
NewItem(c) ==
    /\ step[c] = "sending" /\ looping[c] /\ raws[c] < MaxItems
    /\ raws' = [raws EXCEPT ![c] = @ + 1]
    /\ refs' = Taken(doc[c])
    /\ UNCHANGED <<stored, step, doc, looping>>

(* The last fetch of the item lets go of it: get_raw_data_free.            *)
ItemDone(c) ==
    /\ raws[c] > 0
    /\ raws' = [raws EXCEPT ![c] = @ - 1]
    /\ refs' = Dropped(doc[c])
    /\ UNCHANGED <<stored, step, doc, looping>>

LoopDone(c) ==
    /\ looping[c]
    /\ looping' = [looping EXCEPT ![c] = FALSE]
    /\ refs' = Dropped(doc[c])
    /\ UNCHANGED <<stored, step, doc, raws>>

(* operation_call_data_free, by the last run of the send_list: from inside *)
(* the item loop, from the answer of a fetch, or later.                    *)
Free(c) ==
    /\ step[c] = "sending"
    /\ refs' = Dropped(doc[c])
    /\ Go(c, "freed")
    /\ UNCHANGED <<stored, doc, looping, raws>>

Next == \E c \in Calls :
    \/ Reuse(c) \/ Fetch(c) \/ FetchFails(c) \/ FetchUncached(c) \/ FetchCached(c)
    \/ CacheExpires(c)
    \/ Cancelled(c) \/ NoResults(c) \/ SendResults(c) \/ NewItem(c) \/ ItemDone(c)
    \/ LoopDone(c) \/ Free(c)

Spec == Init /\ [][Next]_vars
-----------------------------------------------------------------------------
(* Properties.                                                             *)

(* Who points to a document, each with a reference of its own.             *)
Users(d) == {c \in Calls : doc[c] = d /\ step[c] \in {"ready", "sending"}}
Loops(d) == {c \in Calls : doc[c] = d /\ looping[c]}
Items(d) == {p \in Calls \X (1..MaxItems) : doc[p[1]] = d /\ p[2] <= raws[p[1]]}

(* What is never given back: the reference the XML function took before it *)
(* found no results; that of every call that got a JSON parser; that of    *)
(* the cache when a document is replaced while it is valid.                *)
Empties(d) == {c \in Calls : doc[c] = d /\ step[c] = "empty"}
Getters(d) == {c \in Calls : doc[c] = d}

One(condition) == IF condition THEN 1 ELSE 0

(* The reference count of a document is the number of pointers to it, with *)
(* those never given back: no user is left with a freed document, and      *)
(* nothing else keeps one alive.                                           *)
RefsAreAccounted ==
    \A d \in Calls :
        refs[d] = One(cache = d) + One(d \in replaced)
                  + IF format = "xml"
                    THEN Cardinality(Users(d)) + Cardinality(Loops(d))
                         + Cardinality(Items(d)) + Cardinality(Empties(d))
                    ELSE Cardinality(Getters(d))

(* A call only reuses a document whose own cache_time is not over, however *)
(* many fetches raced to store it and timers are pending.                  *)
HitsAreFresh ==
    [][\A c \in Calls : Reuse(c) => doc'[c] \in timers]_vars
=============================================================================
