---------------------------- MODULE CallLifetime ----------------------------
(***************************************************************************)
(* Who keeps what alive during a call: the references to the cancellable,  *)
(* to the source, to the ExpandData of each operation and to the DataRefs  *)
(* that fetches read raw values through.  They are taken and dropped by    *)
(* the operation, by the resolves of its items, by each item and by the    *)
(* process data of nested fetches, which free themselves after their       *)
(* callback, that is after everything the callback went on to do.          *)
(*                                                                         *)
(* The code that runs between two events of the main loop is an agenda of  *)
(* the functions that are still to be run, the current one first.          *)
(***************************************************************************)
EXTENDS Integers, Sequences, FiniteSets

CONSTANTS
    Outer,      \* the operation of the call
    Resolves,   \* the operations that resolve its items
    Fetches,    \* room for fetches that are going on
    Raws,       \* room for the DataRefs of a query or an item
    MaxDepth,   \* bound on the process data nested in a fetch
    MaxKeys,    \* bound on the keys of an item
    MaxRests    \* bound on the requests to REST services

ASSUME BoundsAssumption == {MaxDepth, MaxKeys, MaxRests} \subseteq Nat
ASSUME OuterAssumption == Outer \notin Resolves

\* A program has finitely many of each, and they are counted.
ASSUME FiniteAssumption == \A S \in {Resolves, Fetches, Raws} : IsFiniteSet(S)

Calls == {Outer} \cup Resolves

VARIABLES
    phase,     \* how far each operation is
    fetches,   \* the fetches going on, each with its nested process data
    agenda,    \* what is still to be run before the main loop is
    refs,      \* reference counts
    rests,     \* how many requests to REST services had process data
    relayed,   \* the options ask for GRL_RESOLVE_IDLE_RELAY
    crashed    \* the cancellable was used after it was freed

vars == <<phase, fetches, agenda, refs, rests, relayed, crashed>>

(* A regexp runs a sub-regexp before its input, or just its input; a url   *)
(* is "requested" once its address is known and sent.                      *)
Expressions == {"replace", "regexp", "input"}
Kinds == Expressions \cup {"url", "requested", "rest"}

NoFetch == [is |-> "none"]
Running(f) == fetches[f] # NoFetch

Init ==
    /\ phase = [c \in Calls |-> "idle"]
    /\ fetches = [f \in Fetches |-> NoFetch]
    /\ agenda = <<>>
    /\ refs = [cancellable |-> 0, source |-> 1,
               expand |-> [c \in Calls |-> 0], raw |-> [s \in Raws |-> 0]]
    /\ rests = 0
    /\ relayed \in BOOLEAN
    /\ crashed = FALSE

-----------------------------------------------------------------------------
(* The agenda.                                                             *)
OfCall(do, c) == [do |-> do, call |-> c]
OfFetch(do, f) == [do |-> do, fetch |-> f]
WithRaw(do, c, s) == [do |-> do, call |-> c, raw |-> s]
Free(kind, f) == [do |-> "free", kind |-> kind, call |-> fetches[f].call, raw |-> fetches[f].raw]

Now(do) == ~crashed /\ agenda # <<>> /\ Head(agenda).do = do
Now1 == Head(agenda)
Then(steps) == agenda' = steps \o Tail(agenda)
Waiting == ~crashed /\ agenda = <<>>
Ahead(do, c) == \E i \in DOMAIN agenda : agenda[i].do = do /\ agenda[i].call = c

Alive == refs.cancellable > 0

GoTo(c, p) == phase' = [phase EXCEPT ![c] = p]

One(condition) == IF condition THEN 1 ELSE 0

(* Seeded fault: the cancellable is copied.                                *)
TakenButCancellable(kind, c, s) ==
    [refs EXCEPT !.source = @ + 1, !.expand[c] = @ + 1,
                 !.raw[s] = @ + One(kind \in Expressions)]

(* What process data takes when it is made.                                *)
Taken(kind, c, s) ==
    [refs EXCEPT !.source = @ + 1, !.cancellable = @ + 1, !.expand[c] = @ + 1,
                 !.raw[s] = @ + One(kind \in Expressions)]

(* Seeded fault: what holds the DataRef is forgotten.                      *)
NeverLastOf(kind, s) == FALSE

(* net_process_data_free and expression_process_data_free; a DataRef that  *)
(* is dropped by all drops the ExpandData with what it holds.              *)
LastOf(kind, s) == kind \in Expressions /\ refs.raw[s] = 1

Dropped(p) ==
    [refs EXCEPT !.source = @ - 1, !.cancellable = @ - 1,
                 !.expand[p.call] = @ - 1 - One(LastOf(p.kind, p.raw)),
                 !.raw[p.raw] = @ - One(p.kind \in Expressions)]

(* Seeded fault: the ExpandData is copied.                                 *)
NewRawButExpandData(c, s) == [refs EXCEPT !.raw[s] = 1]

(* get_raw_data_new, dataref_new: a DataRef, on the ExpandData.            *)
NewRaw(c, s) == [refs EXCEPT !.raw[s] = 1, !.expand[c] = @ + 1]

-----------------------------------------------------------------------------
(* grl_xml_factory_source_browse, _search and _resolve.                    *)
Begin ==
    /\ Waiting /\ phase[Outer] = "idle"
    /\ GoTo(Outer, "begun")
    /\ refs' = [refs EXCEPT !.cancellable = 1, !.expand[Outer] = 1]
    /\ agenda' = <<OfCall("call", Outer)>>
    /\ UNCHANGED <<fetches, rests, relayed, crashed>>

(* EXECUTE_CALL: the results are sent from an idle source, or at once.     *)
ExecuteCall(c) ==
    IF relayed THEN GoTo(c, "relay") /\ Then(<<>>)
               ELSE GoTo(c, "sending") /\ Then(<<OfCall("send", c)>>)

(* operation_call: the result is cached, or its query is fetched with a    *)
(* DataRef that holds the ExpandData too.                                  *)
OperationCall ==
    /\ Now("call")
    /\ LET c == Now1.call IN
         \/ ExecuteCall(c) /\ UNCHANGED <<fetches, refs>>
         \/ \E s \in Raws, f \in Fetches :
              /\ refs.raw[s] = 0 /\ ~Running(f)
              /\ GoTo(c, "query")
              /\ refs' = NewRaw(c, s)
              /\ fetches' = [fetches EXCEPT ![f] = [call |-> c, raw |-> s, nested |-> <<>>]]
              /\ Then(<<OfFetch("get", f), WithRaw("unref", c, s)>>)
    /\ UNCHANGED <<rests, relayed, crashed>>

(* dataref_unref of a query or an item.                                    *)
Unref ==
    /\ Now("unref")
    /\ LET s == Now1.raw IN
         refs' = [refs EXCEPT !.raw[s] = @ - 1,
                              !.expand[Now1.call] = @ - One(refs.raw[s] = 1)]
    /\ Then(<<>>)
    /\ UNCHANGED <<phase, fetches, rests, relayed, crashed>>

-----------------------------------------------------------------------------
(* fetch_data_get, for what f is about now.                                *)
Nested(f) == fetches[f].nested
Top(f) == Nested(f)[Len(Nested(f))]
Push(f, kind) == fetches' = [fetches EXCEPT ![f].nested = Append(@, kind)]
Become(f, kind) == fetches' = [fetches EXCEPT ![f].nested[Len(Nested(f))] = kind]
Pop(f) == fetches' = [fetches EXCEPT ![f].nested = SubSeq(@, 1, Len(@) - 1)]

(* A sub-regexp is a regexp; anything may be the input of one, or a url.   *)
Subregexp(f) == Nested(f) # <<>> /\ Top(f) = "regexp"
NestedKinds(f) == {"regexp", "input"} \cup IF Subregexp(f) THEN {} ELSE {"url", "replace"}

(* A text, a script, nothing, or the buffer of a sub-regexp.               *)
GetHere ==
    /\ Now("get") /\ ~Subregexp(Now1.fetch)
    /\ Then(<<OfFetch("obtained", Now1.fetch)>>)
    /\ UNCHANGED <<phase, fetches, refs, rests, relayed, crashed>>

GetNested ==
    /\ Now("get") /\ Alive
    /\ LET f == Now1.fetch IN
         /\ Len(Nested(f)) < MaxDepth
         /\ \E kind \in NestedKinds(f) :
              /\ Push(f, kind)
              /\ refs' = Taken(kind, fetches[f].call, fetches[f].raw)
         /\ Then(<<OfFetch("get", f)>>)
    /\ UNCHANGED <<phase, rests, relayed, crashed>>

(* fetch_rest: only the source is taken.  The request is sent, or cannot   *)
(* be.                                                                     *)
GetRest ==
    /\ Now("get")
    /\ LET f == Now1.fetch IN
         /\ ~Subregexp(f) /\ Len(Nested(f)) < MaxDepth
         /\ \/ Push(f, "rest") /\ Then(<<>>)
            \/ UNCHANGED fetches /\ Then(<<OfFetch("obtained", f)>>)
    /\ rests < MaxRests /\ rests' = rests + 1
    /\ refs' = [refs EXCEPT !.source = @ + 1]
    /\ UNCHANGED <<phase, relayed, crashed>>

(* The callback of the innermost process data: a regexp goes on with its   *)
(* input, a url asks the network.                                          *)
GoOn ==
    /\ Now("obtained")
    /\ LET f == Now1.fetch IN
         /\ Nested(f) # <<>>
         /\ \/ Top(f) = "regexp" /\ Become(f, "input") /\ Then(<<OfFetch("get", f)>>)
            \/ Top(f) = "url" /\ Alive /\ Become(f, "requested") /\ Then(<<>>)
    /\ UNCHANGED <<phase, refs, rests, relayed, crashed>>

(* It calls back and frees itself: a regexp or replace when it is done, a  *)
(* url without an address.                                                 *)
CallBack ==
    /\ Now("obtained")
    /\ LET f == Now1.fetch IN
         /\ Nested(f) # <<>> /\ Top(f) # "regexp"
         /\ Pop(f)
         /\ Then(<<OfFetch("obtained", f), Free(Top(f), f)>>)
    /\ UNCHANGED <<phase, refs, rests, relayed, crashed>>

FreeProcess ==
    /\ Now("free") /\ Alive
    /\ refs' = Dropped(Now1)
    /\ Then(<<>>)
    /\ UNCHANGED <<phase, fetches, rests, relayed, crashed>>

(* fetch_data_url_content_obtained, fetch_rest_fetched: the process data   *)
(* of a REST request is freed without its references.                      *)
NetAnswers(f) ==
    /\ Waiting /\ Running(f)
    /\ Top(f) = "requested" => Alive
    /\ Pop(f)
    /\ agenda' = <<OfFetch("obtained", f)>>
                 \o IF Top(f) = "rest" THEN <<>> ELSE <<Free(Top(f), f)>>
    /\ UNCHANGED <<phase, refs, rests, relayed, crashed>>

-----------------------------------------------------------------------------
(* operation_call_data_fetched: failed, cancelled, or sent on.             *)
DataFetched ==
    /\ Now("obtained")
    /\ LET f == Now1.fetch
           c == fetches[f].call
       IN  /\ Nested(f) = <<>> /\ phase[c] = "query"
           /\ fetches' = [fetches EXCEPT ![f] = NoFetch]
           /\ \/ UNCHANGED phase /\ Then(<<OfCall("end", c)>>)
              \/ ExecuteCall(c) /\ Alive
    /\ UNCHANGED <<refs, rests, relayed, crashed>>

RelayFires(c) ==
    /\ Waiting /\ phase[c] = "relay"
    /\ GoTo(c, "sending")
    /\ agenda' = <<OfCall("send", c)>>
    /\ UNCHANGED <<fetches, refs, rests, relayed, crashed>>

(* operation_call_send_xml_results, operation_call_send_json_results:      *)
(* cancelled, without results, or with items.                              *)
SendResults ==
    /\ Now("send") /\ Alive
    /\ \/ Then(<<OfCall("end", Now1.call)>>) /\ UNCHANGED phase
       \/ Then(<<OfCall("item", Now1.call)>>) /\ GoTo(Now1.call, "items")
    /\ UNCHANGED <<fetches, refs, rests, relayed, crashed>>

(* The next item: its GetRawData, and its keys one after the other.        *)
NewItem ==
    /\ Now("item")
    /\ \E s \in Raws, n \in 0..MaxKeys, last \in BOOLEAN :
         LET c == Now1.call IN
         /\ refs.raw[s] = 0
         /\ refs' = NewRaw(c, s)
         /\ Then([i \in 1..n |-> WithRaw("key", c, s)] \o <<WithRaw("unref", c, s)>>
                 \o IF last THEN <<>> ELSE <<OfCall("item", c)>>)
    /\ UNCHANGED <<phase, fetches, rests, relayed, crashed>>

(* A key is settled or left to a resolve, or fetched.                      *)
Key ==
    /\ Now("key")
    /\ \/ /\ Then(<<OfCall("run", Now1.call)>>)
          /\ UNCHANGED fetches
       \/ \E f \in Fetches :
            /\ ~Running(f)
            /\ fetches' = [fetches EXCEPT ![f] =
                              [call |-> Now1.call, raw |-> Now1.raw, nested |-> <<>>]]
            /\ Then(<<OfFetch("get", f)>>)
    /\ UNCHANGED <<phase, refs, rests, relayed, crashed>>

(* fetch_data_obtained.                                                    *)
KeyFetched ==
    /\ Now("obtained")
    /\ LET f == Now1.fetch
           c == fetches[f].call
       IN  /\ Nested(f) = <<>> /\ phase[c] = "items"
           /\ fetches' = [fetches EXCEPT ![f] = NoFetch]
           /\ Then(<<OfCall("run", c)>>)
    /\ UNCHANGED <<phase, refs, rests, relayed, crashed>>

-----------------------------------------------------------------------------
(* operation_call_send_list_run.                                           *)
Busy(r) == phase[r] \in {"begun", "query", "relay", "sending", "items"}
AllSettled(c) ==
    /\ \A f \in Fetches : Running(f) => fetches[f].call # c
    /\ ~Ahead("key", c) /\ ~Ahead("item", c)
    /\ c = Outer => \A r \in Resolves : ~Busy(r)

RunWaits ==
    /\ Now("run")
    /\ Then(<<>>)
    /\ UNCHANGED <<phase, fetches, refs, rests, relayed, crashed>>

(* get_resolve_data: the cancellable is copied, not taken.                 *)
RunResolves ==
    /\ Now("run") /\ Now1.call = Outer
    /\ \A r \in Resolves : ~Busy(r)
    /\ \E r \in Resolves :
         /\ phase[r] = "idle"
         /\ GoTo(r, "begun")
         /\ refs' = [refs EXCEPT !.expand[r] = 1]
         /\ Then(<<OfCall("call", r)>>)
    /\ UNCHANGED <<fetches, rests, relayed, crashed>>

(* Everything was sent.                                                    *)
RunEnds ==
    /\ Now("run") /\ AllSettled(Now1.call)
    /\ phase[Now1.call] = "items"
    /\ Then(<<OfCall("end", Now1.call)>>)
    /\ UNCHANGED <<phase, fetches, refs, rests, relayed, crashed>>

(* The callback with the last answer, which for a resolve is               *)
(* use_resolve_done_cb, then operation_call_data_free.                     *)
End ==
    /\ Now("end")
    /\ LET c == Now1.call IN
         /\ GoTo(c, "answered")
         /\ Then((IF c = Outer THEN <<>> ELSE <<OfCall("run", Outer)>>) \o <<OfCall("finish", c)>>)
    /\ UNCHANGED <<fetches, refs, rests, relayed, crashed>>

OperationCallDataFree ==
    /\ Now("finish") /\ Alive
    /\ GoTo(Now1.call, "over")
    /\ refs' = [refs EXCEPT !.expand[Now1.call] = @ - 1, !.cancellable = @ - 1]
    /\ Then(<<>>)
    /\ UNCHANGED <<fetches, rests, relayed, crashed>>

(* grl_xml_factory_source_cancel has no part in this: the cancellable is   *)
(* used by whoever asks it whether it was cancelled, refers to it, or      *)
(* drops it.  What happens once it was freed is undefined, and the model   *)
(* ends.                                                                   *)
UsesCancellable ==
    \/ Now("free") \/ Now("finish") \/ Now("get") \/ Now("send")
    \/ /\ Now("obtained")
       /\ LET f == Now1.fetch IN
            IF Nested(f) = <<>> THEN phase[fetches[f].call] = "query" ELSE Top(f) = "url"
    \/ Waiting /\ \E f \in Fetches : Running(f) /\ Top(f) \in {"requested", "rest"}

Crash ==
    /\ UsesCancellable /\ ~Alive
    /\ crashed' = TRUE
    /\ UNCHANGED <<phase, fetches, agenda, refs, rests, relayed>>

Next ==
    \/ Begin \/ OperationCall \/ Unref
    \/ GetHere \/ GetNested \/ GetRest \/ GoOn \/ CallBack \/ FreeProcess
    \/ \E f \in Fetches : NetAnswers(f)
    \/ DataFetched \/ SendResults \/ \E c \in Calls : RelayFires(c)
    \/ NewItem \/ Key \/ KeyFetched
    \/ RunWaits \/ RunResolves \/ RunEnds
    \/ End \/ OperationCallDataFree \/ Crash

Spec == Init /\ [][Next]_vars
-----------------------------------------------------------------------------
(* Properties.                                                             *)

TypeOK ==
    /\ phase \in [Calls -> {"idle", "begun", "query", "relay", "sending", "items", "answered", "over"}]
    /\ \A f \in Fetches : Running(f) =>
         /\ fetches[f].call \in Calls /\ fetches[f].raw \in Raws
         /\ \A i \in DOMAIN Nested(f) : Nested(f)[i] \in Kinds
    /\ refs \in [cancellable : Nat, source : Nat, expand : [Calls -> Nat], raw : [Raws -> Nat]]
    /\ rests \in 0..MaxRests
    /\ {relayed, crashed} \subseteq BOOLEAN

(* The process data that is allocated: nested in a fetch, or about to be   *)
(* freed; but for that of REST requests, which holds only the source.      *)
Process ==
    {p \in Fetches \X (1..MaxDepth) :
        Running(p[1]) /\ p[2] \in DOMAIN Nested(p[1]) /\ Nested(p[1])[p[2]] # "rest"}
Freeing == {i \in DOMAIN agenda : agenda[i].do = "free"}

Allocated(c) ==
    Cardinality({p \in Process : fetches[p[1]].call = c})
    + Cardinality({i \in Freeing : agenda[i].call = c})
Reading(s) ==
    Cardinality({p \in Process : fetches[p[1]].raw = s /\ Nested(p[1])[p[2]] \in Expressions})
    + Cardinality({i \in Freeing : agenda[i].raw = s /\ agenda[i].kind \in Expressions})
Unfinished(s) == {i \in DOMAIN agenda : agenda[i].do = "unref" /\ agenda[i].raw = s}

Going(c) == phase[c] \notin {"idle", "over"}

(* The DataRefs that hold the ExpandData of the operation: some process    *)
(* data or its item or query reads through them.                           *)
RawsOf(c) ==
    {fetches[p[1]].raw : p \in {q \in Process : /\ fetches[q[1]].call = c
                                                /\ Nested(q[1])[q[2]] \in Expressions}}
    \cup {agenda[i].raw : i \in {j \in Freeing : /\ agenda[j].call = c
                                                 /\ agenda[j].kind \in Expressions}}
    \cup {agenda[i].raw : i \in {j \in DOMAIN agenda : agenda[j].do = "unref" /\ agenda[j].call = c}}

(* Whatever order callbacks come in, an ExpandData has a reference of the  *)
(* operation, of each of its process data and of each DataRef it is read   *)
(* through, and a DataRef of each that reads through it: neither is freed  *)
(* before its last user or survives it.  The source has one too many for   *)
(* each REST request, and the cancellable one too few for each resolve     *)
(* that is over.                                                           *)
RefsAreExact ==
    LET everywhere == Cardinality(Process) + Cardinality(Freeing) IN
    /\ \A c \in Calls : refs.expand[c] = One(Going(c)) + Allocated(c) + Cardinality(RawsOf(c))
    /\ \A s \in Raws : refs.raw[s] = Reading(s) + Cardinality(Unfinished(s))
    /\ refs.source = 1 + everywhere + rests
    /\ refs.cancellable + Cardinality({r \in Resolves : phase[r] = "over"})
         = One(Going(Outer)) + everywhere

(* The cancellable is only used after it was freed if a resolve of an item *)
(* is over and dropped a reference it had not taken.                       *)
CrashOnlyAfterResolve ==
    crashed => \E r \in Resolves : phase[r] \in {"answered", "over"}
=============================================================================
