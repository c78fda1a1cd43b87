---------------------------- MODULE OperationCall ----------------------------
(***************************************************************************)
(* One browse, search or resolve call of a source, from operation_call()   *)
(* to operation_call_data_free(), with the resolve operations it starts    *)
(* for keys declared use="resolve".                                        *)
(*                                                                         *)
(* Everything runs on one GLib main loop.  A main loop callback (a network *)
(* completion, an idle source, a request of the application) runs to its   *)
(* end, and the functions of the plugin call each other inside it; a step  *)
(* of this module is one piece of such a callback, and Top(o) says whose   *)
(* code is on top of the C stack.  The application may cancel from the     *)
(* main loop or from inside the callback that hands it a media.            *)
(*                                                                         *)
(* Operation 0 is the caller's; operation i > 0 is the resolve of its i-th *)
(* media (get_resolve_data).  An item is identified by its place in the    *)
(* operation's results: the send_list holds sent + 1 .. created, in order. *)
(***************************************************************************)
EXTENDS Integers

CONSTANTS
    MaxResults,   \* bound: most media the caller's operation hands over
    KeyCounts     \* how many keys an item may have to gather (merge_lists)

ASSUME MaxResultsAssumption == MaxResults \in Nat \ {0}
ASSUME KeyCountsAssumption  == KeyCounts \subseteq Nat

Index == 1..MaxResults
Ops   == {0} \cup Index

VARIABLES
    phase,       \* where the OperationCallData of each operation is
    run,         \* operation_call_send_list_run on it: "none", "run", "sent"
    target,      \* results it will send: total_results once skip and count are applied
    total,       \* data->total_results: results not yet sent
    created,     \* SendItems appended to data->send_list so far
    sent,        \* SendItems handed over and removed from data->send_list
    keysLeft,    \* keys of the newest item the key loop has not reached
    pending,     \* SendItem.pending_count
    applies,     \* SendItem.apply_resolve
    inFlight,    \* FetchItemData of an item whose fetch has not answered
    relayed,     \* options contain GRL_RESOLVE_IDLE_RELAY
    cancelled,   \* g_cancellable_is_cancelled (data->cancellable)
    answer       \* how the caller's stream stands: see ResultStream

vars == <<phase, run, target, total, created, sent, keysLeft, pending, applies,
          inFlight, relayed, cancelled, answer>>

items == <<target, total, created, sent, keysLeft, applies, inFlight>>

(* "entered":  grl_xml_factory_source_browse, _search or _resolve is running *)
(* "called":   operation_call is running                                   *)
(* "fetching": the document of the result has been asked for               *)
(* "fetched":  operation_call_data_fetched is running                      *)
(* "relay":    send_xml_results / send_json_results wait in an idle source *)
(* "results":  one of them is running, before its first item               *)
(* "sending":  it builds items, or the items wait for their keys           *)
(* "closing":  callback (NULL, 0) was called, the free comes next          *)
Phases == {"unused", "entered", "called", "fetching", "fetched", "relay", "results",
           "sending", "closing", "freed"}

TypeOK ==
    /\ phase \in [Ops -> Phases]
    /\ run \in [Ops -> {"none", "run", "sent"}]
    /\ target \in [Ops -> Nat]
    /\ total \in [Ops -> Nat]
    /\ created \in [Ops -> Nat]
    /\ sent \in [Ops -> Nat]
    /\ keysLeft \in [Ops -> Nat]
    /\ pending \in [Ops -> [Index -> Nat]]
    /\ applies \in [Index -> BOOLEAN]
    /\ inFlight \in [Ops -> [Index -> Nat]]
    /\ relayed \in BOOLEAN
    /\ cancelled \in BOOLEAN
    /\ answer \in {"open", "complete", "nothing", "error", "cancelled"}

Init ==
    /\ phase = [o \in Ops |-> IF o = 0 THEN "entered" ELSE "unused"]
    /\ run = [o \in Ops |-> "none"]
    /\ target = [o \in Ops |-> 0]
    /\ total = [o \in Ops |-> 0]
    /\ created = [o \in Ops |-> 0]
    /\ sent = [o \in Ops |-> 0]
    /\ keysLeft = [o \in Ops |-> 0]
    /\ pending = [o \in Ops |-> [i \in Index |-> 0]]
    /\ applies = [i \in Index |-> FALSE]
    /\ inFlight = [o \in Ops |-> [i \in Index |-> 0]]
    /\ relayed \in BOOLEAN
    /\ cancelled = FALSE
    /\ answer = "open"

-----------------------------------------------------------------------------
(* The C stack.                                                            *)

(* send_*_results still has items to build or keys to go through.          *)
Building(o) == phase[o] = "sending" /\ (created[o] < target[o] \/ keysLeft[o] > 0)

Busy(o) ==
    \/ phase[o] \in {"entered", "called", "fetched", "results", "closing"}
    \/ run[o] # "none"
    \/ Building(o)

(* Operation 0's send_list_run only calls deeper as its last act, so it is *)
(* on top whenever it runs; the resolve of a later item is called from     *)
(* inside the callback of an earlier one; the rest of operation 0 is below. *)
Top(o) ==
    /\ Busy(o)
    /\ o # 0 => run[0] = "none"
    /\ run[o] = "none" \/ o # 0 => \A i \in Index : i > o => ~Busy(i)

Idle == \A o \in Ops : ~Busy(o)

Head(o) == sent[o] + 1

(* use_resolve_done_cb: whatever the answer was, it counts for the item at *)
(* the head of the caller's send_list, and the list is run again.          *)
ResolveDone(counts) == [counts EXCEPT ![0][Head(0)] = @ - 1]

(* data->callback (NULL, 0, data->user_data, error), then                  *)
(* operation_call_data_free (data).                                        *)
Close(o, with) ==
    /\ IF o = 0
       THEN /\ phase' = [phase EXCEPT ![0] = "freed"]
            /\ answer' = with
            /\ UNCHANGED <<run, pending>>
       ELSE /\ phase' = [phase EXCEPT ![o] = "closing"]
            /\ pending' = ResolveDone(pending)
            /\ run' = [run EXCEPT ![0] = "run"]
            /\ UNCHANGED answer
    /\ UNCHANGED <<items, relayed, cancelled>>

(* The rest of Close for a resolve operation, once the callback returns.   *)
Free(o) ==
    /\ phase[o] = "closing" /\ Top(o)
    /\ phase' = [phase EXCEPT ![o] = "freed"]
    /\ UNCHANGED <<run, items, pending, relayed, cancelled, answer>>

(* Move the operation on without touching its items.                       *)
Go(o, to) ==
    /\ phase' = [phase EXCEPT ![o] = to]
    /\ UNCHANGED <<run, items, pending, relayed, cancelled, answer>>

(* EXECUTE_CALL (options, operation_call_send_*_results, data).            *)
ExecuteCall(o) == Go(o, IF relayed THEN "relay" ELSE "results")

-----------------------------------------------------------------------------
(* grl_xml_factory_source_browse, _search and _resolve: an operation of    *)
(* the source fits the request, and is called.                             *)

Request ==
    /\ phase[0] = "entered"
    /\ Go(0, "called")

(* No operation of the source fits: the answer is empty and nothing is made. *)
NoOperation ==
    /\ phase[0] = "entered"
    /\ Close(0, "nothing")

(* grl_xml_factory_source_cancel, called from the main loop.               *)
Cancel ==
    /\ Idle /\ phase[0] # "freed" /\ ~cancelled
    /\ cancelled' = TRUE
    /\ UNCHANGED <<phase, run, items, pending, relayed, answer>>

-----------------------------------------------------------------------------
(* operation_call: reuse the cached document, or fetch one.  The fetch may *)
(* answer before fetch_data_get returns.                                   *)

CachedResult(o) ==
    /\ phase[o] = "called" /\ Top(o)
    /\ ExecuteCall(o)

Fetch(o) ==
    /\ phase[o] = "called" /\ Top(o)
    /\ \E to \in {"fetching", "fetched"} : Go(o, to)

FetchAnswers(o) ==
    /\ phase[o] = "fetching" /\ Idle
    /\ Go(o, "fetched")

(* operation_call_data_fetched.  An error of the fetch closes the stream   *)
(* with the local `error`, which is still NULL.                            *)
FetchFailed(o) ==
    /\ phase[o] = "fetched" /\ Top(o)
    /\ Close(o, "nothing")

DataFetched(o) ==
    /\ phase[o] = "fetched" /\ Top(o)
    /\ IF cancelled
       THEN Close(o, "cancelled")
       ELSE ExecuteCall(o) \/ Close(o, "error")

RelayFires(o) ==
    /\ phase[o] = "relay" /\ Idle
    /\ Go(o, "results")

(* Seeded fault: results that waited in an idle source are not checked for *)
(* a cancellation that came meanwhile.                                     *)
SendResultsUnchecked(o) ==
    /\ phase[o] = "results" /\ Top(o)
    /\ \/ Close(o, "nothing")
       \/ \E n \in IF o = 0 THEN Index ELSE {1} :
            /\ target' = [target EXCEPT ![o] = n]
            /\ total' = [total EXCEPT ![o] = n]
            /\ phase' = [phase EXCEPT ![o] = "sending"]
            /\ UNCHANGED <<run, created, sent, keysLeft, pending, applies, inFlight,
                           relayed, cancelled, answer>>

(* Seeded fault: total_results still counts one result beyond `count`.     *)
SendResultsBeyondCount(o) ==
    /\ phase[o] = "results" /\ Top(o) /\ ~cancelled
    /\ \E n \in IF o = 0 THEN Index ELSE {1} :
         /\ target' = [target EXCEPT ![o] = n]
         /\ total' = [total EXCEPT ![o] = n + 1]
         /\ phase' = [phase EXCEPT ![o] = "sending"]
         /\ UNCHANGED <<run, created, sent, keysLeft, pending, applies, inFlight,
                        relayed, cancelled, answer>>

(* The beginning of operation_call_send_*_results: was it cancelled, and   *)
(* how many results are left once skip and count are applied?  A resolve   *)
(* sends one at most.                                                      *)
SendResults(o) ==
    /\ phase[o] = "results" /\ Top(o)
    /\ IF cancelled
       THEN Close(o, "cancelled")
       ELSE \/ Close(o, "nothing")
            \/ \E n \in IF o = 0 THEN Index ELSE {1} :
                 /\ target' = [target EXCEPT ![o] = n]
                 /\ total' = [total EXCEPT ![o] = n]
                 /\ phase' = [phase EXCEPT ![o] = "sending"]
                 /\ UNCHANGED <<run, created, sent, keysLeft, pending, applies,
                                inFlight, relayed, cancelled, answer>>

-----------------------------------------------------------------------------
(* The loop that builds the items and starts the fetch of their keys.      *)

NewItem(o) ==
    /\ Building(o) /\ Top(o) /\ run[o] = "none"
    /\ keysLeft[o] = 0
    /\ created' = [created EXCEPT ![o] = @ + 1]
    /\ \E n \in KeyCounts :
         /\ keysLeft' = [keysLeft EXCEPT ![o] = n]
         /\ pending' = [pending EXCEPT ![o][created[o] + 1] = n]
    /\ UNCHANGED <<phase, run, target, total, sent, applies, inFlight, relayed,
                   cancelled, answer>>

NextKey(o) ==
    /\ Building(o) /\ Top(o) /\ run[o] = "none"
    /\ keysLeft[o] > 0
    /\ keysLeft' = [keysLeft EXCEPT ![o] = @ - 1]
    /\ UNCHANGED <<phase, target, total, created, sent, relayed, cancelled, answer>>

(* The media has the key already, the template has no data for it, or its  *)
(* fetch answered before fetch_data_get returned.                          *)
KeySettled(o) ==
    /\ NextKey(o)
    /\ pending' = [pending EXCEPT ![o][created[o]] = @ - 1]
    /\ run' = [run EXCEPT ![o] = "run"]
    /\ UNCHANGED <<applies, inFlight>>

(* Seeded fault: a key left to the resolve stays in pending_count.         *)
KeyUsesResolveUncounted(o) ==
    /\ o = 0
    /\ NextKey(0)
    /\ applies' = [applies EXCEPT ![created[0]] = TRUE]
    /\ run' = [run EXCEPT ![0] = "run"]
    /\ UNCHANGED <<pending, inFlight>>

(* The key is one of use_resolve_keys: only JSON results of browse and     *)
(* search look at these.                                                   *)
KeyUsesResolve(o) ==
    /\ o = 0
    /\ NextKey(0)
    /\ applies' = [applies EXCEPT ![created[0]] = TRUE]
    /\ pending' = [pending EXCEPT ![0][created[0]] = @ - 1]
    /\ run' = [run EXCEPT ![0] = "run"]
    /\ UNCHANGED inFlight

(* Seeded fault: the key is settled when its fetch starts, and again when  *)
(* it is answered.                                                         *)
KeyFetchSettled(o) ==
    /\ NextKey(o)
    /\ inFlight' = [inFlight EXCEPT ![o][created[o]] = @ + 1]
    /\ pending' = [pending EXCEPT ![o][created[o]] = @ - 1]
    /\ UNCHANGED <<run, applies>>

(* The fetch of the key goes to the network.                               *)
KeyFetch(o) ==
    /\ NextKey(o)
    /\ inFlight' = [inFlight EXCEPT ![o][created[o]] = @ + 1]
    /\ UNCHANGED <<run, pending, applies>>

(* Seeded fault: an answer that comes after a cancellation is dropped.     *)
KeyFetchedUnlessCancelled(o, i) ==
    /\ Idle
    /\ inFlight[o][i] > 0
    /\ inFlight' = [inFlight EXCEPT ![o][i] = @ - 1]
    /\ IF cancelled
       THEN UNCHANGED <<pending, run>>
       ELSE /\ pending' = [pending EXCEPT ![o][i] = @ - 1]
            /\ run' = [run EXCEPT ![o] = "run"]
    /\ UNCHANGED <<phase, target, total, created, sent, keysLeft, applies, relayed,
                   cancelled, answer>>

(* fetch_data_obtained, called from the main loop.                         *)
KeyFetched(o, i) ==
    /\ Idle
    /\ inFlight[o][i] > 0
    /\ inFlight' = [inFlight EXCEPT ![o][i] = @ - 1]
    /\ pending' = [pending EXCEPT ![o][i] = @ - 1]
    /\ run' = [run EXCEPT ![o] = "run"]
    /\ UNCHANGED <<phase, target, total, created, sent, keysLeft, applies, relayed,
                   cancelled, answer>>

-----------------------------------------------------------------------------
(* operation_call_send_list_run.                                           *)

Running(o) == run[o] = "run" /\ Top(o)

(* Seeded fault: the pending_count of the head is not looked at.           *)
ReadyWithKeysPending(o) == sent[o] < created[o]

Ready(o) == sent[o] < created[o] /\ pending[o][Head(o)] = 0

(* The caller gets the head of its list, and may cancel while it does.     *)
Deliver ==
    /\ total' = [total EXCEPT ![0] = @ - 1]
    /\ sent' = [sent EXCEPT ![0] = @ + 1]
    /\ answer' = IF total[0] = 1 THEN "complete" ELSE answer
    /\ cancelled' \in {cancelled, TRUE}
    /\ UNCHANGED <<target, created, keysLeft, inFlight, relayed>>

SendHead ==
    /\ Running(0)
    /\ Ready(0) /\ ~applies[Head(0)]
    /\ Deliver
    /\ UNCHANGED <<phase, run, pending, applies>>

(* Seeded fault: the resolve is not counted in the item's pending_count.   *)
ResolveHeadUncounted ==
    /\ Running(0)
    /\ Ready(0) /\ applies[Head(0)]
    /\ applies' = [applies EXCEPT ![Head(0)] = FALSE]
    /\ phase' = [phase EXCEPT ![Head(0)] = "called"]
    /\ run' = [run EXCEPT ![0] = "none"]
    /\ UNCHANGED <<target, total, created, sent, keysLeft, pending, inFlight, relayed,
                   cancelled, answer>>

(* Seeded fault: apply_resolve is not reset.                               *)
ResolveHeadAgain ==
    /\ Running(0)
    /\ Ready(0) /\ applies[Head(0)]
    /\ pending' = [pending EXCEPT ![0][Head(0)] = @ + 1]
    /\ \/ /\ phase' = [phase EXCEPT ![Head(0)] = "called"]
          /\ run' = [run EXCEPT ![0] = "none"]
          /\ UNCHANGED <<target, total, created, sent, keysLeft, inFlight, relayed,
                         cancelled, answer>>
       \/ /\ Deliver
          /\ UNCHANGED <<phase, run>>
    /\ UNCHANGED applies

(* The head has to go through resolve first, if the source can resolve it; *)
(* operation_call on the new operation is the last act of this run.        *)
ResolveHead ==
    /\ Running(0)
    /\ Ready(0) /\ applies[Head(0)]
    /\ applies' = [applies EXCEPT ![Head(0)] = FALSE]
    /\ pending' = [pending EXCEPT ![0][Head(0)] = @ + 1]
    /\ \/ /\ phase' = [phase EXCEPT ![Head(0)] = "called"]
          /\ run' = [run EXCEPT ![0] = "none"]
          /\ UNCHANGED <<target, total, created, sent, keysLeft, inFlight, relayed,
                         cancelled, answer>>
       \/ /\ Deliver
          /\ UNCHANGED <<phase, run>>

(* A resolve operation hands its media over: use_resolve_done_cb merges it *)
(* into the caller's item and runs the caller's list.                      *)
SendResolved(o) ==
    /\ o # 0 /\ Running(o)
    /\ Ready(o)
    /\ total' = [total EXCEPT ![o] = @ - 1]
    /\ run' = [run EXCEPT ![o] = "sent", ![0] = "run"]
    /\ pending' = ResolveDone(pending)
    /\ UNCHANGED <<phase, target, created, sent, keysLeft, applies, inFlight, relayed,
                   cancelled, answer>>

(* Back from that callback: the item is freed and unlinked.                *)
Unlink(o) ==
    /\ run[o] = "sent" /\ Top(o)
    /\ sent' = [sent EXCEPT ![o] = @ + 1]
    /\ run' = [run EXCEPT ![o] = "run"]
    /\ UNCHANGED <<phase, target, total, created, keysLeft, pending, applies, inFlight,
                   relayed, cancelled, answer>>

HeadWaits(o) ==
    /\ Running(o)
    /\ sent[o] < created[o] /\ ~Ready(o)
    /\ run' = [run EXCEPT ![o] = "none"]
    /\ UNCHANGED <<phase, items, pending, relayed, cancelled, answer>>

(* Seeded fault: the operation is freed whenever its list is empty.        *)
ListDoneTooSoon(o) ==
    /\ Running(o)
    /\ sent[o] = created[o]
    /\ run' = [run EXCEPT ![o] = "none"]
    /\ phase' = [phase EXCEPT ![o] = "freed"]
    /\ UNCHANGED <<items, pending, relayed, cancelled, answer>>

(* Seeded fault: a resolve that sent its media is not freed.               *)
ListDoneKept(o) ==
    /\ Running(o)
    /\ sent[o] = created[o]
    /\ run' = [run EXCEPT ![o] = "none"]
    /\ phase' = IF o = 0 /\ total[o] = 0 THEN [phase EXCEPT ![o] = "freed"] ELSE phase
    /\ UNCHANGED <<items, pending, relayed, cancelled, answer>>

(* The list is empty; the operation is over when nothing is left to send.  *)
ListDone(o) ==
    /\ Running(o)
    /\ sent[o] = created[o]
    /\ run' = [run EXCEPT ![o] = "none"]
    /\ phase' = IF total[o] = 0 THEN [phase EXCEPT ![o] = "freed"] ELSE phase
    /\ UNCHANGED <<items, pending, relayed, cancelled, answer>>

-----------------------------------------------------------------------------
(* Code that is on the stack: it always goes on.                           *)
Run ==
    \/ Request \/ NoOperation \/ SendHead \/ ResolveHead
    \/ \E o \in Ops :
         \/ CachedResult(o) \/ Fetch(o) \/ FetchFailed(o) \/ DataFetched(o)
         \/ SendResults(o) \/ Free(o)
         \/ NewItem(o) \/ KeySettled(o) \/ KeyUsesResolve(o) \/ KeyFetch(o)
         \/ SendResolved(o) \/ Unlink(o) \/ HeadWaits(o) \/ ListDone(o)

(* Events the main loop dispatches: idle sources and network completions.  *)
Dispatch ==
    \/ \E o \in Ops : FetchAnswers(o) \/ RelayFires(o)
    \/ \E o \in Ops, i \in Index : KeyFetched(o, i)

(* The call is over; the main loop serves others.                          *)
Terminated ==
    /\ Idle /\ phase[0] = "freed"
    /\ UNCHANGED vars

Next == Cancel \/ Run \/ Dispatch \/ Terminated

Safety == Init /\ [][Next]_vars

(* The main loop runs its callbacks to the end, fires its idle sources, and *)
(* every request handed to the network is answered, with data or an error. *)
Spec == Safety /\ WF_vars(Run) /\ WF_vars(Dispatch)
-----------------------------------------------------------------------------
(* Properties.                                                             *)

(* The resolve of item i has been called and has not answered yet.         *)
Resolving(i) ==
    \/ phase[i] \in {"called", "fetching", "fetched", "relay", "results"}
    \/ phase[i] = "sending" /\ total[i] > 0

Listed(o, i) == sent[o] < i /\ i <= created[o]

(* The pending_count of a listed item is the number of answers it waits    *)
(* for: keys the loop has not reached, fetches in flight and its resolve.  *)
(* Too low and the media goes out with keys missing, too high and never.   *)
PendingCountIsExact ==
    \A o \in Ops, i \in Index :
        Listed(o, i) =>
            pending[o][i] = (IF i = created[o] THEN keysLeft[o] ELSE 0)
                            + inFlight[o][i]
                            + (IF o = 0 /\ Resolving(i) THEN 1 ELSE 0)

(* A fetch keeps raw pointers to its operation and to its SendItem: both   *)
(* outlive it (fetch_data_obtained).                                       *)
FetchesOfLiveItems ==
    \A o \in Ops, i \in Index :
        inFlight[o][i] > 0 => phase[o] = "sending" /\ Listed(o, i)

(* use_resolve_done_cb settles the head of the caller's list and nothing   *)
(* says which item was resolved: it must be the one the resolve was for,   *)
(* with nothing else to wait for, of an operation not freed meanwhile.     *)
ResolveAnswersItsItem ==
    \A i \in Index :
        Resolving(i) =>
            /\ phase[0] = "sending"
            /\ i = Head(0) /\ i <= created[0]
            /\ pending[0][i] = 1

(* operation_call_data_free runs inside calls made by send_*_results and   *)
(* by the answers of the fetches: the code that continues after it must    *)
(* have nothing left to do with the operation.                             *)
FreedIsFinished ==
    \A o \in Ops :
        phase[o] = "freed" =>
            /\ run[o] = "none" /\ keysLeft[o] = 0 /\ total[o] = 0
            /\ sent[o] = target[o] /\ created[o] = target[o]
            /\ o = 0 => answer # "open"

(* When the caller's operation is over and the stack is unwound, every     *)
(* resolve started on its behalf was freed as well.                        *)
NothingLeftBehind ==
    Idle /\ phase[0] = "freed" =>
        \A o \in Ops : phase[o] \in {"unused", "freed"}

(* "Start to send all elements when there are no pending operations over   *)
(* each element": between two main loop callbacks no item that waits for   *)
(* nothing is at the head of a list.                                       *)
ReadyHeadIsSent ==
    Idle => \A o \in Ops : sent[o] < created[o] => pending[o][Head(o)] > 0

(* A call whose code is not on the stack and that is not over is one that  *)
(* the main loop will come back to: a document or a key of it, or of a     *)
(* resolve made for it, is being fetched, or an idle source waits.         *)
CallIsNotForgotten ==
    Idle /\ phase[0] # "freed" =>
        \E o \in Ops : \/ phase[o] \in {"fetching", "relay"}
                       \/ \E i \in Index : inFlight[o][i] > 0

(* What is left to do, the most significant first: phases to go through,   *)
(* items to build, keys to reach, fetches to be answered, media to hand    *)
(* over, runs of the lists.                                                *)
PhaseRank == [unused |-> 9, entered |-> 9, called |-> 8, fetching |-> 7, fetched |-> 6,
              relay |-> 5, results |-> 4, sending |-> 3, closing |-> 2, freed |-> 1]
RunRank == [none |-> 0, run |-> 1, sent |-> 2]

Work == <<[o \in Ops |-> PhaseRank[phase[o]]],
          [o \in Ops |-> target[o] - created[o]],
          keysLeft,
          [x \in Ops \X Index |-> inFlight[x[1]][x[2]]],
          total,
          [o \in Ops |-> RunRank[run[o]]]>>

(* No more of anything, and less of something.                             *)
Less(left, before) == left # before /\ \A x \in DOMAIN before : left[x] <= before[x]

(* However functions call each other and in whatever order answers come,   *)
(* each step of a call brings its end nearer: nothing in it is done again. *)
WorkRunsOut ==
    [][Run \/ Dispatch =>
          \E k \in 1..6 : Less(Work'[k], Work[k]) /\ \A j \in 1..k - 1 : Work'[j] = Work[j]]_vars

(* A call is bound to end, if only its code goes on and what it waits for  *)
(* comes: it neither stops short nor goes round in circles.                *)
BoundToEnd == []CallIsNotForgotten /\ WorkRunsOut

(* A cancellation that comes before the first result is looked for means   *)
(* that no media is handed over any more.                                  *)
CancelStopsResults ==
    [](cancelled /\ target[0] = 0 => [](sent[0] = 0))

(* What the caller is promised, of its own operation.                      *)
Stream == INSTANCE ResultStream
            WITH media     <- sent[0],
                 remaining <- IF answer = "open" /\ sent[0] = 0 THEN -1 ELSE total[0]

(* Every answer the caller gets is one a result stream allows: counted     *)
(* down by one, closed exactly once, nothing after the close.              *)
AnswersAsPromised == Stream!Safety

(* And the stream is closed in the end, cancelled or not.                  *)
AnswersInTheEnd == Stream!Spec
=============================================================================
