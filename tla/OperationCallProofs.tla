-------------------------- MODULE OperationCallProofs --------------------------
(***************************************************************************)
(* Proofs about OperationCall, for any number of results and any number of *)
(* keys per item: its types, the inductive invariant IInv that its safety  *)
(* properties follow from, and that the answers the caller gets are those  *)
(* of a ResultStream.                                                      *)
(***************************************************************************)
EXTENDS OperationCall, TLAPS

(* Before its first item, and when it never has one, an operation has no   *)
(* results, no items and no run of its list.                               *)
Fresh(o) ==
    /\ run[o] = "none"
    /\ target[o] = 0 /\ total[o] = 0 /\ created[o] = 0 /\ sent[o] = 0
    /\ keysLeft[o] = 0

(* The counters of an operation that sends: sent <= created <= target,     *)
(* with                                                                    *)
(* total the part that is not sent; when nothing is left someone runs the  *)
(* list to its end.                                                        *)
Sending(o) ==
    /\ sent[o] <= created[o] /\ created[o] <= target[o]
    /\ target[o] = sent[o] + total[o] + (IF run[o] = "sent" THEN 1 ELSE 0)
    /\ keysLeft[o] > 0 => sent[o] < created[o]
    /\ total[o] = 0 => run[o] # "none"

(* What an operation leaves when it is freed.                              *)
Freed(o) ==
    /\ run[o] = "none" /\ keysLeft[o] = 0 /\ total[o] = 0
    /\ sent[o] = target[o] /\ created[o] = target[o]

(* A resolve while its media is with the caller's operation.               *)
Handing(o) ==
    /\ o # 0 /\ phase[o] = "sending"
    /\ sent[o] = 0 /\ created[o] = 1 /\ total[o] = 0
    /\ keysLeft[o] = 0 /\ pending[o][1] = 0

(* Where each operation can be, and what its counters are there.           *)
Shape(o) ==
    /\ phase[o] = "sending" => Sending(o)
    /\ phase[o] = "freed" => Freed(o)
    /\ phase[o] \notin {"sending", "freed"} => Fresh(o)
    /\ run[o] = "sent" => Handing(o)
    /\ target[o] <= IF o = 0 THEN MaxResults ELSE 1
    /\ IF o = 0 THEN phase[o] \notin {"unused", "closing"} ELSE phase[o] # "entered"

(* A resolve exists only for an item whose keys were all gone through, and *)
(* which asks for no second one; it has the head of the list to itself.    *)
ResolveShape(i) ==
    /\ phase[i] # "unused" =>
          /\ i <= created[0] /\ ~applies[i]
          /\ i = created[0] => keysLeft[0] = 0
    /\ applies[i] => Listed(0, i)
    /\ Resolving(i) =>
          /\ phase[0] = "sending" /\ i = Head(0) /\ i <= created[0]
          /\ pending[0][i] = 1

(* The caller's stream is open until its last media or its closing answer. *)
AnswerShape ==
    answer = "open" <=> ~(phase[0] = "freed" \/ (phase[0] = "sending" /\ total[0] = 0))

(* PendingCountIsExact and FetchesOfLiveItems, of one item.                *)
Exact(o, i) ==
    Listed(o, i) =>
        pending[o][i] = (IF i = created[o] THEN keysLeft[o] ELSE 0)
                        + inFlight[o][i]
                        + (IF o = 0 /\ Resolving(i) THEN 1 ELSE 0)

LiveFetch(o, i) == inFlight[o][i] > 0 => phase[o] = "sending" /\ Listed(o, i)

IInv ==
    /\ TypeOK
    /\ \A o \in Ops : Shape(o)
    /\ \A o \in Ops, i \in Index : Exact(o, i) /\ LiveFetch(o, i)
    /\ \A i \in Index : ResolveShape(i)
    /\ AnswerShape

(* What the rest uses of Index and Ops, which stay folded elsewhere.       *)
LEMMA IndexFacts ==
  /\ MaxResults \in Nat /\ 0 \in Ops /\ 1 \in Index /\ Index \subseteq Ops
  /\ \A i \in Index : i \in Nat /\ i >= 1 /\ i <= MaxResults
  /\ \A o \in Ops : o \in Nat /\ (o # 0 => o \in Index)
  /\ \A i \in Nat : i >= 1 /\ i <= MaxResults => i \in Index
BY MaxResultsAssumption DEF Ops, Index

-----------------------------------------------------------------------------
(* The kinds of steps: several actions change the state in the same way.   *)

(* An operation that has no item yet goes on.                              *)
Moves(o, to) ==
    /\ phase[o] \in {"entered", "called", "fetching", "fetched", "relay"}
    /\ to \in {"called", "fetching", "fetched", "relay", "results"}
    /\ Go(o, to)

(* An operation that has no item ends.                                     *)
Closes(o, with) ==
    /\ phase[o] \in {"entered", "fetched", "results"}
    /\ with \in {"nothing", "error", "cancelled"}
    /\ Close(o, with)

(* An operation learns how many results it sends.                          *)
Opens(o, n) ==
    /\ phase[o] = "results" /\ ~cancelled
    /\ n \in IF o = 0 THEN Index ELSE {1}
    /\ target' = [target EXCEPT ![o] = n]
    /\ total' = [total EXCEPT ![o] = n]
    /\ phase' = [phase EXCEPT ![o] = "sending"]
    /\ UNCHANGED <<run, created, sent, keysLeft, pending, applies, inFlight, relayed,
                   cancelled, answer>>

(* Nothing moves but, possibly, the application's wish to cancel.          *)
Stays ==
    /\ cancelled' \in {cancelled, TRUE}
    /\ UNCHANGED <<phase, run, items, pending, relayed, answer>>

(* Every step of Next is of one of a few kinds, whatever the code it stands*)
(* for; the invariant is shown to survive each kind.                       *)
LEMMA StepKinds ==
  ASSUME [Next]_vars
  PROVE  \/ \E o \in Ops, to \in Phases : Moves(o, to)
         \/ \E o \in Ops, with \in {"nothing", "error", "cancelled"} : Closes(o, with)
         \/ \E o \in Ops, n \in Index : Opens(o, n)
         \/ Stays \/ SendHead \/ ResolveHead
         \/ \E o \in Ops : \/ Free(o) \/ NewItem(o) \/ KeySettled(o) \/ KeyUsesResolve(o)
                           \/ KeyFetch(o) \/ SendResolved(o) \/ Unlink(o) \/ HeadWaits(o)
                           \/ ListDone(o)
         \/ \E o \in Ops, i \in Index : KeyFetched(o, i)
<1>1. CASE UNCHANGED vars
  BY <1>1 DEF vars, Stays, items
<1>2. CASE Terminated \/ Cancel
  BY <1>2 DEF Terminated, Cancel, Stays, vars, items
<1>3. CASE Request
  <2>1. Moves(0, "called")
    BY <1>3 DEF Request, Moves
  <2>. QED
    BY <2>1, MaxResultsAssumption DEF Ops, Phases
<1>4. CASE NoOperation
  <2>1. Closes(0, "nothing")
    BY <1>4 DEF NoOperation, Closes
  <2>. QED
    BY <2>1, MaxResultsAssumption DEF Ops
<1>5. ASSUME NEW o \in Ops,
             CachedResult(o) \/ Fetch(o) \/ FetchAnswers(o) \/ RelayFires(o)
      PROVE  \E to \in Phases : Moves(o, to)
  BY <1>5 DEF CachedResult, Fetch, FetchAnswers, RelayFires, ExecuteCall, Moves, Phases
<1>6. ASSUME NEW o \in Ops, FetchFailed(o)
      PROVE  Closes(o, "nothing")
  BY <1>6 DEF FetchFailed, Closes
<1>7. ASSUME NEW o \in Ops, DataFetched(o)
      PROVE  \/ \E to \in Phases : Moves(o, to)
             \/ \E with \in {"nothing", "error", "cancelled"} : Closes(o, with)
  BY <1>7 DEF DataFetched, ExecuteCall, Moves, Closes, Phases
<1>8. ASSUME NEW o \in Ops, SendResults(o)
      PROVE  \/ \E n \in Index : Opens(o, n)
             \/ \E with \in {"nothing", "error", "cancelled"} : Closes(o, with)
  BY <1>8, MaxResultsAssumption DEF SendResults, Opens, Closes, Index
<1>. QED
  BY <1>1, <1>2, <1>3, <1>4, <1>5, <1>6, <1>7, <1>8 DEF Next, Run, Dispatch

(* A step that only moves an operation to its next phase keeps the         *)
(* invariant.                                                              *)
LEMMA MovesStep ==
  ASSUME IInv, NEW o \in Ops, NEW to \in Phases, Moves(o, to)
  PROVE  IInv'
<1>. USE IndexFacts
<1>1. /\ phase' = [phase EXCEPT ![o] = to]
      /\ phase[o] \in {"entered", "called", "fetching", "fetched", "relay"}
      /\ to \in {"called", "fetching", "fetched", "relay", "results"}
      /\ UNCHANGED <<run, target, total, created, sent, keysLeft, applies, inFlight,
                     pending, answer>>
  BY DEF Moves, Go, items
<1>2. TypeOK'
  BY <1>1 DEF IInv, TypeOK, Moves, Go
<1>3. ASSUME NEW p \in Ops PROVE Shape(p)'
  BY <1>1 DEF IInv, TypeOK, Shape, Fresh, Freed, Sending, Handing
<1>4. ASSUME NEW i \in Index PROVE phase[i] # "entered"
  BY DEF IInv, Shape
<1>5. \A i \in Index : Resolving(i)' <=> Resolving(i)
  BY <1>1, <1>4 DEF IInv, TypeOK, Resolving
<1>6. ASSUME NEW p \in Ops, NEW i \in Index PROVE (Exact(p, i) /\ LiveFetch(p, i))'
  BY <1>1, <1>5 DEF IInv, TypeOK, Exact, LiveFetch, Listed
<1>7. ASSUME NEW i \in Index PROVE ResolveShape(i)'
  BY <1>1, <1>5 DEF IInv, TypeOK, ResolveShape, Listed, Head
<1>8. AnswerShape'
  BY <1>1 DEF IInv, TypeOK, AnswerShape
<1>. QED
  BY <1>2, <1>3, <1>6, <1>7, <1>8 DEF IInv

(* So does the closing answer of an operation (callback (NULL, 0, ...)).   *)
LEMMA ClosesStep ==
  ASSUME IInv, NEW o \in Ops, NEW with \in {"nothing", "error", "cancelled"},
         Closes(o, with)
  PROVE  IInv'
<1>. USE IndexFacts
<1>1. /\ phase[o] \in {"entered", "fetched", "results"}
      /\ UNCHANGED <<target, total, created, sent, keysLeft, applies, inFlight>>
      /\ Fresh(o)
  BY DEF Closes, Close, items, IInv, Shape
<1>2. CASE o = 0
  <2>1. /\ phase' = [phase EXCEPT ![0] = "freed"]
        /\ answer' = with
        /\ UNCHANGED <<run, pending>>
    BY <1>2 DEF Closes, Close
  <2>2. TypeOK'
    BY <1>1, <2>1 DEF IInv, TypeOK, Closes, Close, Phases
  <2>3. ASSUME NEW p \in Ops PROVE Shape(p)'
    BY <1>1, <1>2, <2>1 DEF IInv, TypeOK, Shape, Fresh, Freed, Sending, Handing
  <2>4. \A i \in Index : Resolving(i)' <=> Resolving(i)
    BY <1>1, <2>1 DEF IInv, TypeOK, Resolving
  <2>5. ASSUME NEW p \in Ops, NEW i \in Index PROVE (Exact(p, i) /\ LiveFetch(p, i))'
    BY <1>1, <1>2, <2>1, <2>4 DEF IInv, TypeOK, Exact, LiveFetch, Listed
  <2>6. ASSUME NEW i \in Index PROVE ResolveShape(i)'
    BY <1>1, <1>2, <2>1, <2>4 DEF IInv, TypeOK, ResolveShape, Listed, Head
  <2>7. AnswerShape'
    BY <1>1, <1>2, <2>1 DEF IInv, TypeOK, AnswerShape
  <2>. QED
    BY <2>2, <2>3, <2>5, <2>6, <2>7 DEF IInv
<1>3. CASE o # 0
  <2>1. /\ phase' = [phase EXCEPT ![o] = "closing"]
        /\ pending' = [pending EXCEPT ![0][Head(0)] = @ - 1]
        /\ run' = [run EXCEPT ![0] = "run"]
        /\ UNCHANGED answer
    BY <1>3 DEF Closes, Close, ResolveDone
  <2>2. /\ o \in Index /\ Resolving(o) /\ Head(0) = o /\ phase[0] = "sending"
        /\ pending[0][o] = 1 /\ o <= created[0]
    BY <1>1, <1>3 DEF IInv, ResolveShape, Resolving, Shape
  <2>3. \A p \in Ops, i \in Index :
          pending'[p][i] = IF p = 0 /\ i = o THEN 0 ELSE pending[p][i]
    BY <2>1, <2>2 DEF IInv, TypeOK
  <2>4. TypeOK'
    <3>1. pending' \in [Ops -> [Index -> Nat]]
      BY <2>1, <2>2 DEF IInv, TypeOK
    <3>. QED
      BY <1>1, <2>1, <3>1 DEF IInv, TypeOK, Closes, Close, Phases
  <2>5. ASSUME NEW p \in Ops PROVE Shape(p)'
    BY <1>1, <1>3, <2>1, <2>2, <2>3 DEF IInv, TypeOK, Shape, Fresh, Freed, Sending, Handing
  <2>6. \A i \in Index : Resolving(i)' <=> Resolving(i) /\ i # o
    BY <1>1, <2>1 DEF IInv, TypeOK, Resolving
  <2>7. ASSUME NEW p \in Ops, NEW i \in Index PROVE (Exact(p, i) /\ LiveFetch(p, i))'
    BY <1>1, <1>3, <2>1, <2>2, <2>3, <2>6 DEF IInv, TypeOK, Exact, LiveFetch, Listed
  <2>8. ASSUME NEW i \in Index PROVE ResolveShape(i)'
    BY <1>1, <1>3, <2>1, <2>2, <2>3, <2>6 DEF IInv, TypeOK, ResolveShape, Listed, Head
  <2>9. AnswerShape'
    BY <1>1, <1>3, <2>1 DEF IInv, TypeOK, AnswerShape
  <2>. QED
    BY <2>4, <2>5, <2>7, <2>8, <2>9 DEF IInv
<1>. QED
  BY <1>2, <1>3

(* So does fixing how many results the operation will send.                *)
LEMMA OpensStep ==
  ASSUME IInv, NEW o \in Ops, NEW n \in Index, Opens(o, n)
  PROVE  IInv'
<1>. USE IndexFacts
<1>1. /\ target' = [target EXCEPT ![o] = n]
      /\ total' = [total EXCEPT ![o] = n]
      /\ phase' = [phase EXCEPT ![o] = "sending"]
      /\ n <= IF o = 0 THEN MaxResults ELSE 1
      /\ phase[o] = "results" /\ Fresh(o)
      /\ UNCHANGED <<run, created, sent, keysLeft, pending, applies, inFlight, answer>>
  BY DEF Opens, IInv, Shape
<1>2. TypeOK'
  BY <1>1 DEF IInv, TypeOK, Opens, Phases
<1>3. ASSUME NEW p \in Ops PROVE Shape(p)'
  BY <1>1 DEF IInv, TypeOK, Shape, Fresh, Freed, Sending, Handing
<1>4. \A i \in Index : Resolving(i)' <=> Resolving(i)
  BY <1>1 DEF IInv, TypeOK, Resolving
<1>5. ASSUME NEW p \in Ops, NEW i \in Index PROVE (Exact(p, i) /\ LiveFetch(p, i))'
  BY <1>1, <1>4 DEF IInv, TypeOK, Exact, LiveFetch, Listed
<1>6. ASSUME NEW i \in Index PROVE ResolveShape(i)'
  BY <1>1, <1>4 DEF IInv, TypeOK, ResolveShape, Listed, Head
<1>7. AnswerShape'
  BY <1>1 DEF IInv, TypeOK, AnswerShape
<1>. QED
  BY <1>2, <1>3, <1>5, <1>6, <1>7 DEF IInv

(* So does a cancellation, or a step that changes nothing.                 *)
LEMMA StaysStep ==
  ASSUME IInv, Stays
  PROVE  IInv'
<1>1. /\ UNCHANGED <<phase, run, target, total, created, sent, keysLeft, applies,
                     inFlight, pending, answer>>
      /\ relayed' = relayed /\ cancelled' \in {cancelled, TRUE}
  BY DEF Stays, items
<1>2. TypeOK'
  BY <1>1 DEF IInv, TypeOK
<1>3. ASSUME NEW p \in Ops PROVE Shape(p)'
  BY <1>1 DEF IInv, Shape, Fresh, Freed, Sending, Handing
<1>4. ASSUME NEW p \in Ops, NEW i \in Index PROVE (Exact(p, i) /\ LiveFetch(p, i))'
  BY <1>1 DEF IInv, Exact, LiveFetch, Listed, Resolving
<1>5. ASSUME NEW i \in Index PROVE ResolveShape(i)'
  BY <1>1 DEF IInv, ResolveShape, Listed, Head, Resolving
<1>6. AnswerShape'
  BY <1>1 DEF IInv, AnswerShape
<1>. QED
  BY <1>2, <1>3, <1>4, <1>5, <1>6 DEF IInv

(* So does the free of a resolve operation that closed without a media.    *)
LEMMA FreeStep ==
  ASSUME IInv, NEW o \in Ops, Free(o)
  PROVE  IInv'
<1>. USE IndexFacts
<1>1. /\ phase' = [phase EXCEPT ![o] = "freed"]
      /\ phase[o] = "closing" /\ o # 0 /\ Fresh(o)
      /\ UNCHANGED <<run, target, total, created, sent, keysLeft, applies, inFlight,
                     pending, answer>>
  BY DEF Free, items, IInv, Shape
<1>2. TypeOK'
  BY <1>1 DEF IInv, TypeOK, Free, Phases
<1>3. ASSUME NEW p \in Ops PROVE Shape(p)'
  BY <1>1 DEF IInv, TypeOK, Shape, Fresh, Freed, Sending, Handing
<1>4. \A i \in Index : Resolving(i)' <=> Resolving(i)
  BY <1>1 DEF IInv, TypeOK, Resolving
<1>5. ASSUME NEW p \in Ops, NEW i \in Index PROVE (Exact(p, i) /\ LiveFetch(p, i))'
  BY <1>1, <1>4 DEF IInv, TypeOK, Exact, LiveFetch, Listed
<1>6. ASSUME NEW i \in Index PROVE ResolveShape(i)'
  BY <1>1, <1>4 DEF IInv, TypeOK, ResolveShape, Listed, Head
<1>7. AnswerShape'
  BY <1>1 DEF IInv, TypeOK, AnswerShape
<1>. QED
  BY <1>2, <1>3, <1>5, <1>6, <1>7 DEF IInv

(* So does appending a SendItem to the send_list.                          *)
LEMMA NewItemStep ==
  ASSUME IInv, NEW o \in Ops, NewItem(o)
  PROVE  IInv'
<1>. USE IndexFacts
<1> DEFINE c == created[o] + 1
<1>1. PICK n \in KeyCounts :
        /\ keysLeft' = [keysLeft EXCEPT ![o] = n]
        /\ pending' = [pending EXCEPT ![o][created[o] + 1] = n]
  BY DEF NewItem
<1>2. /\ created' = [created EXCEPT ![o] = @ + 1]
      /\ phase[o] = "sending" /\ run[o] = "none" /\ keysLeft[o] = 0
      /\ created[o] < target[o]
      /\ UNCHANGED <<phase, run, target, total, sent, applies, inFlight, answer>>
      /\ n \in Nat
  BY KeyCountsAssumption DEF NewItem, Building, IInv, TypeOK
<1>3. /\ c \in Index /\ sent[o] \in Nat /\ created[o] \in Nat /\ sent[o] < c
      /\ pending[o] \in [Index -> Nat]
  BY <1>2 DEF IInv, TypeOK, Shape, Sending
<1>4. \A p \in Ops, i \in Index :
        pending'[p][i] = IF p = o /\ i = c THEN n ELSE pending[p][i]
  BY <1>1, <1>2, <1>3 DEF IInv, TypeOK
<1>5. TypeOK'
  <2>1. pending' \in [Ops -> [Index -> Nat]]
    BY <1>1, <1>2, <1>3 DEF IInv, TypeOK
  <2>2. /\ created' \in [Ops -> Nat]
        /\ keysLeft' \in [Ops -> Nat]
    BY <1>1, <1>2 DEF IInv, TypeOK
  <2>. QED
    BY <1>2, <2>1, <2>2 DEF IInv, TypeOK, NewItem
<1>6. ASSUME NEW p \in Ops PROVE Shape(p)'
  BY <1>1, <1>2, <1>3, <1>4 DEF IInv, TypeOK, Shape, Fresh, Freed, Sending, Handing
<1>7. \A i \in Index : Resolving(i)' <=> Resolving(i)
  BY <1>2 DEF Resolving
<1>8. ASSUME NEW p \in Ops, NEW i \in Index, i = c /\ p = o
      PROVE  ~Resolving(i) \/ p # 0
  BY <1>2, <1>8 DEF IInv, TypeOK, ResolveShape, Resolving
<1>9. ASSUME NEW p \in Ops, NEW i \in Index PROVE (Exact(p, i) /\ LiveFetch(p, i))'
  <2>1. LiveFetch(p, i)'
    BY <1>2, <1>3 DEF IInv, TypeOK, LiveFetch, Listed
  <2>2. CASE p = o /\ i = c
    <3>1. inFlight[p][i] = 0
      BY <1>2, <1>3, <2>2 DEF IInv, TypeOK, LiveFetch, Listed
    <3>. QED
      BY <1>1, <1>2, <1>3, <1>4, <1>7, <1>8, <2>1, <2>2, <3>1 DEF IInv, TypeOK, Exact, Listed
  <2>3. CASE p = o /\ i # c
    <3>1. Exact(p, i) /\ inFlight[p][i] \in Nat
      BY DEF IInv, TypeOK
    <3>2. pending'[p][i] = pending[p][i] /\ created'[p] = c
      BY <1>2, <1>3, <1>4, <2>3 DEF IInv, TypeOK
    <3>3. Listed(p, i)' => Listed(p, i)
      BY <1>2, <1>3, <2>3, <3>2 DEF Listed
    <3>. QED
      BY <1>2, <1>7, <2>1, <2>3, <3>1, <3>2, <3>3 DEF Exact
  <2>4. CASE p # o
    BY <1>1, <1>2, <1>4, <1>7, <2>1, <2>4 DEF IInv, TypeOK, Exact, Listed
  <2>. QED
    BY <2>2, <2>3, <2>4
<1>10. ASSUME NEW i \in Index PROVE ResolveShape(i)'
  BY <1>1, <1>2, <1>3, <1>4, <1>7 DEF IInv, TypeOK, ResolveShape, Listed, Head
<1>11. AnswerShape'
  BY <1>2 DEF IInv, AnswerShape
<1>. QED
  BY <1>5, <1>6, <1>9, <1>10, <1>11 DEF IInv

(* So does a key that needs no fetch, or was left to the resolve.          *)
LEMMA KeySettledStep ==
  ASSUME IInv, NEW o \in Ops, KeySettled(o) \/ KeyUsesResolve(o)
  PROVE  IInv'
<1>. USE IndexFacts
<1> DEFINE c == created[o]
<1>1. /\ keysLeft' = [keysLeft EXCEPT ![o] = @ - 1]
      /\ pending' = [pending EXCEPT ![o][c] = @ - 1]
      /\ run' = [run EXCEPT ![o] = "run"]
      /\ phase[o] = "sending" /\ run[o] = "none" /\ keysLeft[o] > 0
      /\ UNCHANGED <<phase, target, total, created, sent, inFlight, relayed, cancelled,
                     answer>>
  BY DEF KeySettled, KeyUsesResolve, NextKey, Building
<1>2. applies' = applies \/ (o = 0 /\ applies' = [applies EXCEPT ![c] = TRUE])
  BY DEF KeySettled, KeyUsesResolve
<1>3. c \in Index /\ Listed(o, c) /\ keysLeft[o] \in Nat
  <2>1. /\ created[o] \in Nat /\ target[o] \in Nat /\ sent[o] \in Nat /\ keysLeft[o] \in Nat
    BY DEF IInv, TypeOK
  <2>2. /\ sent[o] < created[o] /\ created[o] <= target[o]
        /\ target[o] <= IF o = 0 THEN MaxResults ELSE 1
    BY <1>1 DEF IInv, Shape, Sending
  <2>. QED
    BY <2>1, <2>2 DEF Listed
<1>4. o = 0 => phase[c] = "unused" /\ ~Resolving(c)
  BY <1>1, <1>3 DEF IInv, ResolveShape, Resolving
<1>5. pending[o][c] \in Nat /\ pending[o][c] >= 1
  BY <1>1, <1>3, <1>4 DEF IInv, TypeOK, Exact
<1>6. \A p \in Ops, i \in Index :
        pending'[p][i] = IF p = o /\ i = c THEN pending[p][i] - 1 ELSE pending[p][i]
  BY <1>1, <1>3 DEF IInv, TypeOK
<1>7. TypeOK'
  <2>1. pending' \in [Ops -> [Index -> Nat]]
    BY <1>1, <1>3, <1>5 DEF IInv, TypeOK
  <2>2. keysLeft' \in [Ops -> Nat] /\ applies' \in [Index -> BOOLEAN]
    <3>1. keysLeft' \in [Ops -> Nat]
      BY <1>1, <1>3 DEF IInv, TypeOK
    <3>2. applies' \in [Index -> BOOLEAN]
      BY <1>2, <1>3 DEF IInv, TypeOK
    <3>. QED
      BY <3>1, <3>2
  <2>. QED
    BY <1>1, <2>1, <2>2 DEF IInv, TypeOK
<1>8. ASSUME NEW p \in Ops PROVE Shape(p)'
  BY <1>1, <1>3, <1>6 DEF IInv, TypeOK, Shape, Fresh, Freed, Sending, Handing, Listed
<1>9. \A i \in Index : Resolving(i)' <=> Resolving(i)
  BY <1>1 DEF Resolving
<1>10. ASSUME NEW p \in Ops, NEW i \in Index PROVE (Exact(p, i) /\ LiveFetch(p, i))'
  BY <1>1, <1>3, <1>4, <1>6, <1>9 DEF IInv, TypeOK, Exact, LiveFetch, Listed
<1>11. ASSUME NEW i \in Index PROVE ResolveShape(i)'
  BY <1>1, <1>2, <1>3, <1>4, <1>6, <1>9 DEF IInv, TypeOK, ResolveShape, Listed, Head
<1>12. AnswerShape'
  BY <1>1 DEF IInv, AnswerShape
<1>. QED
  BY <1>7, <1>8, <1>10, <1>11, <1>12 DEF IInv

(* So does the fetch of a key that goes to the network.                    *)
LEMMA KeyFetchStep ==
  ASSUME IInv, NEW o \in Ops, KeyFetch(o)
  PROVE  IInv'
<1>. USE IndexFacts
<1> DEFINE c == created[o]
<1>1. /\ keysLeft' = [keysLeft EXCEPT ![o] = @ - 1]
      /\ inFlight' = [inFlight EXCEPT ![o][c] = @ + 1]
      /\ phase[o] = "sending" /\ run[o] = "none" /\ keysLeft[o] > 0
      /\ UNCHANGED <<phase, run, target, total, created, sent, pending, applies, relayed,
                     cancelled, answer>>
  BY DEF KeyFetch, NextKey, Building
<1>2. c \in Index /\ Listed(o, c) /\ keysLeft[o] \in Nat
  <2>1. /\ created[o] \in Nat /\ target[o] \in Nat /\ sent[o] \in Nat /\ keysLeft[o] \in Nat
    BY DEF IInv, TypeOK
  <2>2. /\ sent[o] < created[o] /\ created[o] <= target[o]
        /\ target[o] <= IF o = 0 THEN MaxResults ELSE 1
    BY <1>1 DEF IInv, Shape, Sending
  <2>. QED
    BY <2>1, <2>2 DEF Listed
<1>3. \A p \in Ops, i \in Index :
        inFlight'[p][i] = IF p = o /\ i = c THEN inFlight[p][i] + 1 ELSE inFlight[p][i]
  BY <1>1, <1>2 DEF IInv, TypeOK
<1>4. TypeOK'
  <2>1. inFlight' \in [Ops -> [Index -> Nat]]
    BY <1>1, <1>2 DEF IInv, TypeOK
  <2>2. keysLeft' \in [Ops -> Nat]
    BY <1>1, <1>2 DEF IInv, TypeOK
  <2>. QED
    BY <1>1, <2>1, <2>2 DEF IInv, TypeOK
<1>5. ASSUME NEW p \in Ops PROVE Shape(p)'
  BY <1>1, <1>2 DEF IInv, TypeOK, Shape, Fresh, Freed, Sending, Handing, Listed
<1>6. \A i \in Index : Resolving(i)' <=> Resolving(i)
  BY <1>1 DEF Resolving
<1>7. ASSUME NEW p \in Ops, NEW i \in Index PROVE (Exact(p, i) /\ LiveFetch(p, i))'
  <2>1. /\ Exact(p, i) /\ LiveFetch(p, i)
        /\ inFlight[p][i] \in Nat /\ pending[p][i] \in Nat /\ keysLeft[p] \in Nat
        /\ keysLeft'[p] = IF p = o THEN keysLeft[p] - 1 ELSE keysLeft[p]
    BY <1>1 DEF IInv, TypeOK
  <2>2. Listed(p, i)' <=> Listed(p, i)
    BY <1>1 DEF Listed
  <2>3. CASE p = o /\ i = c
    BY <1>1, <1>2, <1>3, <1>6, <2>1, <2>2, <2>3 DEF Exact, LiveFetch
  <2>4. CASE ~(p = o /\ i = c)
    BY <1>1, <1>3, <1>6, <2>1, <2>2, <2>4 DEF Exact, LiveFetch
  <2>. QED
    BY <2>3, <2>4
<1>8. ASSUME NEW i \in Index PROVE ResolveShape(i)'
  BY <1>1, <1>2, <1>6 DEF IInv, TypeOK, ResolveShape, Listed, Head
<1>9. AnswerShape'
  BY <1>1 DEF IInv, AnswerShape
<1>. QED
  BY <1>4, <1>5, <1>7, <1>8, <1>9 DEF IInv

(* So does the answer of such a fetch.                                     *)
LEMMA KeyFetchedStep ==
  ASSUME IInv, NEW o \in Ops, NEW i \in Index, KeyFetched(o, i)
  PROVE  IInv'
<1>. USE IndexFacts
<1>1. /\ inFlight' = [inFlight EXCEPT ![o][i] = @ - 1]
      /\ pending' = [pending EXCEPT ![o][i] = @ - 1]
      /\ run' = [run EXCEPT ![o] = "run"]
      /\ inFlight[o][i] > 0
      /\ UNCHANGED <<phase, target, total, created, sent, keysLeft, applies, relayed,
                     cancelled, answer>>
  BY DEF KeyFetched
<1>2. /\ phase[o] = "sending" /\ Listed(o, i) /\ run[o] = "none"
      /\ inFlight[o][i] \in Nat /\ pending[o][i] \in Nat
  BY <1>1 DEF IInv, TypeOK, LiveFetch, KeyFetched, Idle, Busy
<1>3. pending[o][i] >= 1 /\ ~(o = 0 /\ Resolving(i))
  <2>1. /\ pending[o][i] = (IF i = created[o] THEN keysLeft[o] ELSE 0) + inFlight[o][i]
                            + (IF o = 0 /\ Resolving(i) THEN 1 ELSE 0)
        /\ o = 0 /\ Resolving(i) => pending[o][i] = 1
    BY <1>2 DEF IInv, Exact, ResolveShape
  <2>2. keysLeft[o] \in Nat
    BY DEF IInv, TypeOK
  <2>. QED
    BY <1>1, <1>2, <2>1, <2>2
<1>4. \A p \in Ops, j \in Index :
        /\ inFlight'[p][j] = IF p = o /\ j = i THEN inFlight[p][j] - 1 ELSE inFlight[p][j]
        /\ pending'[p][j] = IF p = o /\ j = i THEN pending[p][j] - 1 ELSE pending[p][j]
  BY <1>1 DEF IInv, TypeOK
<1>5. TypeOK'
  <2>1. inFlight' \in [Ops -> [Index -> Nat]]
    BY <1>1, <1>2 DEF IInv, TypeOK
  <2>2. pending' \in [Ops -> [Index -> Nat]]
    BY <1>1, <1>2, <1>3 DEF IInv, TypeOK
  <2>. QED
    BY <1>1, <2>1, <2>2 DEF IInv, TypeOK
<1>6. ASSUME NEW p \in Ops PROVE Shape(p)'
  BY <1>1, <1>2, <1>4 DEF IInv, TypeOK, Shape, Fresh, Freed, Sending, Handing, Listed
<1>7. \A j \in Index : Resolving(j)' <=> Resolving(j)
  BY <1>1 DEF Resolving
<1>8. ASSUME NEW p \in Ops, NEW j \in Index PROVE (Exact(p, j) /\ LiveFetch(p, j))'
  BY <1>1, <1>2, <1>3, <1>4, <1>7 DEF IInv, TypeOK, Exact, LiveFetch, Listed
<1>9. ASSUME NEW j \in Index PROVE ResolveShape(j)'
  BY <1>1, <1>2, <1>3, <1>4, <1>7 DEF IInv, TypeOK, ResolveShape, Listed, Head
<1>10. AnswerShape'
  BY <1>1 DEF IInv, AnswerShape
<1>. QED
  BY <1>5, <1>6, <1>8, <1>9, <1>10 DEF IInv

(* So does send_list_run when the head of the list has keys to wait for.   *)
LEMMA HeadWaitsStep ==
  ASSUME IInv, NEW o \in Ops, HeadWaits(o)
  PROVE  IInv'
<1>. USE IndexFacts
<1>1. /\ run' = [run EXCEPT ![o] = "none"]
      /\ run[o] = "run" /\ sent[o] < created[o]
      /\ UNCHANGED <<phase, target, total, created, sent, keysLeft, pending, applies,
                     inFlight, relayed, cancelled, answer>>
  BY DEF HeadWaits, Running, items
<1>2. TypeOK'
  BY <1>1 DEF IInv, TypeOK
<1>3. ASSUME NEW p \in Ops PROVE Shape(p)'
  BY <1>1 DEF IInv, TypeOK, Shape, Fresh, Freed, Sending, Handing
<1>4. \A i \in Index : Resolving(i)' <=> Resolving(i)
  BY <1>1 DEF Resolving
<1>5. ASSUME NEW p \in Ops, NEW i \in Index PROVE (Exact(p, i) /\ LiveFetch(p, i))'
  BY <1>1, <1>4 DEF IInv, Exact, LiveFetch, Listed
<1>6. ASSUME NEW i \in Index PROVE ResolveShape(i)'
  BY <1>1, <1>4 DEF IInv, ResolveShape, Listed, Head
<1>7. AnswerShape'
  BY <1>1 DEF IInv, AnswerShape
<1>. QED
  BY <1>2, <1>3, <1>5, <1>6, <1>7 DEF IInv

(* So does send_list_run on an empty list, whether it frees or not.        *)
LEMMA ListDoneStep ==
  ASSUME IInv, NEW o \in Ops, ListDone(o)
  PROVE  IInv'
<1>. USE IndexFacts
<1>1. /\ run' = [run EXCEPT ![o] = "none"]
      /\ phase' = IF total[o] = 0 THEN [phase EXCEPT ![o] = "freed"] ELSE phase
      /\ run[o] = "run" /\ sent[o] = created[o]
      /\ UNCHANGED <<target, total, created, sent, keysLeft, pending, applies,
                     inFlight, relayed, cancelled, answer>>
  BY DEF ListDone, Running, items
<1>2. phase[o] = "sending" /\ keysLeft[o] = 0
  BY <1>1 DEF IInv, TypeOK, Shape, Fresh, Freed, Sending
<1>3. TypeOK'
  BY <1>1 DEF IInv, TypeOK, Phases
<1>4. ASSUME NEW p \in Ops PROVE Shape(p)'
  BY <1>1, <1>2 DEF IInv, TypeOK, Shape, Fresh, Freed, Sending, Handing
<1>5. \A i \in Index : Resolving(i)' <=> Resolving(i)
  BY <1>1, <1>2 DEF IInv, TypeOK, Resolving
<1>6. ASSUME NEW p \in Ops, NEW i \in Index PROVE (Exact(p, i) /\ LiveFetch(p, i))'
  BY <1>1, <1>2, <1>5 DEF IInv, TypeOK, Exact, LiveFetch, Listed
<1>7. ASSUME NEW i \in Index PROVE ResolveShape(i)'
  BY <1>1, <1>2, <1>5 DEF IInv, TypeOK, ResolveShape, Listed, Head
<1>8. AnswerShape'
  BY <1>1, <1>2 DEF IInv, TypeOK, AnswerShape
<1>. QED
  BY <1>3, <1>4, <1>6, <1>7, <1>8 DEF IInv

(* So does removing a resolved media from its own list.                    *)
LEMMA UnlinkStep ==
  ASSUME IInv, NEW o \in Ops, Unlink(o)
  PROVE  IInv'
<1>. USE IndexFacts
<1>1. /\ sent' = [sent EXCEPT ![o] = @ + 1]
      /\ run' = [run EXCEPT ![o] = "run"]
      /\ run[o] = "sent"
      /\ UNCHANGED <<phase, target, total, created, keysLeft, pending, applies, inFlight,
                     relayed, cancelled, answer>>
  BY DEF Unlink
<1>2. Handing(o) /\ target[o] = 1
  BY <1>1 DEF IInv, TypeOK, Shape, Sending, Handing
<1>3. inFlight[o][1] = 0
  <2>1. /\ pending[o][1] = (IF 1 = created[o] THEN keysLeft[o] ELSE 0) + inFlight[o][1]
                            + (IF o = 0 /\ Resolving(1) THEN 1 ELSE 0)
        /\ inFlight[o][1] \in Nat
    <3>1. Exact(o, 1) /\ inFlight[o][1] \in Nat
      BY DEF IInv, TypeOK
    <3>2. Listed(o, 1)
      BY <1>2 DEF Listed, Handing
    <3>. QED
      BY <3>1, <3>2 DEF Exact
  <2>. QED
    BY <1>2, <2>1 DEF Handing
<1>4. TypeOK'
  BY <1>1 DEF IInv, TypeOK
<1>5. ASSUME NEW p \in Ops PROVE Shape(p)'
  BY <1>1, <1>2 DEF IInv, TypeOK, Shape, Fresh, Freed, Sending, Handing
<1>6. \A i \in Index : Resolving(i)' <=> Resolving(i)
  BY <1>1 DEF Resolving
<1>7. ASSUME NEW p \in Ops, NEW i \in Index PROVE (Exact(p, i) /\ LiveFetch(p, i))'
  <2>1. CASE p = o
    BY <1>1, <1>2, <1>3, <1>6, <2>1 DEF IInv, TypeOK, Exact, LiveFetch, Listed, Handing
  <2>2. CASE p # o
    BY <1>1, <1>6, <2>2 DEF IInv, TypeOK, Exact, LiveFetch, Listed
  <2>. QED
    BY <2>1, <2>2
<1>8. ASSUME NEW i \in Index PROVE ResolveShape(i)'
  BY <1>1, <1>2, <1>6 DEF IInv, TypeOK, ResolveShape, Listed, Head, Handing
<1>9. AnswerShape'
  BY <1>1 DEF IInv, AnswerShape
<1>. QED
  BY <1>4, <1>5, <1>7, <1>8, <1>9 DEF IInv

(* So does use_resolve_done_cb with the media of a resolve.                *)
LEMMA SendResolvedStep ==
  ASSUME IInv, NEW o \in Ops, SendResolved(o)
  PROVE  IInv'
<1>. USE IndexFacts
<1>1. /\ total' = [total EXCEPT ![o] = @ - 1]
      /\ run' = [run EXCEPT ![o] = "sent", ![0] = "run"]
      /\ pending' = [pending EXCEPT ![0][Head(0)] = @ - 1]
      /\ o # 0 /\ run[o] = "run"
      /\ sent[o] < created[o] /\ pending[o][Head(o)] = 0
      /\ UNCHANGED <<phase, target, created, sent, keysLeft, applies, inFlight, relayed,
                     cancelled, answer>>
  BY DEF SendResolved, Running, Ready, ResolveDone
<1>2. phase[o] = "sending"
  BY <1>1 DEF IInv, TypeOK, Shape, Fresh, Freed
<1>3. /\ sent[o] = 0 /\ created[o] = 1 /\ target[o] = 1 /\ total[o] = 1
      /\ pending[o][1] = 0
  <2>1. sent[o] \in Nat /\ created[o] \in Nat /\ target[o] \in Nat /\ total[o] \in Nat
    BY DEF IInv, TypeOK
  <2>2. /\ created[o] <= target[o] /\ target[o] <= 1
        /\ target[o] = sent[o] + total[o]
    BY <1>1, <1>2, <2>1 DEF IInv, Shape, Sending
  <2>. QED
    BY <1>1, <2>1, <2>2 DEF Head
<1>4. /\ o \in Index /\ Resolving(o) /\ Head(0) = o /\ phase[0] = "sending"
      /\ pending[0][o] = 1 /\ o <= created[0]
  BY <1>1, <1>2, <1>3 DEF IInv, ResolveShape, Resolving
<1>5. keysLeft[o] = 0 /\ inFlight[o][1] = 0
  <2>1. /\ pending[o][1] = (IF 1 = created[o] THEN keysLeft[o] ELSE 0) + inFlight[o][1]
                            + (IF o = 0 /\ Resolving(1) THEN 1 ELSE 0)
        /\ inFlight[o][1] \in Nat /\ keysLeft[o] \in Nat
    <3>1. Exact(o, 1) /\ inFlight[o][1] \in Nat /\ keysLeft[o] \in Nat
      BY DEF IInv, TypeOK
    <3>2. Listed(o, 1)
      BY <1>3 DEF Listed
    <3>. QED
      BY <3>1, <3>2 DEF Exact
  <2>. QED
    BY <1>1, <1>3, <2>1
<1>6. \A p \in Ops, i \in Index :
        pending'[p][i] = IF p = 0 /\ i = o THEN 0 ELSE pending[p][i]
  BY <1>1, <1>4 DEF IInv, TypeOK
<1>7. TypeOK'
  <2>1. pending' \in [Ops -> [Index -> Nat]]
    BY <1>1, <1>4 DEF IInv, TypeOK
  <2>2. total' \in [Ops -> Nat]
    BY <1>1, <1>3 DEF IInv, TypeOK
  <2>3. run' \in [Ops -> {"none", "run", "sent"}]
    BY <1>1 DEF IInv, TypeOK
  <2>. QED
    BY <1>1, <2>1, <2>2, <2>3 DEF IInv, TypeOK
<1>8. ASSUME NEW p \in Ops PROVE Shape(p)'
  <2>1. CASE p = o
    BY <1>1, <1>2, <1>3, <1>5, <1>6, <2>1 DEF IInv, TypeOK, Shape, Fresh, Freed, Sending, Handing
  <2>2. CASE p = 0
    BY <1>1, <1>4, <1>6, <2>2 DEF IInv, TypeOK, Shape, Fresh, Freed, Sending, Handing
  <2>3. CASE p # o /\ p # 0
    BY <1>1, <1>6, <2>3 DEF IInv, TypeOK, Shape, Fresh, Freed, Sending, Handing
  <2>. QED
    BY <2>1, <2>2, <2>3
<1>9. \A i \in Index : Resolving(i)' <=> Resolving(i) /\ i # o
  BY <1>1, <1>2, <1>3 DEF IInv, TypeOK, Resolving
<1>10. ASSUME NEW p \in Ops, NEW i \in Index PROVE (Exact(p, i) /\ LiveFetch(p, i))'
  <2>1. CASE p = 0 /\ i = o
    BY <1>1, <1>4, <1>6, <1>9, <2>1 DEF IInv, TypeOK, Exact, LiveFetch, Listed
  <2>2. CASE ~(p = 0 /\ i = o)
    BY <1>1, <1>6, <1>9, <2>2 DEF IInv, TypeOK, Exact, LiveFetch, Listed
  <2>. QED
    BY <2>1, <2>2
<1>11. ASSUME NEW i \in Index PROVE ResolveShape(i)'
  BY <1>1, <1>6, <1>9 DEF IInv, TypeOK, ResolveShape, Listed, Head
<1>12. AnswerShape'
  BY <1>1 DEF IInv, TypeOK, AnswerShape
<1>. QED
  BY <1>7, <1>8, <1>10, <1>11, <1>12 DEF IInv

(* So does handing the head of the list to the caller.                     *)
LEMMA DeliverStep ==
  ASSUME IInv, Deliver, run[0] = "run", Ready(0), UNCHANGED <<phase, run>>,
         \/ UNCHANGED <<applies, pending>> /\ ~applies[Head(0)]
         \/ /\ applies' = [applies EXCEPT ![Head(0)] = FALSE]
            /\ pending' = [pending EXCEPT ![0][Head(0)] = @ + 1]
  PROVE  IInv'
<1>. USE IndexFacts
<1> DEFINE h == Head(0)
<1>1. /\ total' = [total EXCEPT ![0] = @ - 1]
      /\ sent' = [sent EXCEPT ![0] = @ + 1]
      /\ answer' = IF total[0] = 1 THEN "complete" ELSE answer
      /\ cancelled' \in {cancelled, TRUE}
      /\ UNCHANGED <<target, created, keysLeft, inFlight, relayed>>
  BY DEF Deliver
<1>2. /\ sent[0] \in Nat /\ created[0] \in Nat /\ target[0] \in Nat /\ total[0] \in Nat
      /\ keysLeft[0] \in Nat
  BY DEF IInv, TypeOK
<1>3. /\ phase[0] = "sending" /\ Sending(0) /\ target[0] <= MaxResults
      /\ sent[0] < created[0] /\ pending[0][h] = 0
  BY DEF IInv, TypeOK, Shape, Fresh, Freed, Ready
<1>4. total[0] >= 1 /\ target[0] = sent[0] + total[0] /\ created[0] <= target[0]
  BY <1>2, <1>3 DEF Sending
<1>5. h \in Index /\ h <= created[0] /\ h = sent[0] + 1
  BY <1>2, <1>3, <1>4 DEF Head
<1>6. /\ inFlight[0][h] = 0 /\ ~Resolving(h)
      /\ h = created[0] => keysLeft[0] = 0
  <2>1. Exact(0, h) /\ inFlight[0][h] \in Nat /\ ResolveShape(h)
    BY <1>5 DEF IInv, TypeOK
  <2>2. Listed(0, h)
    BY <1>2, <1>5 DEF Listed
  <2>. QED
    BY <1>2, <1>3, <2>1, <2>2 DEF Exact, ResolveShape
<1>7. \A i \in Index : ~Resolving(i)
  BY <1>6 DEF IInv, ResolveShape
<1>8. \A i \in Index : Resolving(i)' <=> Resolving(i)
  BY <1>1 DEF IInv, TypeOK, Resolving
<1>9. \A p \in Ops, i \in Index : ~(p = 0 /\ i = h) => pending'[p][i] = pending[p][i]
  BY <1>5 DEF IInv, TypeOK
<1>10. ~applies'[h] /\ \A i \in Index : i # h => applies'[i] = applies[i]
  BY <1>5 DEF IInv, TypeOK
<1>11. TypeOK'
  <2>1. pending' \in [Ops -> [Index -> Nat]]
    <3>1. CASE pending' = pending
      BY <3>1 DEF IInv, TypeOK
    <3>2. CASE pending' = [pending EXCEPT ![0][h] = @ + 1]
      BY <1>5, <3>2 DEF IInv, TypeOK
    <3>. QED
      BY <3>1, <3>2
  <2>2. applies' \in [Index -> BOOLEAN]
    BY <1>5 DEF IInv, TypeOK
  <2>3. total' \in [Ops -> Nat] /\ sent' \in [Ops -> Nat]
    BY <1>1, <1>2, <1>4 DEF IInv, TypeOK
  <2>. QED
    BY <1>1, <2>1, <2>2, <2>3 DEF IInv, TypeOK
<1>16. /\ sent'[0] = h /\ total'[0] = total[0] - 1 /\ h \in Nat
       /\ run'[0] = "run" /\ phase'[0] = "sending"
       /\ \A p \in Ops : p # 0 => sent'[p] = sent[p]
  BY <1>1, <1>3, <1>5 DEF IInv, TypeOK
<1>12. ASSUME NEW p \in Ops PROVE Shape(p)'
  <2>1. CASE p = 0
    <3>1. Sending(0)'
      BY <1>1, <1>2, <1>3, <1>4, <1>5, <1>6, <1>16 DEF Sending
    <3>. QED
      BY <1>1, <1>3, <1>16, <2>1, <3>1 DEF Shape
  <2>2. CASE p # 0
    BY <1>1, <1>9, <2>2 DEF IInv, TypeOK, Shape, Fresh, Freed, Sending, Handing
  <2>. QED
    BY <2>1, <2>2
<1>13. ASSUME NEW p \in Ops, NEW i \in Index PROVE (Exact(p, i) /\ LiveFetch(p, i))'
  <2>1. /\ Exact(p, i) /\ LiveFetch(p, i) /\ inFlight[p][i] \in Nat
    BY DEF IInv, TypeOK
  <2>2. Listed(p, i)' <=> Listed(p, i) /\ ~(p = 0 /\ i = h)
    <3>1. created'[p] = created[p] /\ sent[p] \in Nat /\ created[p] \in Nat
      BY <1>1 DEF IInv, TypeOK
    <3>. QED
      BY <1>2, <1>5, <1>16, <3>1 DEF Listed
  <2>. QED
    BY <1>1, <1>3, <1>6, <1>8, <1>9, <2>1, <2>2 DEF Exact, LiveFetch
<1>14. ASSUME NEW i \in Index PROVE ResolveShape(i)'
  <2>1. ResolveShape(i)
    BY DEF IInv
  <2>2. Listed(0, i)' <=> Listed(0, i) /\ i # h
    BY <1>1, <1>2, <1>5, <1>16 DEF Listed
  <2>. QED
    BY <1>1, <1>7, <1>8, <1>10, <2>1, <2>2 DEF ResolveShape
<1>15. AnswerShape'
  BY <1>1, <1>2, <1>3, <1>4 DEF IInv, TypeOK, AnswerShape
<1>. QED
  BY <1>11, <1>12, <1>13, <1>14, <1>15 DEF IInv

(* The hand-over of an item no resolve applies to.                         *)
LEMMA SendHeadStep ==
  ASSUME IInv, SendHead
  PROVE  IInv'
BY DeliverStep DEF SendHead, Running

(* The resolve of the head of the list, or its hand-over without one.      *)
LEMMA ResolveHeadStep ==
  ASSUME IInv, ResolveHead
  PROVE  IInv'
<1>. USE IndexFacts
<1> DEFINE h == Head(0)
<1>1. CASE Deliver /\ UNCHANGED <<phase, run>>
  BY <1>1, DeliverStep DEF ResolveHead, Running
<1>2. CASE /\ phase' = [phase EXCEPT ![h] = "called"]
           /\ run' = [run EXCEPT ![0] = "none"]
           /\ UNCHANGED <<target, total, created, sent, keysLeft, inFlight, relayed,
                          cancelled, answer>>
  <2>1. /\ run[0] = "run" /\ Ready(0) /\ applies[h]
        /\ applies' = [applies EXCEPT ![h] = FALSE]
        /\ pending' = [pending EXCEPT ![0][h] = @ + 1]
    BY DEF ResolveHead, Running
  <2>2. /\ sent[0] \in Nat /\ created[0] \in Nat /\ target[0] \in Nat /\ total[0] \in Nat
        /\ keysLeft[0] \in Nat
    BY DEF IInv, TypeOK
  <2>3. /\ phase[0] = "sending" /\ Sending(0) /\ target[0] <= MaxResults
        /\ sent[0] < created[0] /\ pending[0][h] = 0
    BY <2>1 DEF IInv, TypeOK, Shape, Fresh, Freed, Ready
  <2>4. /\ total[0] >= 1 /\ created[0] <= target[0]
        /\ h \in Index /\ h <= created[0] /\ h = sent[0] + 1 /\ h # 0
    BY <2>1, <2>2, <2>3 DEF Sending, Head
  <2>5. Listed(0, h)
    BY <2>2, <2>4 DEF Listed
  <2>6. /\ inFlight[0][h] = 0 /\ ~Resolving(h)
        /\ h = created[0] => keysLeft[0] = 0
    <3>1. Exact(0, h) /\ inFlight[0][h] \in Nat /\ ResolveShape(h)
      BY <2>4 DEF IInv, TypeOK
    <3>. QED
      BY <2>2, <2>3, <2>5, <3>1 DEF Exact, ResolveShape
  <2>7. phase[h] = "unused" /\ Fresh(h)
    BY <2>1, <2>4 DEF IInv, ResolveShape, Shape
  <2>8. \A i \in Index : ~Resolving(i)
    BY <2>6 DEF IInv, ResolveShape
  <2>9. \A i \in Index : Resolving(i)' <=> i = h
    BY <1>2, <2>4, <2>8 DEF IInv, TypeOK, Resolving
  <2>10. /\ pending'[0][h] = 1 /\ ~applies'[h]
         /\ \A p \in Ops, i \in Index :
              ~(p = 0 /\ i = h) => pending'[p][i] = pending[p][i]
         /\ \A i \in Index : i # h => applies'[i] = applies[i]
    BY <2>1, <2>3, <2>4 DEF IInv, TypeOK
  <2>11. TypeOK'
    <3>1. pending' \in [Ops -> [Index -> Nat]]
      BY <2>1, <2>4 DEF IInv, TypeOK
    <3>2. applies' \in [Index -> BOOLEAN]
      BY <2>1, <2>4 DEF IInv, TypeOK
    <3>3. phase' \in [Ops -> Phases] /\ run' \in [Ops -> {"none", "run", "sent"}]
      BY <1>2 DEF IInv, TypeOK, Phases
    <3>. QED
      BY <1>2, <3>1, <3>2, <3>3 DEF IInv, TypeOK
  <2>12. ASSUME NEW p \in Ops PROVE Shape(p)'
    <3>1. CASE p = 0
      BY <1>2, <2>2, <2>3, <2>4, <3>1 DEF IInv, TypeOK, Shape, Fresh, Freed, Sending, Handing
    <3>2. CASE p = h
      BY <1>2, <2>4, <2>7, <3>2 DEF IInv, TypeOK, Shape, Fresh, Freed, Sending, Handing
    <3>3. CASE p # 0 /\ p # h
      BY <1>2, <2>10, <3>3 DEF IInv, TypeOK, Shape, Fresh, Freed, Sending, Handing
    <3>. QED
      BY <3>1, <3>2, <3>3
  <2>13. ASSUME NEW p \in Ops, NEW i \in Index PROVE (Exact(p, i) /\ LiveFetch(p, i))'
    <3>1. Exact(p, i) /\ LiveFetch(p, i) /\ inFlight[p][i] \in Nat
      BY DEF IInv, TypeOK
    <3>2. Listed(p, i)' <=> Listed(p, i)
      BY <1>2 DEF Listed
    <3>3. LiveFetch(p, i)'
      BY <1>2, <2>7, <3>1, <3>2 DEF LiveFetch, IInv, TypeOK
    <3>4. CASE p = 0 /\ i = h
      BY <1>2, <2>6, <2>9, <2>10, <3>1, <3>2, <3>3, <3>4 DEF Exact
    <3>5. CASE ~(p = 0 /\ i = h)
      BY <1>2, <2>8, <2>9, <2>10, <3>1, <3>2, <3>3, <3>5 DEF Exact
    <3>. QED
      BY <3>4, <3>5
  <2>14. ASSUME NEW i \in Index PROVE ResolveShape(i)'
    <3>1. ResolveShape(i)
      BY DEF IInv
    <3>2. Listed(0, i)' <=> Listed(0, i)
      BY <1>2 DEF Listed
    <3>3. Head(0)' = h /\ phase'[0] = "sending"
      BY <1>2, <2>3, <2>4 DEF Head, IInv, TypeOK
    <3>4. CASE i = h
      BY <1>2, <2>4, <2>6, <2>10, <3>3, <3>4 DEF ResolveShape
    <3>5. CASE i # h
      BY <1>2, <2>9, <2>10, <3>1, <3>2, <3>5 DEF ResolveShape, IInv, TypeOK
    <3>. QED
      BY <3>4, <3>5
  <2>15. AnswerShape'
    BY <1>2, <2>4 DEF IInv, TypeOK, AnswerShape
  <2>. QED
    BY <2>11, <2>12, <2>13, <2>14, <2>15 DEF IInv
<1>. QED
  BY <1>1, <1>2 DEF ResolveHead

(* The invariant holds when the call is made.                              *)
LEMMA InitIInv == Init => IInv
<1>. USE IndexFacts
<1>. SUFFICES ASSUME Init PROVE IInv
  OBVIOUS
<1>1. TypeOK
  BY DEF Init, TypeOK, Phases
<1>2. ASSUME NEW p \in Ops PROVE Shape(p)
  BY DEF Init, Shape, Fresh, Freed, Sending, Handing
<1>3. \A i \in Index : ~Resolving(i) /\ phase[i] = "unused"
  BY DEF Init, Resolving
<1>4. ASSUME NEW p \in Ops, NEW i \in Index PROVE Exact(p, i) /\ LiveFetch(p, i)
  BY DEF Init, Exact, LiveFetch, Listed
<1>5. ASSUME NEW i \in Index PROVE ResolveShape(i)
  BY <1>3 DEF Init, ResolveShape
<1>6. AnswerShape
  BY DEF Init, AnswerShape
<1>. QED
  BY <1>1, <1>2, <1>4, <1>5, <1>6 DEF IInv

(* Every step keeps the invariant.                                         *)
LEMMA NextIInv == IInv /\ [Next]_vars => IInv'
<1>. SUFFICES ASSUME IInv, [Next]_vars PROVE IInv'
  OBVIOUS
<1>. QED
  BY StepKinds, MovesStep, ClosesStep, OpensStep, StaysStep, SendHeadStep, ResolveHeadStep,
     FreeStep, NewItemStep, KeySettledStep, KeyFetchStep, SendResolvedStep, UnlinkStep,
     HeadWaitsStep, ListDoneStep, KeyFetchedStep

(* The inductive invariant holds in every state of every call.             *)
THEOREM Invariance == Safety => []IInv
<1>1. Init => IInv
  BY InitIInv
<1>2. IInv /\ [Next]_vars => IInv'
  BY NextIInv
<1>. QED
  BY <1>1, <1>2, PTL DEF Safety

-----------------------------------------------------------------------------
(* What follows from the invariant.                                        *)

(* The variables of an operation call stay in their types.                 *)
THEOREM TypeCorrect == Safety => []TypeOK
<1>1. IInv => TypeOK
  BY DEF IInv
<1>. QED
  BY <1>1, Invariance, PTL

(* Whatever the order of the answers, the pending_count of a SendItem is   *)
(* the number of answers the item waits for.                               *)
THEOREM PendingCounts == Safety => []PendingCountIsExact
<1>1. IInv => PendingCountIsExact
  BY DEF IInv, Exact, PendingCountIsExact
<1>. QED
  BY <1>1, Invariance, PTL

(* No fetch answers to a SendItem or an OperationCallData already freed.   *)
THEOREM NoDanglingFetch == Safety => []FetchesOfLiveItems
<1>1. IInv => FetchesOfLiveItems
  BY DEF IInv, LiveFetch, FetchesOfLiveItems
<1>. QED
  BY <1>1, Invariance, PTL

(* use_resolve_done_cb always finds the item its resolve was started for.  *)
THEOREM ResolveFindsItsItem == Safety => []ResolveAnswersItsItem
<1>1. IInv => ResolveAnswersItsItem
  BY DEF IInv, ResolveShape, ResolveAnswersItsItem
<1>. QED
  BY <1>1, Invariance, PTL

(* An operation is freed when it has nothing left to do, and answered.     *)
THEOREM FreedWhenFinished == Safety => []FreedIsFinished
<1>1. IInv => FreedIsFinished
  BY DEF IInv, Shape, Freed, AnswerShape, FreedIsFinished
<1>. QED
  BY <1>1, Invariance, PTL

(* When the caller's operation is over, so are the resolves it started.    *)
THEOREM NoOrphanResolve == Safety => []NothingLeftBehind
<1>1. IInv => NothingLeftBehind
  <2>. USE IndexFacts
  <2>. SUFFICES ASSUME IInv, Idle, phase[0] = "freed", NEW o \in Ops
                PROVE  phase[o] \in {"unused", "freed"}
    BY DEF NothingLeftBehind
  <2>1. ASSUME NEW i \in Index PROVE ~Resolving(i)
    BY DEF IInv, ResolveShape
  <2>2. CASE o = 0
    BY <2>2
  <2>3. CASE o # 0
    <3>1. /\ phase[o] \in Phases /\ phase[o] # "entered" /\ ~Busy(o) /\ ~Resolving(o)
          /\ total[o] \in Nat
      BY <2>1, <2>3 DEF IInv, TypeOK, Shape, Idle
    <3>2. CASE phase[o] = "sending"
      BY <3>1, <3>2 DEF IInv, Shape, Sending, Busy, Resolving
    <3>3. CASE phase[o] # "sending"
      BY <3>1, <3>3 DEF Phases, Busy, Resolving
    <3>. QED
      BY <3>2, <3>3
  <2>. QED
    BY <2>2, <2>3
<1>. QED
  BY <1>1, Invariance, PTL

(* A cancellation before the first result means that none is handed over.  *)
THEOREM CancelIsHeeded == Safety => CancelStopsResults
<1> DEFINE J == cancelled /\ target[0] = 0
<1>. USE IndexFacts
<1>1. IInv /\ J => sent[0] = 0
  BY DEF IInv, TypeOK, Shape, Fresh, Freed, Sending
<1>2. IInv /\ J /\ [Next]_vars => J'
  <2>. SUFFICES ASSUME IInv, J, [Next]_vars PROVE J'
    OBVIOUS
  <2>1. ASSUME NEW o \in Ops, NEW n \in Index, Opens(o, n) PROVE FALSE
    BY <2>1 DEF Opens
  <2>2. ASSUME NEW o \in Ops, NEW to \in Phases, Moves(o, to) PROVE J'
    BY <2>2 DEF Moves, Go, items
  <2>3. ASSUME NEW o \in Ops, NEW with \in {"nothing", "error", "cancelled"},
               Closes(o, with)
        PROVE  J'
    BY <2>3 DEF Closes, Close, items
  <2>4. CASE Stays
    BY <2>4 DEF Stays, items, IInv, TypeOK
  <2>5. CASE SendHead \/ ResolveHead
    BY <2>5 DEF SendHead, ResolveHead, Deliver, IInv, TypeOK
  <2>6. ASSUME NEW o \in Ops,
               \/ Free(o) \/ NewItem(o) \/ KeySettled(o) \/ KeyUsesResolve(o) \/ KeyFetch(o)
               \/ SendResolved(o) \/ Unlink(o) \/ HeadWaits(o) \/ ListDone(o)
        PROVE  J'
    BY <2>6 DEF Free, NewItem, KeySettled, KeyUsesResolve, KeyFetch, NextKey, SendResolved,
                Unlink, HeadWaits, ListDone, items
  <2>7. ASSUME NEW o \in Ops, NEW i \in Index, KeyFetched(o, i) PROVE J'
    BY <2>7 DEF KeyFetched
  <2>. QED
    BY StepKinds, <2>1, <2>2, <2>3, <2>4, <2>5, <2>6, <2>7
<1>. QED
  BY <1>1, <1>2, Invariance, PTL DEF Safety, CancelStopsResults

-----------------------------------------------------------------------------
(* The refinement of ResultStream.                                         *)

(* A step of the operation is a step of its result stream, or a stutter.   *)
LEMMA StreamStep ==
  ASSUME IInv, [Next]_vars
  PROVE  [Stream!Next]_(Stream!vars)
<1>. USE IndexFacts
<1> DEFINE left == IF answer = "open" /\ sent[0] = 0 THEN -1 ELSE total[0]
<1>1. ASSUME UNCHANGED <<sent[0], total[0], answer>>
      PROVE  UNCHANGED Stream!vars
  BY <1>1 DEF Stream!vars
<1>2. ASSUME Deliver, run[0] = "run", Ready(0)
      PROVE  Stream!Next
  <2>1. /\ sent[0] \in Nat /\ created[0] \in Nat /\ target[0] \in Nat /\ total[0] \in Nat
        /\ target[0] = sent[0] + total[0] /\ target[0] <= MaxResults
        /\ sent[0] < created[0] /\ created[0] <= target[0] /\ phase[0] = "sending"
    <3>1. /\ sent[0] \in Nat /\ created[0] \in Nat /\ target[0] \in Nat /\ total[0] \in Nat
          /\ phase[0] \in Phases
      BY DEF IInv, TypeOK
    <3>2. phase[0] = "sending" /\ Sending(0) /\ target[0] <= MaxResults
      BY <1>2, <3>1 DEF IInv, Shape, Fresh, Freed
    <3>. QED
      BY <1>2, <3>1, <3>2 DEF Sending, Ready
  <2>2. answer = "open" /\ total[0] >= 1
    BY <2>1 DEF IInv, AnswerShape
  <2>3. /\ sent'[0] = sent[0] + 1 /\ total'[0] = total[0] - 1
        /\ answer' = IF total[0] = 1 THEN "complete" ELSE "open"
    BY <1>2, <2>2 DEF Deliver, IInv, TypeOK
  <2>4. left' = total[0] - 1
    BY <2>1, <2>3
  <2>5. left' \in IF sent[0] = 0 THEN 0..(MaxResults - 1) ELSE {left - 1}
    BY <2>1, <2>2, <2>4
  <2>6. answer' = IF left' = 0 THEN "complete" ELSE "open"
    BY <2>1, <2>3, <2>4
  <2>. QED
    BY <2>2, <2>3, <2>5, <2>6 DEF Stream!Next, Stream!Deliver
<1>3. ASSUME NEW o \in Ops, NEW with \in {"nothing", "error", "cancelled"}, Closes(o, with)
      PROVE  [Stream!Next]_(Stream!vars)
  <2>1. CASE o # 0
    BY <1>1, <1>3, <2>1 DEF Closes, Close, items
  <2>2. CASE o = 0
    <3>1. /\ phase[0] \in {"entered", "fetched", "results"}
          /\ answer' = with /\ UNCHANGED <<total, sent>>
      BY <1>3, <2>2 DEF Closes, Close, items
    <3>2. Fresh(0) /\ answer = "open"
      BY <3>1 DEF IInv, Shape, AnswerShape
    <3>3. left' = 0
      BY <3>1, <3>2 DEF Fresh
    <3>. QED
      BY <3>1, <3>2, <3>3 DEF Fresh, Stream!Next, Stream!Close, Stream!Closings
  <2>. QED
    BY <2>1, <2>2
<1>4. ASSUME NEW o \in Ops, NEW n \in Index, Opens(o, n)
      PROVE  UNCHANGED Stream!vars
  <2>1. CASE o = 0
    <3>1. Fresh(0) /\ answer = "open" /\ UNCHANGED <<sent, answer>>
      BY <1>4, <2>1 DEF Opens, IInv, Shape, AnswerShape
    <3>. QED
      BY <3>1 DEF Fresh, Stream!vars
  <2>2. CASE o # 0
    BY <1>1, <1>4, <2>2 DEF Opens, IInv, TypeOK
  <2>. QED
    BY <2>1, <2>2
<1>5. CASE SendHead
  BY <1>2, <1>5 DEF SendHead, Running
<1>6. CASE ResolveHead
  BY <1>1, <1>2, <1>6 DEF ResolveHead, Running
<1>7. CASE Stays
  BY <1>1, <1>7 DEF Stays, items
<1>8. ASSUME NEW o \in Ops, SendResolved(o) \/ Unlink(o)
      PROVE  UNCHANGED Stream!vars
  <2>1. o # 0
    BY <1>8 DEF SendResolved, Unlink, IInv, Shape, Handing
  <2>. QED
    BY <1>1, <1>8, <2>1 DEF SendResolved, Unlink, IInv, TypeOK
<1>9. ASSUME NEW o \in Ops,
             \/ Free(o) \/ NewItem(o) \/ KeySettled(o) \/ KeyUsesResolve(o) \/ KeyFetch(o)
             \/ HeadWaits(o) \/ ListDone(o)
      PROVE  UNCHANGED Stream!vars
  BY <1>1, <1>9 DEF Free, NewItem, KeySettled, KeyUsesResolve, KeyFetch, NextKey,
                    HeadWaits, ListDone, items
<1>10. ASSUME NEW o \in Ops, NEW to \in Phases, Moves(o, to)
       PROVE  UNCHANGED Stream!vars
  BY <1>1, <1>10 DEF Moves, Go, items
<1>11. ASSUME NEW o \in Ops, NEW i \in Index, KeyFetched(o, i)
       PROVE  UNCHANGED Stream!vars
  BY <1>1, <1>11 DEF KeyFetched
<1>. QED
  BY StepKinds, <1>3, <1>4, <1>5, <1>6, <1>7, <1>8, <1>9, <1>10, <1>11

(* The answers of every call are those of a result stream: either a single *)
(* closing answer, or media counted down to 0, and nothing afterwards.     *)
THEOREM KeepsThePromise == Safety => AnswersAsPromised
<1>1. Init => Stream!Init
  BY IndexFacts DEF Init, Stream!Init
<1>2. IInv /\ [Next]_vars => [Stream!Next]_(Stream!vars)
  BY StreamStep
<1>. QED
  BY <1>1, <1>2, Invariance, PTL DEF Safety, AnswersAsPromised, Stream!Safety

-----------------------------------------------------------------------------
(* Items that have keys.                                                   *)

(* While the head of a list waits for nothing, its list is being run.      *)
ReadyHeadIsRun ==
    \A o \in Ops : sent[o] < created[o] /\ pending[o][Head(o)] = 0 => run[o] # "none"

(* Where every item has a key to gather, a step never leaves a ready item  *)
(* at the head of a list.                                                  *)
LEMMA ReadyHeadStep ==
  ASSUME IInv, ReadyHeadIsRun, [Next]_vars, 0 \notin KeyCounts
  PROVE  ReadyHeadIsRun'
<1>. USE IndexFacts
<1>1. ASSUME UNCHANGED <<run, sent, created, pending>> PROVE ReadyHeadIsRun'
  BY <1>1 DEF ReadyHeadIsRun, Head
<1>2. ASSUME NEW o \in Ops, NEW to \in Phases, Moves(o, to) PROVE ReadyHeadIsRun'
  BY <1>1, <1>2 DEF Moves, Go, items
<1>3. ASSUME NEW o \in Ops, NEW with \in {"nothing", "error", "cancelled"}, Closes(o, with)
      PROVE  ReadyHeadIsRun'
  <2>1. CASE o = 0
    BY <1>1, <1>3, <2>1 DEF Closes, Close, items
  <2>2. CASE o # 0
    <3>1. /\ UNCHANGED <<sent, created>>
          /\ run' = [run EXCEPT ![0] = "run"]
          /\ pending' = [pending EXCEPT ![0][Head(0)] = @ - 1]
      BY <1>3, <2>2 DEF Closes, Close, ResolveDone, items
    <3>. QED
      BY <3>1 DEF ReadyHeadIsRun, Head, IInv, TypeOK
  <2>. QED
    BY <2>1, <2>2
<1>4. ASSUME NEW o \in Ops, NEW n \in Index, Opens(o, n) PROVE ReadyHeadIsRun'
  BY <1>1, <1>4 DEF Opens
<1>5. CASE Stays
  BY <1>1, <1>5 DEF Stays, items
<1>6. CASE SendHead \/ ResolveHead
  <2>1. /\ run[0] = "run" /\ phase[0] = "sending" /\ UNCHANGED created
    BY <1>6 DEF SendHead, ResolveHead, Deliver, Running, IInv, TypeOK, Shape, Fresh, Freed
  <2>2. CASE Deliver /\ UNCHANGED run
    <3>1. /\ UNCHANGED <<run, created>>
          /\ sent' = [sent EXCEPT ![0] = @ + 1]
      BY <2>1, <2>2 DEF Deliver
    <3>2. ASSUME NEW p \in Ops, p # 0 PROVE pending'[p] = pending[p]
      BY <1>6, <3>2 DEF SendHead, ResolveHead, IInv, TypeOK
    <3>. QED
      BY <2>1, <3>1, <3>2 DEF ReadyHeadIsRun, Head, IInv, TypeOK
  <2>3. CASE ~(Deliver /\ UNCHANGED run)
    <3>1. /\ ResolveHead
          /\ UNCHANGED <<sent, created>>
          /\ run' = [run EXCEPT ![0] = "none"]
          /\ pending' = [pending EXCEPT ![0][Head(0)] = @ + 1]
          /\ pending[0][Head(0)] = 0 /\ sent[0] < created[0]
      BY <1>6, <2>3 DEF SendHead, ResolveHead, Ready
    <3>2. Head(0) \in Index
      <4>1. /\ sent[0] \in Nat /\ created[0] \in Nat /\ target[0] \in Nat
            /\ created[0] <= target[0] /\ target[0] <= MaxResults
        BY <2>1 DEF IInv, TypeOK, Shape, Sending
      <4>. QED
        BY <3>1, <4>1 DEF Head
    <3>3. pending'[0][Head(0)] = 1
      BY <3>1, <3>2 DEF IInv, TypeOK
    <3>. QED
      BY <3>1, <3>3 DEF ReadyHeadIsRun, Head, IInv, TypeOK
  <2>. QED
    BY <2>2, <2>3
<1>7. ASSUME NEW o \in Ops, NewItem(o) PROVE ReadyHeadIsRun'
  <2>1. PICK n \in KeyCounts : pending' = [pending EXCEPT ![o][created[o] + 1] = n]
    BY <1>7 DEF NewItem
  <2>2. /\ created' = [created EXCEPT ![o] = @ + 1] /\ UNCHANGED <<run, sent>>
        /\ n # 0 /\ phase[o] = "sending" /\ created[o] < target[o] /\ run[o] = "none"
    BY <1>7 DEF NewItem, Building
  <2>3. /\ created[o] + 1 \in Index /\ sent[o] \in Nat /\ created[o] \in Nat
        /\ sent[o] <= created[o]
    BY <2>2 DEF IInv, TypeOK, Shape, Sending
  <2>4. ASSUME NEW p \in Ops, p # o
        PROVE  pending'[p] = pending[p] /\ created'[p] = created[p]
    BY <2>1, <2>2, <2>4 DEF IInv, TypeOK
  <2>5. /\ pending'[o][created[o] + 1] = n /\ created'[o] = created[o] + 1
        /\ \A i \in Index : i # created[o] + 1 => pending'[o][i] = pending[o][i]
    BY <2>1, <2>2, <2>3 DEF IInv, TypeOK
  <2>6. sent[o] < created[o] => Head(o) \in Index /\ Head(o) # created[o] + 1
    BY <2>3 DEF Head
  <2>7. sent[o] = created[o] => Head(o) = created[o] + 1
    BY DEF Head
  <2>8. pending'[o][Head(o)] # 0
    <3>1. sent[o] < created[o] => pending[o][Head(o)] # 0
      BY <2>2 DEF ReadyHeadIsRun
    <3>. QED
      BY <2>2, <2>3, <2>5, <2>6, <2>7, <3>1
  <2>9. ASSUME NEW p \in Ops
        PROVE  sent'[p] < created'[p] /\ pending'[p][Head(p)'] = 0 => run'[p] # "none"
    <3>1. Head(p)' = Head(p)
      BY <2>2 DEF Head
    <3>. QED
      BY <2>2, <2>4, <2>8, <3>1 DEF ReadyHeadIsRun
  <2>. QED
    BY <2>9 DEF ReadyHeadIsRun
<1>8. ASSUME NEW o \in Ops, KeySettled(o) \/ KeyUsesResolve(o) PROVE ReadyHeadIsRun'
  <2>1. /\ UNCHANGED <<sent, created>> /\ run' = [run EXCEPT ![o] = "run"]
        /\ pending' = [pending EXCEPT ![o][created[o]] = @ - 1]
    BY <1>8 DEF KeySettled, KeyUsesResolve, NextKey
  <2>. QED
    BY <2>1 DEF ReadyHeadIsRun, Head, IInv, TypeOK
<1>9. ASSUME NEW o \in Ops, NEW i \in Index, KeyFetched(o, i) PROVE ReadyHeadIsRun'
  <2>1. /\ UNCHANGED <<sent, created>> /\ run' = [run EXCEPT ![o] = "run"]
        /\ pending' = [pending EXCEPT ![o][i] = @ - 1]
    BY <1>9 DEF KeyFetched
  <2>. QED
    BY <2>1 DEF ReadyHeadIsRun, Head, IInv, TypeOK
<1>10. ASSUME NEW o \in Ops, Free(o) \/ KeyFetch(o) PROVE ReadyHeadIsRun'
  BY <1>1, <1>10 DEF Free, KeyFetch, NextKey, items
<1>11. ASSUME NEW o \in Ops, SendResolved(o) PROVE ReadyHeadIsRun'
  <2>1. /\ UNCHANGED <<sent, created>> /\ run' = [run EXCEPT ![o] = "sent", ![0] = "run"]
        /\ pending' = [pending EXCEPT ![0][Head(0)] = @ - 1]
    BY <1>11 DEF SendResolved, ResolveDone
  <2>. QED
    BY <2>1 DEF ReadyHeadIsRun, Head, IInv, TypeOK
<1>12. ASSUME NEW o \in Ops, Unlink(o) PROVE ReadyHeadIsRun'
  <2>1. /\ UNCHANGED <<created, pending>> /\ run' = [run EXCEPT ![o] = "run"]
        /\ sent' = [sent EXCEPT ![o] = @ + 1]
    BY <1>12 DEF Unlink
  <2>. QED
    BY <2>1 DEF ReadyHeadIsRun, Head, IInv, TypeOK
<1>13. ASSUME NEW o \in Ops, HeadWaits(o) \/ ListDone(o) PROVE ReadyHeadIsRun'
  <2>1. /\ UNCHANGED <<sent, created, pending>> /\ run' = [run EXCEPT ![o] = "none"]
        /\ ~(sent[o] < created[o] /\ pending[o][Head(o)] = 0)
    BY <1>13 DEF HeadWaits, ListDone, Ready, items, IInv, TypeOK
  <2>. QED
    BY <2>1 DEF ReadyHeadIsRun, Head, IInv, TypeOK
<1>. QED
  BY StepKinds, <1>2, <1>3, <1>4, <1>5, <1>6, <1>7, <1>8, <1>9, <1>10, <1>11, <1>12, <1>13

(* When every item has a key to gather, no item that is ready is left at   *)
(* the head of a list when the plugin returns to the main loop.            *)
THEOREM ReadyHeads ==
  ASSUME 0 \notin KeyCounts
  PROVE  Safety => []ReadyHeadIsSent
<1>1. Init => ReadyHeadIsRun
  BY DEF Init, ReadyHeadIsRun
<1>2. IInv /\ ReadyHeadIsRun /\ [Next]_vars => ReadyHeadIsRun'
  BY ReadyHeadStep
<1>3. IInv /\ ReadyHeadIsRun => ReadyHeadIsSent
  <2>. USE IndexFacts
  <2>. SUFFICES ASSUME IInv, ReadyHeadIsRun, Idle, NEW o \in Ops, sent[o] < created[o]
                PROVE  pending[o][Head(o)] > 0
    BY DEF ReadyHeadIsSent
  <2>1. run[o] = "none" /\ pending[o][Head(o)] # 0
    BY DEF Idle, Busy, ReadyHeadIsRun
  <2>2. /\ sent[o] \in Nat /\ created[o] \in Nat /\ target[o] \in Nat
        /\ created[o] <= target[o] /\ target[o] <= MaxResults
    BY DEF IInv, TypeOK, Shape, Sending, Freed, Fresh
  <2>3. Head(o) \in Index
    BY <2>2 DEF Head
  <2>. QED
    BY <2>1, <2>3 DEF IInv, TypeOK
<1>. QED
  BY <1>1, <1>2, <1>3, Invariance, PTL DEF Safety

(* Between two main loop callbacks an operation that still sends waits for *)
(* a fetch of the item at the head of its list, or for its resolve.        *)
LEMMA HeadIsWaitedFor ==
  ASSUME IInv, ReadyHeadIsSent, Idle, NEW o \in Ops, phase[o] = "sending"
  PROVE  /\ Head(o) \in Index
         /\ inFlight[o][Head(o)] > 0 \/ (o = 0 /\ Resolving(Head(o)))
<1>. USE IndexFacts
<1>1. /\ sent[o] \in Nat /\ created[o] \in Nat /\ target[o] \in Nat /\ total[o] \in Nat
      /\ keysLeft[o] \in Nat /\ Sending(o) /\ target[o] <= MaxResults
  BY DEF IInv, TypeOK, Shape
<1>2. run[o] = "none" /\ created[o] = target[o] /\ keysLeft[o] = 0
  BY <1>1 DEF Idle, Busy, Building, Sending
<1>3. sent[o] < created[o] /\ Head(o) \in Index /\ Listed(o, Head(o))
  BY <1>1, <1>2 DEF Sending, Head, Listed
<1>4. pending[o][Head(o)] > 0 /\ Exact(o, Head(o)) /\ inFlight[o][Head(o)] \in Nat
  BY <1>3 DEF ReadyHeadIsSent, IInv, TypeOK
<1>. QED
  BY <1>2, <1>3, <1>4 DEF Exact

(* Where every item has a key to gather, a call that is not over is one    *)
(* the main loop comes back to: its resolves included, it is never left    *)
(* with nothing in flight.                                                 *)
THEOREM NeverForgotten ==
  ASSUME 0 \notin KeyCounts
  PROVE  Safety => []CallIsNotForgotten
<1>1. IInv /\ ReadyHeadIsSent => CallIsNotForgotten
  <2>. USE IndexFacts
  <2>. SUFFICES ASSUME IInv, ReadyHeadIsSent, Idle, phase[0] # "freed"
                PROVE  \E o \in Ops : \/ phase[o] \in {"fetching", "relay"}
                                      \/ \E i \in Index : inFlight[o][i] > 0
    BY DEF CallIsNotForgotten
  <2>1. ASSUME NEW o \in Ops
        PROVE  phase[o] \in {"unused", "fetching", "relay", "sending", "freed"}
    BY DEF Idle, Busy, IInv, TypeOK, Phases
  <2>2. CASE phase[0] \in {"fetching", "relay"}
    BY <2>2
  <2>3. CASE phase[0] = "sending"
    <3>1. Head(0) \in Index /\ (inFlight[0][Head(0)] > 0 \/ Resolving(Head(0)))
      BY <2>3, HeadIsWaitedFor
    <3>2. CASE Resolving(Head(0))
      <4>1. phase[Head(0)] \in {"fetching", "relay", "sending"} /\ Head(0) \in Ops
            /\ Head(0) # 0
        BY <2>1, <3>1, <3>2 DEF Resolving
      <4>2. phase[Head(0)] = "sending" => \E i \in Index : inFlight[Head(0)][i] > 0
        BY <4>1, HeadIsWaitedFor
      <4>. QED
        BY <4>1, <4>2
    <3>. QED
      BY <3>1, <3>2
  <2>. QED
    BY <2>1, <2>2, <2>3 DEF IInv, Shape
<1>. QED
  BY <1>1, Invariance, ReadyHeads, PTL

-----------------------------------------------------------------------------
(* What is left to do runs out.                                            *)

(* A step after which less is left to do, in the order of Work.            *)
Nearer ==
    \E k \in 1..6 : Less(Work'[k], Work[k]) /\ \A j \in 1..k - 1 : Work'[j] = Work[j]

(* Fewer at one place and nowhere more is less.                            *)
LEMMA LessAt ==
  ASSUME NEW D, NEW f, NEW g, DOMAIN g = D, NEW d \in D,
         \A x \in D : f[x] <= g[x], f[d] # g[d]
  PROVE  Less(f, g)
BY DEF Less

LEMMA WorkParts ==
  /\ Work[1] = [o \in Ops |-> PhaseRank[phase[o]]]
  /\ Work[2] = [o \in Ops |-> target[o] - created[o]]
  /\ Work[3] = keysLeft
  /\ Work[4] = [x \in Ops \X Index |-> inFlight[x[1]][x[2]]]
  /\ Work[5] = total
  /\ Work[6] = [o \in Ops |-> RunRank[run[o]]]
BY DEF Work

LEMMA WorkPartsLater ==
  /\ Work'[1] = [o \in Ops |-> PhaseRank[phase'[o]]]
  /\ Work'[2] = [o \in Ops |-> target'[o] - created'[o]]
  /\ Work'[3] = keysLeft'
  /\ Work'[4] = [x \in Ops \X Index |-> inFlight'[x[1]][x[2]]]
  /\ Work'[5] = total'
  /\ Work'[6] = [o \in Ops |-> RunRank[run'[o]]]
BY DEF Work

LEMMA Ranks ==
  /\ PhaseRank["unused"] = 9 /\ PhaseRank["entered"] = 9 /\ PhaseRank["called"] = 8
  /\ PhaseRank["fetching"] = 7 /\ PhaseRank["fetched"] = 6 /\ PhaseRank["relay"] = 5
  /\ PhaseRank["results"] = 4 /\ PhaseRank["sending"] = 3 /\ PhaseRank["closing"] = 2
  /\ PhaseRank["freed"] = 1
  /\ RunRank["none"] = 0 /\ RunRank["run"] = 1 /\ RunRank["sent"] = 2
BY DEF PhaseRank, RunRank

(* An operation goes on to a later phase.                                  *)
LEMMA NearerByPhase ==
  ASSUME TypeOK, NEW o \in Ops, NEW to \in Phases, phase' = [phase EXCEPT ![o] = to],
         PhaseRank[to] < PhaseRank[phase[o]]
  PROVE  Nearer
<1>1. /\ \A p \in Ops : phase[p] \in Phases
      /\ \A r \in Phases : PhaseRank[r] \in Int
  BY Ranks DEF TypeOK, Phases
<1>2. ASSUME NEW p \in Ops PROVE phase'[p] = IF p = o THEN to ELSE phase[p]
  BY DEF TypeOK
<1>3. \A p \in Ops : PhaseRank[phase'[p]] <= PhaseRank[phase[p]]
  BY <1>1, <1>2
<1>4. PhaseRank[phase'[o]] # PhaseRank[phase[o]]
  BY <1>1, <1>2
<1>5. Less(Work'[1], Work[1])
  <2>1. \A p \in Ops : Work'[1][p] <= Work[1][p]
    BY <1>3, WorkParts, WorkPartsLater
  <2>2. Work'[1][o] # Work[1][o] /\ DOMAIN Work[1] = Ops
    BY <1>4, WorkParts, WorkPartsLater
  <2>. QED
    BY <2>1, <2>2, LessAt
<1>. QED
  BY <1>5 DEF Nearer

(* An item is built.                                                       *)
LEMMA NearerByItem ==
  ASSUME TypeOK, NEW o \in Ops, UNCHANGED <<phase, target>>,
         created' = [created EXCEPT ![o] = @ + 1]
  PROVE  Nearer
<1>1. Work'[1] = Work[1]
  BY WorkParts, WorkPartsLater
<1>2. ASSUME NEW p \in Ops
      PROVE  /\ target'[p] - created'[p] <= target[p] - created[p]
             /\ p = o => target'[p] - created'[p] # target[p] - created[p]
  BY DEF TypeOK
<1>3. Less(Work'[2], Work[2])
  <2>1. \A p \in Ops : Work'[2][p] <= Work[2][p]
    BY <1>2, WorkParts, WorkPartsLater
  <2>2. Work'[2][o] # Work[2][o] /\ DOMAIN Work[2] = Ops
    BY <1>2, WorkParts, WorkPartsLater
  <2>. QED
    BY <2>1, <2>2, LessAt
<1>. QED
  BY <1>1, <1>3 DEF Nearer

(* The key loop gets one key further.                                      *)
LEMMA NearerByKey ==
  ASSUME TypeOK, NEW o \in Ops, UNCHANGED <<phase, target, created>>,
         keysLeft' = [keysLeft EXCEPT ![o] = @ - 1]
  PROVE  Nearer
<1>1. Work'[1] = Work[1] /\ Work'[2] = Work[2]
  BY WorkParts, WorkPartsLater
<1>2. /\ DOMAIN keysLeft = Ops /\ keysLeft'[o] # keysLeft[o]
      /\ \A p \in Ops : keysLeft'[p] <= keysLeft[p]
  BY DEF TypeOK
<1>3. Less(keysLeft', keysLeft)
  BY <1>2, LessAt
<1>. QED
  BY <1>1, <1>3, WorkParts, WorkPartsLater DEF Nearer

(* A fetch of a key is answered.                                           *)
LEMMA NearerByFetch ==
  ASSUME TypeOK, NEW o \in Ops, NEW i \in Index,
         UNCHANGED <<phase, target, created, keysLeft>>,
         inFlight' = [inFlight EXCEPT ![o][i] = @ - 1]
  PROVE  Nearer
<1>1. Work'[1] = Work[1] /\ Work'[2] = Work[2] /\ Work'[3] = Work[3]
  BY WorkParts, WorkPartsLater
<1>2. ASSUME NEW p \in Ops, NEW j \in Index
      PROVE  /\ inFlight'[p][j] <= inFlight[p][j]
             /\ p = o /\ j = i => inFlight'[p][j] # inFlight[p][j]
  BY DEF TypeOK
<1>3. Less(Work'[4], Work[4])
  <2>1. \A x \in Ops \X Index : Work'[4][x] <= Work[4][x]
    BY <1>2, WorkParts, WorkPartsLater
  <2>2. <<o, i>> \in Ops \X Index /\ DOMAIN Work[4] = Ops \X Index
    BY WorkParts
  <2>3. Work'[4][<<o, i>>] # Work[4][<<o, i>>]
    BY <1>2, <2>2, WorkParts, WorkPartsLater
  <2>. QED
    BY <2>1, <2>2, <2>3, LessAt
<1>. QED
  BY <1>1, <1>3 DEF Nearer

(* A media is handed over.                                                 *)
LEMMA NearerByMedia ==
  ASSUME TypeOK, NEW o \in Ops,
         UNCHANGED <<phase, target, created, keysLeft, inFlight>>,
         total' = [total EXCEPT ![o] = @ - 1]
  PROVE  Nearer
<1>1. Work'[1] = Work[1] /\ Work'[2] = Work[2] /\ Work'[3] = Work[3] /\ Work'[4] = Work[4]
  BY WorkParts, WorkPartsLater
<1>2. /\ DOMAIN total = Ops /\ total'[o] # total[o]
      /\ \A p \in Ops : total'[p] <= total[p]
  BY DEF TypeOK
<1>3. Less(total', total)
  BY <1>2, LessAt
<1>. QED
  BY <1>1, <1>3, WorkParts, WorkPartsLater DEF Nearer

(* A run of a list comes to its end.                                       *)
LEMMA NearerByRun ==
  ASSUME TypeOK, NEW o \in Ops, NEW to \in {"none", "run", "sent"},
         UNCHANGED <<phase, target, created, keysLeft, inFlight, total>>,
         run' = [run EXCEPT ![o] = to], RunRank[to] < RunRank[run[o]]
  PROVE  Nearer
<1>1. /\ Work'[1] = Work[1] /\ Work'[2] = Work[2] /\ Work'[3] = Work[3]
      /\ Work'[4] = Work[4] /\ Work'[5] = Work[5]
  BY WorkParts, WorkPartsLater
<1>2. /\ \A p \in Ops : run[p] \in {"none", "run", "sent"}
      /\ \A r \in {"none", "run", "sent"} : RunRank[r] \in Int
  BY Ranks DEF TypeOK
<1>3. ASSUME NEW p \in Ops PROVE run'[p] = IF p = o THEN to ELSE run[p]
  BY DEF TypeOK
<1>4. /\ \A p \in Ops : RunRank[run'[p]] <= RunRank[run[p]]
      /\ RunRank[run'[o]] # RunRank[run[o]]
  BY <1>2, <1>3
<1>5. Less(Work'[6], Work[6])
  <2>1. \A p \in Ops : Work'[6][p] <= Work[6][p]
    BY <1>4, WorkParts, WorkPartsLater
  <2>2. Work'[6][o] # Work[6][o] /\ DOMAIN Work[6] = Ops
    BY <1>4, WorkParts, WorkPartsLater
  <2>. QED
    BY <2>1, <2>2, LessAt
<1>. QED
  BY <1>1, <1>5 DEF Nearer

(* Every step of the plugin's code, and every event the main loop has for  *)
(* it, leaves less to do.                                                  *)
LEMMA NearerStep ==
  ASSUME IInv, Run \/ Dispatch
  PROVE  Nearer
<1>. USE IndexFacts
<1>1. TypeOK
  BY DEF IInv
<1>2. ASSUME NEW o \in Ops, NEW with, Close(o, with),
             phase[o] \in {"entered", "fetched", "results"}
      PROVE  Nearer
  BY <1>1, <1>2, NearerByPhase, Ranks DEF Close, Phases
<1>3. ASSUME NEW o \in Ops, NEW to \in Phases, Go(o, to), PhaseRank[to] < PhaseRank[phase[o]]
      PROVE  Nearer
  BY <1>1, <1>3, NearerByPhase DEF Go
<1>4. ASSUME NEW o \in Ops, ExecuteCall(o), phase[o] \in {"called", "fetched"}
      PROVE  Nearer
  <2>1. PICK to \in {"relay", "results"} : Go(o, to)
    BY <1>4 DEF ExecuteCall
  <2>. QED
    BY <1>3, <1>4, <2>1, Ranks DEF Phases
<1>5. CASE Request
  BY <1>3, <1>5, Ranks DEF Request, Phases
<1>6. CASE NoOperation
  BY <1>2, <1>6 DEF NoOperation
<1>7. ASSUME NEW o \in Ops, CachedResult(o) PROVE Nearer
  BY <1>4, <1>7 DEF CachedResult
<1>8. ASSUME NEW o \in Ops, Fetch(o) PROVE Nearer
  <2>1. phase[o] = "called" /\ \E to \in {"fetching", "fetched"} : Go(o, to)
    BY <1>8 DEF Fetch
  <2>. QED
    BY <1>3, <2>1, Ranks DEF Phases
<1>9. ASSUME NEW o \in Ops, FetchFailed(o) PROVE Nearer
  BY <1>2, <1>9 DEF FetchFailed
<1>10. ASSUME NEW o \in Ops, DataFetched(o) PROVE Nearer
  BY <1>2, <1>4, <1>10 DEF DataFetched
<1>11. ASSUME NEW o \in Ops, SendResults(o) PROVE Nearer
  <2>1. /\ phase[o] = "results"
        /\ \/ \E with \in {"nothing", "cancelled"} : Close(o, with)
           \/ phase' = [phase EXCEPT ![o] = "sending"]
    BY <1>11 DEF SendResults
  <2>. QED
    BY <1>1, <1>2, <2>1, NearerByPhase, Ranks DEF Phases
<1>12. ASSUME NEW o \in Ops, Free(o) PROVE Nearer
  <2>1. phase[o] = "closing" /\ phase' = [phase EXCEPT ![o] = "freed"]
    BY <1>12 DEF Free
  <2>2. "freed" \in Phases /\ PhaseRank["freed"] < PhaseRank[phase[o]]
    BY <2>1, Ranks DEF Phases
  <2>. QED
    BY <1>1, <2>1, <2>2, NearerByPhase
<1>13. ASSUME NEW o \in Ops, NewItem(o) PROVE Nearer
  BY <1>1, <1>13, NearerByItem DEF NewItem
<1>14. ASSUME NEW o \in Ops, KeySettled(o) \/ KeyUsesResolve(o) \/ KeyFetch(o)
       PROVE  Nearer
  BY <1>1, <1>14, NearerByKey DEF KeySettled, KeyUsesResolve, KeyFetch, NextKey
<1>15. CASE SendHead
  BY <1>1, <1>15, NearerByMedia DEF SendHead, Deliver
<1>16. CASE ResolveHead
  <2>1. CASE Deliver /\ UNCHANGED phase
    BY <1>1, <2>1, NearerByMedia DEF Deliver
  <2>2. CASE ~(Deliver /\ UNCHANGED phase)
    <3>1. phase' = [phase EXCEPT ![Head(0)] = "called"] /\ applies[Head(0)]
          /\ run[0] = "run" /\ sent[0] < created[0]
      BY <1>16, <2>2 DEF ResolveHead, Running, Ready
    <3>2. /\ sent[0] \in Nat /\ created[0] \in Nat /\ target[0] \in Nat
          /\ created[0] <= target[0] /\ target[0] <= MaxResults
      BY <3>1 DEF IInv, TypeOK, Shape, Sending, Fresh, Freed
    <3>3. Head(0) \in Index
      BY <3>1, <3>2 DEF Head
    <3>4. phase[Head(0)] = "unused"
      BY <3>1, <3>3 DEF IInv, ResolveShape
    <3>5. "called" \in Phases /\ PhaseRank["called"] < PhaseRank[phase[Head(0)]]
      BY <3>4, Ranks DEF Phases
    <3>. QED
      BY <1>1, <3>1, <3>3, <3>5, NearerByPhase
  <2>. QED
    BY <2>1, <2>2
<1>17. ASSUME NEW o \in Ops, SendResolved(o) PROVE Nearer
  BY <1>1, <1>17, NearerByMedia DEF SendResolved
<1>18. ASSUME NEW o \in Ops, Unlink(o) PROVE Nearer
  <2>1. /\ run[o] = "sent" /\ run' = [run EXCEPT ![o] = "run"]
        /\ UNCHANGED <<phase, target, created, keysLeft, inFlight, total>>
    BY <1>18 DEF Unlink
  <2>2. RunRank["run"] < RunRank[run[o]]
    BY <2>1, Ranks
  <2>. QED
    BY <1>1, <2>1, <2>2, NearerByRun
<1>19. ASSUME NEW o \in Ops, HeadWaits(o) PROVE Nearer
  <2>1. /\ run[o] = "run" /\ run' = [run EXCEPT ![o] = "none"]
        /\ UNCHANGED <<phase, target, created, keysLeft, inFlight, total>>
    BY <1>19 DEF HeadWaits, Running, items
  <2>2. RunRank["none"] < RunRank[run[o]]
    BY <2>1, Ranks
  <2>. QED
    BY <1>1, <2>1, <2>2, NearerByRun
<1>20. ASSUME NEW o \in Ops, ListDone(o) PROVE Nearer
  <2>1. /\ run[o] = "run" /\ run' = [run EXCEPT ![o] = "none"]
        /\ UNCHANGED <<target, created, keysLeft, inFlight, total>>
        /\ phase' = IF total[o] = 0 THEN [phase EXCEPT ![o] = "freed"] ELSE phase
    BY <1>20 DEF ListDone, Running, items
  <2>2. phase[o] = "sending"
    BY <2>1 DEF IInv, Shape, Fresh, Freed
  <2>3. /\ "freed" \in Phases /\ PhaseRank["freed"] < PhaseRank[phase[o]]
        /\ RunRank["none"] < RunRank[run[o]]
    BY <2>1, <2>2, Ranks DEF Phases
  <2>4. CASE total[o] = 0
    BY <1>1, <2>1, <2>3, <2>4, NearerByPhase
  <2>5. CASE total[o] # 0
    BY <1>1, <2>1, <2>3, <2>5, NearerByRun
  <2>. QED
    BY <2>4, <2>5
<1>21. ASSUME NEW o \in Ops, FetchAnswers(o) \/ RelayFires(o) PROVE Nearer
  BY <1>3, <1>21, Ranks DEF FetchAnswers, RelayFires, Phases
<1>22. ASSUME NEW o \in Ops, NEW i \in Index, KeyFetched(o, i) PROVE Nearer
  BY <1>1, <1>22, NearerByFetch DEF KeyFetched
<1>. QED
  BY <1>5, <1>6, <1>7, <1>8, <1>9, <1>10, <1>11, <1>12, <1>13, <1>14, <1>15, <1>16, <1>17,
     <1>18, <1>19, <1>20, <1>21, <1>22 DEF Run, Dispatch

(* No step of a call and no answer it gets is repeated for ever: of phases,*)
(* items, keys, fetches, media and runs of the lists there is less left    *)
(* after each of them, the first of these that changes counting.           *)
THEOREM EndDrawsNearer == Safety => WorkRunsOut
<1>1. IInv /\ [Next]_vars => [Run \/ Dispatch => Nearer]_vars
  BY NearerStep
<1>2. [Run \/ Dispatch => Nearer]_vars
      <=> [Run \/ Dispatch =>
             \E k \in 1..6 : Less(Work'[k], Work[k])
                             /\ \A j \in 1..k - 1 : Work'[j] = Work[j]]_vars
  BY DEF Nearer
<1>. QED
  BY <1>1, <1>2, Invariance, PTL DEF Safety, WorkRunsOut
(* A call with a key to gather for every item is bound to end: it neither  *)
(* stops short nor goes round in circles (operation_call_send_list_run and *)
(* the callbacks that run it).                                             *)
THEOREM CallsAreBoundToEnd ==
    ASSUME 0 \notin KeyCounts
    PROVE  Safety => BoundToEnd
BY NeverForgotten, EndDrawsNearer, PTL DEF BoundToEnd
=============================================================================
