--------------------------- MODULE ResultCacheProofs ---------------------------
(***************************************************************************)
(* Proofs about ResultCache, for any number of calls and of items.         *)
(***************************************************************************)
EXTENDS ResultCache, FiniteSetTheorems, TLAPS

(* A valid cache is that of a document whose own timer is pending: every   *)
(* timer that fires makes it invalid, and only storing a document, which   *)
(* adds a timer for it, makes it valid again.                              *)
ValidHasTimer ==
    /\ cache \in Calls \cup {NoDoc}
    /\ doc \in [Calls -> Calls \cup {NoDoc}]
    /\ valid => cache \in timers

(* It is so at first: nothing is cached.                                   *)
LEMMA InitValidHasTimer == Init => ValidHasTimer
BY DEF Init, ValidHasTimer

(* A step that leaves the cache alone keeps it so.                         *)
LEMMA CacheKept ==
  ASSUME ValidHasTimer, UNCHANGED <<stored, doc>>
  PROVE  ValidHasTimer'
BY DEF ValidHasTimer, stored

(* Every step keeps it so.                                                 *)
LEMMA NextValidHasTimer == ValidHasTimer /\ [Next]_vars => ValidHasTimer'
<1> SUFFICES ASSUME ValidHasTimer, [Next]_vars PROVE ValidHasTimer'
  OBVIOUS
<1>1. CASE UNCHANGED vars
  BY <1>1, CacheKept DEF vars, stored
<1>2. ASSUME NEW c \in Calls,
             \/ Fetch(c) \/ FetchFails(c) \/ Cancelled(c) \/ NoResults(c)
             \/ SendResults(c) \/ NewItem(c) \/ ItemDone(c) \/ LoopDone(c) \/ Free(c)
      PROVE  ValidHasTimer'
  BY <1>2, CacheKept
     DEF Fetch, FetchFails, Cancelled, NoResults, SendResults, NewItem, ItemDone, LoopDone,
         Free
<1>3. ASSUME NEW c \in Calls, Reuse(c) \/ FetchUncached(c) PROVE ValidHasTimer'
  BY <1>3 DEF ValidHasTimer, Reuse, FetchUncached, Hit, stored
<1>4. ASSUME NEW c \in Calls, FetchCached(c) PROVE ValidHasTimer'
  BY <1>4 DEF ValidHasTimer, FetchCached, NewTimer
<1>5. ASSUME NEW c \in Calls, CacheExpires(c) PROVE ValidHasTimer'
  BY <1>5 DEF ValidHasTimer, CacheExpires
<1>. QED
  BY <1>1, <1>2, <1>3, <1>4, <1>5 DEF Next

(* A call never reuses a document that is older than its cache_time,       *)
(* whatever fetches overlapped and whichever timers are pending.           *)
THEOREM FreshHits == Spec => HitsAreFresh
<1>1. ValidHasTimer /\ [Next]_vars => [\A c \in Calls : Reuse(c) => doc'[c] \in timers]_vars
  BY DEF ValidHasTimer, Reuse, Hit
<1>. QED
  BY <1>1, InitValidHasTimer, NextValidHasTimer, PTL DEF Spec, HitsAreFresh

-----------------------------------------------------------------------------
(* The references.                                                         *)

(* Where a call is and what it points to.  A call that has not fetched yet *)
(* has no document, and its document is nowhere.                           *)
Pointers ==
    /\ \A c \in Calls : step[c] \in {"new", "fetching"} =>
         /\ doc[c] = NoDoc /\ cache # c /\ c \notin replaced
         /\ \A b \in Calls : doc[b] # c
    /\ \A c \in Calls : doc[c] = NoDoc =>
         step[c] \notin {"ready", "sending", "empty"} /\ ~looping[c] /\ raws[c] = 0
    /\ \A c \in Calls : looping[c] => step[c] \in {"sending", "freed"}
    /\ cache \notin replaced

IInv == TypeOK /\ Pointers /\ RefsAreAccounted

(* TypeOK, but for what RefsAreAccounted says of the reference counts.     *)
Types ==
    /\ format \in {"xml", "json"} /\ caching \in BOOLEAN
    /\ cache \in Calls \cup {NoDoc} /\ valid \in BOOLEAN
    /\ timers \subseteq Calls /\ replaced \subseteq Calls
    /\ step \in [Calls -> Steps]
    /\ doc \in [Calls -> Calls \cup {NoDoc}]
    /\ looping \in [Calls -> BOOLEAN]
    /\ raws \in [Calls -> 0..MaxItems]
    /\ refs \in [Calls -> Int]

(* The sets that are counted are finite.                                   *)
LEMMA Finite ==
  ASSUME NEW d, Types
  PROVE  /\ IsFiniteSet(Users(d)) /\ Cardinality(Users(d)) \in Nat
         /\ IsFiniteSet(Loops(d)) /\ Cardinality(Loops(d)) \in Nat
         /\ IsFiniteSet(Items(d)) /\ Cardinality(Items(d)) \in Nat
         /\ IsFiniteSet(Empties(d)) /\ Cardinality(Empties(d)) \in Nat
         /\ IsFiniteSet(Getters(d)) /\ Cardinality(Getters(d)) \in Nat
<1>1. IsFiniteSet(Calls \X (1..MaxItems))
  <2>1. IsFiniteSet(1..MaxItems)
    BY MaxItemsAssumption, FS_Interval
  <2>. QED
    BY <2>1, CallsAssumption, FS_Product
<1>2. /\ Users(d) \subseteq Calls /\ Loops(d) \subseteq Calls
      /\ Items(d) \subseteq Calls \X (1..MaxItems)
      /\ Empties(d) \subseteq Calls /\ Getters(d) \subseteq Calls
  BY DEF Users, Loops, Items, Empties, Getters
<1>. QED
  BY <1>1, <1>2, CallsAssumption, FS_Subset, FS_CardinalityType

(* One more or one less.                                                   *)
LEMMA OneMore ==
  ASSUME NEW S, IsFiniteSet(S), NEW x, x \notin S, NEW T, T = S \cup {x}
  PROVE  Cardinality(T) = Cardinality(S) + 1
BY FS_AddElement

(* A finite set without one of its elements has one element less.          *)
LEMMA OneLess ==
  ASSUME NEW S, IsFiniteSet(S), NEW x, x \in S, NEW T, T = S \ {x}
  PROVE  Cardinality(T) = Cardinality(S) - 1
BY FS_RemoveElement

(* What the accounts of a document are made of.                            *)
Uses(d) == IF format = "xml"
           THEN Cardinality(Users(d)) + Cardinality(Loops(d))
                + Cardinality(Items(d)) + Cardinality(Empties(d))
           ELSE Cardinality(Getters(d))

(* RefsAreAccounted in the terms of Uses.                                  *)
LEMMA Accounts ==
  RefsAreAccounted <=>
      \A d \in Calls : refs[d] = One(cache = d) + One(d \in replaced) + Uses(d)
BY DEF RefsAreAccounted, Uses

(* With the counts accounted for, they are natural numbers.                *)
LEMMA TypesSuffice == ASSUME Types, RefsAreAccounted PROVE TypeOK
<1>1. \A d \in Calls : Uses(d) \in Nat
  BY Finite DEF Uses
<1>2. \A d \in Calls : refs[d] \in Nat
  <2> SUFFICES ASSUME NEW d \in Calls PROVE refs[d] \in Nat
    OBVIOUS
  <2>1. One(cache = d) \in Nat /\ One(d \in replaced) \in Nat
    BY DEF One
  <2>2. refs[d] = One(cache = d) + One(d \in replaced) + Uses(d)
    BY Accounts
  <2>. QED
    BY <1>1, <2>1, <2>2
<1>. QED
  BY <1>2 DEF Types, TypeOK

(* The same holds of the next state.                                       *)
LEMMA NextTypesSuffice == (Types /\ RefsAreAccounted => TypeOK)'
<1>1. Types /\ RefsAreAccounted => TypeOK
  BY TypesSuffice
<1>. QED
  BY <1>1, PTL

(* The invariant follows from its parts, one document at a time.           *)
LEMMA NextIsIInv ==
  ASSUME Types', Pointers',
         \A d \in Calls : refs'[d] = One(cache' = d) + One(d \in replaced') + Uses(d)'
  PROVE  IInv'
<1>1. RefsAreAccounted'
  BY DEF RefsAreAccounted, Uses
<1>. QED
  BY <1>1, NextTypesSuffice DEF IInv

-----------------------------------------------------------------------------
(* A step of a call that has its document.                                 *)

(* It changes the use of that document only.                               *)
LEMMA OtherDocuments ==
  ASSUME NEW c \in Calls, UNCHANGED <<format, doc>>,
         \A b \in Calls \ {c} : step'[b] = step[b] /\ looping'[b] = looping[b] /\ raws'[b] = raws[b],
         NEW d, d # doc[c]
  PROVE  Uses(d)' = Uses(d)
<1>1. Users(d)' = Users(d) /\ Empties(d)' = Empties(d)
  BY DEF Users, Empties
<1>2. Loops(d)' = Loops(d) /\ Getters(d)' = Getters(d)
  BY DEF Loops, Getters
<1>3. Items(d)' = Items(d)
  <2>1. \A p \in Calls \X (1..MaxItems) : p[1] \in Calls /\ (doc[p[1]] = d => p[1] # c)
    OBVIOUS
  <2>. QED
    BY <2>1 DEF Items
<1>. QED
  BY <1>1, <1>2, <1>3 DEF Uses

(* A step of one operation keeps the invariant when the count of its       *)
(* document changes as its uses do.                                        *)
LEMMA Step ==
  ASSUME IInv, NEW c \in Calls, NEW d \in Calls, d = doc[c], UNCHANGED <<stored, doc>>,
         \A b \in Calls \ {c} : step'[b] = step[b] /\ looping'[b] = looping[b] /\ raws'[b] = raws[b],
         Types', Pointers',
         NEW k \in Int, Uses(d)' = Uses(d) + k,
         refs' = [refs EXCEPT ![d] = @ + k]
  PROVE  IInv'
<1>1. UNCHANGED <<format, cache, replaced, doc>>
  BY DEF stored
<1>2. ASSUME NEW e \in Calls
      PROVE  refs'[e] = One(cache' = e) + One(e \in replaced') + Uses(e)'
  <2>1. refs[e] = One(cache = e) + One(e \in replaced) + Uses(e) /\ refs \in [Calls -> Nat]
    BY DEF IInv, TypeOK, RefsAreAccounted, Uses
  <2>2. CASE e = d
    <3>1. refs'[d] = refs[d] + k
      BY <2>1
    <3>2. Uses(d) \in Nat
      BY Finite DEF IInv, TypeOK, Types, Uses
    <3>3. One(cache = d) \in Nat /\ One(d \in replaced) \in Nat
      BY DEF One
    <3>. QED
      BY <1>1, <2>1, <2>2, <3>1, <3>2, <3>3
  <2>3. CASE e # d
    <3>1. Uses(e)' = Uses(e)
      BY <1>1, <2>3, OtherDocuments
    <3>. QED
      BY <1>1, <2>1, <2>3, <3>1
  <2>. QED
    BY <2>2, <2>3
<1>. QED
  BY <1>2, NextIsIInv

(* Who waits to send, sends, builds items or has items has a document.     *)
LEMMA HasDocument ==
  ASSUME IInv, NEW c \in Calls,
         step[c] \in {"ready", "sending", "empty"} \/ looping[c] \/ raws[c] > 0
  PROVE  /\ doc[c] \in Calls /\ Types
         /\ \A d \in Calls : Uses(d) \in Nat
         /\ IsFiniteSet(Users(doc[c])) /\ Cardinality(Users(doc[c])) \in Nat
         /\ IsFiniteSet(Loops(doc[c])) /\ Cardinality(Loops(doc[c])) \in Nat
         /\ IsFiniteSet(Items(doc[c])) /\ Cardinality(Items(doc[c])) \in Nat
         /\ IsFiniteSet(Empties(doc[c])) /\ Cardinality(Empties(doc[c])) \in Nat
<1>1. Types
  BY DEF IInv, TypeOK, Types
<1>2. doc[c] \in Calls
  BY DEF IInv, TypeOK, Pointers
<1>. QED
  BY <1>1, <1>2, Finite DEF Uses

(* A JSON parser has no reference to take or to drop.                      *)
LEMMA DroppedOne ==
  ASSUME TypeOK, NEW d \in Calls
  PROVE  LET k == IF format = "xml" THEN -1 ELSE 0
         IN  Dropped(d) = [refs EXCEPT ![d] = @ + k] /\ k \in Int
<1>1. refs \in [Calls -> Nat]
  BY DEF TypeOK
<1>2. CASE format = "xml"
  <2>1. refs[d] + (-1) = refs[d] - 1
    BY <1>1
  <2>2. Dropped(d) = [refs EXCEPT ![d] = refs[d] - 1]
    BY <1>1, <1>2 DEF Dropped
  <2>3. Dropped(d) = [refs EXCEPT ![d] = refs[d] + (-1)]
    BY <2>1, <2>2
  <2>. QED
    BY <1>2, <2>3
<1>3. CASE format # "xml"
  <2>1. refs[d] + 0 = refs[d] /\ refs = [refs EXCEPT ![d] = refs[d]]
    BY <1>1
  <2>. QED
    BY <1>3, <2>1 DEF Dropped
<1>. QED
  BY <1>2, <1>3

(* Taking a reference adds one, for the formats that have one.             *)
LEMMA TakenOne ==
  ASSUME TypeOK, NEW d \in Calls
  PROVE  LET k == IF format = "xml" THEN 1 ELSE 0
         IN  Taken(d) = [refs EXCEPT ![d] = @ + k] /\ k \in Int
<1>1. refs \in [Calls -> Nat]
  BY DEF TypeOK
<1>2. CASE format = "xml"
  BY <1>1, <1>2 DEF Taken
<1>3. CASE format # "xml"
  <2>1. refs[d] + 0 = refs[d] /\ refs = [refs EXCEPT ![d] = refs[d]]
    BY <1>1
  <2>. QED
    BY <1>3, <2>1 DEF Taken
<1>. QED
  BY <1>2, <1>3

(* The call is done with its document before or after it sent results.     *)
LEMMA LeaveIInv ==
  ASSUME IInv, NEW c \in Calls, Cancelled(c) \/ Free(c) PROVE IInv'
<1>1. /\ step[c] \in {"ready", "sending"} /\ step' = [step EXCEPT ![c] = "freed"]
      /\ refs' = Dropped(doc[c]) /\ UNCHANGED <<stored, doc, looping, raws>>
  BY DEF Cancelled, Free, Go
<1>2. PICK d \in Calls : d = doc[c]
  BY <1>1, HasDocument
<1>3. /\ Types /\ IsFiniteSet(Users(d)) /\ Cardinality(Users(d)) \in Nat
      /\ Cardinality(Loops(d)) \in Nat /\ Cardinality(Items(d)) \in Nat
      /\ Cardinality(Empties(d)) \in Nat /\ Cardinality(Getters(d)) \in Nat
  BY <1>1, HasDocument, Finite
<1>4. TypeOK /\ Pointers
  BY DEF IInv
<1>5. Types'
  <2>1. refs' \in [Calls -> Int]
    BY <1>1, <1>2, <1>3 DEF Types, Dropped
  <2>. QED
    BY <1>1, <1>3, <2>1 DEF Types, Steps, stored
<1>6. Pointers'
  <2>1. UNCHANGED <<cache, replaced, doc, looping, raws>>
    BY <1>1 DEF stored
  <2>2. \A b \in Calls : step'[b] = IF b = c THEN "freed" ELSE step[b]
    BY <1>1, <1>4 DEF TypeOK
  <2>. QED
    BY <1>1, <1>4, <2>1, <2>2 DEF Pointers
<1>7. Users(d)' = Users(d) \ {c} /\ c \in Users(d)
  BY <1>1, <1>2, <1>4 DEF Users, TypeOK
<1>8. Empties(d)' = Empties(d)
  BY <1>1, <1>4 DEF Empties, TypeOK
<1>9. Loops(d)' = Loops(d) /\ Items(d)' = Items(d) /\ Getters(d)' = Getters(d)
  BY <1>1 DEF Loops, Items, Getters
<1>10. Cardinality(Users(d)') = Cardinality(Users(d)) - 1
  BY <1>3, <1>7, OneLess
<1> DEFINE k == IF format = "xml" THEN -1 ELSE 0
<1>11. format' = format
  BY <1>1 DEF stored
<1>12. Uses(d)' = Uses(d) + k
  BY <1>3, <1>8, <1>9, <1>10, <1>11 DEF Uses
<1>13. refs' = [refs EXCEPT ![d] = @ + k] /\ k \in Int
  BY <1>1, <1>2, <1>4, DroppedOne
<1>14. \A b \in Calls \ {c} : step'[b] = step[b] /\ looping'[b] = looping[b] /\ raws'[b] = raws[b]
  BY <1>1, <1>4 DEF TypeOK
<1>. HIDE DEF k
<1>. QED
  BY <1>1, <1>2, <1>5, <1>6, <1>12, <1>13, <1>14, Step

(* There is nothing to send: the call leaves its reference behind.         *)
LEMMA NoResultsIInv == ASSUME IInv, NEW c \in Calls, NoResults(c) PROVE IInv'
<1>1. /\ step[c] = "ready" /\ step' = [step EXCEPT ![c] = "empty"]
      /\ UNCHANGED <<stored, doc, looping, raws, refs>>
  BY DEF NoResults, Go
<1>2. PICK d \in Calls : d = doc[c]
  BY <1>1, HasDocument
<1>3. /\ Types /\ IsFiniteSet(Users(d)) /\ IsFiniteSet(Empties(d))
      /\ Cardinality(Users(d)) \in Nat /\ Cardinality(Loops(d)) \in Nat
      /\ Cardinality(Items(d)) \in Nat /\ Cardinality(Empties(d)) \in Nat
      /\ Cardinality(Getters(d)) \in Nat
  BY <1>1, HasDocument, Finite
<1>4. TypeOK /\ Pointers
  BY DEF IInv
<1>5. Types'
  BY <1>1, <1>3 DEF Types, Steps, stored
<1>6. Pointers'
  <2>1. UNCHANGED <<cache, replaced, doc, looping, raws>>
    BY <1>1 DEF stored
  <2>2. \A b \in Calls : step'[b] = IF b = c THEN "empty" ELSE step[b]
    BY <1>1, <1>4 DEF TypeOK
  <2>3. doc[c] # NoDoc /\ ~looping[c]
    BY <1>1, <1>4 DEF Pointers
  <2>. QED
    BY <1>1, <1>4, <2>1, <2>2, <2>3 DEF Pointers
<1>7. Users(d)' = Users(d) \ {c} /\ c \in Users(d)
  BY <1>1, <1>2, <1>4 DEF Users, TypeOK
<1>8. Empties(d)' = Empties(d) \cup {c} /\ c \notin Empties(d)
  BY <1>1, <1>2, <1>4 DEF Empties, TypeOK
<1>9. Loops(d)' = Loops(d) /\ Items(d)' = Items(d) /\ Getters(d)' = Getters(d)
  BY <1>1 DEF Loops, Items, Getters
<1>10. /\ Cardinality(Users(d)') = Cardinality(Users(d)) - 1
       /\ Cardinality(Empties(d)') = Cardinality(Empties(d)) + 1
  BY <1>3, <1>7, <1>8, OneLess, OneMore
<1>11. format' = format
  BY <1>1 DEF stored
<1> DEFINE k == 0
<1>12. Uses(d)' = Uses(d) + k
  BY <1>3, <1>9, <1>10, <1>11 DEF Uses
<1>13. refs' = [refs EXCEPT ![d] = @ + k] /\ k \in Int
  <2>1. refs[d] + 0 = refs[d]
    BY <1>4 DEF TypeOK
  <2>. QED
    BY <1>1, <1>4, <2>1 DEF TypeOK
<1>14. \A b \in Calls \ {c} : step'[b] = step[b] /\ looping'[b] = looping[b] /\ raws'[b] = raws[b]
  BY <1>1, <1>4 DEF TypeOK
<1>. HIDE DEF k
<1>. QED
  BY <1>1, <1>2, <1>5, <1>6, <1>12, <1>13, <1>14, Step

(* The item loop starts, with a reference of its own.                      *)
LEMMA SendResultsIInv == ASSUME IInv, NEW c \in Calls, SendResults(c) PROVE IInv'
<1>1. /\ step[c] = "ready" /\ step' = [step EXCEPT ![c] = "sending"]
      /\ looping' = [looping EXCEPT ![c] = TRUE]
      /\ refs' = Taken(doc[c]) /\ UNCHANGED <<stored, doc, raws>>
  BY DEF SendResults, Go
<1>2. PICK d \in Calls : d = doc[c]
  BY <1>1, HasDocument
<1>3. /\ Types /\ IsFiniteSet(Loops(d))
      /\ Cardinality(Users(d)) \in Nat /\ Cardinality(Loops(d)) \in Nat
      /\ Cardinality(Items(d)) \in Nat /\ Cardinality(Empties(d)) \in Nat
      /\ Cardinality(Getters(d)) \in Nat
  BY <1>1, HasDocument, Finite
<1>4. TypeOK /\ Pointers
  BY DEF IInv
<1>5. Types'
  <2>1. refs' \in [Calls -> Int]
    BY <1>1, <1>2, <1>3 DEF Types, Taken
  <2>. QED
    BY <1>1, <1>3, <2>1 DEF Types, Steps, stored
<1>6. Pointers'
  <2>1. UNCHANGED <<cache, replaced, doc, raws>>
    BY <1>1 DEF stored
  <2>2. \A b \in Calls : /\ step'[b] = IF b = c THEN "sending" ELSE step[b]
                         /\ looping'[b] <=> b = c \/ looping[b]
    BY <1>1, <1>4 DEF TypeOK
  <2>3. doc[c] # NoDoc
    BY <1>1, <1>4 DEF Pointers
  <2>. QED
    BY <1>1, <1>4, <2>1, <2>2, <2>3 DEF Pointers
<1>7. Loops(d)' = Loops(d) \cup {c} /\ c \notin Loops(d)
  <2>1. ~looping[c]
    BY <1>1, <1>4 DEF Pointers
  <2>. QED
    BY <1>1, <1>2, <1>4, <2>1 DEF Loops, TypeOK
<1>8. Users(d)' = Users(d) /\ Empties(d)' = Empties(d)
  BY <1>1, <1>4 DEF Users, Empties, TypeOK
<1>9. Items(d)' = Items(d) /\ Getters(d)' = Getters(d)
  BY <1>1 DEF Items, Getters
<1>10. Cardinality(Loops(d)') = Cardinality(Loops(d)) + 1
  BY <1>3, <1>7, OneMore
<1> DEFINE k == IF format = "xml" THEN 1 ELSE 0
<1>11. format' = format
  BY <1>1 DEF stored
<1>12. Uses(d)' = Uses(d) + k
  BY <1>3, <1>8, <1>9, <1>10, <1>11 DEF Uses
<1>13. refs' = [refs EXCEPT ![d] = @ + k] /\ k \in Int
  BY <1>1, <1>2, <1>4, TakenOne
<1>14. \A b \in Calls \ {c} : step'[b] = step[b] /\ looping'[b] = looping[b] /\ raws'[b] = raws[b]
  BY <1>1, <1>4 DEF TypeOK
<1>. HIDE DEF k
<1>. QED
  BY <1>1, <1>2, <1>5, <1>6, <1>12, <1>13, <1>14, Step

(* The item loop ends.                                                     *)
LEMMA LoopDoneIInv == ASSUME IInv, NEW c \in Calls, LoopDone(c) PROVE IInv'
<1>1. /\ looping[c] /\ looping' = [looping EXCEPT ![c] = FALSE]
      /\ refs' = Dropped(doc[c]) /\ UNCHANGED <<stored, step, doc, raws>>
  BY DEF LoopDone
<1>2. PICK d \in Calls : d = doc[c]
  BY <1>1, HasDocument
<1>3. /\ Types /\ IsFiniteSet(Loops(d))
      /\ Cardinality(Users(d)) \in Nat /\ Cardinality(Loops(d)) \in Nat
      /\ Cardinality(Items(d)) \in Nat /\ Cardinality(Empties(d)) \in Nat
      /\ Cardinality(Getters(d)) \in Nat
  BY <1>1, HasDocument, Finite
<1>4. TypeOK /\ Pointers
  BY DEF IInv
<1>5. Types'
  <2>1. refs' \in [Calls -> Int]
    BY <1>1, <1>2, <1>3 DEF Types, Dropped
  <2>. QED
    BY <1>1, <1>3, <2>1 DEF Types, Steps, stored
<1>6. Pointers'
  <2>1. UNCHANGED <<cache, replaced, step, doc, raws>>
    BY <1>1 DEF stored
  <2>2. \A b \in Calls : looping'[b] = IF b = c THEN FALSE ELSE looping[b]
    BY <1>1, <1>4 DEF TypeOK
  <2>. QED
    BY <1>1, <1>4, <2>1, <2>2 DEF Pointers
<1>7. Loops(d)' = Loops(d) \ {c} /\ c \in Loops(d)
  BY <1>1, <1>2, <1>4 DEF Loops, TypeOK
<1>8. Users(d)' = Users(d) /\ Empties(d)' = Empties(d)
  BY <1>1 DEF Users, Empties
<1>9. Items(d)' = Items(d) /\ Getters(d)' = Getters(d)
  BY <1>1 DEF Items, Getters
<1>10. Cardinality(Loops(d)') = Cardinality(Loops(d)) - 1
  BY <1>3, <1>7, OneLess
<1> DEFINE k == IF format = "xml" THEN -1 ELSE 0
<1>11. format' = format
  BY <1>1 DEF stored
<1>12. Uses(d)' = Uses(d) + k
  BY <1>3, <1>8, <1>9, <1>10, <1>11 DEF Uses
<1>13. refs' = [refs EXCEPT ![d] = @ + k] /\ k \in Int
  BY <1>1, <1>2, <1>4, DroppedOne
<1>14. \A b \in Calls \ {c} : step'[b] = step[b] /\ looping'[b] = looping[b] /\ raws'[b] = raws[b]
  BY <1>1, <1>4 DEF TypeOK
<1>. HIDE DEF k
<1>. QED
  BY <1>1, <1>2, <1>5, <1>6, <1>12, <1>13, <1>14, Step

(* An item is built, or let go of.                                         *)
LEMMA NewItemIInv == ASSUME IInv, NEW c \in Calls, NewItem(c) PROVE IInv'
<1>1. /\ step[c] = "sending" /\ looping[c] /\ raws[c] < MaxItems
      /\ raws' = [raws EXCEPT ![c] = @ + 1]
      /\ refs' = Taken(doc[c]) /\ UNCHANGED <<stored, step, doc, looping>>
  BY DEF NewItem
<1>2. PICK d \in Calls : d = doc[c]
  BY <1>1, HasDocument
<1>3. /\ Types /\ IsFiniteSet(Items(d))
      /\ Cardinality(Users(d)) \in Nat /\ Cardinality(Loops(d)) \in Nat
      /\ Cardinality(Items(d)) \in Nat /\ Cardinality(Empties(d)) \in Nat
      /\ Cardinality(Getters(d)) \in Nat
  BY <1>1, HasDocument, Finite
<1>4. TypeOK /\ Pointers
  BY DEF IInv
<1>5. raws[c] \in 0..MaxItems /\ raws[c] + 1 \in 1..MaxItems
  BY <1>1, <1>4, MaxItemsAssumption DEF TypeOK
<1>6. Types'
  <2>1. refs' \in [Calls -> Int]
    BY <1>1, <1>2, <1>3 DEF Types, Taken
  <2>2. raws' \in [Calls -> 0..MaxItems]
    BY <1>1, <1>4, <1>5, MaxItemsAssumption DEF TypeOK
  <2>. QED
    BY <1>1, <1>3, <2>1, <2>2 DEF Types, stored
<1>7. \A b \in Calls : raws'[b] = IF b = c THEN raws[c] + 1 ELSE raws[b]
  BY <1>1, <1>4 DEF TypeOK
<1>8. Pointers'
  <2>1. UNCHANGED <<cache, replaced, step, doc, looping>>
    BY <1>1 DEF stored
  <2>2. doc[c] # NoDoc
    BY <1>1, <1>4 DEF Pointers
  <2>. QED
    BY <1>4, <1>7, <2>1, <2>2 DEF Pointers
<1>9. Items(d)' = Items(d) \cup {<<c, raws[c] + 1>>} /\ <<c, raws[c] + 1>> \notin Items(d)
  <2>1. \A b \in Calls, i \in 1..MaxItems :
           i <= raws'[b] <=> i <= raws[b] \/ (b = c /\ i = raws[c] + 1)
    BY <1>4, <1>5, <1>7, MaxItemsAssumption DEF TypeOK
  <2>2. doc' = doc
    BY <1>1
  <2>3. ~(raws[c] + 1 <= raws[c])
    BY <1>5
  <2>4. \A p \in Calls \X (1..MaxItems) :
           /\ p[1] \in Calls /\ p[2] \in 1..MaxItems /\ p = <<p[1], p[2]>>
    OBVIOUS
  <2>5. \A p \in Calls \X (1..MaxItems) :
           p[2] <= raws'[p[1]] <=> p[2] <= raws[p[1]] \/ p = <<c, raws[c] + 1>>
    BY <2>1, <2>4
  <2>6. <<c, raws[c] + 1>> \in Calls \X (1..MaxItems)
    BY <1>5
  <2>. QED
    BY <1>2, <2>2, <2>3, <2>5, <2>6 DEF Items
<1>10. Users(d)' = Users(d) /\ Empties(d)' = Empties(d)
  BY <1>1 DEF Users, Empties
<1>11. Loops(d)' = Loops(d) /\ Getters(d)' = Getters(d)
  BY <1>1 DEF Loops, Getters
<1>12. Cardinality(Items(d)') = Cardinality(Items(d)) + 1
  BY <1>3, <1>9, OneMore
<1> DEFINE k == IF format = "xml" THEN 1 ELSE 0
<1>13. format' = format
  BY <1>1 DEF stored
<1>14. Uses(d)' = Uses(d) + k
  BY <1>3, <1>10, <1>11, <1>12, <1>13 DEF Uses
<1>15. refs' = [refs EXCEPT ![d] = @ + k] /\ k \in Int
  BY <1>1, <1>2, <1>4, TakenOne
<1>16. \A b \in Calls \ {c} : step'[b] = step[b] /\ looping'[b] = looping[b] /\ raws'[b] = raws[b]
  BY <1>1, <1>7
<1>. HIDE DEF k
<1>. QED
  BY <1>1, <1>2, <1>6, <1>8, <1>14, <1>15, <1>16, Step

(* ItemDone keeps the invariant.                                           *)
LEMMA ItemDoneIInv == ASSUME IInv, NEW c \in Calls, ItemDone(c) PROVE IInv'
<1>1. /\ raws[c] > 0 /\ raws' = [raws EXCEPT ![c] = @ - 1]
      /\ refs' = Dropped(doc[c]) /\ UNCHANGED <<stored, step, doc, looping>>
  BY DEF ItemDone
<1>2. PICK d \in Calls : d = doc[c]
  BY <1>1, HasDocument
<1>3. /\ Types /\ IsFiniteSet(Items(d))
      /\ Cardinality(Users(d)) \in Nat /\ Cardinality(Loops(d)) \in Nat
      /\ Cardinality(Items(d)) \in Nat /\ Cardinality(Empties(d)) \in Nat
      /\ Cardinality(Getters(d)) \in Nat
  BY <1>1, HasDocument, Finite
<1>4. TypeOK /\ Pointers
  BY DEF IInv
<1>5. raws[c] \in 1..MaxItems /\ raws[c] - 1 \in 0..MaxItems
  BY <1>1, <1>4, MaxItemsAssumption DEF TypeOK
<1>6. Types'
  <2>1. refs' \in [Calls -> Int]
    BY <1>1, <1>2, <1>3 DEF Types, Dropped
  <2>2. raws' \in [Calls -> 0..MaxItems]
    BY <1>1, <1>4, <1>5, MaxItemsAssumption DEF TypeOK
  <2>. QED
    BY <1>1, <1>3, <2>1, <2>2 DEF Types, stored
<1>7. \A b \in Calls : raws'[b] = IF b = c THEN raws[c] - 1 ELSE raws[b]
  BY <1>1, <1>4 DEF TypeOK
<1>8. Pointers'
  <2>1. UNCHANGED <<cache, replaced, step, doc, looping>>
    BY <1>1 DEF stored
  <2>2. doc[c] # NoDoc
    BY <1>2, NoDocAssumption
  <2>. QED
    BY <1>4, <1>7, <2>1, <2>2 DEF Pointers
<1>9. Items(d)' = Items(d) \ {<<c, raws[c]>>} /\ <<c, raws[c]>> \in Items(d)
  <2>1. \A b \in Calls, i \in 1..MaxItems :
           i <= raws'[b] <=> i <= raws[b] /\ ~(b = c /\ i = raws[c])
    BY <1>4, <1>5, <1>7, MaxItemsAssumption DEF TypeOK
  <2>2. doc' = doc
    BY <1>1
  <2>3. raws[c] <= raws[c]
    BY <1>5
  <2>4. \A p \in Calls \X (1..MaxItems) :
           /\ p[1] \in Calls /\ p[2] \in 1..MaxItems /\ p = <<p[1], p[2]>>
    OBVIOUS
  <2>5. \A p \in Calls \X (1..MaxItems) :
           p[2] <= raws'[p[1]] <=> p[2] <= raws[p[1]] /\ p # <<c, raws[c]>>
    BY <2>1, <2>4
  <2>6. <<c, raws[c]>> \in Calls \X (1..MaxItems)
    BY <1>5
  <2>. QED
    BY <1>2, <2>2, <2>3, <2>5, <2>6 DEF Items
<1>10. Users(d)' = Users(d) /\ Empties(d)' = Empties(d)
  BY <1>1 DEF Users, Empties
<1>11. Loops(d)' = Loops(d) /\ Getters(d)' = Getters(d)
  BY <1>1 DEF Loops, Getters
<1>12. Cardinality(Items(d)') = Cardinality(Items(d)) - 1
  BY <1>3, <1>9, OneLess
<1> DEFINE k == IF format = "xml" THEN -1 ELSE 0
<1>13. format' = format
  BY <1>1 DEF stored
<1>14. Uses(d)' = Uses(d) + k
  BY <1>3, <1>10, <1>11, <1>12, <1>13 DEF Uses
<1>15. refs' = [refs EXCEPT ![d] = @ + k] /\ k \in Int
  BY <1>1, <1>2, <1>4, DroppedOne
<1>16. \A b \in Calls \ {c} : step'[b] = step[b] /\ looping'[b] = looping[b] /\ raws'[b] = raws[b]
  BY <1>1, <1>7
<1>. HIDE DEF k
<1>. QED
  BY <1>1, <1>2, <1>6, <1>8, <1>14, <1>15, <1>16, Step

-----------------------------------------------------------------------------
(* A call gets its document, or does not.                                  *)

(* A call that gets a document is one more user of it and of no other.     *)
LEMMA GetsDocument ==
  ASSUME IInv, NEW c \in Calls, step[c] \in {"new", "fetching"}, NEW e \in Calls,
         doc' = [doc EXCEPT ![c] = e], step' = [step EXCEPT ![c] = "ready"],
         UNCHANGED <<format, looping, raws>>, NEW d \in Calls
  PROVE  Uses(d) \in Nat /\ Uses(d)' = Uses(d) + One(d = e)
<1>1. TypeOK /\ Pointers /\ Types
  BY DEF IInv, TypeOK, Types
<1>2. doc[c] = NoDoc /\ ~looping[c] /\ raws[c] = 0
  BY <1>1 DEF Pointers
<1>3. \A b \in Calls : /\ doc'[b] = IF b = c THEN e ELSE doc[b]
                       /\ step'[b] = IF b = c THEN "ready" ELSE step[b]
  BY <1>1 DEF TypeOK
<1>4. Users(d)' = (IF d = e THEN Users(d) \cup {c} ELSE Users(d)) /\ c \notin Users(d)
  BY <1>2, <1>3, NoDocAssumption DEF Users
<1>5. Getters(d)' = (IF d = e THEN Getters(d) \cup {c} ELSE Getters(d)) /\ c \notin Getters(d)
  BY <1>2, <1>3, NoDocAssumption DEF Getters
<1>6. Loops(d)' = Loops(d)
  BY <1>2, <1>3 DEF Loops
<1>7. Empties(d)' = Empties(d)
  BY <1>2, <1>3, NoDocAssumption DEF Empties
<1>8. Items(d)' = Items(d)
  <2>1. \A p \in Calls \X (1..MaxItems) : p[1] \in Calls /\ (p[2] <= raws[p[1]] => p[1] # c)
    BY <1>2, MaxItemsAssumption
  <2>. QED
    BY <1>3, <2>1 DEF Items
<1>9. /\ IsFiniteSet(Users(d)) /\ IsFiniteSet(Getters(d))
      /\ Cardinality(Users(d)) \in Nat /\ Cardinality(Loops(d)) \in Nat
      /\ Cardinality(Items(d)) \in Nat /\ Cardinality(Empties(d)) \in Nat
      /\ Cardinality(Getters(d)) \in Nat
  BY <1>1, Finite
<1>10. /\ Cardinality(Users(d)') = Cardinality(Users(d)) + One(d = e)
       /\ Cardinality(Getters(d)') = Cardinality(Getters(d)) + One(d = e)
  BY <1>4, <1>5, <1>9, OneMore DEF One
<1>11. One(d = e) \in Nat
  BY DEF One
<1>. QED
  BY <1>6, <1>7, <1>8, <1>9, <1>10, <1>11 DEF Uses

(* What the accounts say of a document.                                    *)
LEMMA AccountOf ==
  ASSUME IInv, NEW d \in Calls
  PROVE  /\ refs[d] = One(cache = d) + One(d \in replaced) + Uses(d)
         /\ refs[d] \in Nat /\ Uses(d) \in Nat
         /\ One(cache = d) \in Nat /\ One(d \in replaced) \in Nat
<1>1. Types
  BY DEF IInv, TypeOK, Types
<1>2. Uses(d) \in Nat
  BY <1>1, Finite DEF Uses
<1>. QED
  BY <1>2 DEF IInv, TypeOK, RefsAreAccounted, Uses, One

(* The document of a call that has not fetched it is not used.             *)
LEMMA Unused ==
  ASSUME IInv, NEW c \in Calls, step[c] \in {"new", "fetching"}
  PROVE  Uses(c) = 0 /\ refs[c] = 0 /\ cache # c /\ c \notin replaced
<1>1. \A b \in Calls : doc[b] # c /\ cache # c /\ c \notin replaced
  BY DEF IInv, Pointers
<1>2. Users(c) = {} /\ Loops(c) = {} /\ Items(c) = {} /\ Empties(c) = {} /\ Getters(c) = {}
  BY <1>1 DEF Users, Loops, Items, Empties, Getters
<1>3. Uses(c) = 0
  BY <1>2, FS_EmptySet DEF Uses
<1>. QED
  BY <1>1, <1>3, AccountOf DEF One

(* Reuse keeps the invariant.                                              *)
LEMMA ReuseIInv == ASSUME IInv, NEW c \in Calls, Reuse(c) PROVE IInv'
<1>1. TypeOK /\ Pointers
  BY DEF IInv
<1>2. PICK e \in Calls : e = cache
  BY <1>1 DEF Reuse, Hit, TypeOK
<1>3. /\ step[c] = "new" /\ step' = [step EXCEPT ![c] = "ready"]
      /\ doc' = [doc EXCEPT ![c] = e] /\ refs' = [refs EXCEPT ![e] = @ + 1]
      /\ UNCHANGED <<format, caching, cache, valid, timers, replaced, looping, raws>>
  BY <1>2 DEF Reuse, Go, stored
<1>4. Types'
  BY <1>1, <1>3 DEF TypeOK, Types, Steps
<1>5. Pointers'
  <2>1. \A b \in Calls : /\ doc'[b] = IF b = c THEN e ELSE doc[b]
                         /\ step'[b] = IF b = c THEN "ready" ELSE step[b]
    BY <1>1, <1>3 DEF TypeOK
  <2>2. e # NoDoc
    BY NoDocAssumption
  <2>3. ~looping[c]
    BY <1>1, <1>3 DEF Pointers
  <2>. QED
    BY <1>1, <1>2, <1>3, <2>1, <2>2, <2>3 DEF Pointers
<1>6. ASSUME NEW d \in Calls
      PROVE  refs'[d] = One(cache' = d) + One(d \in replaced') + Uses(d)'
  <2>1. Uses(d) \in Nat /\ Uses(d)' = Uses(d) + One(d = e)
    BY <1>3, GetsDocument DEF One
  <2>2. refs'[d] = refs[d] + One(d = e)
    BY <1>1, <1>3 DEF TypeOK, One
  <2>3. One(d = e) \in Nat
    BY DEF One
  <2>4. One(cache' = d) = One(cache = d) /\ One(d \in replaced') = One(d \in replaced)
    BY <1>3
  <2>. QED
    BY <2>1, <2>2, <2>3, <2>4, AccountOf
<1>. QED
  BY <1>4, <1>5, <1>6, NextIsIInv

(* FetchUncached keeps the invariant.                                      *)
LEMMA FetchUncachedIInv == ASSUME IInv, NEW c \in Calls, FetchUncached(c) PROVE IInv'
<1>1. TypeOK /\ Pointers
  BY DEF IInv
<1>2. /\ step[c] = "fetching" /\ step' = [step EXCEPT ![c] = "ready"]
      /\ doc' = [doc EXCEPT ![c] = c] /\ refs' = [refs EXCEPT ![c] = 1]
      /\ UNCHANGED <<format, caching, cache, valid, timers, replaced, looping, raws>>
  BY DEF FetchUncached, Go, stored
<1>3. Types'
  BY <1>1, <1>2 DEF TypeOK, Types, Steps
<1>4. Pointers'
  <2>1. \A b \in Calls : /\ doc'[b] = IF b = c THEN c ELSE doc[b]
                         /\ step'[b] = IF b = c THEN "ready" ELSE step[b]
    BY <1>1, <1>2 DEF TypeOK
  <2>2. c # NoDoc
    BY NoDocAssumption
  <2>3. ~looping[c]
    BY <1>1, <1>2 DEF Pointers
  <2>. QED
    BY <1>1, <1>2, <2>1, <2>2, <2>3 DEF Pointers
<1>5. ASSUME NEW d \in Calls
      PROVE  refs'[d] = One(cache' = d) + One(d \in replaced') + Uses(d)'
  <2>1. Uses(d) \in Nat /\ Uses(d)' = Uses(d) + One(d = c)
    BY <1>2, GetsDocument DEF One
  <2>2. refs'[d] = refs[d] + One(d = c)
    BY <1>1, <1>2, Unused DEF TypeOK, One
  <2>3. One(d = c) \in Nat
    BY DEF One
  <2>4. One(cache' = d) = One(cache = d) /\ One(d \in replaced') = One(d \in replaced)
    BY <1>2
  <2>. QED
    BY <2>1, <2>2, <2>3, <2>4, AccountOf
<1>. QED
  BY <1>3, <1>4, <1>5, NextIsIInv

(* The document that is forgotten gives back the reference of the cache or *)
(* keeps it for good.                                                      *)
LEMMA FetchCachedIInv == ASSUME IInv, NEW c \in Calls, FetchCached(c) PROVE IInv'
<1>1. TypeOK /\ Pointers
  BY DEF IInv
<1>2. /\ step[c] = "fetching" /\ step' = [step EXCEPT ![c] = "ready"]
      /\ doc' = [doc EXCEPT ![c] = c]
      /\ refs' = [d \in Calls |-> IF d = c THEN 2
                                  ELSE IF d = cache /\ Outdated THEN refs[d] - 1
                                  ELSE refs[d]]
      /\ replaced' = IF Outdated THEN replaced ELSE replaced \cup ({cache} \ {NoDoc})
      /\ cache' = c /\ valid' = TRUE /\ timers' = timers \cup {c}
      /\ UNCHANGED <<format, caching, looping, raws>>
  BY DEF FetchCached, Go, NewTimer
<1>3. cache # c /\ c \notin replaced /\ cache \notin replaced /\ refs[c] = 0 /\ Uses(c) = 0
  BY <1>1, <1>2, Unused DEF Pointers
<1>4. Types'
  BY <1>1, <1>2 DEF TypeOK, Types, Steps
<1>5. Pointers'
  <2>1. \A b \in Calls : /\ doc'[b] = IF b = c THEN c ELSE doc[b]
                         /\ step'[b] = IF b = c THEN "ready" ELSE step[b]
    BY <1>1, <1>2 DEF TypeOK
  <2>2. c # NoDoc
    BY NoDocAssumption
  <2>3. ~looping[c]
    BY <1>1, <1>2 DEF Pointers
  <2>4. replaced' \subseteq replaced \cup {cache}
    BY <1>2
  <2>. QED
    BY <1>1, <1>2, <1>3, <2>1, <2>2, <2>3, <2>4 DEF Pointers
<1>6. ASSUME NEW d \in Calls
      PROVE  refs'[d] = One(cache' = d) + One(d \in replaced') + Uses(d)'
  <2>1. Uses(d) \in Nat /\ Uses(d)' = Uses(d) + One(d = c)
    BY <1>2, GetsDocument DEF One
  <2>2. CASE d = c
    <3>1. refs'[d] = 2 /\ Uses(d)' = 1 /\ cache' = d /\ d \notin replaced'
      BY <1>2, <1>3, <2>1, <2>2 DEF One
    <3>. QED
      BY <3>1 DEF One
  <2>3. CASE d # c /\ d = cache /\ Outdated
    <3>1. refs'[d] = refs[d] - 1 /\ Uses(d)' = Uses(d) /\ cache' # d /\ d \notin replaced'
      BY <1>2, <1>3, <2>1, <2>3 DEF One
    <3>. QED
      BY <1>3, <2>3, <3>1, AccountOf DEF One
  <2>4. CASE d # c /\ d = cache /\ ~Outdated
    <3>1. refs'[d] = refs[d] /\ Uses(d)' = Uses(d) /\ cache' # d /\ d \in replaced'
      BY <1>2, <1>3, <2>1, <2>4, NoDocAssumption DEF One
    <3>. QED
      BY <1>3, <2>4, <3>1, AccountOf DEF One
  <2>5. CASE d # c /\ d # cache
    <3>1. /\ refs'[d] = refs[d] /\ Uses(d)' = Uses(d) /\ cache' # d
          /\ d \in replaced' <=> d \in replaced
      BY <1>2, <2>1, <2>5 DEF One
    <3>. QED
      BY <2>5, <3>1, AccountOf DEF One
  <2>. QED
    BY <2>2, <2>3, <2>4, <2>5
<1>. QED
  BY <1>4, <1>5, <1>6, NextIsIInv

(* Nothing is pointed to or let go of.                                     *)
LEMMA NoDocumentIInv ==
  ASSUME IInv, NEW c \in Calls, Fetch(c) \/ FetchFails(c) \/ CacheExpires(c) PROVE IInv'
<1>1. TypeOK /\ Pointers
  BY DEF IInv
<1>2. /\ \/ step[c] \in {"new", "fetching"} /\ \E to \in {"fetching", "freed"} :
               /\ step[c] = "fetching" => to = "freed"
               /\ step' = [step EXCEPT ![c] = to]
         \/ step' = step
      /\ timers' \in SUBSET timers /\ valid' \in BOOLEAN
      /\ UNCHANGED <<format, caching, cache, replaced, doc, looping, raws, refs>>
  BY <1>1 DEF Fetch, FetchFails, CacheExpires, Go, stored, TypeOK
<1>3. Types'
  BY <1>1, <1>2 DEF TypeOK, Types, Steps
<1>4. Pointers'
  BY <1>1, <1>2 DEF Pointers, TypeOK
<1>5. ASSUME NEW d \in Calls
      PROVE  refs'[d] = One(cache' = d) + One(d \in replaced') + Uses(d)'
  <2>1. Users(d)' = Users(d) /\ Empties(d)' = Empties(d)
    <3>1. \A b \in Calls : \/ step'[b] = step[b]
                           \/ step'[b] \notin {"ready", "sending", "empty"}
                              /\ step[b] \notin {"ready", "sending", "empty"}
      BY <1>1, <1>2 DEF TypeOK
    <3>. QED
      BY <1>2, <3>1 DEF Users, Empties
  <2>2. Loops(d)' = Loops(d) /\ Items(d)' = Items(d) /\ Getters(d)' = Getters(d)
    BY <1>2 DEF Loops, Items, Getters
  <2>3. Uses(d)' = Uses(d)
    BY <1>2, <2>1, <2>2 DEF Uses
  <2>. QED
    BY <1>2, <2>3, AccountOf
<1>. QED
  BY <1>3, <1>4, <1>5, NextIsIInv

(* The invariant holds at the start.                                       *)
LEMMA InitIInv == Init => IInv
<1>. SUFFICES ASSUME Init PROVE IInv
  OBVIOUS
<1>1. TypeOK
  <2>1. 0 \in 0..MaxItems
    BY MaxItemsAssumption
  <2>. QED
    BY <2>1 DEF Init, TypeOK, Steps
<1>2. Pointers
  BY NoDocAssumption DEF Init, Pointers
<1>3. ASSUME NEW d \in Calls PROVE refs[d] = One(cache = d) + One(d \in replaced) + Uses(d)
  <2>1. Users(d) = {} /\ Loops(d) = {} /\ Items(d) = {} /\ Empties(d) = {} /\ Getters(d) = {}
    BY NoDocAssumption DEF Init, Users, Loops, Items, Empties, Getters
  <2>2. Uses(d) = 0
    BY <2>1, FS_EmptySet DEF Uses
  <2>. QED
    BY <2>2, NoDocAssumption DEF Init, One
<1>. QED
  BY <1>1, <1>2, <1>3, Accounts DEF IInv

(* Every step keeps the invariant.                                         *)
LEMMA NextIInv == IInv /\ [Next]_vars => IInv'
<1>. SUFFICES ASSUME IInv, [Next]_vars PROVE IInv'
  OBVIOUS
<1>1. CASE UNCHANGED vars
  <2>1. TypeOK'
    BY <1>1 DEF vars, IInv, TypeOK
  <2>2. Pointers'
    BY <1>1 DEF vars, IInv, Pointers
  <2>3. \A d : /\ Users(d)' = Users(d) /\ Loops(d)' = Loops(d) /\ Items(d)' = Items(d)
              /\ Empties(d)' = Empties(d) /\ Getters(d)' = Getters(d)
    BY <1>1 DEF vars, Users, Loops, Items, Empties, Getters
  <2>4. UNCHANGED <<refs, cache, replaced, format>>
    BY <1>1 DEF vars
  <2>5. RefsAreAccounted'
    BY <2>3, <2>4 DEF IInv, RefsAreAccounted
  <2>. QED
    BY <2>1, <2>2, <2>5 DEF IInv
<1>2. CASE Next
  BY <1>2, ReuseIInv, FetchUncachedIInv, FetchCachedIInv, NoDocumentIInv, LeaveIInv, NoResultsIInv,
     SendResultsIInv, NewItemIInv, ItemDoneIInv, LoopDoneIInv DEF Next
<1>. QED
  BY <1>1, <1>2

(* The invariant holds in every state.                                     *)
LEMMA Invariance == Spec => []IInv
BY InitIInv, NextIInv, PTL DEF Spec

(* Whatever calls overlap, a call is in one of its steps, points to a      *)
(* document or to none, and no reference count goes below zero.            *)
THEOREM TypesHold == Spec => []TypeOK
<1>1. IInv => TypeOK
  BY DEF IInv
<1>. QED
  BY <1>1, Invariance, PTL

(* The reference count of every document is the number of those that point *)
(* to it, with the ones the code never gives back: for any number of calls *)
(* and of items no document is freed while it is used.                     *)
THEOREM ReferencesAccounted == Spec => []RefsAreAccounted
<1>1. IInv => RefsAreAccounted
  BY DEF IInv
<1>. QED
  BY <1>1, Invariance, PTL
=============================================================================
