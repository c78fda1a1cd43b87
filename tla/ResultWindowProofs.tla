-------------------------- MODULE ResultWindowProofs --------------------------
(***************************************************************************)
(* Proofs about ResultWindow, for any guint, any templates and any call:   *)
(* the item loop has a template for every item it is to build, a call is   *)
(* not freed unanswered, and it gets the part of the result it asked for.  *)
(*                                                                         *)
(* The argument counts nodes: g[i] is how many the first i matching        *)
(* templates have, and total_results never says more than g of them all.   *)
(* For the part of the result, c[t] is where the nodes of template t end   *)
(* in the result of all of them.                                           *)
(***************************************************************************)
EXTENDS ResultWindow, SequenceTheorems, NaturalsInduction, WellFoundedInduction,
        TLAPS

Guint == 0..Unbounded

Sources == UNION {[1..n -> Templates] : n \in 0..MaxTemplates}

(* How many nodes each template has, and how many the first of a list of   *)
(* templates have together.                                                *)
Nodes == [t \in 1..Len(templates) |-> Found(t)]

Sums(F, m, g) ==
    /\ g \in [0..Len(m) -> Nat] /\ g[0] = 0
    /\ \A i \in 1..Len(m) : g[i] = g[i - 1] + F[m[i]]

Given ==
    /\ call \in Calls
    /\ templates \in Sources
    /\ tested \in 0..Len(templates)
    /\ matching \in Seq(1..Len(templates))
    /\ \A i \in 1..Len(matching) : Nodes[matching[i]] \in Guint

(* What is announced is found in the templates that match.                 *)
Scanned == step = "scan" => \E g : Sums(Nodes, matching, g) /\ total \in Guint /\ total <= g[Len(matching)]

(* What is pending is what is left of them from the next node on.          *)
Building ==
    step = "build" =>
        /\ place \in 1..Len(matching)
        /\ node = skip \/ (skip <= node /\ node <= Nodes[matching[place]])
        /\ Len(items) + pending = total
        /\ \E g : /\ Sums(Nodes, matching, g)
                  /\ pending > 0 => pending + node <= g[Len(matching)] - g[place - 1]

IInv ==
    /\ TypeOK /\ Given /\ Scanned /\ Building
    /\ step = "scan" => place = 1 /\ items = <<>>
    /\ step = "built" => Len(items) = total
    /\ step # "dropped"

-----------------------------------------------------------------------------
(* The numbers.                                                            *)

(* The templates of a source are a sequence.                               *)
LEMMA SourceIsASequence ==
  ASSUME NEW t \in Sources
  PROVE  t \in Seq(Templates) /\ Len(t) \in Nat /\ DOMAIN t = 1..Len(t)
<1>1. PICK n \in 0..MaxTemplates : t \in [1..n -> Templates]
  BY DEF Sources
<1>2. n \in Nat
  BY MaxTemplatesAssumption
<1>3. t \in Seq(Templates)
  BY <1>1, <1>2
<1>. QED
  BY <1>3, LenProperties

(* A call gets at least one result, if there is one.                       *)
LEMMA CountIsPositive == call \in Calls => Count \in 1..Unbounded
<1>. SUFFICES ASSUME call \in Calls PROVE Count \in 1..Unbounded
  OBVIOUS
<1>1. call.countAttr \in 0..Unbounded /\ call.asked \in 1..Unbounded
  BY CallsAssumption
<1>. QED
  BY <1>1, UnboundedAssumption DEF Count, ToNumber, MinOf

(* Adding two guints gives one, at most their sum.                         *)
LEMMA PlusIsAGuint ==
  ASSUME NEW a \in Guint, NEW b \in Guint
  PROVE  Plus(a, b) \in Guint /\ Plus(a, b) <= a + b
BY UnboundedAssumption DEF Plus, Guint

(* A template that fits has nodes.                                         *)
LEMMA FitsHasNodes ==
  ASSUME templates \in Sources, NEW t \in 1..Len(templates), Fits(t)
  PROVE  Found(t) \in Guint /\ Found(t) > 0
<1>1. templates[t] \in Templates
  BY SourceIsASequence
<1>2. Found(t) \in -1..Unbounded /\ Found(t) > 0
  BY <1>1, TemplatesAssumption DEF Found, Fits
<1>. QED
  BY <1>2, UnboundedAssumption DEF Guint

(* The invariant holds at the start.                                       *)
LEMMA InitIInv == Init => IInv
<1>. SUFFICES ASSUME Init PROVE IInv
  OBVIOUS
<1>1. templates \in Sources /\ 0 \in Guint /\ 0 \in 0..Len(templates) /\ call \in Calls
  BY SourceIsASequence, UnboundedAssumption DEF Init, Sources, Guint
<1>2. TypeOK
  BY <1>1 DEF Init, TypeOK, Sources, Guint
<1>3. Given
  BY <1>1 DEF Init, Given
<1>4. Scanned
  <2>1. Sums(Nodes, matching, [i \in 0..0 |-> 0])
    BY DEF Init, Sums
  <2>2. Len(matching) = 0 /\ total = 0
    BY DEF Init
  <2>. QED
    BY <1>1, <2>1, <2>2 DEF Scanned
<1>5. step = "scan" /\ place = 1 /\ items = <<>>
  BY DEF Init
<1>. QED
  BY <1>2, <1>3, <1>4, <1>5 DEF IInv, Building

(* The sums when a template is added.                                      *)
LEMMA OneMoreTemplate ==
  ASSUME NEW T, NEW F, NEW m \in Seq(T), NEW g, Sums(F, m, g), NEW t \in T, F[t] \in Nat
  PROVE  \E h : Sums(F, Append(m, t), h) /\ h[Len(m) + 1] = g[Len(m)] + F[t]
<1> DEFINE L == Len(m)
           M == Append(m, t)
           h == [i \in 0..L + 1 |-> IF i = L + 1 THEN g[L] + F[t] ELSE g[i]]
<1>1. L \in Nat /\ Len(M) = L + 1 /\ M[L + 1] = t /\ \A i \in 1..L : M[i] = m[i]
  OBVIOUS
<1>2. g \in [0..L -> Nat] /\ g[0] = 0 /\ \A i \in 1..L : g[i] = g[i - 1] + F[m[i]]
  BY DEF Sums
<1>. HIDE DEF L, M
<1>3. \A i \in 0..L : i # L + 1 /\ i \in 0..L + 1 /\ h[i] = g[i]
  BY <1>1
<1>4. h[L + 1] = g[L] + F[t] /\ g[L] \in Nat
  BY <1>1, <1>2
<1>5. h \in [0..L + 1 -> Nat]
  BY <1>1, <1>2, <1>4
<1>6. h[0] = 0
  BY <1>1, <1>2, <1>3
<1>. HIDE DEF h
<1>7. ASSUME NEW i \in 1..L + 1 PROVE h[i] = h[i - 1] + F[M[i]]
  <2>1. CASE i = L + 1
    <3>1. i - 1 = L /\ L \in 0..L
      BY <1>1, <2>1
    <3>. QED
      BY <1>1, <1>3, <1>4, <2>1, <3>1
  <2>2. CASE i # L + 1
    <3>1. i \in 1..L /\ i \in 0..L /\ i - 1 \in 0..L
      BY <1>1, <2>2
    <3>. QED
      BY <1>1, <1>2, <1>3, <3>1
  <2>. QED
    BY <2>1, <2>2
<1>8. Sums(F, M, h)
  BY <1>1, <1>5, <1>6, <1>7 DEF Sums
<1>. QED
  BY <1>4, <1>8 DEF L, M

(* The sums do not fall.                                                   *)
LEMMA NextSum ==
  ASSUME NEW F, NEW m, Len(m) \in Nat, NEW g, Sums(F, m, g), NEW i \in 1..Len(m)
  PROVE  /\ g[i] = g[i - 1] + F[m[i]]
         /\ g[i] \in Nat /\ g[i - 1] \in Nat /\ g[Len(m)] \in Nat
<1>1. i \in 0..Len(m) /\ i - 1 \in 0..Len(m) /\ Len(m) \in 0..Len(m)
  OBVIOUS
<1>. QED
  BY <1>1 DEF Sums

(* What a step leaves alone, and what that keeps.                          *)
LEMMA Kept ==
  ASSUME IInv, UNCHANGED <<call, templates>>
  PROVE  /\ Nodes' = Nodes /\ Count' = Count /\ Count \in 1..Unbounded
         /\ templates \in Seq(Templates) /\ Len(templates) \in Nat
         /\ matching \in Seq(1..Len(templates)) /\ Len(matching) \in Nat
         /\ call.skip \in Guint
<1>1. Nodes' = Nodes
  BY DEF Nodes, Found
<1>2. Count' = Count
  BY DEF Count
<1>3. call \in Calls /\ templates \in Sources /\ matching \in Seq(1..Len(templates))
  BY DEF IInv, Given
<1>. QED
  BY <1>1, <1>2, <1>3, CountIsPositive, SourceIsASequence, CallsAssumption DEF Guint

(* TestTemplate keeps the invariant.                                       *)
LEMMA TestTemplateIInv == IInv /\ TestTemplate => IInv'
<1>. SUFFICES ASSUME IInv, TestTemplate PROVE IInv'
  OBVIOUS
<1>1. /\ step = "scan" /\ tested < Len(templates) /\ tested' = tested + 1
      /\ UNCHANGED <<call, templates, step, place, node, skip, pending, items>>
  BY DEF TestTemplate, Scanning
<1>2. TypeOK /\ Given /\ Scanned
  BY DEF IInv
<1>3. /\ Nodes' = Nodes /\ Len(templates) \in Nat
      /\ matching \in Seq(1..Len(templates)) /\ Len(matching) \in Nat
  BY <1>1, Kept
<1>4. tested + 1 \in 1..Len(templates) /\ tested' \in 0..Len(templates)
  BY <1>1, <1>2, <1>3 DEF Given
<1>5. PICK g : Sums(Nodes, matching, g) /\ total \in Guint /\ total <= g[Len(matching)]
  BY <1>1, <1>2 DEF Scanned
<1> DEFINE t == tested + 1
<1>6. /\ matching' \in Seq(1..Len(templates)) /\ total' \in Guint
      /\ \A i \in 1..Len(matching') : Nodes[matching'[i]] \in Guint
      /\ \E h : Sums(Nodes, matching', h) /\ total' <= h[Len(matching')]
  <2>1. CASE Fits(t)
    <3>1. Found(t) \in Guint /\ Nodes[t] = Found(t)
      BY <1>2, <1>4, <2>1, FitsHasNodes DEF Given, Nodes
    <3>2. matching' = Append(matching, t) /\ total' = Plus(total, Found(t))
      BY <2>1 DEF TestTemplate
    <3>3. total' \in Guint /\ total' <= total + Found(t)
      BY <1>5, <3>1, <3>2, PlusIsAGuint
    <3>. HIDE DEF t
    <3>4. /\ matching' \in Seq(1..Len(templates)) /\ Len(matching') = Len(matching) + 1
          /\ matching'[Len(matching) + 1] = t
          /\ \A i \in 1..Len(matching) : matching'[i] = matching[i]
      BY <1>3, <1>4, <3>2 DEF t
    <3>5. \A i \in 1..Len(matching') : Nodes[matching'[i]] \in Guint
      <4>1. \A i \in 1..Len(matching') : i \in 1..Len(matching) \/ i = Len(matching) + 1
        BY <1>3, <3>4
      <4>. QED
        BY <1>2, <3>1, <3>4, <4>1 DEF Given
    <3>6. PICK h : /\ Sums(Nodes, Append(matching, t), h)
                   /\ h[Len(matching) + 1] = g[Len(matching)] + Nodes[t]
      <4>1. t \in 1..Len(templates) /\ Nodes[t] \in Nat
        BY <1>4, <3>1, UnboundedAssumption DEF t, Guint
      <4>. QED
        BY <1>3, <1>5, <4>1, OneMoreTemplate
    <3>7. total' <= h[Len(matching')]
      <4>1. g[Len(matching)] \in Nat
        BY <1>3, <1>5 DEF Sums
      <4>. QED
        BY <1>5, <3>1, <3>3, <3>4, <3>6, <4>1, UnboundedAssumption DEF Guint
    <3>. QED
      BY <3>2, <3>3, <3>4, <3>5, <3>6, <3>7
  <2>2. CASE ~Fits(t)
    <3>1. matching' = matching /\ total' = total
      BY <2>2 DEF TestTemplate
    <3>. QED
      BY <1>2, <1>5, <3>1 DEF Given
  <2>. QED
    BY <2>1, <2>2
<1>7. TypeOK'
  BY <1>1, <1>2, <1>4, <1>6 DEF TypeOK, Guint
<1>8. Given'
  BY <1>1, <1>2, <1>3, <1>4, <1>6 DEF Given
<1>9. Scanned'
  BY <1>3, <1>6 DEF Scanned
<1>. QED
  BY <1>1, <1>7, <1>8, <1>9 DEF IInv, Building

(* EndOfScan keeps the invariant.                                          *)
LEMMA EndOfScanIInv == IInv /\ (NoResults \/ Done) => IInv'
<1>. SUFFICES ASSUME IInv, NoResults \/ Done PROVE IInv'
  OBVIOUS
<1>1. /\ UNCHANGED <<call, templates, tested, matching, total, place, node, skip, pending, items>>
      /\ step' = "nothing" \/ (step' = step /\ step # "scan")
  BY DEF NoResults, Done, vars
<1>2. TypeOK /\ Given /\ Building /\ Nodes' = Nodes
  BY <1>1, Kept DEF IInv
<1>3. TypeOK'
  BY <1>1, <1>2 DEF TypeOK
<1>4. Given'
  BY <1>1, <1>2 DEF Given
<1>5. Building'
  BY <1>1, <1>2 DEF Building
<1>. QED
  BY <1>1, <1>3, <1>4, <1>5 DEF IInv, Scanned

(* SkipResults keeps the invariant.                                        *)
LEMMA SkipResultsIInv == IInv /\ SkipResults => IInv'
<1>. SUFFICES ASSUME IInv, SkipResults PROVE IInv'
  OBVIOUS
<1>1. /\ step = "scan" /\ ~(total <= call.skip) /\ total' = Window
      /\ UNCHANGED <<call, templates, tested, matching, place, items>>
  BY DEF SkipResults, NoMore
<1>2. TypeOK /\ Given /\ Scanned /\ place = 1 /\ items = <<>>
  BY <1>1 DEF IInv
<1>3. /\ Nodes' = Nodes /\ Count \in 1..Unbounded /\ call.skip \in Guint
      /\ matching \in Seq(1..Len(templates)) /\ Len(matching) \in Nat
  BY <1>1, Kept
<1>4. PICK g : Sums(Nodes, matching, g) /\ total \in Guint /\ total <= g[Len(matching)]
  BY <1>1, <1>2 DEF Scanned
<1>5. Window \in 1..Unbounded /\ Window <= total - call.skip
  BY <1>1, <1>3, <1>4, UnboundedAssumption DEF Window, MinOf, Guint
<1>6. step' = "build" /\ pending' = Window /\ skip' = call.skip /\ node' = call.skip
  BY <1>1, <1>5 DEF SkipResults
<1>7. g[0] = 0 /\ g[Len(matching)] \in Nat
  BY <1>3, <1>4 DEF Sums
<1>8. Len(matching) >= 1
  <2>1. g[Len(matching)] > 0
    BY <1>1, <1>3, <1>4, <1>7 DEF Guint
  <2>. QED
    BY <1>3, <1>7, <2>1
<1>9. TypeOK'
  BY <1>1, <1>2, <1>3, <1>5, <1>6, UnboundedAssumption DEF TypeOK, Guint
<1>10. Given'
  BY <1>1, <1>2, <1>3 DEF Given
<1>11. Building'
  <2>1. pending' + node' <= g[Len(matching)] - g[1 - 1]
    BY <1>3, <1>4, <1>5, <1>6, <1>7, UnboundedAssumption DEF Guint
  <2>2. 1 \in 1..Len(matching) /\ Len(items) = 0
    BY <1>2, <1>3, <1>8
  <2>3. Len(items') + pending' = total'
    BY <1>1, <1>5, <1>6, <2>2
  <2>. QED
    BY <1>1, <1>2, <1>3, <1>4, <1>6, <2>1, <2>2, <2>3 DEF Building
<1>. QED
  BY <1>6, <1>9, <1>10, <1>11 DEF IInv, Scanned

(* BuildItem keeps the invariant.                                          *)
LEMMA BuildItemIInv == IInv /\ BuildItem => IInv'
<1>. SUFFICES ASSUME IInv, BuildItem PROVE IInv'
  OBVIOUS
<1>1. /\ step = "build" /\ pending > 0 /\ node < Found(matching[place])
      /\ items' = Append(items, <<matching[place], node>>)
      /\ node' = node + 1 /\ pending' = pending - 1
      /\ UNCHANGED <<call, templates, tested, matching, total, step, place, skip>>
  BY DEF BuildItem, InTemplate
<1>2. TypeOK /\ Given /\ Building
  BY DEF IInv
<1>3. /\ Nodes' = Nodes /\ Len(templates) \in Nat
      /\ matching \in Seq(1..Len(templates)) /\ Len(matching) \in Nat
  BY <1>1, Kept
<1>4. /\ place \in 1..Len(matching) /\ Len(items) + pending = total
      /\ node = skip \/ (skip <= node /\ node <= Nodes[matching[place]])
  BY <1>1, <1>2 DEF Building
<1>5. matching[place] \in 1..Len(templates) /\ Nodes[matching[place]] \in Guint
  BY <1>2, <1>3, <1>4 DEF Given
<1>6. Found(matching[place]) = Nodes[matching[place]]
  BY <1>5 DEF Nodes
<1>7. node \in Guint /\ pending \in Guint /\ total \in Guint /\ skip \in Guint
  BY <1>2 DEF TypeOK, Guint
<1>8. node' \in Guint /\ pending' \in Guint
  BY <1>1, <1>5, <1>6, <1>7, UnboundedAssumption DEF Guint
<1>9. /\ items' \in Seq((1..Len(templates)) \X Guint) /\ Len(items') = Len(items) + 1
      /\ Len(items) \in Nat
  <2>1. <<matching[place], node>> \in (1..Len(templates)) \X Guint
    BY <1>5, <1>7
  <2>2. items \in Seq((1..Len(templates)) \X Guint)
    BY <1>2 DEF TypeOK, Guint
  <2>. QED
    BY <1>1, <2>1, <2>2, AppendProperties, LenProperties
<1>10. TypeOK'
  BY <1>1, <1>2, <1>8, <1>9 DEF TypeOK, Guint
<1>11. Given'
  BY <1>1, <1>2, <1>3 DEF Given
<1>12. Building'
  <2>1. PICK g : /\ Sums(Nodes, matching, g)
                 /\ pending > 0 => pending + node <= g[Len(matching)] - g[place - 1]
    BY <1>1, <1>2 DEF Building
  <2>2. pending' + node' = pending + node
    BY <1>1, <1>7, UnboundedAssumption DEF Guint
  <2>3. Len(items') + pending' = total'
    BY <1>1, <1>4, <1>7, <1>9, UnboundedAssumption DEF Guint
  <2>4. skip <= node' /\ node' <= Nodes[matching[place]]
    BY <1>1, <1>4, <1>5, <1>6, <1>7, UnboundedAssumption DEF Guint
  <2>. QED
    BY <1>1, <1>3, <1>4, <2>1, <2>2, <2>3, <2>4 DEF Building
<1>. QED
  BY <1>1, <1>10, <1>11, <1>12 DEF IInv, Scanned

(* NextTemplate keeps the invariant.                                       *)
LEMMA NextTemplateIInv == IInv /\ NextTemplate => IInv'
<1>. SUFFICES ASSUME IInv, NextTemplate PROVE IInv'
  OBVIOUS
<1>1. /\ step = "build" /\ ~(pending > 0 /\ node < Found(matching[place]))
      /\ skip' = SkipLeft /\ node' = SkipLeft /\ place' = place + 1
      /\ step' = IF pending = 0 THEN "built" ELSE "build"
      /\ UNCHANGED <<call, templates, tested, matching, total, pending, items>>
  BY DEF NextTemplate, InTemplate
<1>2. TypeOK /\ Given /\ Building
  BY DEF IInv
<1>3. /\ Nodes' = Nodes /\ Len(templates) \in Nat
      /\ matching \in Seq(1..Len(templates)) /\ Len(matching) \in Nat
  BY <1>1, Kept
<1>4. /\ place \in 1..Len(matching) /\ Len(items) + pending = total
      /\ node = skip \/ (skip <= node /\ node <= Nodes[matching[place]])
  BY <1>1, <1>2 DEF Building
<1>5. matching[place] \in 1..Len(templates) /\ Nodes[matching[place]] \in Guint
  BY <1>2, <1>3, <1>4 DEF Given
<1>6. Found(matching[place]) = Nodes[matching[place]]
  BY <1>5 DEF Nodes
<1>7. node \in Guint /\ pending \in Guint /\ total \in Guint /\ skip \in Guint
  BY <1>2 DEF TypeOK, Guint
<1>8. SkipLeft \in Guint
  BY <1>5, <1>6, <1>7, UnboundedAssumption DEF SkipLeft, MinOf, Guint
<1>9. TypeOK'
  BY <1>1, <1>2, <1>8 DEF TypeOK, Guint
<1>10. Given'
  BY <1>1, <1>2, <1>3 DEF Given
<1>11. CASE pending = 0
  <2>1. step' = "built" /\ Len(items') = total'
    BY <1>1, <1>4, <1>7, <1>11, UnboundedAssumption DEF Guint, TypeOK
  <2>. QED
    BY <1>9, <1>10, <2>1 DEF IInv, Scanned, Building
<1>12. CASE pending # 0
  <2>1. pending > 0 /\ node >= Nodes[matching[place]] /\ step' = "build"
    BY <1>1, <1>5, <1>6, <1>7, <1>12, UnboundedAssumption DEF Guint
  <2>2. SkipLeft = node - Nodes[matching[place]]
    BY <1>4, <1>5, <1>6, <1>7, <2>1, UnboundedAssumption DEF SkipLeft, MinOf, Guint
  <2>3. PICK g : /\ Sums(Nodes, matching, g)
                 /\ pending + node <= g[Len(matching)] - g[place - 1]
    BY <1>1, <1>2, <2>1 DEF Building
  <2>4. /\ g[place] = g[place - 1] + Nodes[matching[place]]
        /\ g[place] \in Nat /\ g[place - 1] \in Nat /\ g[Len(matching)] \in Nat
    BY <1>3, <1>4, <2>3, NextSum
  <2>5. pending + SkipLeft <= g[Len(matching)] - g[place]
    <3> DEFINE F == Nodes[matching[place]]
               rest == g[Len(matching)]
               before == g[place - 1]
    <3>1. F \in Nat /\ rest \in Nat /\ before \in Nat /\ pending \in Nat /\ node \in Nat
      BY <1>5, <1>7, <2>4, UnboundedAssumption DEF Guint
    <3>2. pending + node <= rest - before /\ SkipLeft = node - F /\ g[place] = before + F
      BY <2>2, <2>3, <2>4
    <3>. HIDE DEF F, rest, before
    <3>3. pending + (node - F) <= rest - (before + F)
      BY <3>1, <3>2
    <3>. QED
      BY <3>2, <3>3 DEF rest
  <2>6. place # Len(matching)
    BY <1>7, <1>8, <2>1, <2>4, <2>5, UnboundedAssumption DEF Guint
  <2>7. place' \in 1..Len(matching) /\ place' - 1 = place
    BY <1>1, <1>3, <1>4, <2>6
  <2>8. Building'
    BY <1>1, <1>3, <1>4, <2>3, <2>5, <2>7 DEF Building
  <2>. QED
    BY <1>9, <1>10, <2>1, <2>8 DEF IInv, Scanned
<1>. QED
  BY <1>11, <1>12

(* Every step keeps the invariant.                                         *)
LEMMA NextIInv == IInv /\ [Next]_vars => IInv'
<1>. SUFFICES ASSUME IInv, [Next]_vars PROVE IInv'
  OBVIOUS
<1>1. CASE UNCHANGED vars
  <2>1. Nodes' = Nodes
    BY <1>1, Kept DEF vars
  <2>2. TypeOK'
    BY <1>1 DEF vars, IInv, TypeOK
  <2>3. Given'
    BY <1>1, <2>1 DEF vars, IInv, Given
  <2>4. Scanned' /\ Building'
    BY <1>1, <2>1 DEF vars, IInv, Scanned, Building
  <2>. QED
    BY <1>1, <2>2, <2>3, <2>4 DEF vars, IInv
<1>. QED
  BY <1>1, TestTemplateIInv, EndOfScanIInv, SkipResultsIInv, BuildItemIInv, NextTemplateIInv DEF Next

(* The invariant holds in every state.                                     *)
LEMMA Invariance == Spec => []IInv
BY InitIInv, NextIInv, PTL DEF Spec

-----------------------------------------------------------------------------
(* The theorems.                                                           *)

(* Every number of the two send functions stays a guint: what the loop has *)
(* to skip or to build is never decreased below 0.                         *)
THEOREM TypesHold == Spec => []TypeOK
<1>1. IInv => TypeOK
  BY DEF IInv
<1>. QED
  BY <1>1, Invariance, PTL

(* The item loop does not run off the matching templates, and builds as    *)
(* many items as total_results says, even where skip + count or the total  *)
(* wraps around.                                                           *)
THEOREM EnoughTemplates == Spec => []TemplatesLastForItems
<1>1. IInv => TemplatesLastForItems
  BY DEF IInv, Building, TemplatesLastForItems, Given
<1>. QED
  BY <1>1, Invariance, PTL

(* A call that is not told "there are no more elements" has an item to     *)
(* answer with: its send_list is never run when it is empty.               *)
THEOREM AlwaysAnItem == Spec => []NeverDropped
<1>1. IInv => NeverDropped
  BY DEF IInv, NeverDropped
<1>. QED
  BY <1>1, Invariance, PTL

-----------------------------------------------------------------------------
(* Sequences that are put together.                                        *)

(* A set of numbers that has 0 and with each number the next one, up to n. *)
LEMMA UpTo ==
  ASSUME NEW n \in Nat, NEW T \in SUBSET Nat, 0 \in T,
         \A i \in 1 .. n : i - 1 \in T => i \in T
  PROVE  0 .. n \subseteq T
<1> DEFINE Gap == (0 .. n) \ T
           R == OpToRel(<, Nat)
<1>1. SUFFICES ASSUME Gap # {} PROVE FALSE
  OBVIOUS
<1>2. IsWellFoundedOn(R, Nat)
  BY NatLessThanWellFounded
<1>3. \A j, k \in Nat : j < k => <<j, k>> \in R
  <2>1. R = {ss \in Nat \X Nat : ss[1] < ss[2]}
    BY Zenon DEF OpToRel
  <2>. QED
    BY <2>1
<1>. HIDE DEF R
<1>4. Gap \in SUBSET Nat
  OBVIOUS
<1>5. PICK k \in Gap : \A j \in Gap : ~(<<j, k>> \in R)
  <2>. HIDE DEF Gap
  <2>. QED
    BY <1>1, <1>2, <1>4, WFMin, Zenon
<1>6. k \in 1 .. n /\ k - 1 \in 0 .. n /\ k - 1 \in Nat /\ k \in Nat /\ k - 1 < k
  OBVIOUS
<1>7. k - 1 \in T
  BY <1>3, <1>5, <1>6
<1>. QED
  BY <1>6, <1>7

(* What the first of some sequences are, put together.                     *)
Concats(s, n, g) ==
    /\ g[0] = <<>>
    /\ \A k \in 1 .. n : g[k] = g[k - 1] \o s[k]

(* FlattenSeq is what its recursion says: there is a function that it is   *)
(* the last value of.                                                      *)
LEMMA Flatten ==
  ASSUME NEW S, NEW n \in Nat, NEW s \in [1 .. n -> Seq(S)]
  PROVE  \E g \in [0 .. n -> Seq(S)] : Concats(s, n, g) /\ FlattenSeq(s) = g[n]
<1>1. s \in Seq(Seq(S)) /\ Len(s) = n
  OBVIOUS
<1> DEFINE T == {k \in 0 .. n : \E g \in [0 .. k -> Seq(S)] : Concats(s, k, g)}
<1>2. \E g \in [0 .. n -> Seq(S)] : Concats(s, n, g)
  <2>1. 0 \in T
    <3> DEFINE nothing == [i \in 0 .. 0 |-> <<>>]
    <3>1. nothing \in [0 .. 0 -> Seq(S)]
      BY EmptySeq
    <3>2. nothing[0] = <<>> /\ 1 .. 0 = {}
      OBVIOUS
    <3>. HIDE DEF nothing
    <3>3. \A k \in 1 .. 0 : nothing[k] = nothing[k - 1] \o s[k]
      BY <3>2, Zenon
    <3>4. Concats(s, 0, nothing)
      BY <3>2, <3>3, Zenon DEF Concats
    <3>. QED
      BY <3>1, <3>4
  <2>2. ASSUME NEW i \in 1 .. n, i - 1 \in T PROVE i \in T
    <3>1. PICK g \in [0 .. i - 1 -> Seq(S)] : Concats(s, i - 1, g)
      BY <2>2
    <3> DEFINE h == [j \in 0 .. i |-> IF j = i THEN g[i - 1] \o s[i] ELSE g[j]]
    <3>2. g[i - 1] \o s[i] \in Seq(S)
      BY <3>1, ConcatProperties
    <3>3. h \in [0 .. i -> Seq(S)]
      BY <3>2
    <3>4. \A j \in 0 .. i - 1 : h[j] = g[j]
      OBVIOUS
    <3>5. h[i] = h[i - 1] \o s[i]
      <4>1. h[i] = g[i - 1] \o s[i]
        <5>1. i \in 0 .. i
          OBVIOUS
        <5>. QED
          BY <5>1, Zenon
      <4>2. i - 1 \in 0 .. i - 1
        OBVIOUS
      <4>. QED
        BY <3>4, <4>1, <4>2, Zenon
    <3>6. Concats(s, i, h)
      <4>. HIDE DEF h
      <4>1. h[0] = <<>>
        BY <3>1, <3>4 DEF Concats
      <4>2. ASSUME NEW j \in 1 .. i PROVE h[j] = h[j - 1] \o s[j]
        <5>1. CASE j = i
          BY <3>5, <5>1
        <5>2. CASE j # i
          <6>1. j \in 1 .. i - 1 /\ j \in 0 .. i - 1 /\ j - 1 \in 0 .. i - 1
            BY <5>2
          <6>. QED
            BY <3>1, <3>4, <6>1, Zenon DEF Concats
        <5>. QED
          BY <5>1, <5>2
      <4>3. \A j \in 1 .. i : h[j] = h[j - 1] \o s[j]
        BY <4>2, Zenon
      <4>. QED
        BY <4>1, <4>3, Zenon DEF Concats
    <3>7. i \in 0 .. n
      OBVIOUS
    <3>. HIDE DEF h
    <3>. QED
      BY <3>3, <3>6, <3>7, Zenon
  <2>3. T \in SUBSET Nat
    OBVIOUS
  <2>4. 0 .. n \subseteq T
    <3>. HIDE DEF T
    <3>. QED
      BY <2>1, <2>2, <2>3, UpTo
  <2>. QED
    BY <2>4
<1>3. PICK g \in [0 .. n -> Seq(S)] : Concats(s, n, g)
  BY <1>2
<1>4. CASE n = 0
  <2>1. FlattenSeq(s) = <<>>
    BY <1>1, <1>4 DEF FlattenSeq
  <2>. QED
    BY <1>3, <1>4, <2>1 DEF Concats
<1>5. CASE n # 0
  <2> DEFINE Body(f) == [i \in 1 .. Len(s) |-> IF i = 1 THEN s[i] ELSE f[i - 1] \o s[i]]
             flatten == CHOOSE f : f = Body(f)
             h == [i \in 1 .. n |-> g[i]]
  <2>1. FlattenSeq(s) = flatten[n]
    BY <1>1, <1>5 DEF FlattenSeq
  <2>2. h = Body(h)
    <3>1. g[1] = s[1]
      <4>1. g[1] = g[0] \o s[1] /\ g[0] = <<>> /\ s[1] \in Seq(S)
        <5>1. 1 \in 1 .. n /\ 1 - 1 = 0
          BY <1>5
        <5>. QED
          BY <1>3, <5>1 DEF Concats
      <4>. QED
        BY <4>1, ConcatEmptySeq
    <3>2. \A i \in 1 .. n : h[i] = IF i = 1 THEN s[i] ELSE h[i - 1] \o s[i]
      <4> SUFFICES ASSUME NEW i \in 1 .. n PROVE h[i] = IF i = 1 THEN s[i] ELSE h[i - 1] \o s[i]
        OBVIOUS
      <4>1. CASE i = 1
        BY <3>1, <4>1
      <4>2. CASE i # 1
        <5>1. h[i] = g[i] /\ h[i - 1] = g[i - 1]
          BY <4>2
        <5>2. g[i] = g[i - 1] \o s[i]
          BY <1>3, Zenon DEF Concats
        <5>. HIDE DEF h
        <5>. QED
          BY <4>2, <5>1, <5>2, Zenon
      <4>. QED
        BY <4>1, <4>2
    <3>. QED
      BY <1>1, <3>2
  <2>3. flatten = Body(flatten)
    <3>. HIDE DEF Body, h
    <3>. QED
      BY <2>2, Zenon
  <2>4. \A i \in 1 .. n : flatten[i] = IF i = 1 THEN s[i] ELSE flatten[i - 1] \o s[i]
    <3>. HIDE DEF flatten
    <3>. QED
      BY <1>1, <2>3
  <2>. HIDE DEF flatten
  <2> DEFINE Same == {k \in Nat : k \in 1 .. n => flatten[k] = g[k]}
  <2>5. ASSUME NEW i \in 1 .. n, i - 1 \in Same PROVE i \in Same
    <3>1. CASE i = 1
      <4>1. g[1] = g[0] \o s[1] /\ g[0] = <<>> /\ s[1] \in Seq(S)
        <5>1. 1 \in 1 .. n /\ 1 - 1 = 0
          BY <1>5
        <5>. QED
          BY <1>3, <5>1 DEF Concats
      <4>2. flatten[i] = g[i]
        BY <2>4, <3>1, <4>1, ConcatEmptySeq
      <4>. QED
        BY <4>2
    <3>2. CASE i # 1
      <4>1. flatten[i - 1] = g[i - 1]
        BY <2>5, <3>2
      <4>2. g[i] = g[i - 1] \o s[i]
        BY <1>3, Zenon DEF Concats
      <4>3. flatten[i] = g[i]
        BY <2>4, <3>2, <4>1, <4>2, Zenon
      <4>. QED
        BY <4>3
    <3>. QED
      BY <3>1, <3>2
  <2>6. 0 \in Same /\ Same \in SUBSET Nat
    OBVIOUS
  <2>7. 0 .. n \subseteq Same
    <3>. HIDE DEF Same
    <3>. QED
      BY <2>5, <2>6, UpTo
  <2>8. flatten[n] = g[n]
    BY <1>5, <2>7
  <2>. QED
    BY <1>3, <2>1, <2>8
<1>. QED
  BY <1>4, <1>5

-----------------------------------------------------------------------------
(* The whole result, and where the nodes of each template are in it.       *)

(* What is put together stays as it is when more follows.                  *)
LEMMA ConcatsGrow ==
  ASSUME NEW S, NEW n \in Nat, NEW s \in [1 .. n -> Seq(S)], NEW g \in [0 .. n -> Seq(S)],
         Concats(s, n, g)
  PROVE  \A j \in 0 .. n : /\ Len(g[j]) <= Len(g[n])
                           /\ \A i \in 1 .. Len(g[j]) : g[n][i] = g[j][i]
<1> DEFINE Keeps(j, k) == Len(g[j]) <= Len(g[k]) /\ \A i \in 1 .. Len(g[j]) : g[k][i] = g[j][i]
           T == {k \in Nat : k \in 0 .. n => \A j \in 0 .. k : Keeps(j, k)}
<1>1. 0 \in T /\ T \in SUBSET Nat
  <2>1. Keeps(0, 0)
    <3>1. g[0] \in Seq(S)
      OBVIOUS
    <3>. QED
      BY <3>1, LenProperties
  <2>2. \A j \in 0 .. 0 : j = 0
    OBVIOUS
  <2>. HIDE DEF Keeps
  <2>. QED
    BY <2>1, <2>2
<1>2. ASSUME NEW k \in 1 .. n, k - 1 \in T PROVE k \in T
  <2>1. g[k] = g[k - 1] \o s[k]
    BY Zenon DEF Concats
  <2>2. g[k - 1] \in Seq(S) /\ s[k] \in Seq(S) /\ g[k] \in Seq(S) /\ k - 1 \in 0 .. n /\ k \in Nat
    OBVIOUS
  <2>3. Keeps(k - 1, k) /\ Keeps(k, k)
    BY <2>1, <2>2, ConcatProperties, LenProperties
  <2>4. \A j \in 0 .. k - 1 : Keeps(j, k - 1)
    <3>. HIDE DEF Keeps
    <3>. QED
      BY <1>2, <2>2
  <2>5. ASSUME NEW j \in 0 .. k PROVE Keeps(j, k)
    <3>1. CASE j = k
      <4>. HIDE DEF Keeps
      <4>. QED
        BY <2>3, <3>1
    <3>2. CASE j # k
      <4>1. j \in 0 .. k - 1 /\ g[j] \in Seq(S)
        BY <3>2
      <4>2. Keeps(j, k - 1)
        <5>. HIDE DEF Keeps
        <5>. QED
          BY <2>4, <4>1
      <4>3. Len(g[j]) \in Nat /\ Len(g[k - 1]) \in Nat /\ Len(g[k]) \in Nat
        BY <2>2, <4>1, LenProperties
      <4>. QED
        BY <2>3, <4>2, <4>3
    <3>. QED
      BY <3>1, <3>2
  <2>. HIDE DEF Keeps
  <2>. QED
    BY <2>2, <2>5
<1>3. 0 .. n \subseteq T
  <2>. HIDE DEF T
  <2>. QED
    BY <1>1, <1>2, UpTo
<1>4. n \in T
  BY <1>3
<1>. QED
  BY <1>4

(* How many nodes of a template are in the result, which nodes those are,  *)
(* and where in the whole result they start.                               *)
Has(t) == IF Fits(t) THEN Found(t) ELSE 0
Part(t) == [n \in 1..Has(t) |-> <<t, n - 1>>]

Offsets(c) ==
    /\ c \in [0..Len(templates) -> Nat] /\ c[0] = 0
    /\ Len(AllNodes) = c[Len(templates)]
    /\ \A t \in 1..Len(templates) :
        /\ c[t] = c[t - 1] + Has(t)
        /\ c[t] <= c[Len(templates)]
        /\ \A n \in 0..Has(t) - 1 : AllNodes[c[t - 1] + n + 1] = <<t, n>>

(* The nodes of a template follow one another in the whole result, and it  *)
(* has no others.                                                          *)
LEMMA AllNodesHasOffsets ==
  ASSUME templates \in Sources
  PROVE  /\ \E c : Offsets(c)
         /\ AllNodes \in Seq((1..Len(templates)) \X Nat)
<1> DEFINE N == Len(templates)
           S == (1..N) \X Nat
           parts == [t \in 1..N |-> Part(t)]
<1>1. N \in Nat
  BY SourceIsASequence
<1>2. ASSUME NEW t \in 1..N PROVE Has(t) \in Nat
  BY <1>2, FitsHasNodes, UnboundedAssumption DEF Has, Guint
<1>3. ASSUME NEW t \in 1..N
      PROVE  Part(t) \in Seq(S) /\ Len(Part(t)) = Has(t) /\ \A i \in 1..Has(t) : Part(t)[i] = <<t, i - 1>>
  <2>1. Has(t) \in Nat
    BY <1>2
  <2>2. \A n \in 1..Has(t) : <<t, n - 1>> \in S
    BY <2>1
  <2>. HIDE DEF S, N
  <2>. QED
    BY <2>1, <2>2 DEF Part
<1>4. AllNodes = FlattenSeq(parts)
  <2>1. ASSUME NEW t \in 1..N
        PROVE  Part(t) = IF Fits(t) THEN [n \in 1..Found(t) |-> <<t, n - 1>>] ELSE <<>>
    <3>1. CASE Fits(t)
      <4>1. Has(t) = Found(t)
        BY <3>1 DEF Has
      <4>. QED
        BY <3>1, <4>1 DEF Part
    <3>2. CASE ~Fits(t)
      <4>1. Has(t) = 0 /\ 1..0 = {}
        BY <3>2 DEF Has
      <4>. QED
        BY <3>2, <4>1 DEF Part
    <3>. QED
      BY <3>1, <3>2
  <2>. QED
    BY <2>1 DEF AllNodes
<1>5. parts \in [1..N -> Seq(S)]
  <2>. HIDE DEF S, N
  <2>. QED
    BY <1>3
<1>. HIDE DEF S
<1>6. PICK g \in [0..N -> Seq(S)] : Concats(parts, N, g) /\ FlattenSeq(parts) = g[N]
  <2>. HIDE DEF parts, N
  <2>. QED
    BY <1>1, <1>5, Flatten
<1> DEFINE c == [t \in 0..N |-> Len(g[t])]
<1>7. \A j \in 0..N : Len(g[j]) <= Len(g[N]) /\ \A i \in 1..Len(g[j]) : g[N][i] = g[j][i]
  <2>. HIDE DEF parts, N
  <2>. QED
    BY <1>1, <1>5, <1>6, ConcatsGrow, Zenon
<1>8. g[0] = <<>> /\ N \in 0..N /\ 0 \in 0..N
  BY <1>1, <1>6 DEF Concats
<1>9. ASSUME NEW t \in 1..N
      PROVE  /\ c[t] = c[t - 1] + Has(t)
             /\ c[t] <= c[N]
             /\ \A n \in 0..Has(t) - 1 : g[N][c[t - 1] + n + 1] = <<t, n>>
  <2>1. g[t] = g[t - 1] \o Part(t)
    <3>1. g[t] = g[t - 1] \o parts[t]
      <4>. HIDE DEF parts
      <4>. QED
        BY <1>6, Zenon DEF Concats
    <3>. QED
      BY <3>1
  <2>2. t - 1 \in 0..N /\ t \in 0..N /\ g[t - 1] \in Seq(S) /\ g[t] \in Seq(S)
    BY <1>1
  <2>3. Part(t) \in Seq(S) /\ Len(Part(t)) = Has(t) /\ Has(t) \in Nat
    BY <1>2, <1>3
  <2>4. /\ Len(g[t - 1]) \in Nat /\ Len(g[t]) = Len(g[t - 1]) + Has(t)
        /\ \A i \in 1..Len(g[t - 1]) + Has(t) :
              g[t][i] = IF i <= Len(g[t - 1]) THEN g[t - 1][i] ELSE Part(t)[i - Len(g[t - 1])]
    <3> DEFINE before == g[t - 1]
    <3>1. before \in Seq(S) /\ g[t] = before \o Part(t)
      BY <2>1, <2>2
    <3>. HIDE DEF before
    <3>2. /\ Len(before) \in Nat /\ Len(g[t]) = Len(before) + Has(t)
          /\ \A i \in 1..Len(before) + Has(t) :
                g[t][i] = IF i <= Len(before) THEN before[i] ELSE Part(t)[i - Len(before)]
      BY <2>3, <3>1, ConcatProperties, LenProperties
    <3>. QED
      BY <3>2 DEF before
  <2>5. c[t] = Len(g[t]) /\ c[t - 1] = Len(g[t - 1]) /\ c[N] = Len(g[N])
    BY <1>8, <2>2
  <2>6. ASSUME NEW n \in 0..Has(t) - 1 PROVE g[N][c[t - 1] + n + 1] = <<t, n>>
    <3> DEFINE L == Len(g[t - 1])
               H == Has(t)
               i == L + n + 1
    <3>1. /\ i \in 1..L + H /\ i \in 1..Len(g[t]) /\ ~(i <= L) /\ i - L = n + 1
          /\ n + 1 \in 1..H
      <4>1. L \in Nat /\ H \in Nat /\ Len(g[t]) = L + H /\ n \in 0..H - 1
        BY <2>3, <2>4
      <4>. HIDE DEF L, H
      <4>. QED
        BY <4>1
    <3>2. g[t][i] = Part(t)[n + 1]
      <4>. HIDE DEF i
      <4>1. \A k \in 1..L + H : g[t][k] = IF k <= L THEN g[t - 1][k] ELSE Part(t)[k - L]
        BY <2>4
      <4>. HIDE DEF L, H
      <4>. QED
        BY <3>1, <4>1
    <3>3. Part(t)[n + 1] = <<t, n>>
      BY <1>3, <3>1
    <3>. HIDE DEF i
    <3>4. g[N][i] = g[t][i]
      BY <1>7, <2>2, <3>1
    <3>. QED
      BY <2>5, <3>2, <3>3, <3>4 DEF i
  <2>. QED
    BY <1>7, <2>2, <2>4, <2>5, <2>6
<1>10. c \in [0..N -> Nat] /\ c[0] = 0 /\ Len(g[N]) = c[N]
  BY <1>8, LenProperties
<1>11. Offsets(c)
  <2>. HIDE DEF c, parts
  <2>. QED
    BY <1>4, <1>6, <1>9, <1>10 DEF Offsets
<1>12. AllNodes \in Seq(S)
  BY <1>4, <1>6, <1>8
<1>. QED
  BY <1>11, <1>12 DEF S

-----------------------------------------------------------------------------
(* What is built is a part of the whole result.                            *)

(* The whole result can be counted in a guint.                             *)
NoWrap == Len(AllNodes) <= Unbounded

(* Where the nodes of the matching templates end in the whole result.      *)
EndOf(c, m, p) == IF p = 0 THEN 0 ELSE c[m[p]]

(* Between one matching template and the next there is no node.            *)
Linked(c) ==
    /\ \A p \in 1..Len(matching) :
        Fits(matching[p]) /\ c[matching[p] - 1] = EndOf(c, matching, p - 1)
    /\ EndOf(c, matching, Len(matching)) = c[tested]

(* What the scan counted, and what is left of it once skip is taken off.   *)
Counted(c) ==
    /\ step = "scan" => total = c[tested]
    /\ step # "scan" /\ call.skip + Count <= Unbounded =>
          tested = Len(templates) \/ c[tested] >= call.skip + Count
    /\ step = "nothing" => c[tested] <= call.skip /\ items = <<>>
    /\ step \in {"build", "built"} =>
          c[tested] > call.skip /\ total = MinOf(c[tested] - call.skip, Count)

(* What is built is the result from skip on, and the next node follows it. *)
Built(c) ==
    /\ step \in {"build", "built"} =>
          \A i \in 1..Len(items) : items[i] = AllNodes[call.skip + i]
    /\ step = "build" /\ pending > 0 =>
          EndOf(c, matching, place - 1) + node = call.skip + Len(items)

Cut(c) == Linked(c) /\ Counted(c) /\ Built(c)

CutInv == NoWrap => \A c : Offsets(c) => Cut(c)

(* The numbers of an invariant state.                                      *)
LEMMA CutNumbers ==
  ASSUME IInv, NoWrap, NEW c, Offsets(c)
  PROVE  /\ Len(templates) \in Nat /\ Len(matching) \in Nat /\ tested \in 0..Len(templates)
         /\ \A t \in 0..Len(templates) : c[t] \in Nat /\ c[t] <= c[Len(templates)]
         /\ c[Len(templates)] <= Unbounded /\ c[Len(templates)] = Len(AllNodes)
         /\ \A p \in 1..Len(matching) : matching[p] \in 1..Len(templates)
         /\ \A p \in 0..Len(matching) : EndOf(c, matching, p) \in Nat
         /\ Count \in Nat /\ Count > 0 /\ call.skip \in Nat /\ Unbounded \in Nat
         /\ total \in Nat /\ node \in Nat /\ pending \in Nat /\ skip \in Nat
         /\ Len(items) \in Nat
<1>1. TypeOK /\ Given
  BY DEF IInv
<1>2. /\ Len(templates) \in Nat /\ matching \in Seq(1..Len(templates)) /\ Len(matching) \in Nat
      /\ Count \in 1..Unbounded /\ call.skip \in Guint
  BY <1>1, SourceIsASequence, CountIsPositive, CallsAssumption DEF Given, Guint
<1>3. tested \in 0..Len(templates) /\ \A p \in 1..Len(matching) : matching[p] \in 1..Len(templates)
  BY <1>1, <1>2 DEF Given
<1>4. \A t \in 0..Len(templates) : c[t] \in Nat /\ c[t] <= c[Len(templates)]
  BY <1>2 DEF Offsets
<1>5. c[Len(templates)] = Len(AllNodes)
  BY DEF Offsets
<1>6. \A p \in 0..Len(matching) : EndOf(c, matching, p) \in Nat
  BY <1>2, <1>3, <1>4 DEF EndOf
<1>7. {total, node, pending, skip} \subseteq Guint /\ Len(items) \in Nat
  BY <1>1 DEF TypeOK, Guint
<1>. QED
  BY <1>2, <1>3, <1>4, <1>5, <1>6, <1>7, UnboundedAssumption DEF Guint, NoWrap

(* The whole result is that of the call, whatever the step.                *)
LEMMA SameResult ==
  ASSUME UNCHANGED <<call, templates>>
  PROVE  /\ AllNodes' = AllNodes /\ NoWrap' = NoWrap /\ Count' = Count
         /\ \A t : Fits(t)' = Fits(t) /\ Found(t)' = Found(t)
         /\ \A c : Offsets(c)' = Offsets(c)
<1>1. \A t : Fits(t)' = Fits(t) /\ Found(t)' = Found(t)
  BY DEF Fits, Found
<1>2. AllNodes' = AllNodes
  BY DEF AllNodes, Fits, Found
<1>3. \A t : Has(t)' = Has(t)
  BY <1>1 DEF Has
<1>4. \A c : Offsets(c)' = Offsets(c)
  BY <1>2, <1>3 DEF Offsets
<1>5. Count' = Count
  BY DEF Count
<1>. QED
  BY <1>1, <1>2, <1>4, <1>5 DEF NoWrap

(* Before the scan there is nothing to count.                              *)
LEMMA InitCut == IInv /\ Init => CutInv
<1>. SUFFICES ASSUME IInv, Init, NoWrap, NEW c, Offsets(c) PROVE Cut(c)
  BY DEF CutInv
<1>1. step = "scan" /\ total = 0 /\ tested = 0 /\ matching = <<>> /\ c[0] = 0
  BY DEF Init, Offsets
<1>2. Linked(c)
  BY <1>1 DEF Linked, EndOf
<1>. QED
  BY <1>1, <1>2 DEF Cut, Counted, Built

(* TestTemplate keeps the cut.                                             *)
LEMMA TestTemplateCut ==
  ASSUME IInv, TestTemplate, NoWrap, NEW c, Offsets(c), Cut(c)
  PROVE  Cut(c)'
<1>1. /\ step = "scan" /\ tested < Len(templates) /\ tested' = tested + 1
      /\ UNCHANGED <<call, templates, step, place, node, skip, pending, items>>
  BY DEF TestTemplate, Scanning
<1>2. Linked(c) /\ total = c[tested]
  BY <1>1 DEF Cut, Counted
<1> DEFINE t == tested + 1
           L == Len(matching)
           N == Len(templates)
<1>3. /\ N \in Nat /\ L \in Nat /\ t \in 1..N /\ t - 1 = tested
      /\ \A k \in 0..N : c[k] \in Nat /\ c[k] <= c[N]
      /\ c[N] <= Unbounded /\ matching \in Seq(1..N)
      /\ \A p \in 1..L : matching[p] \in 1..N
  BY <1>1, CutNumbers DEF IInv, Given
<1>4. c[t] = c[tested] + Has(t) /\ c[t] \in Nat /\ c[t] <= Unbounded /\ c[tested] \in Nat
  <2>1. t \in 0..N /\ tested \in 0..N
    BY <1>3
  <2>2. c[t] = c[tested] + Has(t)
    BY <1>3 DEF Offsets
  <2>. HIDE DEF t, N
  <2>3. c[t] \in Nat /\ c[t] <= c[N] /\ c[tested] \in Nat
    BY <1>3, <2>1
  <2>4. c[N] \in Nat /\ Unbounded \in Nat
    BY <1>3, UnboundedAssumption
  <2>. QED
    BY <1>3, <2>2, <2>3, <2>4
<1>5. \A k : Fits(k)' = Fits(k)
  BY <1>1, SameResult
<1>. HIDE DEF N
<1>6. Linked(c)' /\ total' = c[t]
  <2>1. CASE Fits(t)
    <3>1. matching' = Append(matching, t) /\ total' = Plus(total, Found(t)) /\ Has(t) = Found(t)
      BY <2>1 DEF TestTemplate, Has
    <3>. HIDE DEF t
    <3>2. Len(matching') = L + 1 /\ matching'[L + 1] = t /\ \A p \in 1..L : matching'[p] = matching[p]
      BY <1>3, <3>1
    <3>. HIDE DEF L
    <3>3. total' = c[t]
      BY <1>2, <1>4, <3>1 DEF Plus
    <3>4. \A p \in 0..L : EndOf(c, matching', p) = EndOf(c, matching, p)
      BY <1>3, <3>2 DEF EndOf
    <3>5. EndOf(c, matching', L + 1) = c[t]
      BY <1>3, <3>2 DEF EndOf
    <3>6. ASSUME NEW p \in 1..L + 1
          PROVE  Fits(matching'[p]) /\ c[matching'[p] - 1] = EndOf(c, matching', p - 1)
      <4>1. CASE p = L + 1
        <5>1. p - 1 = L /\ L \in 0..L
          BY <1>3, <4>1
        <5>2. EndOf(c, matching, L) = c[tested]
          BY <1>2 DEF Linked, L
        <5>. QED
          BY <1>3, <2>1, <3>2, <3>4, <4>1, <5>1, <5>2
      <4>2. CASE p # L + 1
        <5>1. p \in 1..L /\ p - 1 \in 0..L
          BY <1>3, <4>2
        <5>. QED
          BY <1>2, <3>2, <3>4, <5>1 DEF Linked, L
      <4>. QED
        BY <4>1, <4>2
    <3>7. EndOf(c, matching', L + 1) = c[tested']
      <4>1. tested' = t
        BY <1>1 DEF t
      <4>. QED
        BY <3>5, <4>1
    <3>8. \A p \in 1..Len(matching') :
            Fits(matching'[p]) /\ c[matching'[p] - 1] = EndOf(c, matching', p - 1)
      BY <3>2, <3>6
    <3>9. EndOf(c, matching', Len(matching')) = c[tested']
      BY <3>2, <3>7
    <3>. QED
      BY <1>1, <3>3, <3>8, <3>9 DEF Linked, Fits, Found
  <2>2. CASE ~Fits(t)
    <3>1. matching' = matching /\ total' = total /\ Has(t) = 0 /\ c[tested'] = c[tested]
      BY <1>1, <1>4, <2>2 DEF TestTemplate, Has
    <3>. QED
      BY <1>2, <1>4, <1>5, <3>1 DEF Linked, EndOf
  <2>. QED
    BY <2>1, <2>2
<1>. QED
  BY <1>1, <1>6 DEF Cut, Counted, Built

(* The end of the scan, without a result, keeps the cut; so does its end   *)
(* with some.                                                              *)
LEMMA EndOfScanCut ==
  ASSUME IInv, NoResults \/ SkipResults, NoWrap, NEW c, Offsets(c), Cut(c)
  PROVE  Cut(c)'
<1>1. /\ step = "scan" /\ ~Scanning
      /\ UNCHANGED <<call, templates, tested, matching, place, items>>
  BY DEF NoResults, SkipResults
<1>2. Linked(c) /\ total = c[tested] /\ place = 1 /\ items = <<>>
  BY <1>1 DEF Cut, Counted, IInv
<1>3. Count' = Count /\ AllNodes' = AllNodes /\ \A k : Fits(k)' = Fits(k)
  BY <1>1, SameResult
<1>4. Linked(c)'
  BY <1>1, <1>2, <1>3 DEF Linked, EndOf
<1>5. /\ Len(templates) \in Nat /\ tested \in 0..Len(templates) /\ c[tested] \in Nat
      /\ Count \in Nat /\ Count > 0 /\ call.skip \in Nat /\ Unbounded \in Nat /\ Len(items) = 0
  BY <1>2, CutNumbers
<1>6. call.skip + Count <= Unbounded => tested = Len(templates) \/ c[tested] >= call.skip + Count
  BY <1>1, <1>2, <1>5 DEF Scanning, Plus
<1>7. CASE NoResults
  <2>1. step' = "nothing" /\ total <= call.skip
    BY <1>7 DEF NoResults, NoMore
  <2>2. Counted(c)'
    BY <1>1, <1>2, <1>3, <1>6, <2>1 DEF Counted
  <2>. QED
    BY <1>4, <2>1, <2>2 DEF Cut, Built
<1>8. CASE SkipResults
  <2>1. ~(total <= call.skip) /\ total' = Window
    BY <1>8 DEF SkipResults, NoMore
  <2>2. Window = MinOf(c[tested] - call.skip, Count) /\ Window # 0
    BY <1>2, <1>5, <2>1 DEF Window, MinOf
  <2>3. step' = "build" /\ node' = call.skip
    BY <1>8, <2>1, <2>2 DEF SkipResults
  <2>4. Counted(c)'
    BY <1>1, <1>2, <1>3, <1>5, <1>6, <2>1, <2>2, <2>3 DEF Counted
  <2>5. Built(c)'
    BY <1>1, <1>2, <1>5, <2>3 DEF Built, EndOf
  <2>. QED
    BY <1>4, <2>4, <2>5 DEF Cut
<1>. QED
  BY <1>7, <1>8

(* BuildItem takes the next node of the whole result.                      *)
LEMMA BuildItemCut ==
  ASSUME IInv, BuildItem, NoWrap, NEW c, Offsets(c), Cut(c)
  PROVE  Cut(c)'
<1> DEFINE m == matching[place]
           L == Len(items)
<1>1. /\ step = "build" /\ pending > 0 /\ node < Found(m)
      /\ items' = Append(items, <<m, node>>)
      /\ node' = node + 1 /\ pending' = pending - 1
      /\ UNCHANGED <<call, templates, tested, matching, total, step, place, skip>>
  BY DEF BuildItem, InTemplate
<1>2. Count' = Count /\ AllNodes' = AllNodes /\ \A k : Fits(k)' = Fits(k)
  BY <1>1, SameResult
<1>3. Linked(c)' /\ Counted(c)'
  BY <1>1, <1>2 DEF Cut, Linked, Counted, EndOf
<1>4. place \in 1..Len(matching) /\ m \in 1..Len(templates)
  BY <1>1, CutNumbers DEF IInv, Building
<1>5. c[m - 1] = EndOf(c, matching, place - 1) /\ Fits(m) /\ Has(m) = Found(m)
  BY <1>4 DEF Cut, Linked, Has
<1>6. c[m - 1] + node = call.skip + L
  BY <1>1, <1>5 DEF Cut, Built
<1>7. node \in 0..Has(m) - 1
  <2>1. Found(m) \in Guint /\ node \in Nat
    BY <1>4, <1>5, FitsHasNodes, CutNumbers DEF IInv, Given
  <2>. QED
    BY <1>1, <1>5, <2>1, UnboundedAssumption DEF Guint
<1>8. AllNodes[c[m - 1] + node + 1] = <<m, node>>
  BY <1>4, <1>7 DEF Offsets
<1>9. L \in Nat /\ call.skip \in Nat /\ EndOf(c, matching, place - 1) \in Nat /\ node \in Nat
  BY <1>4, CutNumbers
<1>10. Len(items') = L + 1 /\ items'[L + 1] = <<m, node>> /\ \A i \in 1..L : items'[i] = items[i]
  <2>1. items \in Seq((1..Len(templates)) \X (0..Unbounded))
    BY DEF IInv, TypeOK
  <2>2. <<m, node>> \in (1..Len(templates)) \X (0..Unbounded)
    BY <1>4 DEF IInv, TypeOK
  <2>. QED
    BY <1>1, <2>1, <2>2, AppendProperties
<1>. HIDE DEF m, L
<1>11. AllNodes[call.skip + (L + 1)] = <<m, node>>
  <2>1. c[m - 1] + node + 1 = call.skip + (L + 1)
    BY <1>5, <1>6, <1>9
  <2>. QED
    BY <1>8, <2>1
<1>12. \A i \in 1..L : items[i] = AllNodes[call.skip + i]
  BY <1>1 DEF Cut, Built, L
<1>13. \A i \in 1..L + 1 : items'[i] = AllNodes[call.skip + i]
  BY <1>9, <1>10, <1>11, <1>12
<1>14. EndOf(c, matching', place - 1) + node' = call.skip + (L + 1)
  <2>1. EndOf(c, matching', place - 1) = EndOf(c, matching, place - 1)
    BY <1>1 DEF EndOf
  <2> DEFINE e == c[m - 1]
  <2>2. e + node = call.skip + L /\ e \in Nat /\ EndOf(c, matching', place - 1) = e
    BY <1>5, <1>6, <1>9, <2>1
  <2>. HIDE DEF e
  <2>3. node' = node + 1
    BY <1>1
  <2>4. L \in Nat /\ call.skip \in Nat /\ node \in Nat
    BY <1>9
  <2>5. e + (node + 1) = call.skip + (L + 1)
    BY <2>2, <2>4
  <2>. QED
    BY <2>2, <2>3, <2>5
<1>15. Built(c)'
  BY <1>1, <1>2, <1>10, <1>13, <1>14 DEF Built
<1>. QED
  BY <1>3, <1>15 DEF Cut

(* NextTemplate goes to the next node that has one.                        *)
LEMMA NextTemplateCut ==
  ASSUME IInv, NextTemplate, NoWrap, NEW c, Offsets(c), Cut(c)
  PROVE  Cut(c)'
<1> DEFINE m == matching[place]
<1>1. /\ step = "build" /\ ~(pending > 0 /\ node < Found(m))
      /\ node' = SkipLeft /\ place' = place + 1
      /\ step' = IF pending = 0 THEN "built" ELSE "build"
      /\ UNCHANGED <<call, templates, tested, matching, total, pending, items>>
  BY DEF NextTemplate, InTemplate
<1>2. Count' = Count /\ AllNodes' = AllNodes /\ \A k : Fits(k)' = Fits(k)
  BY <1>1, SameResult
<1>3. Linked(c)' /\ Counted(c)'
  BY <1>1, <1>2 DEF Cut, Linked, Counted, EndOf
<1>4. \A i \in 1..Len(items') : items'[i] = AllNodes'[call'.skip + i]
  BY <1>1, <1>2 DEF Cut, Built
<1>5. ASSUME pending > 0 PROVE EndOf(c, matching', place) + SkipLeft = call.skip + Len(items)
  <2>1. place \in 1..Len(matching) /\ m \in 1..Len(templates)
    BY <1>1, CutNumbers DEF IInv, Building
  <2>2. c[m - 1] = EndOf(c, matching, place - 1) /\ Fits(m) /\ Has(m) = Found(m)
    BY <2>1 DEF Cut, Linked, Has
  <2>3. Found(m) \in Nat /\ node \in Nat /\ skip \in Nat /\ c[m - 1] \in Nat
    <3>1. Found(m) \in Guint
      BY <2>1, <2>2, FitsHasNodes DEF IInv, Given
    <3>. QED
      BY <2>1, <2>2, <3>1, CutNumbers, UnboundedAssumption DEF Guint
  <2>4. node >= Found(m)
    BY <1>1, <1>5, <2>3
  <2>5. node = skip \/ (skip <= node /\ node <= Found(m))
    <3>1. Nodes[m] = Found(m)
      BY <2>1 DEF Nodes
    <3>. QED
      BY <1>1, <3>1 DEF IInv, Building
  <2>6. SkipLeft = node - Found(m)
    BY <2>3, <2>4, <2>5 DEF SkipLeft, MinOf
  <2>7. c[m] = c[m - 1] + Found(m)
    BY <2>1, <2>2 DEF Offsets
  <2>8. EndOf(c, matching', place) = c[m]
    BY <1>1, <2>1 DEF EndOf
  <2>9. c[m - 1] + node = call.skip + Len(items)
    BY <1>1, <1>5, <2>2 DEF Cut, Built
  <2>. HIDE DEF m
  <2>. QED
    BY <2>3, <2>6, <2>7, <2>8, <2>9
<1>6. Built(c)'
  <2>1. place' - 1 = place
    BY <1>1 DEF IInv, TypeOK
  <2>. QED
    BY <1>1, <1>4, <1>5, <2>1 DEF Built
<1>. QED
  BY <1>3, <1>6 DEF Cut

(* Every step keeps the cut.                                               *)
LEMMA NextCut == IInv /\ CutInv /\ [Next]_vars => CutInv'
<1>. SUFFICES ASSUME IInv, CutInv, [Next]_vars PROVE CutInv'
  OBVIOUS
<1>1. UNCHANGED <<call, templates>>
  BY DEF Next, vars, TestTemplate, NoResults, SkipResults, BuildItem, NextTemplate, Done
<1>2. SUFFICES ASSUME NoWrap', NEW c, Offsets(c)' PROVE Cut(c)'
  BY DEF CutInv
<1>3. NoWrap /\ Offsets(c)
  BY <1>1, <1>2, SameResult
<1>4. Cut(c)
  BY <1>3 DEF CutInv
<1>5. CASE UNCHANGED vars
  <2>1. Count' = Count /\ AllNodes' = AllNodes /\ \A k : Fits(k)' = Fits(k)
    BY <1>1, SameResult
  <2>. QED
    BY <1>4, <1>5, <2>1 DEF vars, Cut, Linked, Counted, Built, EndOf
<1>6. CASE Done
  BY <1>5, <1>6 DEF Done
<1>. QED
  BY <1>3, <1>4, <1>5, <1>6, TestTemplateCut, EndOfScanCut, BuildItemCut, NextTemplateCut DEF Next

(* What a call gets is the window it asked for.                            *)
LEMMA CutIsSlice == IInv /\ CutInv /\ NoWrap => WindowIsSlice
<1>. SUFFICES ASSUME IInv, CutInv, NoWrap, step \in {"nothing", "built"},
                     call.skip + Count <= Unbounded
              PROVE  /\ items = SubSeq(AllNodes, call.skip + 1,
                                       MinOf(call.skip + Count, Len(AllNodes)))
                     /\ step = "nothing" <=> Len(AllNodes) <= call.skip
  BY DEF WindowIsSlice
<1> DEFINE N == Len(AllNodes)
           S == (1..Len(templates)) \X Nat
           k == call.skip
           last == MinOf(k + Count, N)
<1>1. AllNodes \in Seq(S)
  BY AllNodesHasOffsets DEF IInv, Given
<1>2. PICK c : Offsets(c)
  BY AllNodesHasOffsets DEF IInv, Given
<1>3. Cut(c)
  BY <1>2 DEF CutInv
<1>4. /\ c[Len(templates)] = N /\ N \in Nat /\ c[tested] \in Nat /\ c[tested] <= N
      /\ Count \in Nat /\ Count > 0 /\ k \in Nat /\ Len(items) \in Nat
  BY <1>1, <1>2, CutNumbers
<1>5. tested = Len(templates) \/ c[tested] >= k + Count
  BY <1>3 DEF Cut, Counted
<1>6. items \in Seq(S)
  <2>1. (1..Len(templates)) \X (0..Unbounded) \subseteq S
    BY UnboundedAssumption
  <2>2. items \in Seq((1..Len(templates)) \X (0..Unbounded))
    BY DEF IInv, TypeOK
  <2>. HIDE DEF S
  <2>. QED
    BY <2>1, <2>2
<1>7. step = "nothing" <=> N <= k
  <2>1. CASE step = "nothing"
    <3>1. c[tested] <= k
      BY <1>3, <2>1 DEF Cut, Counted
    <3>. QED
      BY <1>4, <1>5, <2>1, <3>1
  <2>2. CASE step = "built"
    <3>1. c[tested] > k
      BY <1>3, <2>2 DEF Cut, Counted
    <3>. QED
      BY <1>4, <2>2, <3>1
  <2>. QED
    BY <2>1, <2>2
<1>8. \A i \in 1..Len(items) : items[i] = AllNodes[k + i]
  <2>1. CASE step = "nothing"
    BY <1>3, <2>1 DEF Cut, Counted
  <2>2. CASE step = "built"
    BY <1>3, <2>2 DEF Cut, Built
  <2>. QED
    BY <2>1, <2>2
<1>9. Len(items) = (IF k + 1 <= last THEN last - k ELSE 0) /\ last \in 0..N
  <2>1. CASE step = "nothing"
    <3>1. Len(items) = 0 /\ N <= k
      BY <1>3, <1>7, <2>1 DEF Cut, Counted
    <3>. HIDE DEF N, k
    <3>. QED
      BY <1>4, <3>1 DEF MinOf
  <2>2. CASE step = "built"
    <3>1. Len(items) = MinOf(c[tested] - k, Count) /\ c[tested] > k
      BY <1>3, <2>2 DEF Cut, Counted, IInv
    <3>2. c[tested] = N \/ c[tested] >= k + Count
      BY <1>4, <1>5
    <3>. HIDE DEF N, k
    <3>. QED
      BY <1>4, <3>1, <3>2 DEF MinOf
  <2>. QED
    BY <2>1, <2>2
<1>10. items = SubSeq(AllNodes, k + 1, last)
  <2>. HIDE DEF N, k, last, S
  <2>1. SubSeq(AllNodes, k + 1, last) = [i \in 1..(last - (k + 1) + 1) |-> AllNodes[i + (k + 1) - 1]]
    BY <1>1, <1>4, <1>9
  <2>2. last \in Nat /\ 1..(last - (k + 1) + 1) = 1..Len(items)
    BY <1>4, <1>9
  <2>3. \A i \in 1..Len(items) : i + (k + 1) - 1 = k + i
    BY <1>4
  <2>4. items = [i \in 1..Len(items) |-> items[i]]
    BY <1>6
  <2>5. [i \in 1..Len(items) |-> items[i]] = [i \in 1..Len(items) |-> AllNodes[i + (k + 1) - 1]]
    BY <1>8, <2>3
  <2>. QED
    BY <2>1, <2>2, <2>4, <2>5, Zenon
<1>. QED
  BY <1>7, <1>10

(* The call gets its window of the whole result: the nodes of the          *)
(* templates that match the query, in order, without the first skip of     *)
(* them and no more than count; and it is told "there are no more          *)
(* elements" exactly when that is empty.  The whole result must be one     *)
(* that total_results can count.                                           *)
THEOREM SliceOfTheResult == Spec => [](NoWrap => WindowIsSlice)
<1>1. Spec => []CutInv
  BY InitIInv, InitCut, NextIInv, NextCut, PTL DEF Spec
<1>2. IInv /\ CutInv => (NoWrap => WindowIsSlice)
  BY CutIsSlice
<1>. QED
  BY <1>1, <1>2, Invariance, PTL
=============================================================================
