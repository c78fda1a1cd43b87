------------------------ MODULE OperationSelectProofs ------------------------
(***************************************************************************)
(* Proofs about OperationSelect, for any requests, any operations and any  *)
(* number of them.                                                         *)
(***************************************************************************)
EXTENDS OperationSelect, TLAPS

R(j) == Operation.requirements[j]

(* The operation is one the request may use at all.                        *)
IsFor(o) == MayResolve => o.key \in {NoKey, request.key}
Allowed(o) == IsFor(o) /\ (MayResolve /\ Media # NoMedia => o.any \/ Media.own)

(* What the loop knows of the requirements before `test`: those the media  *)
(* does not meet are missing, and none is refuted.                         *)
TestedSoFar ==
    /\ test <= Len(Operation.requirements) + 1
    /\ \A j \in 1..(test - 1) : Meets(R(j)) \/ (MayResolve /\ ~Refutes(R(j)))
    /\ missing = {R(j).key : j \in {j \in 1..(test - 1) : ~Meets(R(j))}}

(* The missing keys are all those of this operation, and can still decide. *)
Open ==
    /\ MayResolve
    /\ missing = {r.key : r \in {r \in Requirements(Operation) : ~Meets(r)}}
    /\ \A r \in Requirements(Operation) : ~Refutes(r)

(* No operation before `at` that the request may use fits.                 *)
Passed == \A i \in 1..(at - 1) : IsFor(operations[i]) => ~Fits(operations[i])

SelInv ==
    /\ TypeOK
    /\ Passed
    /\ step \in {"start", "next"} => missing = {}
    /\ step = "test" =>
          /\ Allowed(Operation)
          /\ Media # NoMedia => Media.type \in Operation.types
          /\ TestedSoFar
    /\ step \in {"matches", "yes"} => Allowed(Operation) /\ Fits(Operation)
    /\ step = "fails" => IF missing = {} THEN ~Fits(Operation) ELSE Open
    /\ step = "no" => /\ ~MayResolve => at = Len(operations) + 1
                      /\ missing # {} => at <= Len(operations) /\ Open

-----------------------------------------------------------------------------
(* What the assumptions say of the operation and requirement in turn.      *)
LEMMA Shapes ==
  ASSUME TypeOK
  PROVE  /\ at \in Nat \ {0} /\ test \in Nat \ {0} /\ Len(operations) \in Nat
         /\ ~MayResolve => Media # NoMedia
         /\ at <= Len(operations) =>
               /\ Operation \in Operations
               /\ Len(Operation.requirements) \in Nat
               /\ DOMAIN Operation.requirements = 1..Len(Operation.requirements)
               /\ \A j \in 1..Len(Operation.requirements) : R(j).regexp \in BOOLEAN
<1>1. at \in Nat \ {0} /\ test \in Nat \ {0} /\ Len(operations) \in Nat
  BY DEF TypeOK
<1>2. ~MayResolve => Media # NoMedia
  BY RequestsAssumption DEF TypeOK, MayResolve, Media
<1>3. ASSUME at <= Len(operations)
      PROVE  /\ Operation \in Operations
             /\ Len(Operation.requirements) \in Nat
             /\ DOMAIN Operation.requirements = 1..Len(Operation.requirements)
             /\ \A j \in 1..Len(Operation.requirements) : R(j).regexp \in BOOLEAN
  <2>1. Operation \in Operations
    BY <1>1, <1>3 DEF TypeOK, Operation
  <2>2. Operation.requirements
            \in Seq({Operation.requirements[i] : i \in DOMAIN Operation.requirements})
    BY <2>1, OperationsAssumption
  <2>3. /\ Len(Operation.requirements) \in Nat
        /\ DOMAIN Operation.requirements = 1..Len(Operation.requirements)
    BY <2>2
  <2>4. QED
    BY <2>1, <2>3, OperationsAssumption DEF R
<1>4. QED
  BY <1>1, <1>2, <1>3

(* A requirement that is not known is neither met nor refuted.             *)
LEMMA Verdicts ==
  /\ Testing /\ ~Known => ~Meets(Requirement) /\ ~Refutes(Requirement)
  /\ Testing /\ Known /\ (Requirement.regexp => Matches(Requirement)) => Meets(Requirement)
  /\ Testing /\ Known /\ Requirement.regexp /\ ~Matches(Requirement) => ~Meets(Requirement)
  /\ Requirement = R(test)
BY DEF Testing, Known, Meets, Refutes, Matches, Requirement, R

(* What does not change keeps its meaning.                                 *)
LEMMA Constant ==
  ASSUME UNCHANGED <<request, operations>>
  PROVE  /\ MayResolve' = MayResolve /\ Media' = Media
         /\ \A r : Meets(r)' = Meets(r) /\ Refutes(r)' = Refutes(r)
         /\ \A o : /\ Fits(o)' = Fits(o) /\ IsFor(o)' = IsFor(o)
                   /\ Allowed(o)' = Allowed(o)
BY DEF MayResolve, Media, Meets, Refutes, Matches, Value, Fits, Requirements, IsFor,
       Allowed

(* It holds when the selection starts.                                     *)
LEMMA InitSelInv == Init => SelInv
<1> SUFFICES ASSUME Init PROVE SelInv
  OBVIOUS
<1>1. operations \in Seq(Operations) /\ Len(operations) \in Nat
  BY MaxOperationsAssumption DEF Init
<1>2. QED
  BY <1>1 DEF Init, SelInv, TypeOK, Steps, Passed

-----------------------------------------------------------------------------
(* One step of the list of operations.                                     *)
LEMMA ListStep ==
  ASSUME SelInv,
         Start \/ NoneLeft \/ Skip \/ Refuse \/ TryOperation
  PROVE  SelInv'
<1> USE Constant, Shapes DEF SelInv
<1>1. CASE Start
  BY <1>1 DEF Start, Go, TypeOK, Steps, Passed, MayResolve
<1>2. CASE NoneLeft
  BY <1>2 DEF NoneLeft, Go, TypeOK, Steps, Passed
<1>3. CASE Skip
  BY <1>3 DEF Skip, OtherKey, TypeOK, Steps, Passed, IsFor, Operation
<1>4. CASE Refuse
  BY <1>4 DEF Refuse, Foreign, Go, TypeOK, Steps, Passed
<1>5. CASE TryOperation
  BY <1>5 DEF TryOperation, OtherKey, Foreign, TypeOK, Steps, Passed, IsFor, Allowed,
              Operation, TestedSoFar, Fits
<1>6. QED
  BY <1>1, <1>2, <1>3, <1>4, <1>5

(* One step of the loop over the requirements of an operation.             *)
LEMMA LoopStep ==
  ASSUME SelInv,
         Unknown \/ Met \/ Refuted \/ AllTested
  PROVE  SelInv'
<1>1. /\ UNCHANGED <<request, operations, at>> /\ step = "test" /\ TypeOK
      /\ at <= Len(operations)
      /\ Operation' = Operation /\ \A j : R(j)' = R(j)
      /\ Passed'
  BY Constant DEF SelInv, Unknown, Met, Refuted, AllTested, Testing, Go, TypeOK, Passed,
                  Operation, R
<1>2. /\ Allowed(Operation) /\ TestedSoFar
      /\ Media # NoMedia => Media.type \in Operation.types
  BY <1>1 DEF SelInv
<1> DEFINE Reqs == Operation.requirements
<1>3. Requirements(Operation) = {R(j) : j \in 1..Len(Reqs)}
  BY <1>1, Shapes DEF Requirements, R
<1>4. ASSUME step' = "test", test' = test + 1, Testing,
             \/ Meets(R(test)) /\ missing' = missing
             \/ /\ ~Meets(R(test)) /\ MayResolve /\ ~Refutes(R(test))
                /\ missing' = missing \cup {R(test).key}
      PROVE  SelInv'
  <2>1. TestedSoFar'
    <3>1. test \in Nat \ {0} /\ test <= Len(Reqs) /\ Len(Reqs) \in Nat
      BY <1>1, <1>4, Shapes DEF Testing
    <3>2. (1..(test - 1))' = (1..(test - 1)) \cup {test}
      BY <3>1, <1>4
    <3>3. \A j \in 1..(test' - 1) : Meets(R(j))' \/ (MayResolve' /\ ~Refutes(R(j))')
      BY <1>1, <1>2, <1>4, <3>2, Constant DEF TestedSoFar
    <3>4. missing' = {R(j).key : j \in {j \in 1..(test' - 1) : ~Meets(R(j))}}
      <4> DEFINE Unmet == {j \in 1..(test - 1) : ~Meets(R(j))}
      <4>1. missing = {R(j).key : j \in Unmet}
        BY <1>2 DEF TestedSoFar
      <4>2. CASE Meets(R(test)) /\ missing' = missing
        <5>1. {j \in 1..(test' - 1) : ~Meets(R(j))} = Unmet
          BY <3>2, <4>2
        <5>2. QED
          BY <4>1, <4>2, <5>1
      <4>3. CASE ~Meets(R(test)) /\ missing' = missing \cup {R(test).key}
        <5>1. {j \in 1..(test' - 1) : ~Meets(R(j))} = Unmet \cup {test}
          BY <3>2, <4>3
        <5>2. QED
          BY <4>1, <4>3, <5>1
      <4>4. QED
        BY <1>4, <4>2, <4>3
    <3>5. QED
      BY <1>1, <1>4, <3>1, <3>3, <3>4, Constant DEF TestedSoFar
  <2>2. TypeOK'
    BY <1>1, <1>4, Shapes DEF TypeOK
  <2>3. QED
    BY <1>1, <1>2, <1>4, <2>1, <2>2, Constant DEF SelInv
<1>5. ASSUME Testing
      PROVE  test \in 1..Len(Reqs) /\ R(test) \in Requirements(Operation)
  BY <1>1, <1>3, <1>5, Shapes DEF Testing
<1>6. ~MayResolve => missing = {}
  BY <1>2 DEF TestedSoFar
<1>7. ASSUME step' = "fails", test' = test, missing' = {}, ~Fits(Operation)
      PROVE  SelInv'
  BY <1>1, <1>7, Constant DEF SelInv, TypeOK, Steps
<1>8. CASE Unknown
  <2>1. Testing /\ ~Meets(R(test)) /\ ~Refutes(R(test))
    BY <1>8, Verdicts DEF Unknown
  <2>2. CASE MayResolve
    BY <1>1, <1>4, <1>8, <2>1, <2>2, Verdicts DEF Unknown
  <2>3. CASE ~MayResolve
    <3>1. ~Fits(Operation)
      BY <1>5, <2>1 DEF Fits
    <3>2. QED
      BY <1>6, <1>7, <1>8, <2>3, <3>1 DEF Unknown
  <2>4. QED
    BY <2>2, <2>3
<1>9. CASE Met
  <2>1. Testing /\ Meets(R(test))
    BY <1>9, Verdicts DEF Met
  <2>2. step' = "test" /\ test' = test + 1 /\ missing' = missing
    BY <1>1, <1>9 DEF Met
  <2>3. QED
    BY <1>4, <2>1, <2>2
<1>10. CASE Refuted
  <2>1. Testing /\ ~Meets(R(test))
    BY <1>10, Verdicts DEF Refuted
  <2>2. ~Fits(Operation)
    BY <1>5, <2>1 DEF Fits
  <2>3. QED
    BY <1>7, <1>10, <2>2 DEF Refuted
<1>11. CASE AllTested
  <2>1. test = Len(Reqs) + 1 /\ Len(Reqs) \in Nat
    BY <1>1, <1>2, <1>11, Shapes DEF AllTested, TestedSoFar
  <2>2. 1..(test - 1) = 1..Len(Reqs)
    BY <2>1
  <2>3. missing = {r.key : r \in {r \in Requirements(Operation) : ~Meets(r)}}
    <3>1. missing = {R(j).key : j \in {j \in 1..Len(Reqs) : ~Meets(R(j))}}
      BY <1>2, <2>2 DEF TestedSoFar
    <3>2. QED
      BY <1>3, <3>1
  <2>4. \A r \in Requirements(Operation) : Meets(r) \/ (MayResolve /\ ~Refutes(r))
    BY <1>2, <1>3, <2>2 DEF TestedSoFar
  <2>5. CASE Media # NoMedia /\ missing = {}
    <3>1. \A r \in Requirements(Operation) : Meets(r)
      BY <2>3, <2>5
    <3>2. Fits(Operation)
      BY <1>2, <2>5, <3>1 DEF Fits
    <3>3. step' = "matches" /\ UNCHANGED <<request, operations, at, test, missing>>
      BY <1>11, <2>5 DEF AllTested, Go
    <3>4. QED
      BY <1>1, <1>2, <3>2, <3>3, Constant DEF SelInv, TypeOK, Steps
  <2>6. CASE Media = NoMedia /\ missing = {}
    <3>1. ~Fits(Operation)
      BY <2>6 DEF Fits
    <3>2. QED
      BY <1>7, <1>11, <2>6, <3>1 DEF AllTested, Go
  <2>7. CASE missing # {}
    <3>1. step' = "fails" /\ UNCHANGED <<request, operations, at, test, missing>>
      BY <1>11, <2>7 DEF AllTested, Go
    <3>2. Open
      <4>1. \A r \in Requirements(Operation) : ~Refutes(r)
        BY <2>4 DEF Meets, Refutes
      <4>2. QED
        BY <1>6, <2>3, <2>7, <4>1 DEF Open
    <3>3. Open'
      BY <1>1, <3>1, <3>2, Constant DEF Open, Requirements
    <3>4. QED
      BY <1>1, <2>7, <3>1, <3>3, Constant DEF SelInv, TypeOK, Steps
  <2>8. QED
    BY <2>5, <2>6, <2>7
<1>12. QED
  BY <1>8, <1>9, <1>10, <1>11

(* One step of what follows the loop.                                      *)
LEMMA EndStep ==
  ASSUME SelInv,
         Select \/ TryNext \/ TellMissing \/ Done
  PROVE  SelInv'
<1>1. UNCHANGED <<request, operations>>
  BY DEF Select, TryNext, TellMissing, Done, Go, vars
<1>2. CASE Select
  BY <1>1, <1>2, Constant DEF Select, Go, SelInv, TypeOK, Steps, Passed, Operation
<1>3. CASE TryNext
  <2>1. ~Fits(Operation) /\ missing = {} /\ at <= Len(operations)
    BY <1>3 DEF TryNext, Undecided, SelInv, Open, TypeOK
  <2>2. QED
    BY <1>1, <1>3, <2>1, Constant, Shapes
       DEF TryNext, SelInv, TypeOK, Steps, Passed, Operation
<1>4. CASE TellMissing
  <2>1. Open /\ MayResolve /\ missing # {} /\ at <= Len(operations)
    BY <1>4 DEF TellMissing, Undecided, SelInv, TypeOK
  <2>2. /\ step' = "no" /\ UNCHANGED <<request, operations, at, test, missing>>
        /\ Open'
    BY <1>4, <2>1, Constant DEF TellMissing, Go, Open, Requirements, Operation
  <2>3. QED
    BY <2>1, <2>2, Constant DEF SelInv, TypeOK, Steps, Passed
<1>5. CASE Done
  BY <1>5, Constant
     DEF Done, vars, SelInv, TypeOK, Steps, Passed, Open, TestedSoFar, Requirements,
         Operation, R
<1>6. QED
  BY <1>2, <1>3, <1>4, <1>5

-----------------------------------------------------------------------------
(* The invariant the properties follow from.                               *)
THEOREM Selecting == Spec => []SelInv
<1>1. SelInv /\ [Next]_vars => SelInv'
  <2>1. SelInv /\ UNCHANGED vars => SelInv'
    BY Constant
       DEF vars, SelInv, TypeOK, Steps, Passed, Open, TestedSoFar, Requirements,
           Operation, R
  <2>2. QED
    BY <2>1, ListStep, LoopStep, EndStep DEF Next
<1>2. QED
  BY <1>1, InitSelInv, PTL DEF Spec

(* The variables of a selection stay in their types.                       *)
THEOREM SelectTypes == Spec => []TypeOK
<1>1. SelInv => TypeOK
  BY DEF SelInv
<1>2. QED
  BY <1>1, Selecting, PTL

(* A browse or resolve gets the first operation that fits, of any number   *)
(* of operations with any requirements.                                    *)
THEOREM FirstFit == Spec => []FirstFitIsSelected
<1>1. SelInv => FirstFitIsSelected
  <2> SUFFICES ASSUME SelInv, ~MayResolve PROVE FirstFitIsSelected
    BY DEF FirstFitIsSelected
  <2>1. \A i \in 1..(at - 1) : ~Fits(operations[i])
    BY DEF SelInv, Passed, IsFor
  <2>2. step = "no" => \A i \in DOMAIN operations : ~Fits(operations[i])
    BY <2>1, Shapes DEF SelInv, TypeOK
  <2>3. QED
    BY <2>1, <2>2 DEF SelInv, FirstFitIsSelected
<1>2. QED
  BY <1>1, Selecting, PTL

(* may_resolve says yes of an operation that is for the key and fits.      *)
THEOREM YesKept == Spec => []YesIsKept
<1>1. SelInv => YesIsKept
  BY DEF SelInv, YesIsKept, Allowed, IsFor, Fits, Passed
<1>2. QED
  BY <1>1, Selecting, PTL

(* What is neither met nor refuted by a media is a string or a date that   *)
(* it lacks (get_data_as_string prints a number in any case).              *)
LEMMA Lacking ==
  ASSUME NEW o \in Operations, NEW r \in Requirements(o), Media # NoMedia,
         ~Meets(r), ~Refutes(r)
  PROVE  KeyType[r.key] \in {"string", "date"} /\ Media.values[r.key] = NoValue
<1>1. r.regexp \in BOOLEAN /\ KeyType[r.key] \in {"string", "int", "float", "date"}
  BY OperationsAssumption DEF Requirements
<1>2. ~r.regexp /\ Value(r.key) = NoValue
  BY <1>1 DEF Meets, Refutes
<1>3. DOMAIN Zero = {"int", "float"} /\ \A t \in {"int", "float"} : Zero[t] # NoValue
  BY NoValueAssumption DEF Zero
<1>. QED
  BY <1>1, <1>2, <1>3 DEF Value

(* may_resolve asks for the strings and dates that could still decide, all *)
(* of them and nothing else, and for none only if no operation that it     *)
(* looked at can give the key.                                             *)
THEOREM MissingDecide == Spec => []MissingKeysDecide
<1>1. SelInv => MissingKeysDecide
  <2>1. SelInv /\ MayResolve =>
            \A i \in 1..(at - 1) :
                Fits(operations[i]) => operations[i].key \notin {NoKey, request.key}
    BY DEF SelInv, Passed, IsFor
  <2>2. ASSUME SelInv, step = "no", missing # {}, Media # NoMedia, NEW k \in missing
        PROVE  KeyType[k] \in {"string", "date"} /\ Media.values[k] = NoValue
    <3>1. Open /\ Operation \in Operations
      BY <2>2, Shapes DEF SelInv
    <3>2. PICK r \in Requirements(Operation) : ~Meets(r) /\ k = r.key
      BY <2>2, <3>1 DEF Open
    <3>. QED
      BY <2>2, <3>1, <3>2, Lacking DEF Open
  <2>. QED
    BY <2>1, <2>2 DEF SelInv, MissingKeysDecide, Open
<1>2. QED
  BY <1>1, Selecting, PTL
=============================================================================
