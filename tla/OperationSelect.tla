--------------------------- MODULE OperationSelect ---------------------------
(***************************************************************************)
(* Which operation of the source serves a request: browse_select_operation *)
(* and resolve_select_operation look for the first whose requirements the  *)
(* media meets, and grl_xml_factory_source_may_resolve tells Grilo before  *)
(* whether there is one, or which keys it would need to know.              *)
(***************************************************************************)
EXTENDS Integers, Sequences

CONSTANTS
    Requests,      \* what is asked: see RequestsAssumption
    Operations,    \* what an operation of the source may be
    MaxOperations, \* bound: most operations of one kind
    NoMedia,       \* media is NULL
    KeyType,       \* grl_metadata_key_get_type, of the keys that are required
    NoValue,       \* the media does not have the key
    NoKey          \* GRL_METADATA_KEY_INVALID

(* A request: the call, the media and, of may_resolve, the key and whether *)
(* it is one of supported_keys.  A media: its type, whether it is of this  *)
(* source, and the values of its keys, as texts (a date in the format %FT%T, *)
(* a float with its six decimals).                                         *)
ASSUME RequestsAssumption ==
    \A r \in Requests :
        /\ r.call \in {"browse", "resolve", "may_resolve"}
        /\ r.supported \in BOOLEAN
        /\ r.media = NoMedia => r.call = "may_resolve"
        /\ r.media # NoMedia => r.media.own \in BOOLEAN

(* An operation: the key and `any` of a resolve, the media types it is     *)
(* for, and its requirements.  A requirement: a key and the texts that its *)
(* expression matches, or none of these when it has no expression.  Keys   *)
(* of other types are left out by the loader (xml_spec_key_is_supported).  *)
ASSUME OperationsAssumption ==
    \A o \in Operations :
        /\ o.any \in BOOLEAN
        /\ \A i \in DOMAIN o.requirements :
              /\ o.requirements[i].regexp \in BOOLEAN
              /\ KeyType[o.requirements[i].key] \in {"string", "int", "float", "date"}
        /\ o.requirements \in Seq({o.requirements[i] : i \in DOMAIN o.requirements})
ASSUME NoValueAssumption == NoValue \notin {"0", "0.000000"}
ASSUME MaxOperationsAssumption == MaxOperations \in Nat

VARIABLES
    request,
    operations,  \* priv->operations[OP_BROWSE] or [OP_RESOLVE]
    at,          \* operation_list: the operation that is tried
    test,        \* req_list: the requirement of it that is checked next
    missing,     \* *missing_keys
    step         \* "start", "next", "test", "matches", "fails", "yes", "no"

vars == <<request, operations, at, test, missing, step>>

Steps == {"start", "next", "test", "matches", "fails", "yes", "no"}

TypeOK ==
    /\ request \in Requests
    /\ operations \in Seq(Operations)
    /\ at \in 1..(Len(operations) + 1)
    /\ test \in Nat \ {0}
    /\ step \in Steps
    /\ step \in {"test", "matches", "fails", "yes"} => at <= Len(operations)

Init ==
    /\ request \in Requests
    /\ operations \in UNION {[1..n -> Operations] : n \in 0..MaxOperations}
    /\ at = 1 /\ test = 1
    /\ missing = {}
    /\ step = "start"

-----------------------------------------------------------------------------
MayResolve == request.call = "may_resolve"
Media == request.media
Operation == operations[at]
Requirement == Operation.requirements[test]

(* What a number that the media does not have is printed as, since         *)
(* grl_data_get_int and grl_data_get_float return 0 for it.                *)
Zero == [int |-> "0", float |-> "0.000000"]

(* get_data_as_string: NULL for a string or a date that the media does not *)
(* have, never for a number.                                               *)
Value(key) ==
    IF Media.values[key] = NoValue /\ KeyType[key] \in DOMAIN Zero
    THEN Zero[KeyType[key]]
    ELSE Media.values[key]

(* The text, "" for none, matches the expression.                          *)
Matches(r) == (IF Value(r.key) = NoValue THEN "" ELSE Value(r.key)) \in r.texts

Go(to) == step' = to /\ UNCHANGED <<request, operations, at, test, missing>>

-----------------------------------------------------------------------------
(* The lists of operations.                                                *)

Start ==
    /\ step = "start"
    /\ Go(IF MayResolve /\ ~request.supported THEN "no" ELSE "next")

NoneLeft ==
    /\ step = "next" /\ at > Len(operations)
    /\ Go("no")

(* Seeded fault: the key an operation is for is not looked at.             *)
OtherKeyIgnored == FALSE

(* may_resolve is about one key, select is not.                            *)
OtherKey == MayResolve /\ Operation.key \notin {NoKey, request.key}

(* A media of another source ends may_resolve, unless this operation takes *)
(* any.                                                                    *)
Foreign == MayResolve /\ Media # NoMedia /\ ~Operation.any /\ ~Media.own

Skip ==
    /\ step = "next" /\ at <= Len(operations) /\ OtherKey
    /\ at' = at + 1
    /\ UNCHANGED <<request, operations, test, missing, step>>

Refuse ==
    /\ step = "next" /\ at <= Len(operations) /\ ~OtherKey /\ Foreign
    /\ Go("no")

(* operation_requirements_match begins with the type of the media.         *)
TryOperation ==
    /\ step = "next" /\ at <= Len(operations) /\ ~OtherKey /\ ~Foreign
    /\ test' = 1
    /\ step' = IF Media = NoMedia \/ Media.type \in Operation.types THEN "test" ELSE "fails"
    /\ UNCHANGED <<request, operations, at, missing>>

-----------------------------------------------------------------------------
(* The loop of operation_requirements_match.                               *)

Testing == step = "test" /\ test <= Len(Operation.requirements)

Known == Media # NoMedia /\ (Value(Requirement.key) # NoValue \/ Requirement.regexp)

(* Seeded fault: without a list for the missing keys, one is not a failure. *)
UnknownIgnored ==
    /\ Testing /\ ~Known
    /\ test' = test + 1
    /\ missing' = IF MayResolve THEN missing \cup {Requirement.key} ELSE missing
    /\ UNCHANGED <<request, operations, at, step>>

(* The value is needed and not known: may_resolve has a list of such keys, *)
(* and select fails.                                                       *)
Unknown ==
    /\ Testing /\ ~Known
    /\ IF MayResolve
       THEN /\ test' = test + 1
            /\ missing' = missing \cup {Requirement.key}
            /\ UNCHANGED step
       ELSE /\ step' = "fails"
            /\ UNCHANGED <<test, missing>>
    /\ UNCHANGED <<request, operations, at>>

Met ==
    /\ Testing /\ Known
    /\ Requirement.regexp => Matches(Requirement)
    /\ test' = test + 1
    /\ UNCHANGED <<request, operations, at, missing, step>>

(* Seeded fault: keys found missing before are still asked for.            *)
RefutedKeepsMissing ==
    /\ Testing /\ Known
    /\ Requirement.regexp /\ ~Matches(Requirement)
    /\ step' = "fails"
    /\ UNCHANGED <<request, operations, at, test, missing>>

(* No other key could make this operation match: none is missing.          *)
Refuted ==
    /\ Testing /\ Known
    /\ Requirement.regexp /\ ~Matches(Requirement)
    /\ missing' = {}
    /\ step' = "fails"
    /\ UNCHANGED <<request, operations, at, test>>

AllTested ==
    /\ step = "test" /\ test > Len(Operation.requirements)
    /\ Go(IF Media = NoMedia \/ missing # {} THEN "fails" ELSE "matches")

-----------------------------------------------------------------------------
(* Back in the list of operations.                                         *)

Select ==
    /\ step = "matches"
    /\ Go("yes")

(* Seeded fault: may_resolve goes on although it could not decide.         *)
NeverUndecided == FALSE

(* may_resolve stops at an operation that may match: it tells which keys   *)
(* are missing to know.                                                    *)
Undecided == MayResolve /\ missing # {}

(* Seeded fault: the end of the list is not looked for.                    *)
TryNextUnchecked ==
    /\ step = "fails" /\ ~Undecided
    /\ at' = at + 1
    /\ test' = 1
    /\ step' = "test"
    /\ UNCHANGED <<request, operations, missing>>

TryNext ==
    /\ step = "fails" /\ ~Undecided
    /\ at' = at + 1
    /\ step' = "next"
    /\ UNCHANGED <<request, operations, test, missing>>

TellMissing ==
    /\ step = "fails" /\ Undecided
    /\ Go("no")

Done == step \in {"yes", "no"} /\ UNCHANGED vars

Next ==
    \/ Start \/ NoneLeft \/ Skip \/ Refuse \/ TryOperation
    \/ Unknown \/ Met \/ Refuted \/ AllTested
    \/ Select \/ TryNext \/ TellMissing \/ Done

Spec == Init /\ [][Next]_vars
-----------------------------------------------------------------------------
(* Properties.                                                             *)

(* The media meets a requirement, or refutes it: no other key changes that. *)
(* A number always has a value, 0 if the media has none.                   *)
Meets(r) == Media # NoMedia /\ IF r.regexp THEN Matches(r) ELSE Value(r.key) # NoValue
Refutes(r) == Media # NoMedia /\ r.regexp /\ ~Matches(r)

Requirements(o) == {o.requirements[i] : i \in DOMAIN o.requirements}

Fits(o) ==
    /\ Media # NoMedia /\ Media.type \in o.types
    /\ \A r \in Requirements(o) : Meets(r)

(* A browse or resolve gets the first operation whose requirements the     *)
(* media meets, and none only if it meets those of no operation.           *)
FirstFitIsSelected ==
    ~MayResolve =>
        /\ step = "yes" => /\ Fits(Operation)
                           /\ \A i \in 1..(at - 1) : ~Fits(operations[i])
        /\ step = "no" => \A i \in DOMAIN operations : ~Fits(operations[i])

(* When may_resolve says yes, the source has an operation that may give    *)
(* the key and that the resolve, made with the same media, finds fit.  If  *)
(* the resolve takes another one before it, that is one for another key.   *)
YesIsKept ==
    MayResolve /\ step = "yes" =>
        /\ Fits(Operation)
        /\ Operation.key \in {NoKey, request.key}
        /\ Operation.any \/ Media.own
        /\ \A i \in 1..(at - 1) :
              Fits(operations[i]) => operations[i].key \notin {NoKey, request.key}

(* may_resolve asks Grilo for the strings and dates that an operation for  *)
(* this key requires and the media lacks, all of them, and only if they    *)
(* can still decide; without missing keys no operation for this key that   *)
(* it looked at can match.  Numbers that the media lacks are never asked   *)
(* for, since they count as 0.                                             *)
MissingKeysDecide ==
    MayResolve /\ step = "no" =>
        IF missing # {}
        THEN /\ at <= Len(operations)
             /\ missing = {r.key : r \in {r \in Requirements(Operation) : ~Meets(r)}}
             /\ \A r \in Requirements(Operation) : ~Refutes(r)
             /\ Media # NoMedia =>
                  \A k \in missing : KeyType[k] \in {"string", "date"} /\ Media.values[k] = NoValue
        ELSE \A i \in 1..(at - 1) : Fits(operations[i]) => operations[i].key \notin {NoKey, request.key}
=============================================================================
