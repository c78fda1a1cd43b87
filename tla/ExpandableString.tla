--------------------------- MODULE ExpandableString ---------------------------
(***************************************************************************)
(* One ExpandableString: a text of the source file with %names% in it.     *)
(* Those of the configuration and of the located strings are expanded when *)
(* it is made, the others each time its value is asked for, with the data  *)
(* of the call that asks.  It remembers whether there is anything to       *)
(* expand, and then hands out its own text instead of a copy.              *)
(*                                                                         *)
(* A text is a sequence of pieces: a literal, or what stands between two   *)
(* percent signs.                                                          *)
(***************************************************************************)
EXTENDS SequencesExt

CONSTANTS
    Words,      \* what a piece may say: any string
    Texts,      \* what the source file may say: sequences of pieces
    NoText,     \* NULL
    Config,     \* what GrlConfig has: names to texts
    Located,    \* located_strings: a sequence of such tables, best language first
    Data,       \* what an ExpandData may have: see DataAssumption
    NoData,     \* the ExpandData is NULL
    Users       \* who may hold a value at the same time

(* key:, param:, buf: and priv: names are looked up in the data, conf: and *)
(* str: names when the string is made.  "percent" is %% and "other" any    *)
(* other text between two percent signs.                                   *)
DataKinds == {"key", "param", "buf", "priv"}
Kinds == DataKinds \cup {"literal", "conf", "str", "percent", "other"}

Piece(kind, name) == [kind |-> kind, name |-> name]

Pieces == [kind : Kinds, name : Words]
Literals == [kind : {"literal"}, name : Words]

ASSUME WordsAssumption == "%" \in Words
ASSUME TextsAssumption == Texts \ {NoText} \subseteq Seq(Pieces)
(* What the configuration and the located strings say are texts as well.   *)
ASSUME ConfigAssumption == \A name \in DOMAIN Config : Config[name] \in Seq(Pieces)
ASSUME LocatedAssumption ==
    /\ DOMAIN Located = 1..Len(Located)
    /\ \A i \in DOMAIN Located : \A name \in DOMAIN Located[i] :
          Located[i][name] \in Seq(Pieces)
(* A datum is a literal: one that spells a name is not among them.         *)
ASSUME DataAssumption ==
    /\ NoData \in Data
    /\ \A d \in Data \ {NoData} : \A p \in DOMAIN d :
          p.kind \in DataKinds /\ d[p] \in Seq(Literals)

ASSUME UsersAssumption == IsFiniteSet(Users)

VARIABLES
    init,     \* the text in the source file
    str,      \* exp_str->str
    status,   \* exp_str->status
    held,     \* the value each user holds: its text, whose it is, what it was made with
    copies,   \* copies that are allocated
    freed     \* exp_str->str was freed

vars == <<init, str, status, held, copies, freed>>

None == [is |-> "none"]

TypeOK ==
    /\ init \in Texts
    /\ str = NoText \/ \A i \in DOMAIN str : str[i].kind \in Kinds
    /\ status \in {"unknown", "expandable", "unexpandable"}
    /\ \A u \in Users :
          held[u] # None => held[u].is \in {"own", "copy"} /\ held[u].data \in Data
    /\ copies \in Nat
    /\ freed \in BOOLEAN

-----------------------------------------------------------------------------
Lookup(table, name) == IF name \in DOMAIN table THEN table[name] ELSE <<>>

(* expand_str_cb: the first of the tables that has the string.             *)
LocatedString(name) ==
    LET has == {i \in DOMAIN Located : name \in DOMAIN Located[i]}
    IN  IF has = {} THEN <<>> ELSE Located[CHOOSE i \in has : \A j \in has : i <= j][name]

(* expand_config_cb and expand_str_cb.                                     *)
FixedValue(p) ==
    CASE p.kind = "conf" -> Lookup(Config, p.name)
      [] p.kind = "str"  -> LocatedString(p.name)
      [] OTHER           -> <<p>>

(* expand_full: each piece is replaced by what the first callback that     *)
(* knows it appends, or put back.                                          *)
ExpandFull(text) == FlattenSeq([i \in DOMAIN text |-> FixedValue(text[i])])

(* expand_metadata_key_cb, expand_param_cb, expand_buffer_id_cb,           *)
(* expand_private_cb and expand_remaining_cb: nothing for a name without   *)
(* a value.                                                                *)
DataValue(p, data) ==
    CASE p.kind \in DataKinds -> IF data = NoData THEN <<>> ELSE Lookup(data, p)
      [] p.kind = "percent"   -> <<Piece("literal", "%")>>
      [] OTHER                -> <<p>>

ExpandString(text, data) == FlattenSeq([i \in DOMAIN text |-> DataValue(text[i], data)])

(* expandable_string_new.                                                  *)
Init ==
    /\ init \in Texts
    /\ str = IF init = NoText THEN NoText ELSE ExpandFull(init)
    /\ status = IF init = NoText THEN "unexpandable" ELSE "unknown"
    /\ held = [u \in Users |-> None]
    /\ copies = 0
    /\ freed = FALSE

-----------------------------------------------------------------------------
(* expandable_string_get_value.                                            *)

(* Seeded fault: names without a value are taken for a text without names. *)
LearnedWithoutData(value, data) == IF value = str \/ data = NoData
                                   THEN "unexpandable" ELSE "expandable"

(* Nothing was expanded this time: there is nothing to expand.             *)
Learned(value, data) == IF value = str THEN "unexpandable" ELSE "expandable"

GetOwn(u, data) ==
    /\ held[u] = None /\ status = "unexpandable"
    /\ held' = [held EXCEPT ![u] = [is |-> "own", text |-> str, data |-> data]]
    /\ UNCHANGED <<init, str, status, copies, freed>>

GetCopy(u, data) ==
    /\ held[u] = None /\ status # "unexpandable"
    /\ LET value == ExpandString(str, data) IN
         /\ held' = [held EXCEPT ![u] = [is |-> "copy", text |-> value, data |-> data]]
         /\ status' = IF status = "unknown" THEN Learned(value, data) ELSE status
    /\ copies' = copies + 1
    /\ UNCHANGED <<init, str, freed>>

(* Seeded faults: what is freed is told by the status, or not told at all. *)
IsOwnByStatus(u) == status = "unexpandable"
IsOwnNever(u) == FALSE

(* Compared by pointer, not by content.                                    *)
IsOwn(u) == held[u].is = "own"

(* expandable_string_free_value.                                           *)
FreeValue(u) ==
    /\ held[u] # None
    /\ held' = [held EXCEPT ![u] = None]
    /\ IF IsOwn(u) THEN UNCHANGED <<copies, freed>>
       ELSE /\ copies' = copies - 1
            /\ freed' = (freed \/ held[u].is = "own")
    /\ UNCHANGED <<init, str, status>>

Next == \E u \in Users :
    \/ FreeValue(u)
    \/ \E data \in Data : GetOwn(u, data) \/ GetCopy(u, data)

Spec == Init /\ [][Next]_vars
-----------------------------------------------------------------------------
(* Properties.                                                             *)

(* The copies that are allocated are those somebody holds, and the text of *)
(* the string is not freed with a value: whatever the string learned       *)
(* between the time a value was handed out and the time it is freed.       *)
CopiesAreFreed ==
    /\ ~freed
    /\ copies = Cardinality({u \in Users : held[u] # None /\ held[u].is = "copy"})

(* A value is that of the text in the source file with the data of the     *)
(* call that asked: what the string remembers from calls with other data,  *)
(* or with none, makes no difference.                                      *)
ValuesAreCurrent ==
    \A u \in Users : held[u] # None =>
        held[u].text = IF init = NoText THEN NoText
                       ELSE ExpandString(ExpandFull(init), held[u].data)
=============================================================================
