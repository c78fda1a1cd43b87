----------------------------- MODULE MediaTexts -----------------------------
(***************************************************************************)
(* One media that is resolved by calls that overlap, and one text of the   *)
(* source file that each call expands with the data of that media.         *)
(*                                                                         *)
(* Private values travel in the media as a key of their own: a table,      *)
(* written as a JSON object.  A call takes them out when it begins, and    *)
(* reads the other keys of the media each time it expands a text; its      *)
(* answer, a media of its own, is merged into the one it was asked about.  *)
(***************************************************************************)
EXTENDS ExpandableString

CONSTANTS
    Medias,      \* what a resolve may answer with: keys, and private values by name
    OwnData,     \* the parameters and buffers a call may have
    NoValue,     \* a private value that is NULL
    MaxAnswers   \* bound on the answers that are merged

ASSUME MaxAnswersAssumption == MaxAnswers \in Nat

(* There is no table: one that is written has a name in it.                *)
NoPrivate == <<>>

VARIABLES
    media,     \* the media that is resolved
    calls,     \* what each call has of its own, and the private keys it took
    answers    \* the media, as it was and as it was answered, oldest first

mediaVars == <<media, calls, answers>>

Idle == [is |-> "idle"]
Over == [is |-> "over"]

MediaInit ==
    /\ Init
    /\ media \in Medias
    /\ calls = [u \in Users |-> Idle]
    /\ answers = <<media>>

-----------------------------------------------------------------------------
(* Seeded fault: the values that can be read are.                          *)
DeserializeSome(string) ==
    [n \in {m \in DOMAIN string : string[m] # NoValue} |-> string[n]]

(* json_ghashtable_deserialize_data: json_ghashtable_serialize_data wrote  *)
(* a value that is NULL as null, and all of the table is given up for one. *)
Deserialize(string) ==
    IF NoValue \in {string[n] : n \in DOMAIN string} THEN NoPrivate ELSE string

(* merge_hashtables: those of the other table that are not in this one.    *)
MergeHashtables(t1, t2) == [n \in DOMAIN t1 \cup DOMAIN t2 |->
                               IF n \in DOMAIN t1 THEN t1[n] ELSE t2[n]]

(* What the new media has as private keys before its keys are copied.      *)
MergePrivate(original, new) ==
    LET old == Deserialize(original)
        own == Deserialize(new)
    IN  CASE own # NoPrivate /\ old # NoPrivate -> MergeHashtables(own, old)
          [] own = NoPrivate /\ old # NoPrivate -> old
          [] OTHER                              -> new

(* Seeded fault: a key that the original has is left alone.                *)
MergeMediasOnlyNew(original, new) ==
    LET private == MergePrivate(original.private, new.private)
    IN  [keys    |-> MergeHashtables(original.keys, new.keys),
         private |-> IF private = NoPrivate THEN original.private ELSE private]

(* merge_medias: all keys the new media has are copied to the original.    *)
MergeMedias(original, new) ==
    LET private == MergePrivate(original.private, new.private)
    IN  [keys    |-> MergeHashtables(new.keys, original.keys),
         private |-> IF private = NoPrivate THEN original.private ELSE private]

DataNames == UNION {DOMAIN d : d \in Data \ {NoData}}

(* What a name can stand for: a key or a private value that some media     *)
(* has, or what a call has of its own.                                     *)
ValuesOf(p) ==
    {m.keys[p.name] : m \in {n \in Medias : p.kind = "key" /\ p.name \in DOMAIN n.keys}}
    \cup ({m.private[p.name] :
             m \in {n \in Medias : p.kind = "priv" /\ p.name \in DOMAIN n.private}}
           \ {NoValue})
    \cup {own[p] : own \in {o \in OwnData : p \in DOMAIN o}}

(* Data has whatever a call can come to expand names with.                 *)
ASSUME ExpandDataAssumption ==
    \A D \in SUBSET DataNames : \A d \in [D -> UNION {ValuesOf(p) : p \in D}] :
        (\A p \in D : d[p] \in ValuesOf(p)) => d \in Data

(* What a call expands names with: its ExpandData.                         *)
DataOf(u) ==
    LET key(p) == p.kind = "key" /\ p.name \in DOMAIN media.keys
        priv(p) == p.kind = "priv" /\ p.name \in DOMAIN calls[u].private
        own(p) == p \in DOMAIN calls[u].own
    IN  [p \in {n \in DataNames : key(n) \/ priv(n) \/ own(n)} |-> CASE key(p)  -> media.keys[p.name]
                           [] priv(p) -> calls[u].private[p.name]
                           [] OTHER   -> calls[u].own[p]]

-----------------------------------------------------------------------------
(* get_resolve_data, expand_data_new: the private keys are taken out.      *)
Resolve(u) ==
    /\ calls[u] = Idle
    /\ \E own \in OwnData :
         calls' = [calls EXCEPT ![u] = [is |-> "running", own |-> own,
                                        private |-> Deserialize(media.private)]]
    /\ UNCHANGED <<vars, media, answers>>

(* A text is expanded without data while the source is loaded.             *)
Expand(u) ==
    /\ \/ calls[u] = Idle /\ (GetOwn(u, NoData) \/ GetCopy(u, NoData))
       \/ calls[u].is = "running" /\ (GetOwn(u, DataOf(u)) \/ GetCopy(u, DataOf(u)))
    /\ UNCHANGED mediaVars

Free(u) == FreeValue(u) /\ UNCHANGED mediaVars

(* resolve_send_result_cb, use_resolve_done_cb: an answer may have no      *)
(* media.                                                                  *)
Answer(u) ==
    /\ calls[u].is = "running" /\ held[u] = None
    /\ \/ UNCHANGED <<media, answers>>
       \/ \E new \in Medias :
            /\ Len(answers) <= MaxAnswers
            /\ media' = MergeMedias(media, new)
            /\ answers' = Append(answers, new)
    /\ calls' = [calls EXCEPT ![u] = Over]
    /\ UNCHANGED vars

MediaNext == \E u \in Users : Resolve(u) \/ Expand(u) \/ Free(u) \/ Answer(u)

MediaSpec == MediaInit /\ [][MediaNext]_<<vars, mediaVars>>
-----------------------------------------------------------------------------
(* Properties.                                                             *)

(* The answers that have the key, and the ones whose private keys can be   *)
(* read and have the name.                                                 *)
Having(k) == {i \in DOMAIN answers : k \in DOMAIN answers[i].keys}
HavingPrivate(n) ==
    {i \in DOMAIN answers : /\ n \in DOMAIN answers[i].private
                            /\ NoValue \notin {answers[i].private[m] : m \in DOMAIN answers[i].private}}

IsLast(i, places) == i \in places /\ \A j \in places : j <= i

(* However resolves overlap, a key of the media has the value of the last  *)
(* answer that gave it one.                                                *)
LastAnswerCounts ==
    /\ DOMAIN media.keys = UNION {DOMAIN answers[i].keys : i \in DOMAIN answers}
    /\ \A k \in DOMAIN media.keys : \A i \in DOMAIN answers :
         IsLast(i, Having(k)) => media.keys[k] = answers[i].keys[k]

(* The private keys that can be read in the media are those of all the     *)
(* answers whose private keys can be read, each with its last value:       *)
(* "Merge private keys".  One that lacks a private value takes none away   *)
(* that others gave.                                                       *)
PrivateKeysAreMerged ==
    LET table == Deserialize(media.private)
    IN  /\ \A n \in DOMAIN table : HavingPrivate(n) # {}
        /\ \A i \in DOMAIN answers : \A n \in DOMAIN answers[i].private :
             IsLast(i, HavingPrivate(n)) => n \in DOMAIN table /\ table[n] = answers[i].private[n]
=============================================================================
