-------------------------- MODULE MediaTextsProofs --------------------------
(***************************************************************************)
(* Proofs about MediaTexts, for any medias, any number of answers and any  *)
(* calls: what a media has after answers that overlap, that the copies     *)
(* that are allocated are those somebody holds, and that the value a call  *)
(* holds is what the string expands to for that call.                      *)
(***************************************************************************)
EXTENDS MediaTexts, FiniteSetTheorems, SequenceTheorems, NaturalsInduction, TLAPS

-----------------------------------------------------------------------------
(* Merging one media into another.                                         *)

(* merge_hashtables adds what is not there.                                *)
LEMMA Merged ==
  ASSUME NEW t1, NEW t2
  PROVE  /\ DOMAIN MergeHashtables(t1, t2) = DOMAIN t1 \cup DOMAIN t2
         /\ \A k \in DOMAIN t1 : MergeHashtables(t1, t2)[k] = t1[k]
         /\ \A k \in DOMAIN t2 \ DOMAIN t1 : MergeHashtables(t1, t2)[k] = t2[k]
BY DEF MergeHashtables

(* What is read is what was written, or nothing.                           *)
LEMMA Read ==
  ASSUME NEW string
  PROVE  /\ DOMAIN NoPrivate = {}
         /\ Deserialize(string) \in {NoPrivate, string}
         /\ \A n \in DOMAIN Deserialize(string) :
              Deserialize(string)[n] = string[n] /\ string[n] # NoValue
         /\ (\A n \in DOMAIN string : string[n] # NoValue) => Deserialize(string) = string
         /\ Deserialize(Deserialize(string)) = Deserialize(string)
BY DEF Deserialize, NoPrivate

(* The private keys that can be read in a media that another was merged    *)
(* into are those of the two, the new one's first.                         *)
LEMMA MergedPrivate ==
  ASSUME NEW original, NEW new
  PROVE  LET table == Deserialize(MergeMedias(original, new).private)
             own == Deserialize(new.private)
             old == Deserialize(original.private)
         IN  /\ DOMAIN table = DOMAIN own \cup DOMAIN old
             /\ \A n \in DOMAIN own : table[n] = own[n]
             /\ \A n \in DOMAIN old \ DOMAIN own : table[n] = old[n]
<1> DEFINE own == Deserialize(new.private)
           old == Deserialize(original.private)
           both == MergeHashtables(own, old)
           table == Deserialize(MergeMedias(original, new).private)
<1>1. CASE own # NoPrivate /\ old # NoPrivate
  <2>1. /\ DOMAIN both = DOMAIN own \cup DOMAIN old
        /\ \A n \in DOMAIN own : both[n] = own[n]
        /\ \A n \in DOMAIN old \ DOMAIN own : both[n] = old[n]
    BY Merged
  <2>2. \A n \in DOMAIN both : both[n] # NoValue
    BY <2>1, Read
  <2>3. MergePrivate(original.private, new.private) = both
    BY <1>1 DEF MergePrivate
  <2>4. CASE both # NoPrivate
    <3>1. table = both
      BY <2>2, <2>3, <2>4, Read DEF MergeMedias
    <3>. QED
      BY <2>1, <3>1
  <2>5. CASE both = NoPrivate
    <3>1. DOMAIN own = {} /\ DOMAIN old = {}
      BY <2>1, <2>5, Read
    <3>2. table = old
      BY <2>3, <2>5 DEF MergeMedias
    <3>. QED
      BY <3>1, <3>2
  <2>. QED
    BY <2>4, <2>5
<1>2. CASE own = NoPrivate /\ old # NoPrivate
  <2>1. MergePrivate(original.private, new.private) = old
    BY <1>2 DEF MergePrivate
  <2>2. table = old
    BY <1>2, <2>1, Read DEF MergeMedias
  <2>. QED
    BY <1>2, <2>2, Read
<1>3. CASE old = NoPrivate
  <2>1. MergePrivate(original.private, new.private) = new.private
    BY <1>3 DEF MergePrivate
  <2>2. CASE new.private = NoPrivate
    <3>1. table = old /\ DOMAIN own = {}
      BY <2>1, <2>2, Read DEF MergeMedias
    <3>. QED
      BY <1>3, <3>1, Read
  <2>3. CASE new.private # NoPrivate
    <3>1. table = own
      BY <2>1, <2>3 DEF MergeMedias
    <3>. QED
      BY <1>3, <3>1, Read
  <2>. QED
    BY <2>2, <2>3
<1>. QED
  BY <1>1, <1>2, <1>3

-----------------------------------------------------------------------------
(* The answers.                                                            *)

(* There is the media as it was, and then what it was answered.            *)
Answers == answers \in Seq(Medias)

(* The answers are a sequence of medias at the start.                      *)
LEMMA InitAnswers == MediaInit => Answers
BY DEF MediaInit, Answers

(* Every step keeps the answers a sequence of medias.                      *)
LEMMA NextAnswers == Answers /\ [MediaNext]_<<vars, mediaVars>> => Answers'
BY DEF Answers, MediaNext, mediaVars, vars, Resolve, Expand, Free, Answer

(* A step leaves the media and the answers alone, or merges one more.      *)
LEMMA Steps ==
  ASSUME [MediaNext]_<<vars, mediaVars>>
  PROVE  \/ UNCHANGED <<media, answers>>
         \/ \E new \in Medias : media' = MergeMedias(media, new) /\ answers' = Append(answers, new)
BY DEF MediaNext, mediaVars, vars, Resolve, Expand, Free, Answer

(* The places of the answers after one more: its own and those before.     *)
LEMMA OneMore ==
  ASSUME Answers, NEW new \in Medias, answers' = Append(answers, new)
  PROVE  /\ DOMAIN answers = 1 .. Len(answers) /\ Len(answers) \in Nat
         /\ DOMAIN answers' = 1 .. Len(answers) + 1
         /\ answers'[Len(answers) + 1] = new
         /\ \A i \in DOMAIN answers : answers'[i] = answers[i]
BY DEF Answers

-----------------------------------------------------------------------------
(* A key has the value of the last answer that has it: of the new one, or  *)
(* of one before, which then still is the last.                            *)
LEMMA NextLastAnswer ==
  ASSUME Answers, LastAnswerCounts, [MediaNext]_<<vars, mediaVars>>
  PROVE  LastAnswerCounts'
<1>1. CASE UNCHANGED <<media, answers>>
  BY <1>1 DEF LastAnswerCounts, Having
<1>2. ASSUME NEW new \in Medias,
             media' = MergeMedias(media, new), answers' = Append(answers, new)
      PROVE  LastAnswerCounts'
  <2> DEFINE n == Len(answers)
  <2>1. /\ DOMAIN answers = 1 .. n /\ n \in Nat /\ DOMAIN answers' = 1 .. n + 1
        /\ answers'[n + 1] = new
        /\ \A i \in 1 .. n : answers'[i] = answers[i]
    BY <1>2, OneMore
  <2>2. /\ DOMAIN media'.keys = DOMAIN new.keys \cup DOMAIN media.keys
        /\ \A k \in DOMAIN new.keys : media'.keys[k] = new.keys[k]
        /\ \A k \in DOMAIN media.keys \ DOMAIN new.keys : media'.keys[k] = media.keys[k]
    <3>1. media'.keys = MergeHashtables(new.keys, media.keys)
      BY <1>2 DEF MergeMedias
    <3>. QED
      BY <3>1 DEF MergeHashtables
  <2>3. DOMAIN media'.keys = UNION {DOMAIN answers'[i].keys : i \in DOMAIN answers'}
    <3>1. UNION {DOMAIN answers'[i].keys : i \in 1 .. n + 1}
            = DOMAIN new.keys \cup UNION {DOMAIN answers[i].keys : i \in 1 .. n}
      <4>1. 1 .. n + 1 = (1 .. n) \cup {n + 1}
        BY <2>1
      <4>. QED
        BY <2>1, <4>1
    <3>. QED
      BY <2>1, <2>2, <3>1 DEF LastAnswerCounts
  <2>4. ASSUME NEW k \in DOMAIN media'.keys, NEW i \in DOMAIN answers',
               IsLast(i, Having(k)')
        PROVE  media'.keys[k] = answers'[i].keys[k]
    <3>1. Having(k)' = {j \in 1 .. n + 1 : k \in DOMAIN answers'[j].keys}
      BY <2>1 DEF Having
    <3>2. CASE k \in DOMAIN new.keys
      <4>1. n + 1 \in Having(k)'
        BY <2>1, <3>1, <3>2
      <4>2. i = n + 1
        BY <2>1, <2>4, <4>1 DEF IsLast
      <4>. QED
        BY <2>1, <2>2, <3>2, <4>2
    <3>3. CASE k \notin DOMAIN new.keys
      <4>1. Having(k)' = Having(k)
        BY <2>1, <3>1, <3>3 DEF Having
      <4>2. i \in 1 .. n /\ IsLast(i, Having(k))
        BY <2>1, <2>4, <4>1 DEF IsLast, Having
      <4>3. k \in DOMAIN media.keys
        BY <2>2, <3>3
      <4>. QED
        BY <2>1, <2>2, <3>3, <4>2, <4>3 DEF LastAnswerCounts
    <3>. QED
      BY <3>2, <3>3
  <2>. QED
    BY <2>3, <2>4 DEF LastAnswerCounts
<1>. QED
  BY <1>1, <1>2, Steps

(* However resolves of a media overlap, each of its keys has the value of  *)
(* the last answer that has the key.                                       *)
THEOREM LastAnswer == MediaSpec => []LastAnswerCounts
<1>1. MediaInit => LastAnswerCounts
  <2> SUFFICES ASSUME MediaInit PROVE LastAnswerCounts
    OBVIOUS
  <2>1. answers = <<media>> /\ DOMAIN answers = {1} /\ answers[1] = media
    BY DEF MediaInit
  <2>. QED
    BY <2>1 DEF LastAnswerCounts, Having, IsLast
<1>. QED
  BY <1>1, InitAnswers, NextAnswers, NextLastAnswer, PTL DEF MediaSpec

-----------------------------------------------------------------------------
(* The answers whose table can be read and has the name.                   *)
LEMMA Readable ==
  ASSUME NEW n
  PROVE  HavingPrivate(n) = {i \in DOMAIN answers : n \in DOMAIN Deserialize(answers[i].private)}
BY DEF HavingPrivate, Deserialize, NoPrivate

(* So does a private key.                                                  *)
LEMMA NextPrivateKeys ==
  ASSUME Answers, PrivateKeysAreMerged, [MediaNext]_<<vars, mediaVars>>
  PROVE  PrivateKeysAreMerged'
<1>1. CASE UNCHANGED <<media, answers>>
  <2>1. \A n : HavingPrivate(n)' = HavingPrivate(n)
    BY <1>1 DEF HavingPrivate
  <2>2. Deserialize(media.private)' = Deserialize(media.private)
    BY <1>1
  <2>. QED
    BY <1>1, <2>1, <2>2 DEF PrivateKeysAreMerged, IsLast
<1>2. ASSUME NEW new \in Medias,
             media' = MergeMedias(media, new), answers' = Append(answers, new)
      PROVE  PrivateKeysAreMerged'
  <2> DEFINE l == Len(answers)
             own == Deserialize(new.private)
             old == Deserialize(media.private)
             table == Deserialize(media'.private)
  <2>1. /\ DOMAIN answers = 1 .. l /\ l \in Nat /\ DOMAIN answers' = 1 .. l + 1
        /\ answers'[l + 1] = new
        /\ \A i \in 1 .. l : answers'[i] = answers[i]
    BY <1>2, OneMore
  <2>2. /\ DOMAIN table = DOMAIN own \cup DOMAIN old
        /\ \A n \in DOMAIN own : table[n] = own[n]
        /\ \A n \in DOMAIN old \ DOMAIN own : table[n] = old[n]
    <3> DEFINE merged(m) == Deserialize(MergeMedias(m, new).private)
    <3>1. PICK m : m = media
      OBVIOUS
    <3>2. /\ DOMAIN merged(m) = DOMAIN own \cup DOMAIN Deserialize(m.private)
          /\ \A n \in DOMAIN own : merged(m)[n] = own[n]
          /\ \A n \in DOMAIN Deserialize(m.private) \ DOMAIN own :
               merged(m)[n] = Deserialize(m.private)[n]
      BY MergedPrivate
    <3>3. table = merged(m)
      BY <1>2, <3>1
    <3>. QED
      BY <3>1, <3>2, <3>3
  <2>3. \A n : HavingPrivate(n)' =
                 {i \in DOMAIN answers' : n \in DOMAIN Deserialize(answers'[i].private)}
    BY DEF HavingPrivate, Deserialize, NoPrivate
  <2>4. \A n : HavingPrivate(n)' =
                 HavingPrivate(n) \cup {i \in {l + 1} : n \in DOMAIN own}
    BY <2>1, <2>3, Readable
  <2>5. ASSUME NEW n \in DOMAIN table PROVE HavingPrivate(n)' # {}
    BY <2>2, <2>4 DEF PrivateKeysAreMerged
  <2>6. ASSUME NEW i \in DOMAIN answers', NEW n \in DOMAIN answers'[i].private,
               IsLast(i, HavingPrivate(n)')
        PROVE  n \in DOMAIN table /\ table[n] = answers'[i].private[n]
    <3>1. CASE n \in DOMAIN own
      <4>1. l + 1 \in HavingPrivate(n)'
        BY <2>4, <3>1
      <4>2. i = l + 1
        BY <2>1, <2>6, <4>1 DEF IsLast
      <4>3. own[n] = new.private[n]
        BY <3>1, Read
      <4>. QED
        BY <2>1, <2>2, <3>1, <4>2, <4>3
    <3>2. CASE n \notin DOMAIN own
      <4>1. HavingPrivate(n)' = HavingPrivate(n)
        BY <2>4, <3>2
      <4>2. i \in HavingPrivate(n) /\ IsLast(i, HavingPrivate(n))
        BY <2>6, <4>1 DEF IsLast
      <4>3. i \in 1 .. l /\ n \in DOMAIN answers[i].private
        BY <2>1, <4>2 DEF HavingPrivate
      <4>4. n \in DOMAIN old /\ old[n] = answers[i].private[n]
        BY <2>1, <4>2, <4>3 DEF PrivateKeysAreMerged
      <4>. QED
        BY <2>1, <2>2, <3>2, <4>3, <4>4
    <3>. QED
      BY <3>1, <3>2
  <2>. QED
    BY <2>5, <2>6 DEF PrivateKeysAreMerged
<1>. QED
  BY <1>1, <1>2, Steps

(* However resolves of a media overlap, the private keys that can be read  *)
(* in it are those of all the answers whose private keys could be read.    *)
THEOREM PrivateKeys == MediaSpec => []PrivateKeysAreMerged
<1>1. MediaInit => PrivateKeysAreMerged
  <2> SUFFICES ASSUME MediaInit PROVE PrivateKeysAreMerged
    OBVIOUS
  <2>1. DOMAIN answers = {1} /\ answers[1] = media
    BY DEF MediaInit
  <2>2. \A n \in DOMAIN Deserialize(media.private) :
           Deserialize(media.private)[n] = media.private[n]
    BY Read
  <2>. QED
    BY <2>1, <2>2, Readable DEF PrivateKeysAreMerged, IsLast
<1>. QED
  BY <1>1, InitAnswers, NextAnswers, NextPrivateKeys, PTL DEF MediaSpec

-----------------------------------------------------------------------------
(* The values that are held.                                               *)

Copies == {u \in Users : held[u] # None /\ held[u].is = "copy"}

HeldAreKnown ==
    /\ held = [u \in Users |-> held[u]]
    /\ \A u \in Users : held[u] # None => held[u].is \in {"own", "copy"}

CopiesInv == HeldAreKnown /\ ~freed /\ copies = Cardinality(Copies)

(* Who takes a copy is one more who holds one, and who frees one is one    *)
(* less.                                                                   *)
LEMMA NextCopies ==
  ASSUME CopiesInv, [MediaNext]_<<vars, mediaVars>>
  PROVE  CopiesInv'
<1> USE UsersAssumption
<1>1. IsFiniteSet(Copies)
  BY FS_Subset DEF Copies
<1>2. CASE UNCHANGED vars
  BY <1>2 DEF vars, CopiesInv, HeldAreKnown, Copies
<1>3. ASSUME NEW u \in Users, NEW data, GetOwn(u, data) PROVE CopiesInv'
  <2>1. HeldAreKnown'
    BY <1>3 DEF CopiesInv, HeldAreKnown, GetOwn, None
  <2>2. Copies' = Copies
    BY <1>3 DEF CopiesInv, HeldAreKnown, GetOwn, None, Copies
  <2>. QED
    BY <1>3, <2>1, <2>2 DEF CopiesInv, GetOwn
<1>4. ASSUME NEW u \in Users, NEW data, GetCopy(u, data) PROVE CopiesInv'
  <2>1. HeldAreKnown'
    BY <1>4 DEF CopiesInv, HeldAreKnown, GetCopy, None
  <2>2. Copies' = Copies \cup {u} /\ u \notin Copies
    BY <1>4 DEF CopiesInv, HeldAreKnown, GetCopy, None, Copies
  <2>3. Cardinality(Copies') = Cardinality(Copies) + 1
    BY <1>1, <2>2, FS_AddElement
  <2>. QED
    BY <1>4, <2>1, <2>3 DEF CopiesInv, GetCopy
<1>5. ASSUME NEW u \in Users, FreeValue(u) PROVE CopiesInv'
  <2>1. HeldAreKnown'
    BY <1>5 DEF CopiesInv, HeldAreKnown, FreeValue, None
  <2>2. Copies' = Copies \ {u}
    BY <1>5 DEF CopiesInv, HeldAreKnown, FreeValue, None, Copies
  <2>3. Cardinality(Copies') = IF u \in Copies THEN Cardinality(Copies) - 1
                               ELSE Cardinality(Copies)
    BY <1>1, <2>2, FS_RemoveElement
  <2>4. u \in Copies <=> ~IsOwn(u)
    BY <1>5 DEF CopiesInv, HeldAreKnown, FreeValue, Copies, IsOwn
  <2>. QED
    BY <1>5, <2>1, <2>3, <2>4 DEF CopiesInv, FreeValue, IsOwn
<1>. QED
  BY <1>2, <1>3, <1>4, <1>5
     DEF MediaNext, mediaVars, vars, Resolve, Expand, Free, Answer

(* For any number of users, the copies that are allocated are those        *)
(* somebody holds, and the text of the string is never freed with a value. *)
THEOREM CopiesFreed == MediaSpec => []CopiesAreFreed
<1>1. MediaInit => CopiesInv
  <2> SUFFICES ASSUME MediaInit PROVE CopiesInv
    OBVIOUS
  <2>1. Copies = {}
    BY DEF MediaInit, Init, Copies, None
  <2>. QED
    BY <2>1, FS_EmptySet DEF MediaInit, Init, CopiesInv, HeldAreKnown
<1>2. CopiesInv => CopiesAreFreed
  BY DEF CopiesInv, CopiesAreFreed, Copies
<1>. QED
  BY <1>1, <1>2, NextCopies, PTL DEF MediaSpec

-----------------------------------------------------------------------------
(* Sequences that are put together.                                        *)

(* A set of numbers that has 0 and with each number the next one, up to n. *)
LEMMA UpTo ==
  ASSUME NEW n \in Nat, NEW T \in SUBSET Nat, 0 \in T,
         \A i \in 1 .. n : i - 1 \in T => i \in T
  PROVE  0 .. n \subseteq T
<1> DEFINE Missing == (0 .. n) \ T
           R == OpToRel(<, Nat)
<1>1. SUFFICES ASSUME Missing # {} PROVE FALSE
  OBVIOUS
<1>2. IsWellFoundedOn(R, Nat)
  BY NatLessThanWellFounded
<1>3. \A j, k \in Nat : j < k => <<j, k>> \in R
  <2>1. R = {ss \in Nat \X Nat : ss[1] < ss[2]}
    BY Zenon DEF OpToRel
  <2>. QED
    BY <2>1
<1>. HIDE DEF R
<1>4. Missing \in SUBSET Nat
  OBVIOUS
<1>5. PICK k \in Missing : \A j \in Missing : ~(<<j, k>> \in R)
  <2>. HIDE DEF Missing
  <2>. QED
    BY <1>1, <1>2, <1>4, WFMin, Zenon
<1>6. k \in 1 .. n /\ k - 1 \in 0 .. n /\ k - 1 \in Nat /\ k \in Nat /\ k - 1 < k
  OBVIOUS
<1>7. k - 1 \in T
  BY <1>3, <1>5, <1>6
<1>. QED
  BY <1>6, <1>7

(* What the first of some sequences are, put together.                     *)
Concats(s, n, g) ==
    /\ g[0] = <<>>
    /\ \A k \in 1 .. n : g[k] = g[k - 1] \o s[k]

(* FlattenSeq is what its recursion says: there is a function that it is   *)
(* the last value of.                                                      *)
LEMMA Flatten ==
  ASSUME NEW S, NEW n \in Nat, NEW s \in [1 .. n -> Seq(S)]
  PROVE  \E g \in [0 .. n -> Seq(S)] : Concats(s, n, g) /\ FlattenSeq(s) = g[n]
<1>1. s \in Seq(Seq(S)) /\ Len(s) = n
  OBVIOUS
<1> DEFINE T == {k \in 0 .. n : \E g \in [0 .. k -> Seq(S)] : Concats(s, k, g)}
<1>2. \E g \in [0 .. n -> Seq(S)] : Concats(s, n, g)
  <2>1. 0 \in T
    <3> DEFINE nothing == [i \in 0 .. 0 |-> <<>>]
    <3>1. nothing \in [0 .. 0 -> Seq(S)]
      BY EmptySeq
    <3>2. nothing[0] = <<>> /\ 1 .. 0 = {}
      OBVIOUS
    <3>. HIDE DEF nothing
    <3>3. \A k \in 1 .. 0 : nothing[k] = nothing[k - 1] \o s[k]
      BY <3>2, Zenon
    <3>4. Concats(s, 0, nothing)
      BY <3>2, <3>3, Zenon DEF Concats
    <3>. QED
      BY <3>1, <3>4
  <2>2. ASSUME NEW i \in 1 .. n, i - 1 \in T PROVE i \in T
    <3>1. PICK g \in [0 .. i - 1 -> Seq(S)] : Concats(s, i - 1, g)
      BY <2>2
    <3> DEFINE h == [j \in 0 .. i |-> IF j = i THEN g[i - 1] \o s[i] ELSE g[j]]
    <3>2. g[i - 1] \o s[i] \in Seq(S)
      BY <3>1, ConcatProperties
    <3>3. h \in [0 .. i -> Seq(S)]
      BY <3>2
    <3>4. \A j \in 0 .. i - 1 : h[j] = g[j]
      OBVIOUS
    <3>5. h[i] = h[i - 1] \o s[i]
      <4>1. h[i] = g[i - 1] \o s[i]
        <5>1. i \in 0 .. i
          OBVIOUS
        <5>. QED
          BY <5>1, Zenon
      <4>2. i - 1 \in 0 .. i - 1
        OBVIOUS
      <4>. QED
        BY <3>4, <4>1, <4>2, Zenon
    <3>6. Concats(s, i, h)
      <4>. HIDE DEF h
      <4>1. h[0] = <<>>
        BY <3>1, <3>4 DEF Concats
      <4>2. ASSUME NEW j \in 1 .. i PROVE h[j] = h[j - 1] \o s[j]
        <5>1. CASE j = i
          BY <3>5, <5>1
        <5>2. CASE j # i
          <6>1. j \in 1 .. i - 1 /\ j \in 0 .. i - 1 /\ j - 1 \in 0 .. i - 1
            BY <5>2
          <6>. QED
            BY <3>1, <3>4, <6>1, Zenon DEF Concats
        <5>. QED
          BY <5>1, <5>2
      <4>3. \A j \in 1 .. i : h[j] = h[j - 1] \o s[j]
        BY <4>2, Zenon
      <4>. QED
        BY <4>1, <4>3, Zenon DEF Concats
    <3>7. i \in 0 .. n
      OBVIOUS
    <3>. HIDE DEF h
    <3>. QED
      BY <3>3, <3>6, <3>7, Zenon
  <2>3. T \in SUBSET Nat
    OBVIOUS
  <2>4. 0 .. n \subseteq T
    <3>. HIDE DEF T
    <3>. QED
      BY <2>1, <2>2, <2>3, UpTo
  <2>. QED
    BY <2>4
<1>3. PICK g \in [0 .. n -> Seq(S)] : Concats(s, n, g)
  BY <1>2
<1>4. CASE n = 0
  <2>1. FlattenSeq(s) = <<>>
    BY <1>1, <1>4 DEF FlattenSeq
  <2>. QED
    BY <1>3, <1>4, <2>1 DEF Concats
<1>5. CASE n # 0
  <2> DEFINE Body(f) == [i \in 1 .. Len(s) |-> IF i = 1 THEN s[i] ELSE f[i - 1] \o s[i]]
             flatten == CHOOSE f : f = Body(f)
             h == [i \in 1 .. n |-> g[i]]
  <2>1. FlattenSeq(s) = flatten[n]
    BY <1>1, <1>5 DEF FlattenSeq
  <2>2. h = Body(h)
    <3>1. g[1] = s[1]
      <4>1. g[1] = g[0] \o s[1] /\ g[0] = <<>> /\ s[1] \in Seq(S)
        <5>1. 1 \in 1 .. n /\ 1 - 1 = 0
          BY <1>5
        <5>. QED
          BY <1>3, <5>1 DEF Concats
      <4>. QED
        BY <4>1, ConcatEmptySeq
    <3>2. \A i \in 1 .. n : h[i] = IF i = 1 THEN s[i] ELSE h[i - 1] \o s[i]
      <4> SUFFICES ASSUME NEW i \in 1 .. n PROVE h[i] = IF i = 1 THEN s[i] ELSE h[i - 1] \o s[i]
        OBVIOUS
      <4>1. CASE i = 1
        BY <3>1, <4>1
      <4>2. CASE i # 1
        <5>1. h[i] = g[i] /\ h[i - 1] = g[i - 1]
          BY <4>2
        <5>2. g[i] = g[i - 1] \o s[i]
          BY <1>3, Zenon DEF Concats
        <5>. HIDE DEF h
        <5>. QED
          BY <4>2, <5>1, <5>2, Zenon
      <4>. QED
        BY <4>1, <4>2
    <3>. QED
      BY <1>1, <3>2
  <2>3. flatten = Body(flatten)
    <3>. HIDE DEF Body, h
    <3>. QED
      BY <2>2, Zenon
  <2>4. \A i \in 1 .. n : flatten[i] = IF i = 1 THEN s[i] ELSE flatten[i - 1] \o s[i]
    <3>. HIDE DEF flatten
    <3>. QED
      BY <1>1, <2>3
  <2>. HIDE DEF flatten
  <2> DEFINE Same == {k \in Nat : k \in 1 .. n => flatten[k] = g[k]}
  <2>5. ASSUME NEW i \in 1 .. n, i - 1 \in Same PROVE i \in Same
    <3>1. CASE i = 1
      <4>1. g[1] = g[0] \o s[1] /\ g[0] = <<>> /\ s[1] \in Seq(S)
        <5>1. 1 \in 1 .. n /\ 1 - 1 = 0
          BY <1>5
        <5>. QED
          BY <1>3, <5>1 DEF Concats
      <4>2. flatten[i] = g[i]
        BY <2>4, <3>1, <4>1, ConcatEmptySeq
      <4>. QED
        BY <4>2
    <3>2. CASE i # 1
      <4>1. flatten[i - 1] = g[i - 1]
        BY <2>5, <3>2
      <4>2. g[i] = g[i - 1] \o s[i]
        BY <1>3, Zenon DEF Concats
      <4>3. flatten[i] = g[i]
        BY <2>4, <3>2, <4>1, <4>2, Zenon
      <4>. QED
        BY <4>3
    <3>. QED
      BY <3>1, <3>2
  <2>6. 0 \in Same /\ Same \in SUBSET Nat
    OBVIOUS
  <2>7. 0 .. n \subseteq Same
    <3>. HIDE DEF Same
    <3>. QED
      BY <2>5, <2>6, UpTo
  <2>8. flatten[n] = g[n]
    BY <1>5, <2>7
  <2>. QED
    BY <1>3, <2>1, <2>8
<1>. QED
  BY <1>4, <1>5

-----------------------------------------------------------------------------
(* Values of the string: their texts, and what they say of the media.      *)

(* A text is what its pieces are put together.                             *)
LEMMA FlattenPieces ==
  ASSUME NEW S, NEW t \in Seq(S)
  PROVE  FlattenSeq([i \in DOMAIN t |-> <<t[i]>>]) = t
<1> DEFINE n == Len(t)
           s == [i \in 1 .. n |-> <<t[i]>>]
<1>1. n \in Nat /\ DOMAIN t = 1 .. n /\ \A i \in 1 .. n : t[i] \in S /\ s[i] = <<t[i]>>
  OBVIOUS
<1>2. s \in [1 .. n -> Seq(S)]
  BY <1>1
<1>. HIDE DEF n
<1>3. PICK g \in [0 .. n -> Seq(S)] : Concats(s, n, g) /\ FlattenSeq(s) = g[n]
  <2>. HIDE DEF s
  <2>. QED
    BY <1>1, <1>2, Flatten
<1> DEFINE Begins(k) == Len(g[k]) = k /\ \A i \in 1 .. k : g[k][i] = t[i]
           T == {k \in Nat : k \in 0 .. n => Begins(k)}
<1>4. 0 \in T /\ T \in SUBSET Nat
  BY <1>3 DEF Concats
<1>5. ASSUME NEW k \in 1 .. n, k - 1 \in T PROVE k \in T
  <2>1. g[k] = g[k - 1] \o <<t[k]>>
    <3>1. g[k] = g[k - 1] \o s[k]
      <4>. HIDE DEF s
      <4>. QED
        BY <1>3, Zenon DEF Concats
    <3>. QED
      BY <3>1
  <2>2. k - 1 \in 0 .. n /\ k \in Nat /\ k - 1 \in Nat
    BY <1>1
  <2>3. Begins(k - 1)
    <3>. HIDE DEF Begins
    <3>. QED
      BY <1>5, <2>2
  <2> DEFINE before == g[k - 1]
             piece == <<t[k]>>
  <2>4. before \in Seq(S) /\ piece \in Seq(S) /\ Len(piece) = 1 /\ piece[1] = t[k]
    BY <1>1, <2>2
  <2>5. Len(before) = k - 1 /\ \A i \in 1 .. k - 1 : before[i] = t[i]
    BY <2>3
  <2>6. g[k] = before \o piece
    BY <2>1
  <2>. HIDE DEF before, piece
  <2>7. Len(g[k]) = k
    <3>1. Len(g[k]) = Len(before) + Len(piece)
      BY <2>4, <2>6, ConcatProperties
    <3>. QED
      BY <2>2, <2>4, <2>5, <3>1
  <2>8. ASSUME NEW i \in 1 .. k PROVE g[k][i] = t[i]
    <3>1. CASE i = k
      BY <2>2, <2>4, <2>5, <2>6, <3>1, ConcatProperties
    <3>2. CASE i # k
      BY <2>2, <2>4, <2>5, <2>6, <3>2, ConcatProperties
    <3>. QED
      BY <3>1, <3>2
  <2>. QED
    BY <2>2, <2>7, <2>8
<1>6. 0 .. n \subseteq T
  <2>. HIDE DEF T
  <2>. QED
    BY <1>1, <1>4, <1>5, UpTo
<1>7. n \in T /\ n \in 0 .. n
  BY <1>1, <1>6
<1>8. g[n] \in Seq(S) /\ Len(g[n]) = Len(t) /\ \A i \in 1 .. Len(t) : g[n][i] = t[i]
  BY <1>7 DEF n
<1>9. g[n] = t
  BY <1>8
<1>. QED
  BY <1>1, <1>3, <1>9

(* Texts put together are a text.                                          *)
LEMMA FlattenIsText ==
  ASSUME NEW S, NEW n \in Nat, NEW s \in [1 .. n -> Seq(S)]
  PROVE  FlattenSeq(s) \in Seq(S)
<1>1. PICK g \in [0 .. n -> Seq(S)] : FlattenSeq(s) = g[n]
  BY Flatten
<1>. QED
  BY <1>1

(* A set of numbers that is not empty has a least one.                     *)
LEMMA LeastOf ==
  ASSUME NEW H \in SUBSET Nat, H # {}
  PROVE  \E i \in H : \A j \in H : i <= j
<1> DEFINE R == OpToRel(<, Nat)
<1>1. IsWellFoundedOn(R, Nat)
  BY NatLessThanWellFounded
<1>2. \A j, k \in Nat : j < k => <<j, k>> \in R
  <2>1. R = {ss \in Nat \X Nat : ss[1] < ss[2]}
    BY Zenon DEF OpToRel
  <2>. QED
    BY <2>1
<1>. HIDE DEF R
<1>3. H \subseteq Nat /\ H # {}
  OBVIOUS
<1>4. \E i \in H : \A j \in H : ~(<<j, i>> \in R)
  BY <1>1, <1>3, WFMin, Zenon
<1>5. PICK i \in H : \A j \in H : ~(<<j, i>> \in R)
  BY <1>4
<1>6. ASSUME NEW j \in H PROVE i <= j
  <2>1. ~(j < i)
    BY <1>2, <1>3, <1>5
  <2>. QED
    BY <1>3, <2>1
<1>. QED
  BY <1>6

(* What is left when a call's names are expanded.                          *)
Plain == [kind : {"literal", "conf", "str", "other"}, name : Words]

(* What an expansion leaves in a text are plain pieces.                    *)
LEMMA PlainPieces ==
  ASSUME NEW p \in Pieces
  PROVE  /\ p \in Plain <=> p.kind \notin DataKinds \cup {"percent"}
         /\ Literals \subseteq Plain /\ Plain \subseteq Pieces
         /\ Piece("literal", "%") \in Plain
<1>1. p.kind \in Kinds /\ p.name \in Words /\ p = [kind |-> p.kind, name |-> p.name]
  BY DEF Pieces
<1>2. Kinds \ (DataKinds \cup {"percent"}) = {"literal", "conf", "str", "other"}
  BY DEF Kinds, DataKinds
<1>3. p \in Plain <=> p.kind \in {"literal", "conf", "str", "other"}
  <2>1. ASSUME p \in Plain PROVE p.kind \in {"literal", "conf", "str", "other"}
    BY <2>1 DEF Plain
  <2>2. ASSUME p.kind \in {"literal", "conf", "str", "other"} PROVE p \in Plain
    <3>1. [kind |-> p.kind, name |-> p.name] \in Plain
      BY <1>1, <2>2, Zenon DEF Plain
    <3>. QED
      BY <1>1, <3>1, Zenon
  <2>. QED
    BY <2>1, <2>2
<1>4. Literals \subseteq Plain /\ Piece("literal", "%") \in Plain
  <2>1. {"literal"} \subseteq {"literal", "conf", "str", "other"}
    OBVIOUS
  <2>2. Literals \subseteq Plain
    BY <2>1 DEF Literals, Plain
  <2>3. [kind |-> "literal", name |-> "%"] \in Plain
    <3>1. "literal" \in {"literal", "conf", "str", "other"}
      OBVIOUS
    <3>. QED
      BY <3>1, WordsAssumption, Zenon DEF Plain
  <2>. QED
    BY <2>2, <2>3 DEF Piece
<1>5. Plain \subseteq Pieces
  BY <1>2 DEF Plain, Pieces
<1>. QED
  BY <1>1, <1>2, <1>3, <1>4, <1>5

(* Expanding a piece leaves no name that data could expand.                *)
LEMMA DataValueIsPlain ==
  ASSUME NEW p \in Pieces, NEW d \in Data
  PROVE  /\ DataValue(p, d) \in Seq(Plain)
         /\ p \in Plain => DataValue(p, d) = <<p>>
<1>1. CASE p.kind \in DataKinds
  <2>1. DataValue(p, d) = IF d = NoData THEN <<>> ELSE Lookup(d, p)
    <3>1. p.kind # "percent"
      BY <1>1 DEF DataKinds
    <3>. QED
      BY <1>1, <3>1 DEF DataValue
  <2>2. p \notin Plain
    BY <1>1, PlainPieces
  <2>3. ASSUME d # NoData, p \in DOMAIN d PROVE d[p] \in Seq(Plain)
    <3>1. d[p] \in Seq(Literals)
      BY <2>3, DataAssumption
    <3>. QED
      BY <3>1, PlainPieces
  <2>. QED
    BY <2>1, <2>2, <2>3 DEF Lookup
<1>2. CASE p.kind = "percent"
  <2>1. DataValue(p, d) = <<Piece("literal", "%")>>
    BY <1>2 DEF DataValue, DataKinds
  <2>2. p \notin Plain
    BY <1>2, PlainPieces
  <2>. QED
    BY <2>1, <2>2, PlainPieces
<1>3. CASE p.kind \notin DataKinds \cup {"percent"}
  <2>1. DataValue(p, d) = <<p>>
    BY <1>3 DEF DataValue
  <2>. QED
    BY <1>3, <2>1, PlainPieces
<1>. QED
  BY <1>1, <1>2, <1>3

(* A text that was once expanded to itself has nothing to expand.          *)
LEMMA NothingToExpand ==
  ASSUME NEW text \in Seq(Pieces), NEW d \in Data, NEW e \in Data, ExpandString(text, d) = text
  PROVE  ExpandString(text, e) = text
<1>1. ExpandString(text, d) \in Seq(Plain)
  <2> DEFINE s == [i \in 1 .. Len(text) |-> DataValue(text[i], d)]
  <2>1. Len(text) \in Nat /\ DOMAIN text = 1 .. Len(text) /\ \A i \in 1 .. Len(text) : text[i] \in Pieces
    OBVIOUS
  <2>2. s \in [1 .. Len(text) -> Seq(Plain)]
    BY <2>1, DataValueIsPlain
  <2>3. ExpandString(text, d) = FlattenSeq(s)
    BY <2>1 DEF ExpandString
  <2>. HIDE DEF s
  <2>. QED
    BY <2>1, <2>2, <2>3, FlattenIsText
<1>2. text \in Seq(Plain)
  BY <1>1
<1>3. [i \in DOMAIN text |-> DataValue(text[i], e)] = [i \in DOMAIN text |-> <<text[i]>>]
  <2>1. ASSUME NEW i \in DOMAIN text PROVE DataValue(text[i], e) = <<text[i]>>
    <3>1. text[i] \in Plain /\ text[i] \in Pieces
      BY <1>2
    <3>. QED
      BY <3>1, DataValueIsPlain
  <2>. QED
    BY <2>1
<1>. QED
  BY <1>2, <1>3, FlattenPieces DEF ExpandString

(* The first located string with the name is a text.                       *)
LEMMA LocatedIsText ==
  ASSUME NEW name
  PROVE  LocatedString(name) \in Seq(Pieces)
<1> DEFINE has == {i \in DOMAIN Located : name \in DOMAIN Located[i]}
           first == CHOOSE i \in has : \A j \in has : i <= j
<1>1. CASE has = {}
  BY <1>1 DEF LocatedString
<1>2. CASE has # {}
  <2>1. has \in SUBSET Nat
    BY LocatedAssumption
  <2>2. \E i \in has : \A j \in has : i <= j
    <3>. HIDE DEF has
    <3>. QED
      BY <1>2, <2>1, LeastOf
  <2>3. first \in has
    <3>. HIDE DEF has
    <3>. QED
      BY <2>2
  <2>4. LocatedString(name) = Located[first][name]
    BY <1>2 DEF LocatedString
  <2>. HIDE DEF first
  <2>. QED
    BY <2>3, <2>4, LocatedAssumption
<1>. QED
  BY <1>1, <1>2

(* What a string is made with is a text.                                   *)
LEMMA ExpandFullIsText ==
  ASSUME NEW text \in Seq(Pieces)
  PROVE  ExpandFull(text) \in Seq(Pieces)
<1>1. \A p \in Pieces : FixedValue(p) \in Seq(Pieces)
  <2>1. ASSUME NEW p \in Pieces PROVE FixedValue(p) \in Seq(Pieces)
    <3>1. CASE p.kind = "conf"
      BY <3>1, ConfigAssumption DEF FixedValue, Lookup
    <3>2. CASE p.kind = "str"
      BY <3>2, LocatedIsText DEF FixedValue
    <3>3. CASE p.kind \notin {"conf", "str"}
      BY <3>3 DEF FixedValue
    <3>. QED
      BY <3>1, <3>2, <3>3
  <2>. QED
    BY <2>1
<1> DEFINE s == [i \in 1 .. Len(text) |-> FixedValue(text[i])]
<1>2. Len(text) \in Nat /\ DOMAIN text = 1 .. Len(text) /\ \A i \in 1 .. Len(text) : text[i] \in Pieces
  OBVIOUS
<1>3. s \in [1 .. Len(text) -> Seq(Pieces)]
  BY <1>1, <1>2
<1>4. ExpandFull(text) = FlattenSeq(s)
  BY <1>2 DEF ExpandFull
<1>. HIDE DEF s
<1>. QED
  BY <1>2, <1>3, <1>4, FlattenIsText

-----------------------------------------------------------------------------
(* What a media, and a call, has is what some media has.                   *)
KeysOfMedias(keys) ==
    \A n \in DOMAIN keys : \E m \in Medias : n \in DOMAIN m.keys /\ m.keys[n] = keys[n]

PrivateOfMedias(table) ==
    \A n \in DOMAIN table : \E m \in Medias : n \in DOMAIN m.private /\ m.private[n] = table[n]

MediaInv ==
    /\ KeysOfMedias(media.keys) /\ PrivateOfMedias(media.private)
    /\ calls = [u \in Users |-> calls[u]]
    /\ \A u \in Users : calls[u].is = "running" =>
        /\ PrivateOfMedias(calls[u].private)
        /\ \A n \in DOMAIN calls[u].private : calls[u].private[n] # NoValue
        /\ calls[u].own \in OwnData

(* The media starts with what one media has.                               *)
LEMMA InitMedia == MediaInit => MediaInv
BY DEF MediaInit, MediaInv, KeysOfMedias, PrivateOfMedias, Idle

(* An answer is merged in.                                                 *)
LEMMA MergeOfMedias ==
  ASSUME NEW m \in Medias, KeysOfMedias(media.keys), PrivateOfMedias(media.private)
  PROVE  /\ KeysOfMedias(MergeMedias(media, m).keys)
         /\ PrivateOfMedias(MergeMedias(media, m).private)
<1>1. KeysOfMedias(m.keys) /\ PrivateOfMedias(m.private)
  BY DEF KeysOfMedias, PrivateOfMedias
<1>2. KeysOfMedias(MergeHashtables(m.keys, media.keys))
  <2> DEFINE both == MergeHashtables(m.keys, media.keys)
  <2>1. /\ DOMAIN both = DOMAIN m.keys \cup DOMAIN media.keys
        /\ \A k \in DOMAIN m.keys : both[k] = m.keys[k]
        /\ \A k \in DOMAIN media.keys \ DOMAIN m.keys : both[k] = media.keys[k]
    BY Merged
  <2>. HIDE DEF both
  <2>2. KeysOfMedias(both)
    BY <1>1, <2>1 DEF KeysOfMedias
  <2>. QED
    BY <2>2 DEF both
<1>3. PrivateOfMedias(Deserialize(m.private)) /\ PrivateOfMedias(Deserialize(media.private))
  <2>1. DOMAIN NoPrivate = {}
    BY DEF NoPrivate
  <2>. QED
    BY <1>1, <2>1 DEF KeysOfMedias, PrivateOfMedias, Deserialize
<1>4. PrivateOfMedias(MergeHashtables(Deserialize(m.private), Deserialize(media.private)))
  <2> DEFINE own == Deserialize(m.private)
             old == Deserialize(media.private)
             both == MergeHashtables(own, old)
  <2>1. /\ DOMAIN both = DOMAIN own \cup DOMAIN old
        /\ \A n \in DOMAIN own : both[n] = own[n]
        /\ \A n \in DOMAIN old \ DOMAIN own : both[n] = old[n]
    BY Merged
  <2>. HIDE DEF both, own, old
  <2>2. PrivateOfMedias(both)
    BY <1>3, <2>1 DEF PrivateOfMedias, own, old
  <2>. QED
    BY <2>2 DEF both, own, old
<1>5. PrivateOfMedias(MergePrivate(media.private, m.private))
  BY <1>1, <1>3, <1>4 DEF MergePrivate
<1>. QED
  BY <1>2, <1>5 DEF MergeMedias

(* Calls and answers keep it so.                                           *)
LEMMA NextMedia == MediaInv /\ [MediaNext]_<<vars, mediaVars>> => MediaInv'
<1>. SUFFICES ASSUME MediaInv, [MediaNext]_<<vars, mediaVars>> PROVE MediaInv'
  OBVIOUS
<1>1. CASE UNCHANGED mediaVars
  BY <1>1 DEF mediaVars, MediaInv, KeysOfMedias, PrivateOfMedias
<1>2. ASSUME NEW u \in Users, Resolve(u) PROVE MediaInv'
  <2>1. PICK own \in OwnData :
          calls' = [calls EXCEPT ![u] = [is |-> "running", own |-> own,
                                         private |-> Deserialize(media.private)]]
    BY <1>2 DEF Resolve
  <2>2. UNCHANGED media
    BY <1>2 DEF Resolve
  <2>3. \A n \in DOMAIN Deserialize(media.private) :
          /\ n \in DOMAIN media.private
          /\ Deserialize(media.private)[n] = media.private[n] /\ media.private[n] # NoValue
    BY DEF Deserialize, NoPrivate
  <2>4. PrivateOfMedias(Deserialize(media.private))
    BY <2>3 DEF MediaInv, PrivateOfMedias
  <2>5. \A v \in Users : v # u => calls'[v] = calls[v]
    BY <2>1 DEF MediaInv
  <2>6. calls'[u] = [is |-> "running", own |-> own, private |-> Deserialize(media.private)]
    BY <2>1 DEF MediaInv
  <2>7. calls' = [v \in Users |-> calls'[v]]
    BY <2>1 DEF MediaInv
  <2>8. ASSUME NEW v \in Users, calls'[v].is = "running"
        PROVE  /\ PrivateOfMedias(calls'[v].private)
               /\ \A n \in DOMAIN calls'[v].private : calls'[v].private[n] # NoValue
               /\ calls'[v].own \in OwnData
    BY <2>3, <2>4, <2>5, <2>6, <2>8 DEF MediaInv
  <2>. QED
    BY <2>2, <2>7, <2>8 DEF MediaInv, KeysOfMedias, PrivateOfMedias
<1>3. ASSUME NEW u \in Users, Answer(u) PROVE MediaInv'
  <2>1. calls' = [calls EXCEPT ![u] = Over]
    BY <1>3 DEF Answer
  <2>2. media' = media \/ \E new \in Medias : media' = MergeMedias(media, new)
    BY <1>3 DEF Answer
  <2>3. KeysOfMedias(media'.keys) /\ PrivateOfMedias(media'.private)
    BY <2>2, MergeOfMedias DEF MediaInv
  <2>4. calls' = [v \in Users |-> calls'[v]]
    BY <2>1 DEF MediaInv
  <2>5. ASSUME NEW v \in Users, calls'[v].is = "running" PROVE calls'[v] = calls[v]
    BY <2>1, <2>5 DEF MediaInv, Over
  <2>. QED
    BY <2>3, <2>4, <2>5 DEF MediaInv, KeysOfMedias, PrivateOfMedias
<1>. QED
  BY <1>1, <1>2, <1>3 DEF MediaNext, Expand, Free, mediaVars

(* A call expands names with data of its own.                              *)
LEMMA DataOfIsData ==
  ASSUME MediaInv, NEW u \in Users, calls[u].is = "running"
  PROVE  DataOf(u) \in Data
<1> DEFINE c == calls[u]
           d == DataOf(u)
           D == DOMAIN d
<1>1. D \in SUBSET DataNames
  BY DEF DataOf
<1>2. ASSUME NEW p \in D PROVE d[p] \in ValuesOf(p)
  <2>1. CASE p.kind = "key" /\ p.name \in DOMAIN media.keys
    <3>1. d[p] = media.keys[p.name]
      BY <2>1 DEF DataOf
    <3>2. PICK m \in Medias : p.name \in DOMAIN m.keys /\ m.keys[p.name] = media.keys[p.name]
      BY <2>1 DEF MediaInv, KeysOfMedias
    <3>. QED
      BY <2>1, <3>1, <3>2 DEF ValuesOf
  <2>2. CASE p.kind = "priv" /\ p.name \in DOMAIN c.private
    <3>1. d[p] = c.private[p.name]
      BY <2>2 DEF DataOf
    <3>2. c.private[p.name] # NoValue
      BY <2>2 DEF MediaInv
    <3>3. PICK m \in Medias : p.name \in DOMAIN m.private /\ m.private[p.name] = c.private[p.name]
      BY <2>2 DEF MediaInv, PrivateOfMedias
    <3>. QED
      BY <2>2, <3>1, <3>2, <3>3 DEF ValuesOf
  <2>3. CASE /\ ~(p.kind = "key" /\ p.name \in DOMAIN media.keys)
             /\ ~(p.kind = "priv" /\ p.name \in DOMAIN c.private)
    <3>1. p \in DOMAIN c.own /\ d[p] = c.own[p]
      BY <2>3 DEF DataOf
    <3>2. c.own \in OwnData
      BY DEF MediaInv
    <3>. QED
      BY <3>1, <3>2 DEF ValuesOf
  <2>. QED
    BY <2>1, <2>2, <2>3
<1>3. d = [p \in D |-> d[p]]
  BY DEF DataOf
<1>4. d \in [D -> UNION {ValuesOf(p) : p \in D}]
  <2>. HIDE DEF d, D
  <2>. QED
    BY <1>2, <1>3
<1>. HIDE DEF d, D
<1>5. d \in Data
  BY <1>1, <1>2, <1>4, ExpandDataAssumption
<1>. QED
  BY <1>5 DEF d

-----------------------------------------------------------------------------
(* What the string remembers.                                              *)

(* "unexpandable" is never wrong: whatever the data, the text is its own   *)
(* expansion.                                                              *)
Source == IF init = NoText THEN NoText ELSE ExpandFull(init)

(* A string that is known as unexpandable has the same value for any call. *)
StringInv ==
    /\ init \in Texts /\ str = Source
    /\ status \in {"unknown", "expandable", "unexpandable"} /\ freed \in BOOLEAN
    /\ init = NoText => status = "unexpandable"
    /\ init # NoText /\ status = "unexpandable" => \A d \in Data : ExpandString(str, d) = str

(* A value that somebody holds is that of the text for the call.           *)
HeldInv ==
    \A u \in Users : held[u] # None =>
        /\ held[u].is \in {"own", "copy"} /\ held[u].data \in Data
        /\ held[u].text = IF init = NoText THEN NoText ELSE ExpandString(Source, held[u].data)

TextInv == MediaInv /\ CopiesInv /\ StringInv /\ HeldInv

(* A new string is given its text, and nobody holds a value.               *)
LEMMA InitText == MediaInit => StringInv /\ HeldInv
BY DEF MediaInit, Init, StringInv, HeldInv, Source

(* What is not about the string leaves it.                                 *)
LEMMA TextKept ==
  ASSUME StringInv, HeldInv, UNCHANGED vars
  PROVE  StringInv' /\ HeldInv'
<1>1. Source' = Source
  BY DEF Source, vars
<1>. QED
  BY <1>1 DEF StringInv, HeldInv, vars

(* The text is handed out itself only where it is the value.               *)
LEMMA GetOwnText ==
  ASSUME StringInv, HeldInv, HeldAreKnown, NEW u \in Users, NEW data \in Data, GetOwn(u, data)
  PROVE  StringInv' /\ HeldInv'
<1>1. /\ status = "unexpandable" /\ UNCHANGED <<init, str, status, freed>>
      /\ held' = [held EXCEPT ![u] = [is |-> "own", text |-> str, data |-> data]]
  BY DEF GetOwn
<1>2. Source' = Source
  BY <1>1 DEF Source
<1>3. StringInv'
  BY <1>1, <1>2 DEF StringInv
<1>4. str = IF init = NoText THEN NoText ELSE ExpandString(Source, data)
  BY <1>1 DEF StringInv, Source
<1>5. held'[u] = [is |-> "own", text |-> str, data |-> data] /\ \A v \in Users \ {u} : held'[v] = held[v]
  BY <1>1 DEF HeldAreKnown
<1>. HIDE DEF Source
<1>6. HeldInv'
  BY <1>1, <1>2, <1>4, <1>5 DEF HeldInv
<1>. QED
  BY <1>3, <1>6

(* A copy is the value for the call that asks, and what the string learns  *)
(* from it holds for the other calls as well.                              *)
LEMMA GetCopyText ==
  ASSUME StringInv, HeldInv, HeldAreKnown, NEW u \in Users, NEW data \in Data, GetCopy(u, data)
  PROVE  StringInv' /\ HeldInv'
<1> DEFINE value == ExpandString(str, data)
<1>1. /\ status # "unexpandable" /\ UNCHANGED <<init, str, freed>>
      /\ held' = [held EXCEPT ![u] = [is |-> "copy", text |-> value, data |-> data]]
      /\ status' = IF status = "unknown" THEN Learned(value, data) ELSE status
  BY DEF GetCopy
<1>2. Source' = Source
  BY <1>1 DEF Source
<1>3. init # NoText /\ str = Source
  BY <1>1 DEF StringInv
<1>4. str \in Seq(Pieces)
  BY <1>3, ExpandFullIsText, TextsAssumption DEF StringInv, Source
<1>5. ASSUME status' = "unexpandable" PROVE \A d \in Data : ExpandString(str, d) = str
  <2>1. value = str
    BY <1>1, <1>5 DEF Learned
  <2>. QED
    BY <1>4, <2>1, NothingToExpand
<1>6. status' \in {"unknown", "expandable", "unexpandable"}
  BY <1>1 DEF StringInv, Learned
<1>. HIDE DEF value
<1>7. StringInv'
  BY <1>1, <1>2, <1>3, <1>5, <1>6 DEF StringInv
<1>8. held'[u] = [is |-> "copy", text |-> value, data |-> data] /\ \A v \in Users \ {u} : held'[v] = held[v]
  BY <1>1 DEF HeldAreKnown
<1>9. value = ExpandString(Source, data)
  BY <1>3 DEF value
<1>. HIDE DEF Source
<1>10. HeldInv'
  BY <1>1, <1>2, <1>3, <1>8, <1>9 DEF HeldInv
<1>. QED
  BY <1>7, <1>10

(* A value that is freed is one that nobody holds any more.                *)
LEMMA FreeValueText ==
  ASSUME StringInv, HeldInv, HeldAreKnown, NEW u \in Users, FreeValue(u)
  PROVE  StringInv' /\ HeldInv'
<1>1. /\ UNCHANGED <<init, str, status>> /\ held' = [held EXCEPT ![u] = None]
      /\ freed' \in BOOLEAN
  BY DEF FreeValue, StringInv
<1>2. Source' = Source
  BY <1>1 DEF Source
<1>3. StringInv'
  BY <1>1, <1>2 DEF StringInv
<1>4. held'[u] = None /\ \A v \in Users \ {u} : held'[v] = held[v]
  BY <1>1 DEF HeldAreKnown
<1>. HIDE DEF Source
<1>5. HeldInv'
  BY <1>1, <1>2, <1>4 DEF HeldInv
<1>. QED
  BY <1>3, <1>5

(* Every step keeps the invariant.                                         *)
LEMMA NextText == TextInv /\ [MediaNext]_<<vars, mediaVars>> => TextInv'
<1>. SUFFICES ASSUME TextInv, [MediaNext]_<<vars, mediaVars>> PROVE TextInv'
  OBVIOUS
<1>1. MediaInv' /\ CopiesInv'
  BY NextMedia, NextCopies DEF TextInv
<1>2. StringInv /\ HeldInv /\ HeldAreKnown /\ MediaInv
  BY DEF TextInv, CopiesInv
<1>3. CASE UNCHANGED vars
  BY <1>1, <1>2, <1>3, TextKept DEF TextInv
<1>4. ASSUME NEW u \in Users, Expand(u) PROVE TextInv'
  <2>1. PICK data \in Data : GetOwn(u, data) \/ GetCopy(u, data)
    BY <1>2, <1>4, DataOfIsData, DataAssumption DEF Expand
  <2>. QED
    BY <1>1, <1>2, <2>1, GetOwnText, GetCopyText DEF TextInv
<1>5. ASSUME NEW u \in Users, Free(u) PROVE TextInv'
  BY <1>1, <1>2, <1>5, FreeValueText DEF Free, TextInv
<1>. QED
  BY <1>3, <1>4, <1>5 DEF MediaNext, Resolve, Answer

(* The invariant holds in every state.                                     *)
LEMMA TextInvariance == MediaSpec => []TextInv
<1>1. MediaInit => CopiesInv
  <2> SUFFICES ASSUME MediaInit PROVE CopiesInv
    OBVIOUS
  <2>1. Copies = {}
    BY DEF MediaInit, Init, Copies, None
  <2>. QED
    BY <2>1, FS_EmptySet DEF MediaInit, Init, CopiesInv, HeldAreKnown
<1>2. MediaInit => TextInv
  BY <1>1, InitMedia, InitText DEF TextInv
<1>. QED
  BY <1>2, NextText, PTL DEF MediaSpec

(* Every value that grl_xml_factory_expandable_string_get_value returns is *)
(* a text, and so is every data that a call expands it with.               *)
THEOREM TextTypes == MediaSpec => []TypeOK
<1>1. TextInv => TypeOK
  <2> SUFFICES ASSUME TextInv PROVE TypeOK
    OBVIOUS
  <2>1. str = NoText \/ \A i \in DOMAIN str : str[i].kind \in Kinds
    <3>1. CASE init # NoText
      <4>1. str \in Seq(Pieces)
        BY <3>1, ExpandFullIsText, TextsAssumption DEF TextInv, StringInv, Source
      <4>2. \A i \in DOMAIN str : str[i] \in Pieces
        BY <4>1
      <4>. QED
        BY <4>2 DEF Pieces
    <3>. QED
      BY <3>1 DEF TextInv, StringInv, Source
  <2>2. copies \in Nat
    <3>1. IsFiniteSet(Copies)
      BY FS_Subset, UsersAssumption DEF Copies
    <3>. QED
      BY <3>1, FS_CardinalityType DEF TextInv, CopiesInv
  <2>. QED
    BY <2>1, <2>2 DEF TypeOK, TextInv, StringInv, HeldInv
<1>. QED
  BY <1>1, TextInvariance, PTL

(* A value is what the string expands to for the call that holds it, never *)
(* one that was learnt from another call: a text that one call leaves as   *)
(* it is has nothing to expand for the others either.                      *)
THEOREM CurrentValues == MediaSpec => []ValuesAreCurrent
<1>1. TextInv => ValuesAreCurrent
  BY DEF TextInv, HeldInv, ValuesAreCurrent, Source
<1>. QED
  BY <1>1, TextInvariance, PTL
=============================================================================
