-------------------------- MODULE CallLifetimeProofs --------------------------
(***************************************************************************)
(* Theorems about CallLifetime, for any number of resolves, fetches and    *)
(* DataRefs.                                                               *)
(*                                                                         *)
(* The inductive invariant has two parts.  Shape says where everything is: *)
(* in which phases an operation may have fetches or code on the agenda,    *)
(* what may stand behind the function that runs, and which fetches wait.   *)
(* Books says that the counts are those of the holders (Exact), that a     *)
(* DataRef is of one operation (Owned) and that the one a fetch is about   *)
(* to read through is referred to (GetFits).  Each action has a lemma for  *)
(* each part.                                                              *)
(*                                                                         *)
(* Holders are counted as pairs of a fetch and a place in it, and as       *)
(* places on the agenda; the first lemmas say how these counts change when *)
(* a fetch nests more or less and when the agenda's first entry is         *)
(* replaced by others.                                                     *)
(***************************************************************************)
EXTENDS CallLifetime, FiniteSetTheorems, FunctionTheorems, SequenceTheorems, TLAPS

(* How often the elements of S are on an agenda, and where.                *)
Occ(a, S) == {i \in DOMAIN a : a[i] \in S}
Count(a, S) == Cardinality(Occ(a, S))

(* An agenda is finite, so occurrences on it can be counted.               *)
LEMMA CountIsNat ==
  ASSUME NEW E, NEW a \in Seq(E), NEW S
  PROVE  IsFiniteSet(Occ(a, S)) /\ Count(a, S) \in Nat
<1>1. IsFiniteSet(1 .. Len(a))
  BY FS_Interval, LenProperties
<1>2. Occ(a, S) \subseteq 1 .. Len(a)
  BY LenProperties DEF Occ
<1> QED
  BY <1>1, <1>2, FS_Subset, FS_CardinalityType DEF Count

(* Occurrences add up over two agendas put together.                       *)
LEMMA CountConcat ==
  ASSUME NEW E, NEW a \in Seq(E), NEW b \in Seq(E), NEW S
  PROVE  Count(a \o b, S) = Count(a, S) + Count(b, S)
<1> DEFINE n == Len(a)
           Moved == {i + n : i \in Occ(b, S)}
           shift == [i \in Occ(b, S) |-> i + n]
<1>1. n \in Nat /\ Len(b) \in Nat /\ DOMAIN a = 1 .. n /\ DOMAIN b = 1 .. Len(b)
  BY LenProperties
<1>2. a \o b \in Seq(E) /\ Len(a \o b) = n + Len(b) /\ DOMAIN (a \o b) = 1 .. n + Len(b)
  BY ConcatProperties, LenProperties
<1>3. \A i \in 1 .. n + Len(b) : (a \o b)[i] = IF i <= n THEN a[i] ELSE b[i - n]
  BY ConcatProperties
<1>4. Occ(a \o b, S) = Occ(a, S) \cup Moved
  <2>1. ASSUME NEW i \in Occ(a \o b, S) PROVE i \in Occ(a, S) \cup Moved
    <3>1. i \in 1 .. n + Len(b) /\ (a \o b)[i] \in S
      BY <1>2 DEF Occ
    <3>2. CASE i <= n
      BY <3>1, <3>2, <1>1, <1>3 DEF Occ
    <3>3. CASE i > n
      <4>1. i - n \in Occ(b, S) /\ i = (i - n) + n
        BY <3>1, <3>3, <1>1, <1>3 DEF Occ
      <4> QED
        BY <4>1
    <3> QED
      BY <3>1, <3>2, <3>3, <1>1
  <2>2. ASSUME NEW i \in Occ(a, S) PROVE i \in Occ(a \o b, S)
    BY <1>1, <1>2, <1>3 DEF Occ
  <2>3. ASSUME NEW i \in Moved PROVE i \in Occ(a \o b, S)
    <3>1. PICK j \in Occ(b, S) : i = j + n
      OBVIOUS
    <3>2. j \in 1 .. Len(b) /\ b[j] \in S
      BY <1>1 DEF Occ
    <3>3. i \in 1 .. n + Len(b) /\ ~(i <= n) /\ i - n = j
      BY <3>1, <3>2, <1>1
    <3> QED
      BY <3>2, <3>3, <1>2, <1>3 DEF Occ
  <2> QED
    BY <2>1, <2>2, <2>3
<1>5. Occ(a, S) \cap Moved = {}
  BY <1>1 DEF Occ
<1>6. IsFiniteSet(Occ(a, S)) /\ IsFiniteSet(Occ(b, S)) /\ Count(a, S) \in Nat /\ Count(b, S) \in Nat
  BY CountIsNat
<1>7. IsFiniteSet(Moved) /\ Cardinality(Moved) = Count(b, S)
  <2>1. shift \in Bijection(Occ(b, S), Moved)
    <3>1. \A i, j \in Occ(b, S) : shift[i] = shift[j] => i = j
      BY <1>1 DEF Occ
    <3>2. shift \in [Occ(b, S) -> Moved] /\ \A k \in Moved : \E i \in Occ(b, S) : shift[i] = k
      OBVIOUS
    <3> QED
      BY <3>1, <3>2, Fun_IsBij
  <2> QED
    BY <2>1, <1>6, FS_Bijection DEF Count, ExistsBijection
<1> HIDE DEF Moved
<1>8. Count(a \o b, S) = Count(a, S) + Count(b, S) - Cardinality({})
  BY <1>4, <1>5, <1>6, <1>7, FS_Union DEF Count
<1> QED
  BY <1>6, <1>8, FS_EmptySet

(* Nothing occurs on the empty agenda.                                     *)
LEMMA CountEmpty ==
  ASSUME NEW S
  PROVE  Count(<<>>, S) = 0
<1>1. Occ(<<>>, S) = {}
  BY DEF Occ
<1> QED
  BY <1>1, FS_EmptySet DEF Count

(* An agenda of one entry counts it once.                                  *)
LEMMA CountOne ==
  ASSUME NEW x, NEW S
  PROVE  Count(<<x>>, S) = One(x \in S)
<1>1. CASE x \in S
  <2>1. Occ(<<x>>, S) = {1}
    BY <1>1 DEF Occ
  <2> QED
    BY <2>1, <1>1, FS_Singleton DEF Count, One
<1>2. CASE x \notin S
  <2>1. Occ(<<x>>, S) = {}
    BY <1>2 DEF Occ
  <2> QED
    BY <2>1, <1>2, FS_EmptySet DEF Count, One
<1> QED
  BY <1>1, <1>2

(* Taking the first entry off an agenda takes its one occurrence off.      *)
LEMMA CountTail ==
  ASSUME NEW E, NEW a \in Seq(E), a # <<>>, NEW S
  PROVE  Count(Tail(a), S) = Count(a, S) - One(a[1] \in S)
<1>1. Tail(a) \in Seq(E) /\ <<a[1]>> \in Seq(E) /\ a = <<a[1]>> \o Tail(a)
  BY HeadTailProperties
<1>2. Count(a, S) = Count(<<a[1]>>, S) + Count(Tail(a), S)
  BY <1>1, CountConcat
<1>3. Count(<<a[1]>>, S) = One(a[1] \in S) /\ One(a[1] \in S) \in Nat
  BY CountOne DEF One
<1>4. Count(Tail(a), S) \in Nat
  BY <1>1, CountIsNat
<1> QED
  BY <1>2, <1>3, <1>4

-----------------------------------------------------------------------------
(* Where the operations, the fetches and the agenda are.                   *)

Phases == {"idle", "begun", "query", "relay", "sending", "items", "answered", "over"}

Asks == {"get", "obtained"}

CallSteps == {"call", "send", "item", "run", "end", "finish"}

Entries ==
    [do : CallSteps, call : Calls]
    \cup [do : Asks, fetch : Fetches]
    \cup [do : {"free"}, kind : Kinds, call : Calls, raw : Raws]
    \cup [do : {"key", "unref"}, call : Calls, raw : Raws]

(* What may be behind the function that runs.                              *)
Later == {"key", "unref", "item", "free", "finish"}

FetchRecords == [call : Calls, raw : Raws, nested : Seq(Kinds)]

Types ==
    /\ phase \in [Calls -> Phases]
    /\ fetches \in [Fetches -> {NoFetch} \cup FetchRecords]
    /\ agenda \in Seq(Entries)
    /\ rests \in 0 .. MaxRests
    /\ relayed \in BOOLEAN /\ crashed \in BOOLEAN

(* What a function on the agenda says of its operation.                    *)
Fits(p, x) ==
    /\ x.do \in {"item", "key", "run"} => p[x.call] = "items"
    /\ x.do = "call" => p[x.call] = "begun"
    /\ x.do = "send" => p[x.call] = "sending"
    /\ x.do = "end" => p[x.call] \in {"query", "sending", "items"}
    /\ x.do = "finish" => p[x.call] = "answered"
    /\ x.do \notin Asks => p[x.call] # "idle"

Finishes(x, y) == x.do = "finish" /\ y.do = "finish" /\ x.call = y.call

AgendaFits(p, a) ==
    /\ \A i \in 1 .. Len(a) : Fits(p, a[i])
    /\ \A i \in 2 .. Len(a) : a[i].do \in Later
    /\ \A i, j \in 1 .. Len(a) : Finishes(a[i], a[j]) => i = j
    /\ \A i \in 1 .. Len(a) : a[i].do = "key" =>
         \E j \in i + 1 .. Len(a) : a[j] = WithRaw("unref", a[i].call, a[i].raw)

BusyIn(p, r) == p[r] \in {"begun", "query", "relay", "sending", "items"}

(* An operation ends when nothing of it is left.                           *)
EndFits(p, a, F) ==
    a # <<>> /\ a[1].do = "end" =>
        /\ \A i \in 1 .. Len(a) : a[i].do \in {"key", "item"} => a[i].call # a[1].call
        /\ \A f \in Fetches : F[f] # NoFetch => F[f].call # a[1].call
        /\ a[1].call = Outer => \A r \in Resolves : ~BusyIn(p, r)

(* The fetch whose turn it is, on the C stack; the others wait for the     *)
(* network.                                                                *)
Turn(a, f) == a # <<>> /\ a[1].do \in Asks /\ a[1].fetch = f

Asking == {"requested", "rest"}

FetchFits(p, turn, r) ==
    /\ p[r.call] \in {"query", "items"}
    /\ Len(r.nested) <= MaxDepth
    /\ \A i \in 1 .. Len(r.nested) : i < Len(r.nested) \/ turn => r.nested[i] \notin Asking
    /\ turn \/ (r.nested # <<>> /\ r.nested[Len(r.nested)] \in Asking)

FetchesFit(p, a, F) ==
    /\ \A f \in Fetches : Turn(a, f) => F[f] # NoFetch
    /\ \A f \in Fetches : F[f] # NoFetch => FetchFits(p, Turn(a, f), F[f])
    /\ \A f, g \in Fetches :
         F[f] # NoFetch /\ F[g] # NoFetch /\ F[f].call = F[g].call /\ p[F[f].call] = "query" => f = g

CallsFit(p, a, F) ==
    /\ p[Outer] = "idle" =>
         /\ a = <<>>
         /\ \A c \in Calls : p[c] = "idle"
         /\ \A f \in Fetches : F[f] = NoFetch
    /\ \A r \in Resolves : BusyIn(p, r) => p[Outer] = "items"

Shape ==
    /\ Types
    /\ AgendaFits(phase, agenda) /\ EndFits(phase, agenda, fetches)
    /\ FetchesFit(phase, agenda, fetches) /\ CallsFit(phase, agenda, fetches)

-----------------------------------------------------------------------------
(* Entries of the agenda, and what it is after a step.                     *)

(* Which fields an entry of the agenda has, by what it does.               *)
LEMMA EntryTypes ==
  ASSUME NEW x \in Entries
  PROVE  /\ x.do \in CallSteps \cup Asks \cup {"free", "key", "unref"}
         /\ x.do \notin Asks => x.call \in Calls
         /\ x.do \in Asks => x.fetch \in Fetches
         /\ x.do = "free" => x.kind \in Kinds
         /\ x.do \in {"free", "key", "unref"} => x.raw \in Raws
BY DEF Entries, CallSteps, Asks

(* What the helpers make are entries of the agenda.                        *)
LEMMA EntriesMade ==
  /\ \A do \in CallSteps, c \in Calls : OfCall(do, c) \in Entries
  /\ \A do \in Asks, f \in Fetches : OfFetch(do, f) \in Entries
  /\ \A do \in {"key", "unref"}, c \in Calls, s \in Raws : WithRaw(do, c, s) \in Entries
  /\ \A kind \in Kinds, c \in Calls, s \in Raws :
        [do |-> "free", kind |-> kind, call |-> c, raw |-> s] \in Entries
BY DEF Entries, OfCall, OfFetch, WithRaw, CallSteps, Asks

Rest(a) == IF a = <<>> THEN <<>> ELSE Tail(a)

(* The agenda when s takes the place of the function that runs.            *)
After(s, a) == s \o Rest(a)

(* What is on the agenda after its first entry is replaced by those of s.  *)
LEMMA RestIs ==
  ASSUME NEW a \in Seq(Entries), NEW s \in Seq(Entries)
  PROVE  /\ Rest(a) \in Seq(Entries) /\ After(s, a) \in Seq(Entries)
         /\ Len(s) \in Nat /\ Len(a) \in Nat
         /\ a # <<>> <=> Len(a) > 0
         /\ Len(After(s, a)) = Len(s) + (IF a = <<>> THEN 0 ELSE Len(a) - 1)
         /\ \A i \in 1 .. Len(s) : After(s, a)[i] = s[i]
         /\ \A i \in 2 .. Len(a) : After(s, a)[Len(s) + i - 1] = a[i]
<1>1. Len(s) \in Nat /\ Len(a) \in Nat /\ (a # <<>> <=> Len(a) > 0)
  BY LenProperties, EmptySeq
<1>2. /\ Rest(a) \in Seq(Entries)
      /\ Len(Rest(a)) = IF a = <<>> THEN 0 ELSE Len(a) - 1
      /\ \A i \in 2 .. Len(a) : Rest(a)[i - 1] = a[i]
  <2>1. CASE a = <<>>
    BY <2>1, <1>1, EmptySeq DEF Rest
  <2>2. CASE a # <<>>
    <3>1. Rest(a) = Tail(a) /\ Tail(a) \in Seq(Entries) /\ Len(Tail(a)) = Len(a) - 1
      BY <2>2, HeadTailProperties DEF Rest
    <3>2. \A i \in 1 .. Len(Tail(a)) : Tail(a)[i] = a[i + 1]
      BY <2>2, HeadTailProperties
    <3>3. ASSUME NEW i \in 2 .. Len(a) PROVE Tail(a)[i - 1] = a[i]
      <4>1. i - 1 \in 1 .. Len(Tail(a)) /\ (i - 1) + 1 = i
        BY <3>1, <1>1
      <4> QED
        BY <4>1, <3>2
    <3> QED
      BY <3>1, <3>3, <2>2
  <2> QED
    BY <2>1, <2>2
<1>3. /\ After(s, a) \in Seq(Entries) /\ Len(After(s, a)) = Len(s) + Len(Rest(a))
      /\ \A i \in 1 .. Len(s) + Len(Rest(a)) : After(s, a)[i] = IF i <= Len(s) THEN s[i] ELSE Rest(a)[i - Len(s)]
  BY <1>2, ConcatProperties DEF After
<1>4. \A i \in 1 .. Len(s) : After(s, a)[i] = s[i]
  BY <1>1, <1>2, <1>3
<1>5. ASSUME NEW i \in 2 .. Len(a) PROVE After(s, a)[Len(s) + i - 1] = a[i]
  <2>1. a # <<>>
    BY <1>1
  <2>2. /\ Len(s) + i - 1 \in 1 .. Len(s) + Len(Rest(a))
        /\ ~(Len(s) + i - 1 <= Len(s))
        /\ (Len(s) + i - 1) - Len(s) = i - 1
    BY <1>1, <1>2, <2>1
  <2> QED
    BY <2>2, <1>2, <1>3
<1> QED
  BY <1>1, <1>2, <1>3, <1>4, <1>5

(* Where an entry of the new agenda comes from.                            *)
LEMMA Comes ==
  ASSUME NEW a \in Seq(Entries), NEW s \in Seq(Entries), NEW k \in 1 .. Len(After(s, a))
  PROVE  \/ k \in 1 .. Len(s) /\ After(s, a)[k] = s[k]
         \/ \E i \in 2 .. Len(a) : k = Len(s) + i - 1 /\ After(s, a)[k] = a[i]
<1>1. /\ Len(s) \in Nat /\ Len(a) \in Nat
      /\ Len(After(s, a)) = Len(s) + (IF a = <<>> THEN 0 ELSE Len(a) - 1)
      /\ \A i \in 1 .. Len(s) : After(s, a)[i] = s[i]
      /\ \A i \in 2 .. Len(a) : After(s, a)[Len(s) + i - 1] = a[i]
  BY RestIs
<1>2. CASE k <= Len(s)
  BY <1>1, <1>2
<1>3. CASE k > Len(s)
  <2>1. k - Len(s) + 1 \in 2 .. Len(a) /\ k = Len(s) + (k - Len(s) + 1) - 1
    BY <1>1, <1>3
  <2> QED
    BY <2>1, <1>1
<1> QED
  BY <1>1, <1>2, <1>3

(* An agenda that fits the phases p still fits q once its first entry is   *)
(* replaced by s.                                                          *)
LEMMA AgendaStep ==
  ASSUME NEW p, NEW q, NEW a \in Seq(Entries), NEW s \in Seq(Entries),
         AgendaFits(p, a),
         \A i \in 2 .. Len(a) : Fits(q, a[i]),
         \A i \in 1 .. Len(s) : Fits(q, s[i]),
         \A i \in 2 .. Len(s) : s[i].do \in Later,
         \A i, j \in 1 .. Len(s) : Finishes(s[i], s[j]) => i = j,
         \A i \in 1 .. Len(s), j \in 2 .. Len(a) : ~Finishes(s[i], a[j]),
         \A i \in 1 .. Len(s) : s[i].do = "key" =>
            \E j \in i + 1 .. Len(s) : s[j] = WithRaw("unref", s[i].call, s[i].raw)
  PROVE  AgendaFits(q, After(s, a))
<1>1. /\ Len(s) \in Nat /\ Len(a) \in Nat
      /\ Len(After(s, a)) = Len(s) + (IF a = <<>> THEN 0 ELSE Len(a) - 1)
      /\ \A i \in 1 .. Len(s) : After(s, a)[i] = s[i]
      /\ \A i \in 2 .. Len(a) : After(s, a)[Len(s) + i - 1] = a[i]
      /\ a # <<>> <=> Len(a) > 0
  BY RestIs
<1>2. \A k \in 1 .. Len(After(s, a)) : \/ k \in 1 .. Len(s) /\ After(s, a)[k] = s[k]
                            \/ \E i \in 2 .. Len(a) : k = Len(s) + i - 1 /\ After(s, a)[k] = a[i]
  BY Comes
<1>3. \A k \in 1 .. Len(After(s, a)) : Fits(q, After(s, a)[k])
  BY <1>2
<1>4. ASSUME NEW k \in 2 .. Len(After(s, a)) PROVE After(s, a)[k].do \in Later
  <2>1. k \in 1 .. Len(After(s, a)) /\ (k \in 1 .. Len(s) => k \in 2 .. Len(s))
    BY <1>1
  <2>2. CASE k \in 1 .. Len(s) /\ After(s, a)[k] = s[k]
    BY <2>1, <2>2
  <2>3. CASE \E i \in 2 .. Len(a) : k = Len(s) + i - 1 /\ After(s, a)[k] = a[i]
    BY <2>3 DEF AgendaFits
  <2> QED
    BY <2>1, <2>2, <2>3, <1>2
<1>5. ASSUME NEW k \in 1 .. Len(After(s, a)), NEW l \in 1 .. Len(After(s, a)), Finishes(After(s, a)[k], After(s, a)[l]) PROVE k = l
  <2>1. CASE k \in 1 .. Len(s) /\ After(s, a)[k] = s[k] /\ l \in 1 .. Len(s) /\ After(s, a)[l] = s[l]
    BY <1>5, <2>1
  <2>2. ASSUME k \in 1 .. Len(s), After(s, a)[k] = s[k], NEW j \in 2 .. Len(a), After(s, a)[l] = a[j] PROVE FALSE
    BY <1>5, <2>2
  <2>3. ASSUME l \in 1 .. Len(s), After(s, a)[l] = s[l], NEW i \in 2 .. Len(a), After(s, a)[k] = a[i] PROVE FALSE
    BY <1>5, <2>3 DEF Finishes
  <2>4. ASSUME NEW i \in 2 .. Len(a), k = Len(s) + i - 1, After(s, a)[k] = a[i],
               NEW j \in 2 .. Len(a), l = Len(s) + j - 1, After(s, a)[l] = a[j]
        PROVE  k = l
    <3>1. i \in 1 .. Len(a) /\ j \in 1 .. Len(a)
      BY <1>1
    <3> QED
      BY <1>5, <2>4, <3>1 DEF AgendaFits
  <2> QED
    BY <1>2, <2>1, <2>2, <2>3, <2>4
<1>6. ASSUME NEW k \in 1 .. Len(After(s, a)), After(s, a)[k].do = "key"
      PROVE  \E l \in k + 1 .. Len(After(s, a)) : After(s, a)[l] = WithRaw("unref", After(s, a)[k].call, After(s, a)[k].raw)
  <2>1. ASSUME k \in 1 .. Len(s), After(s, a)[k] = s[k]
        PROVE  \E l \in k + 1 .. Len(After(s, a)) : After(s, a)[l] = WithRaw("unref", After(s, a)[k].call, After(s, a)[k].raw)
    <3>1. PICK j \in k + 1 .. Len(s) : s[j] = WithRaw("unref", s[k].call, s[k].raw)
      BY <1>6, <2>1
    <3>2. j \in 1 .. Len(s) /\ j \in k + 1 .. Len(After(s, a))
      BY <1>1, <2>1
    <3> QED
      BY <3>1, <3>2, <2>1, <1>1
  <2>2. ASSUME NEW i \in 2 .. Len(a), k = Len(s) + i - 1, After(s, a)[k] = a[i]
        PROVE  \E l \in k + 1 .. Len(After(s, a)) : After(s, a)[l] = WithRaw("unref", After(s, a)[k].call, After(s, a)[k].raw)
    <3>1. PICK j \in i + 1 .. Len(a) : a[j] = WithRaw("unref", a[i].call, a[i].raw)
      <4>1. i \in 1 .. Len(a)
        BY <1>1
      <4> QED
        BY <4>1, <1>6, <2>2 DEF AgendaFits
    <3>2. j \in 2 .. Len(a) /\ Len(s) + j - 1 \in k + 1 .. Len(After(s, a))
      BY <1>1, <2>2
    <3>3. After(s, a)[Len(s) + j - 1] = a[j]
      BY <1>1, <3>2
    <3> QED
      BY <3>1, <3>2, <3>3, <2>2
  <2> QED
    BY <1>2, <2>1, <2>2
<1> QED
  BY <1>3, <1>4, <1>5, <1>6 DEF AgendaFits

(* The function on top of the new agenda, and whose turn it is then.       *)
LEMMA NewHead ==
  ASSUME NEW p, NEW a \in Seq(Entries), NEW s \in Seq(Entries), AgendaFits(p, a)
  PROVE  /\ s # <<>> => After(s, a) # <<>> /\ After(s, a)[1] = s[1]
         /\ s = <<>> /\ After(s, a) # <<>> => After(s, a)[1].do \in Later
         /\ \A f : Turn(After(s, a), f) <=> Turn(s, f)
<1>1. /\ After(s, a) \in Seq(Entries)
      /\ Len(s) \in Nat /\ Len(a) \in Nat
      /\ Len(After(s, a)) = Len(s) + (IF a = <<>> THEN 0 ELSE Len(a) - 1)
      /\ \A i \in 1 .. Len(s) : After(s, a)[i] = s[i]
      /\ \A i \in 2 .. Len(a) : After(s, a)[Len(s) + i - 1] = a[i]
      /\ a # <<>> <=> Len(a) > 0
  BY RestIs
<1>2. /\ s # <<>> <=> Len(s) > 0
      /\ After(s, a) # <<>> <=> Len(After(s, a)) > 0
  BY <1>1, EmptySeq
<1>3. ASSUME s # <<>> PROVE After(s, a) # <<>> /\ After(s, a)[1] = s[1]
  <2>1. 1 \in 1 .. Len(s) /\ Len(After(s, a)) > 0
    BY <1>1, <1>2, <1>3
  <2> QED
    BY <2>1, <1>1, <1>2
<1>4. ASSUME s = <<>>, After(s, a) # <<>> PROVE After(s, a)[1].do \in Later
  <2>1. Len(s) = 0 /\ 2 \in 2 .. Len(a)
    BY <1>1, <1>2, <1>4
  <2>2. After(s, a)[1] = a[2]
    <3>1. After(s, a)[Len(s) + 2 - 1] = a[2] /\ Len(s) + 2 - 1 = 1
      BY <1>1, <2>1
    <3> QED
      BY <3>1
  <2> QED
    BY <2>1, <2>2 DEF AgendaFits
<1>5. ASSUME NEW f PROVE Turn(After(s, a), f) <=> Turn(s, f)
  <2>1. CASE s # <<>>
    BY <2>1, <1>3 DEF Turn
  <2>2. CASE s = <<>>
    BY <2>2, <1>4 DEF Turn, Asks, Later
  <2> QED
    BY <2>1, <2>2
<1> QED
  BY <1>3, <1>4, <1>5

(* The function that runs is over, ...                                     *)
LEMMA ThenNothing ==
  ASSUME NEW p, NEW q, NEW a \in Seq(Entries), AgendaFits(p, a),
         \A i \in 2 .. Len(a) : Fits(q, a[i])
  PROVE  /\ <<>> \in Seq(Entries)
         /\ AgendaFits(q, After(<<>>, a))
         /\ \A f : ~Turn(<<>>, f)
<1> DEFINE s == <<>>
<1>1. s \in Seq(Entries) /\ Len(s) = 0
  BY EmptySeq
<1>2. \A f : ~Turn(s, f)
  BY DEF Turn
<1> HIDE DEF s
<1>3. 1 .. Len(s) = {} /\ 2 .. Len(s) = {}
  BY <1>1
<1>4. AgendaFits(q, After(s, a))
  BY <1>1, <1>3, AgendaStep
<1> QED
  BY <1>1, <1>2, <1>4 DEF s

(* ... or goes on with another, ...                                        *)
LEMMA ThenOne ==
  ASSUME NEW p, NEW q, NEW a \in Seq(Entries), AgendaFits(p, a),
         \A i \in 2 .. Len(a) : Fits(q, a[i]),
         NEW x \in Entries, Fits(q, x), x.do # "key",
         \A i \in 2 .. Len(a) : ~Finishes(x, a[i])
  PROVE  /\ <<x>> \in Seq(Entries) /\ <<x>> # <<>> /\ <<x>>[1] = x
         /\ AgendaFits(q, After(<<x>>, a))
         /\ \A f : Turn(<<x>>, f) <=> x.do \in Asks /\ x.fetch = f
<1>1. <<x>> \in Seq(Entries) /\ <<x>> # <<>> /\ Len(<<x>>) = 1 /\ <<x>>[1] = x
  OBVIOUS
<1>2. \A i \in 1 .. Len(<<x>>) : i = 1
  BY <1>1
<1>3. \A i \in 2 .. Len(<<x>>) : <<x>>[i].do \in Later
  BY <1>1
<1>4. AgendaFits(q, After(<<x>>, a))
  BY <1>1, <1>2, <1>3, AgendaStep
<1> QED
  BY <1>1, <1>4 DEF Turn

(* ... and with a second one after it.                                     *)
LEMMA ThenTwo ==
  ASSUME NEW p, NEW q, NEW a \in Seq(Entries), AgendaFits(p, a),
         \A i \in 2 .. Len(a) : Fits(q, a[i]),
         NEW x \in Entries, Fits(q, x), x.do # "key", x.do # "finish",
         NEW y \in Entries, Fits(q, y), y.do # "key", y.do \in Later,
         \A i \in 2 .. Len(a) : ~Finishes(y, a[i])
  PROVE  /\ <<x, y>> \in Seq(Entries) /\ <<x, y>> # <<>> /\ <<x, y>>[1] = x
         /\ AgendaFits(q, After(<<x, y>>, a))
         /\ \A f : Turn(<<x, y>>, f) <=> x.do \in Asks /\ x.fetch = f
<1>1. /\ <<x, y>> \in Seq(Entries) /\ <<x, y>> # <<>>
      /\ Len(<<x, y>>) = 2 /\ <<x, y>>[1] = x /\ <<x, y>>[2] = y
  OBVIOUS
<1>2. \A i \in 1 .. Len(<<x, y>>) : i = 1 \/ i = 2
  BY <1>1
<1>3. \A i \in 2 .. Len(<<x, y>>) : i = 2
  BY <1>1
<1>4. \A i, j \in 1 .. Len(<<x, y>>) : Finishes(<<x, y>>[i], <<x, y>>[j]) => i = j
  BY <1>1, <1>2 DEF Finishes
<1>5. \A i \in 1 .. Len(<<x, y>>), j \in 2 .. Len(a) : ~Finishes(<<x, y>>[i], a[j])
  BY <1>1, <1>2 DEF Finishes
<1>6. AgendaFits(q, After(<<x, y>>, a))
  BY <1>1, <1>2, <1>3, <1>4, <1>5, AgendaStep
<1> QED
  BY <1>1, <1>6 DEF Turn

(* What is behind does not mind that another operation goes on, or one     *)
(* that is not with its items.                                             *)
LEMMA OthersFit ==
  ASSUME NEW p \in [Calls -> Phases], NEW a \in Seq(Entries), AgendaFits(p, a),
         NEW c \in Calls, NEW x, x # "idle",
         \A i \in 2 .. Len(a) : a[i].do \in {"item", "key", "finish"} => a[i].call # c
  PROVE  \A i \in 2 .. Len(a) : Fits([p EXCEPT ![c] = x], a[i])
<1>1. Len(a) \in Nat
  BY LenProperties
<1>2. ASSUME NEW i \in 2 .. Len(a) PROVE Fits([p EXCEPT ![c] = x], a[i])
  <2>1. i \in 1 .. Len(a) /\ Fits(p, a[i]) /\ a[i].do \in Later /\ a[i] \in Entries
    BY <1>1, ElementOfSeq DEF AgendaFits
  <2>2. a[i].do \notin Asks /\ a[i].call \in Calls
    BY <2>1, EntryTypes DEF Later, Asks
  <2>3. [p EXCEPT ![c] = x][a[i].call] = IF a[i].call = c THEN x ELSE p[a[i].call]
    BY <2>2
  <2> QED
    BY <2>1, <2>2, <2>3 DEF Fits, Later, Asks
<1> QED
  BY <1>2

(* Every entry behind the first fits the phases.                           *)
LEMMA Behind ==
  ASSUME NEW p, NEW a \in Seq(Entries), AgendaFits(p, a)
  PROVE  \A i \in 2 .. Len(a) : Fits(p, a[i])
BY LenProperties DEF AgendaFits

(* The record of a fetch is not the mark that there is none.               *)
LEMMA RecordIsSome ==
  ASSUME NEW r \in FetchRecords
  PROVE  r # NoFetch
<1>1. DOMAIN r = {"call", "raw", "nested"}
  BY DEF FetchRecords
<1>2. DOMAIN NoFetch = {"is"}
  BY DEF NoFetch
<1> QED
  BY <1>1, <1>2

(* A fetch begins, goes on or ends; the others wait.                       *)
LEMMA FetchStep ==
  ASSUME NEW p, NEW q, NEW a, NEW b, NEW F \in [Fetches -> {NoFetch} \cup FetchRecords],
         FetchesFit(p, a, F),
         NEW f \in Fetches, NEW r \in {NoFetch} \cup FetchRecords,
         \A g \in Fetches : g # f => ~Turn(a, g) /\ ~Turn(b, g),
         \A g \in Fetches : g # f /\ F[g] # NoFetch => q[F[g].call] = p[F[g].call],
         Turn(b, f) => r # NoFetch,
         r # NoFetch => FetchFits(q, Turn(b, f), r),
         r # NoFetch /\ q[r.call] = "query" =>
            \A g \in Fetches : g # f /\ F[g] # NoFetch => F[g].call # r.call
  PROVE  FetchesFit(q, b, [F EXCEPT ![f] = r])
<1> DEFINE G == [F EXCEPT ![f] = r]
<1>1. \A g \in Fetches : G[g] = IF g = f THEN r ELSE F[g]
  OBVIOUS
<1> HIDE DEF G
<1>2. \A g \in Fetches : Turn(b, g) => G[g] # NoFetch
  BY <1>1
<1>3. ASSUME NEW g \in Fetches, G[g] # NoFetch PROVE FetchFits(q, Turn(b, g), G[g])
  <2>1. CASE g = f
    BY <2>1, <1>1, <1>3
  <2>2. CASE g # f
    <3>1. G[g] = F[g] /\ FetchFits(p, FALSE, F[g])
      <4>1. G[g] = F[g] /\ F[g] # NoFetch
        BY <2>2, <1>1, <1>3
      <4>2. Turn(a, g) = FALSE
        BY <2>2 DEF Turn
      <4>3. FetchFits(p, Turn(a, g), F[g])
        BY <4>1 DEF FetchesFit
      <4> QED
        BY <4>1, <4>2, <4>3
    <3>2. Turn(b, g) = FALSE
      BY <2>2 DEF Turn
    <3>3. q[F[g].call] = p[F[g].call]
      BY <2>2, <3>1, <1>3
    <3> QED
      BY <3>1, <3>2, <3>3 DEF FetchFits
  <2> QED
    BY <2>1, <2>2
<1>4. ASSUME NEW g \in Fetches, NEW h \in Fetches, G[g] # NoFetch, G[h] # NoFetch,
             G[g].call = G[h].call, q[G[g].call] = "query"
      PROVE  g = h
  <2>1. CASE g # f /\ h # f
    BY <2>1, <1>1, <1>4 DEF FetchesFit
  <2>2. CASE g = f \/ h = f
    BY <2>2, <1>1, <1>4
  <2> QED
    BY <2>1, <2>2
<1>5. FetchesFit(q, b, G)
  BY <1>2, <1>3, <1>4 DEF FetchesFit
<1> QED
  BY <1>5 DEF G

(* Fetches fit other phases where their own operations are in the same     *)
(* phase.                                                                  *)
LEMMA FetchesStay ==
  ASSUME NEW p, NEW q, NEW a, NEW b, NEW F, FetchesFit(p, a, F),
         \A f \in Fetches : Turn(a, f) <=> Turn(b, f),
         \A f \in Fetches : F[f] # NoFetch => q[F[f].call] = p[F[f].call]
  PROVE  FetchesFit(q, b, F)
<1>1. ASSUME NEW f \in Fetches, F[f] # NoFetch PROVE FetchFits(q, Turn(b, f), F[f])
  <2>1. FetchFits(p, Turn(a, f), F[f]) /\ q[F[f].call] = p[F[f].call]
    BY <1>1 DEF FetchesFit
  <2>2. Turn(a, f) = Turn(b, f)
    BY DEF Turn
  <2> QED
    BY <2>1, <2>2 DEF FetchFits
<1> QED
  BY <1>1 DEF FetchesFit

-----------------------------------------------------------------------------
(* The steps keep the shape.                                               *)

(* When a function runs, ...                                               *)
LEMMA Opening ==
  ASSUME Shape, NEW do, Now(do)
  PROVE  /\ agenda \in Seq(Entries) /\ agenda # <<>> /\ 1 \in 1 .. Len(agenda)
         /\ Now1 = agenda[1] /\ agenda[1] \in Entries /\ agenda[1].do = do
         /\ Fits(phase, agenda[1])
         /\ do \notin Asks => \A f : ~Turn(agenda, f)
         /\ do \in Asks => \A f : Turn(agenda, f) <=> agenda[1].fetch = f
         /\ Rest(agenda) = Tail(agenda)
         /\ phase[Outer] # "idle"
         /\ ~crashed
<1>1. agenda \in Seq(Entries) /\ agenda # <<>> /\ Head(agenda).do = do /\ ~crashed
  BY DEF Shape, Types, Now
<1>2. Len(agenda) \in Nat \ {0}
  BY <1>1, EmptySeq
<1>3. 1 \in 1 .. Len(agenda) /\ Head(agenda) = agenda[1]
  BY <1>1, <1>2
<1>4. agenda[1] \in Entries /\ agenda[1].do = do
  BY <1>1, <1>3, ElementOfSeq
<1>5. Fits(phase, agenda[1])
  BY <1>3 DEF Shape, AgendaFits
<1>6. phase[Outer] # "idle"
  BY <1>1 DEF Shape, CallsFit
<1> QED
  BY <1>1, <1>3, <1>4, <1>5, <1>6 DEF Turn, Rest, Now1

(* ... or none does.                                                       *)
LEMMA WaitingOpening ==
  ASSUME Shape, Waiting
  PROVE  /\ agenda = <<>> /\ agenda \in Seq(Entries) /\ Len(agenda) = 0
         /\ \A f : ~Turn(agenda, f)
         /\ \A i \in 2 .. Len(agenda) : FALSE
         /\ \A s \in Seq(Entries) : After(s, agenda) = s
<1>1. agenda = <<>> /\ agenda \in Seq(Entries) /\ Len(agenda) = 0
  BY EmptySeq DEF Shape, Types, Waiting
<1>2. \A i \in 2 .. Len(agenda) : FALSE
  BY <1>1
<1>3. \A s \in Seq(Entries) : After(s, agenda) = s
  BY <1>1, ConcatEmptySeq DEF After, Rest
<1> QED
  BY <1>1, <1>2, <1>3 DEF Turn

(* What the record of a running fetch holds.                               *)
LEMMA FetchOfTurn ==
  ASSUME Shape, NEW f \in Fetches, Running(f)
  PROVE  /\ fetches[f] \in FetchRecords
         /\ fetches[f].call \in Calls /\ fetches[f].raw \in Raws /\ Nested(f) \in Seq(Kinds)
         /\ Nested(f) = fetches[f].nested /\ Len(Nested(f)) \in Nat
         /\ Nested(f) # <<>> <=> Len(Nested(f)) > 0
         /\ \A i \in 1 .. Len(Nested(f)) : Nested(f)[i] \in Kinds
         /\ DOMAIN Nested(f) = 1 .. Len(Nested(f))
         /\ FetchFits(phase, Turn(agenda, f), fetches[f])
         /\ phase[fetches[f].call] \in {"query", "items"}
         /\ Turn(agenda, f) => \A i \in 1 .. Len(Nested(f)) : Nested(f)[i] \notin Asking
         /\ ~Turn(agenda, f) => Nested(f) # <<>> /\ Top(f) \in Asking
         /\ \A i \in 1 .. Len(Nested(f)) : i < Len(Nested(f)) => Nested(f)[i] \notin Asking
         /\ Len(Nested(f)) <= MaxDepth
<1>1. fetches[f] \in FetchRecords
  BY DEF Shape, Types, Running
<1>2. /\ fetches[f].call \in Calls /\ fetches[f].raw \in Raws /\ Nested(f) \in Seq(Kinds)
      /\ Nested(f) = fetches[f].nested
  BY <1>1 DEF FetchRecords, Nested
<1>3. /\ Len(Nested(f)) \in Nat /\ DOMAIN Nested(f) = 1 .. Len(Nested(f))
      /\ Nested(f) # <<>> <=> Len(Nested(f)) > 0
      /\ \A i \in 1 .. Len(Nested(f)) : Nested(f)[i] \in Kinds
  BY <1>2, LenProperties, EmptySeq, ElementOfSeq
<1>4. FetchFits(phase, Turn(agenda, f), fetches[f])
  BY DEF Shape, FetchesFit, Running
<1>5. /\ phase[fetches[f].call] \in {"query", "items"}
      /\ Len(Nested(f)) <= MaxDepth
      /\ \A i \in 1 .. Len(Nested(f)) : i < Len(Nested(f)) \/ Turn(agenda, f) => Nested(f)[i] \notin Asking
      /\ Turn(agenda, f) \/ (Nested(f) # <<>> /\ Nested(f)[Len(Nested(f))] \in Asking)
  BY <1>2, <1>4 DEF FetchFits
<1> QED
  BY <1>1, <1>2, <1>3, <1>4, <1>5 DEF Top

(* Only the agenda changes.                                                *)
LEMMA OnlyAgenda ==
  ASSUME Shape, UNCHANGED <<phase, fetches, relayed, crashed>>, rests' \in 0 .. MaxRests,
         agenda # <<>>, NEW s \in Seq(Entries), agenda' = After(s, agenda),
         AgendaFits(phase, After(s, agenda)),
         \A f : Turn(s, f) <=> Turn(agenda, f),
         s # <<>> /\ s[1].do = "end" => EndFits(phase, agenda', fetches)
  PROVE  Shape'
<1>1. agenda' \in Seq(Entries)
  BY RestIs DEF Shape, Types
<1>2. /\ s # <<>> => agenda'[1] = s[1]
      /\ s = <<>> /\ agenda' # <<>> => agenda'[1].do \in Later
      /\ \A f : Turn(agenda', f) <=> Turn(agenda, f)
  BY NewHead DEF Shape, Types
<1>3. Types'
  BY <1>1 DEF Shape, Types
<1>4. EndFits(phase, agenda', fetches)
  BY <1>2 DEF EndFits, Later
<1>5. FetchesFit(phase, agenda', fetches)
  BY <1>2, FetchesStay DEF Shape
<1>6. CallsFit(phase, agenda', fetches)
  BY DEF Shape, CallsFit
<1> QED
  BY <1>3, <1>4, <1>5, <1>6 DEF Shape

(* A fetch changes, too.                                                   *)
LEMMA OneFetch ==
  ASSUME Shape, UNCHANGED <<phase, relayed, crashed>>, rests' \in 0 .. MaxRests,
         NEW s \in Seq(Entries), agenda' = After(s, agenda),
         AgendaFits(phase, After(s, agenda)),
         NEW f \in Fetches, NEW r \in {NoFetch} \cup FetchRecords,
         fetches' = [fetches EXCEPT ![f] = r],
         \A g : Turn(agenda, g) \/ Turn(s, g) => g = f,
         Turn(s, f) => r # NoFetch,
         r # NoFetch => FetchFits(phase, Turn(s, f), r),
         r # NoFetch /\ phase[r.call] = "query" =>
            \A g \in Fetches : g # f /\ fetches[g] # NoFetch => fetches[g].call # r.call,
         s # <<>> /\ s[1].do = "end" => EndFits(phase, agenda', fetches'),
         phase[Outer] # "idle"
  PROVE  Shape'
<1>1. agenda' \in Seq(Entries)
  BY RestIs DEF Shape, Types
<1>2. /\ s # <<>> => agenda'[1] = s[1]
      /\ s = <<>> /\ agenda' # <<>> => agenda'[1].do \in Later
      /\ \A g : Turn(agenda', g) <=> Turn(s, g)
  BY NewHead DEF Shape, Types
<1>3. Types'
  BY <1>1 DEF Shape, Types
<1>4. EndFits(phase, agenda', fetches')
  BY <1>2 DEF EndFits, Later
<1>5. Turn(agenda', f) = Turn(s, f)
  BY <1>2 DEF Turn
<1>6. FetchesFit(phase, agenda', [fetches EXCEPT ![f] = r])
  <2>1. r # NoFetch => FetchFits(phase, Turn(agenda', f), r)
    BY <1>5
  <2>2. FetchesFit(phase, agenda, fetches) /\ fetches \in [Fetches -> {NoFetch} \cup FetchRecords]
    BY DEF Shape, Types
  <2> QED
    BY <1>2, <2>1, <2>2, FetchStep
<1>7. CallsFit(phase, agenda', fetches')
  BY DEF Shape, CallsFit
<1> QED
  BY <1>3, <1>4, <1>6, <1>7 DEF Shape

(* An operation goes on.                                                   *)
LEMMA GoesTo ==
  ASSUME Shape, UNCHANGED <<rests, relayed, crashed>>,
         NEW s \in Seq(Entries), agenda' = After(s, agenda),
         NEW c \in Calls, NEW x \in Phases, x # "idle", phase' = [phase EXCEPT ![c] = x],
         AgendaFits(phase', After(s, agenda)),
         fetches' \in [Fetches -> {NoFetch} \cup FetchRecords],
         FetchesFit(phase', agenda', fetches'),
         s # <<>> => s[1].do # "end",
         c # Outer => phase[Outer] # "idle",
         c = Outer => x = "items" \/ \A r \in Resolves : ~BusyIn(phase, r),
         c # Outer /\ BusyIn(phase', c) => BusyIn(phase, c) \/ phase[Outer] = "items"
  PROVE  Shape'
<1>1. agenda' \in Seq(Entries)
  BY RestIs DEF Shape, Types
<1>2. /\ s # <<>> => agenda'[1] = s[1]
      /\ s = <<>> /\ agenda' # <<>> => agenda'[1].do \in Later
  BY NewHead DEF Shape, Types
<1>3. phase \in [Calls -> Phases] /\ Outer \in Calls /\ \A r \in Resolves : r \in Calls /\ r # Outer
  BY OuterAssumption DEF Shape, Types, Calls
<1>4. Types'
  BY <1>1, <1>3 DEF Shape, Types
<1>5. EndFits(phase', agenda', fetches')
  BY <1>2 DEF EndFits, Later
<1>6. phase'[Outer] # "idle"
  BY <1>3
<1>7. ASSUME NEW r \in Resolves, BusyIn(phase', r) PROVE phase'[Outer] = "items"
  <2>1. CASE c = Outer
    BY <2>1, <1>3, <1>7 DEF BusyIn, Shape, CallsFit
  <2>2. CASE c # Outer
    BY <2>2, <1>3, <1>7 DEF BusyIn, Shape, CallsFit
  <2> QED
    BY <2>1, <2>2
<1>8. CallsFit(phase', agenda', fetches')
  BY <1>6, <1>7 DEF CallsFit
<1> QED
  BY <1>4, <1>5, <1>8 DEF Shape

(* Shape holds before the first call.                                      *)
LEMMA Initially == Init => Shape
<1> SUFFICES ASSUME Init PROVE Shape
  OBVIOUS
<1>1. Outer \in Calls /\ Resolves \subseteq Calls
  BY DEF Calls
<1>2. agenda \in Seq(Entries) /\ Len(agenda) = 0 /\ agenda = <<>>
  BY EmptySeq DEF Init
<1>3. Types
  <2>1. 0 \in 0 .. MaxRests
    BY BoundsAssumption
  <2>2. phase \in [Calls -> Phases] /\ fetches \in [Fetches -> {NoFetch} \cup FetchRecords]
    BY DEF Init, Phases
  <2> QED
    BY <1>2, <2>1, <2>2 DEF Init, Types
<1>4. AgendaFits(phase, agenda) /\ EndFits(phase, agenda, fetches)
  <2>1. 1 .. Len(agenda) = {} /\ 2 .. Len(agenda) = {}
    BY <1>2
  <2> QED
    BY <1>2, <2>1 DEF AgendaFits, EndFits
<1>5. FetchesFit(phase, agenda, fetches)
  BY <1>2 DEF Init, FetchesFit, Turn
<1>6. CallsFit(phase, agenda, fetches)
  BY <1>1, <1>2 DEF Init, CallsFit, BusyIn
<1> QED
  BY <1>3, <1>4, <1>5, <1>6 DEF Shape

(* Nothing goes on but what is behind.                                     *)
LEMMA OverShape ==
  ASSUME Shape, agenda # <<>>, agenda[1].do \notin Asks, agenda' = After(<<>>, agenda),
         UNCHANGED <<phase, fetches, rests, relayed, crashed>>
  PROVE  Shape'
<1>1. agenda \in Seq(Entries) /\ AgendaFits(phase, agenda) /\ rests' \in 0 .. MaxRests
  BY DEF Shape, Types
<1>2. \A i \in 2 .. Len(agenda) : Fits(phase, agenda[i])
  BY <1>1, Behind
<1>3. <<>> \in Seq(Entries) /\ AgendaFits(phase, After(<<>>, agenda)) /\ \A f : ~Turn(<<>>, f)
  BY <1>1, <1>2, ThenNothing
<1>4. \A f : ~Turn(agenda, f)
  BY DEF Turn
<1> QED
  BY <1>1, <1>3, <1>4, OnlyAgenda

(* Another function takes over, none that ends the operation.              *)
LEMMA NextShape ==
  ASSUME Shape, agenda # <<>>, NEW x \in Entries, agenda' = After(<<x>>, agenda),
         Fits(phase, x), x.do \notin {"key", "finish", "end"},
         \A f : Turn(agenda, f) <=> x.do \in Asks /\ x.fetch = f,
         UNCHANGED <<phase, fetches, relayed, crashed>>, rests' \in 0 .. MaxRests
  PROVE  Shape'
<1>1. agenda \in Seq(Entries) /\ AgendaFits(phase, agenda)
  BY DEF Shape, Types
<1>2. \A i \in 2 .. Len(agenda) : Fits(phase, agenda[i])
  BY <1>1, Behind
<1>3. \A i \in 2 .. Len(agenda) : ~Finishes(x, agenda[i])
  BY DEF Finishes
<1>4. /\ <<x>> \in Seq(Entries) /\ <<x>> # <<>> /\ <<x>>[1] = x
      /\ AgendaFits(phase, After(<<x>>, agenda))
      /\ \A f : Turn(<<x>>, f) <=> x.do \in Asks /\ x.fetch = f
  BY <1>1, <1>2, <1>3, ThenOne
<1> QED
  BY <1>4, OnlyAgenda

(* The operation ends.                                                     *)
LEMMA EndShape ==
  ASSUME Shape, agenda # <<>>, \A f : ~Turn(agenda, f), NEW c \in Calls,
         phase[c] \in {"query", "sending", "items"},
         agenda' = After(<<OfCall("end", c)>>, agenda),
         \A i \in 2 .. Len(agenda) : agenda[i].do \in {"key", "item"} => agenda[i].call # c,
         \A f \in Fetches : Running(f) => fetches[f].call # c,
         c = Outer => \A r \in Resolves : ~BusyIn(phase, r),
         UNCHANGED <<phase, fetches, rests, relayed, crashed>>
  PROVE  Shape'
<1> DEFINE x == OfCall("end", c)
<1>1. agenda \in Seq(Entries) /\ AgendaFits(phase, agenda) /\ rests' \in 0 .. MaxRests
  BY DEF Shape, Types
<1>2. \A i \in 2 .. Len(agenda) : Fits(phase, agenda[i])
  BY <1>1, Behind
<1>3. x \in Entries /\ x.do = "end" /\ x.call = c
  BY EntriesMade DEF OfCall, CallSteps
<1>4. Fits(phase, x)
  BY <1>3 DEF Fits, Asks
<1> HIDE DEF x
<1>5. \A i \in 2 .. Len(agenda) : ~Finishes(x, agenda[i])
  BY <1>3 DEF Finishes
<1>6. /\ <<x>> \in Seq(Entries) /\ <<x>> # <<>> /\ <<x>>[1] = x
      /\ AgendaFits(phase, After(<<x>>, agenda))
      /\ \A f : Turn(<<x>>, f) <=> x.do \in Asks /\ x.fetch = f
  BY <1>1, <1>2, <1>3, <1>4, <1>5, ThenOne
<1>7. agenda' = After(<<x>>, agenda)
  BY DEF x
<1>8. EndFits(phase, agenda', fetches)
  <2>1. agenda'[1] = x
    BY <1>1, <1>6, <1>7, NewHead
  <2>2. ASSUME NEW i \in 1 .. Len(agenda'), agenda'[i].do \in {"key", "item"} PROVE agenda'[i].call # c
    <3>1. CASE i \in 1 .. Len(<<x>>) /\ agenda'[i] = <<x>>[i]
      BY <3>1, <1>3, <2>2
    <3>2. CASE \E j \in 2 .. Len(agenda) : i = Len(<<x>>) + j - 1 /\ agenda'[i] = agenda[j]
      BY <3>2, <2>2
    <3>3. \/ i \in 1 .. Len(<<x>>) /\ After(<<x>>, agenda)[i] = <<x>>[i]
          \/ \E j \in 2 .. Len(agenda) : i = Len(<<x>>) + j - 1 /\ After(<<x>>, agenda)[i] = agenda[j]
      <4>1. i \in 1 .. Len(After(<<x>>, agenda))
        BY <1>7
      <4> QED
        BY <4>1, <1>1, <1>6, Comes
    <3> QED
      BY <3>1, <3>2, <3>3, <1>7
  <2> QED
    BY <2>1, <2>2, <1>3 DEF EndFits, Running
<1>9. \A f : ~Turn(<<x>>, f)
  BY <1>3, <1>6 DEF Asks
<1> QED
  BY <1>1, <1>6, <1>7, <1>8, <1>9, OnlyAgenda

(* Unref keeps Shape.                                                      *)
LEMMA UnrefShape == Shape /\ Unref => Shape'
<1> SUFFICES ASSUME Shape, Unref PROVE Shape'
  OBVIOUS
<1>1. Now("unref")
  BY DEF Unref
<1> QED
  BY <1>1, Opening, OverShape DEF Unref, Then, After, Asks

(* FreeProcess keeps Shape.                                                *)
LEMMA FreeProcessShape == Shape /\ FreeProcess => Shape'
<1> SUFFICES ASSUME Shape, FreeProcess PROVE Shape'
  OBVIOUS
<1>1. Now("free")
  BY DEF FreeProcess
<1> QED
  BY <1>1, Opening, OverShape DEF FreeProcess, Then, After, Asks

(* RunWaits keeps Shape.                                                   *)
LEMMA RunWaitsShape == Shape /\ RunWaits => Shape'
<1> SUFFICES ASSUME Shape, RunWaits PROVE Shape'
  OBVIOUS
<1>1. Now("run")
  BY DEF RunWaits
<1> QED
  BY <1>1, Opening, OverShape DEF RunWaits, Then, After, Asks

(* Crash keeps Shape.                                                      *)
LEMMA CrashShape == Shape /\ Crash => Shape'
<1> SUFFICES ASSUME Shape, Crash PROVE Shape'
  OBVIOUS
<1>1. UNCHANGED <<phase, fetches, agenda, rests, relayed>> /\ crashed' \in BOOLEAN
  BY DEF Crash
<1>2. Types'
  BY <1>1 DEF Shape, Types
<1> QED
  BY <1>1, <1>2 DEF Shape

(* GetHere keeps Shape.                                                    *)
LEMMA GetHereShape == Shape /\ GetHere => Shape'
<1> SUFFICES ASSUME Shape, GetHere PROVE Shape'
  OBVIOUS
<1> DEFINE x == OfFetch("obtained", Now1.fetch)
<1>1. Now("get") /\ UNCHANGED <<phase, fetches, refs, rests, relayed, crashed>> /\ Then(<<x>>)
  BY DEF GetHere
<1>2. /\ agenda # <<>> /\ Now1 = agenda[1] /\ agenda[1] \in Entries /\ agenda[1].do = "get"
      /\ \A f : Turn(agenda, f) <=> agenda[1].fetch = f
      /\ Rest(agenda) = Tail(agenda)
  BY <1>1, Opening DEF Asks
<1>3. x \in Entries /\ x.do = "obtained" /\ x.fetch = agenda[1].fetch
  BY <1>2, EntryTypes, EntriesMade DEF OfFetch, Asks
<1>4. Fits(phase, x)
  BY <1>3 DEF Fits, Asks
<1>5. agenda' = After(<<x>>, agenda)
  BY <1>1, <1>2 DEF Then, After
<1> HIDE DEF x
<1>6. rests' \in 0 .. MaxRests
  BY <1>1 DEF Shape, Types
<1> QED
  BY <1>1, <1>2, <1>3, <1>4, <1>5, <1>6, NextShape DEF Asks

(* RunEnds keeps Shape.                                                    *)
LEMMA RunEndsShape == Shape /\ RunEnds => Shape'
<1> SUFFICES ASSUME Shape, RunEnds PROVE Shape'
  OBVIOUS
<1>1. /\ Now("run") /\ AllSettled(Now1.call) /\ phase[Now1.call] = "items"
      /\ Then(<<OfCall("end", Now1.call)>>)
      /\ UNCHANGED <<phase, fetches, refs, rests, relayed, crashed>>
  BY DEF RunEnds
<1>2. /\ agenda # <<>> /\ agenda \in Seq(Entries) /\ Now1 = agenda[1] /\ agenda[1] \in Entries
      /\ agenda[1].do = "run" /\ \A f : ~Turn(agenda, f)
      /\ Rest(agenda) = Tail(agenda)
  BY <1>1, Opening DEF Asks
<1>3. PICK c \in Calls : c = agenda[1].call
  BY <1>2, EntryTypes DEF Asks
<1>4. agenda' = After(<<OfCall("end", c)>>, agenda)
  BY <1>1, <1>2, <1>3 DEF Then, After
<1>5. ASSUME NEW i \in 2 .. Len(agenda), agenda[i].do \in {"key", "item"} PROVE agenda[i].call # c
  <2>1. i \in DOMAIN agenda
    BY <1>2, LenProperties
  <2> QED
    BY <1>1, <1>2, <1>3, <1>5, <2>1 DEF AllSettled, Ahead
<1>6. \A f \in Fetches : Running(f) => fetches[f].call # c
  BY <1>1, <1>2, <1>3 DEF AllSettled
<1>7. c = Outer => \A r \in Resolves : ~BusyIn(phase, r)
  BY <1>1, <1>2, <1>3 DEF AllSettled, Busy, BusyIn
<1> QED
  BY <1>1, <1>2, <1>3, <1>4, <1>5, <1>6, <1>7, EndShape

(* What is nested in the fetch changes.                                    *)
LEMMA NestedShape ==
  ASSUME Shape, UNCHANGED <<phase, relayed, crashed>>, rests' \in 0 .. MaxRests,
         NEW s \in Seq(Entries), agenda' = After(s, agenda),
         AgendaFits(phase, After(s, agenda)),
         NEW f \in Fetches, Running(f), NEW n \in Seq(Kinds),
         fetches' = [fetches EXCEPT ![f].nested = n],
         \A g : Turn(agenda, g) \/ Turn(s, g) => g = f,
         Len(n) <= MaxDepth,
         \A i \in 1 .. Len(n) : i < Len(n) \/ Turn(s, f) => n[i] \notin Asking,
         Turn(s, f) \/ (n # <<>> /\ n[Len(n)] \in Asking),
         s # <<>> => s[1].do # "end",
         phase[Outer] # "idle"
  PROVE  Shape'
<1> DEFINE r == [fetches[f] EXCEPT !.nested = n]
<1>1. fetches[f] \in FetchRecords /\ phase[fetches[f].call] \in {"query", "items"}
  BY FetchOfTurn
<1>2. r \in FetchRecords /\ r.call = fetches[f].call /\ r.nested = n
  BY <1>1 DEF FetchRecords
<1>3. fetches' = [fetches EXCEPT ![f] = r]
  BY DEF Shape, Types
<1> HIDE DEF r
<1>4. r # NoFetch
  BY <1>2, RecordIsSome
<1>5. FetchFits(phase, Turn(s, f), r)
  BY <1>1, <1>2 DEF FetchFits
<1>6. phase[r.call] = "query" =>
        \A g \in Fetches : g # f /\ fetches[g] # NoFetch => fetches[g].call # r.call
  BY <1>2 DEF Shape, FetchesFit, Running
<1>7. r \in {NoFetch} \cup FetchRecords
  BY <1>2
<1>8. s # <<>> /\ s[1].do = "end" => EndFits(phase, agenda', fetches')
  OBVIOUS
<1> QED
  BY <1>3, <1>4, <1>5, <1>6, <1>7, <1>8, OneFetch

(* GetNested keeps Shape.                                                  *)
LEMMA GetNestedShape == Shape /\ GetNested => Shape'
<1> SUFFICES ASSUME Shape, GetNested PROVE Shape'
  OBVIOUS
<1>1. Now("get") /\ UNCHANGED <<phase, rests, relayed, crashed>>
  BY DEF GetNested
<1>2. /\ agenda # <<>> /\ agenda \in Seq(Entries) /\ Now1 = agenda[1] /\ agenda[1] \in Entries
      /\ agenda[1].do = "get" /\ \A f : Turn(agenda, f) <=> agenda[1].fetch = f
      /\ Rest(agenda) = Tail(agenda) /\ phase[Outer] # "idle"
  BY <1>1, Opening DEF Asks
<1>3. PICK f \in Fetches : f = agenda[1].fetch
  BY <1>2, EntryTypes DEF Asks
<1>4. Running(f)
  BY <1>2, <1>3 DEF Shape, FetchesFit, Running
<1>5. PICK kind \in NestedKinds(f) : Push(f, kind)
  BY <1>2, <1>3 DEF GetNested
<1>6. Then(<<OfFetch("get", f)>>) /\ Len(Nested(f)) < MaxDepth
  BY <1>2, <1>3 DEF GetNested
<1> DEFINE x == OfFetch("get", f)
<1>7. agenda' = After(<<x>>, agenda)
  BY <1>2, <1>6 DEF Then, After
<1>8. x \in Entries /\ x.do = "get" /\ x.fetch = f /\ Fits(phase, x)
  BY EntriesMade DEF OfFetch, Fits, Asks
<1> HIDE DEF x
<1>9. AgendaFits(phase, agenda) /\ rests' \in 0 .. MaxRests
  BY <1>1 DEF Shape, Types
<1>10. /\ \A i \in 2 .. Len(agenda) : Fits(phase, agenda[i])
       /\ \A i \in 2 .. Len(agenda) : ~Finishes(x, agenda[i])
  BY <1>2, <1>8, <1>9, Behind DEF Finishes
<1>11. /\ <<x>> \in Seq(Entries) /\ <<x>> # <<>> /\ <<x>>[1] = x
       /\ AgendaFits(phase, After(<<x>>, agenda))
       /\ \A g : Turn(<<x>>, g) <=> x.do \in Asks /\ x.fetch = g
  <2>1. x \in Entries /\ x.do # "key" /\ Fits(phase, x)
    BY <1>8
  <2>2. agenda \in Seq(Entries) /\ AgendaFits(phase, agenda)
    BY <1>2, <1>9
  <2> QED
    BY <1>10, <2>1, <2>2, ThenOne
<1> DEFINE m == Nested(f)
           n == Append(m, kind)
<1>12. m \in Seq(Kinds) /\ Len(m) \in Nat /\ \A i \in 1 .. Len(m) : m[i] \notin Asking
  BY <1>2, <1>3, <1>4, FetchOfTurn
<1>13. kind \in Kinds /\ kind \notin Asking
  BY DEF NestedKinds, Kinds, Expressions, Asking
<1>14. n \in Seq(Kinds) /\ Len(n) = Len(m) + 1 /\ \A i \in 1 .. Len(n) : n[i] \notin Asking
  <2>1. n \in Seq(Kinds) /\ Len(n) = Len(m) + 1 /\ n[Len(m) + 1] = kind /\ \A i \in 1 .. Len(m) : n[i] = m[i]
    BY <1>12, <1>13, AppendProperties
  <2> QED
    BY <2>1, <1>12, <1>13
<1>15. fetches' = [fetches EXCEPT ![f].nested = n]
  BY <1>5 DEF Push, Nested
<1>16. Len(n) <= MaxDepth
  BY <1>6, <1>12, <1>14, BoundsAssumption
<1> HIDE DEF n
<1> QED
  BY <1>1, <1>2, <1>3, <1>4, <1>7, <1>8, <1>9, <1>11, <1>14, <1>15, <1>16, NestedShape DEF Asks

(* GetRest keeps Shape.                                                    *)
LEMMA GetRestShape == Shape /\ GetRest => Shape'
<1> SUFFICES ASSUME Shape, GetRest PROVE Shape'
  OBVIOUS
<1>1. Now("get") /\ rests' = rests + 1 /\ rests < MaxRests /\ UNCHANGED <<phase, relayed, crashed>>
  BY DEF GetRest
<1>2. /\ agenda # <<>> /\ agenda \in Seq(Entries) /\ Now1 = agenda[1] /\ agenda[1] \in Entries
      /\ agenda[1].do = "get" /\ \A f : Turn(agenda, f) <=> agenda[1].fetch = f
      /\ Rest(agenda) = Tail(agenda) /\ phase[Outer] # "idle"
  BY <1>1, Opening DEF Asks
<1>3. PICK f \in Fetches : f = agenda[1].fetch
  BY <1>2, EntryTypes DEF Asks
<1>4. Running(f)
  BY <1>2, <1>3 DEF Shape, FetchesFit, Running
<1>5. rests' \in 0 .. MaxRests
  BY <1>1, BoundsAssumption DEF Shape, Types
<1>6. AgendaFits(phase, agenda)
  BY DEF Shape
<1>7. \A i \in 2 .. Len(agenda) : Fits(phase, agenda[i])
  BY <1>2, <1>6, Behind
<1>8. CASE Push(f, "rest") /\ Then(<<>>)
  <2>1. agenda' = After(<<>>, agenda)
    BY <1>2, <1>8 DEF Then, After
  <2>2. <<>> \in Seq(Entries) /\ AgendaFits(phase, After(<<>>, agenda)) /\ \A g : ~Turn(<<>>, g)
    BY <1>2, <1>6, <1>7, ThenNothing
  <2> DEFINE m == Nested(f)
             n == Append(m, "rest")
  <2>3. m \in Seq(Kinds) /\ Len(m) \in Nat /\ \A i \in 1 .. Len(m) : m[i] \notin Asking
    BY <1>2, <1>3, <1>4, FetchOfTurn
  <2>4. /\ n \in Seq(Kinds) /\ Len(n) = Len(m) + 1 /\ n # <<>> /\ n[Len(n)] \in Asking
        /\ \A i \in 1 .. Len(n) : i < Len(n) => n[i] \notin Asking
    <3>1. "rest" \in Kinds /\ "rest" \in Asking
      BY DEF Kinds, Asking
    <3>2. /\ n \in Seq(Kinds) /\ n # <<>> /\ Len(n) = Len(m) + 1 /\ n[Len(m) + 1] = "rest"
          /\ \A i \in 1 .. Len(m) : n[i] = m[i]
      BY <2>3, <3>1, AppendProperties
    <3> QED
      BY <3>1, <3>2, <2>3
  <2>5. fetches' = [fetches EXCEPT ![f].nested = n]
    BY <1>8 DEF Push, Nested
  <2>6. Len(n) <= MaxDepth
    <3>1. Len(m) < MaxDepth
      BY <1>2, <1>3 DEF GetRest
    <3> QED
      BY <3>1, <2>3, <2>4, BoundsAssumption
  <2> HIDE DEF n
  <2> QED
    BY <1>1, <1>2, <1>3, <1>4, <1>5, <2>1, <2>2, <2>4, <2>5, <2>6, NestedShape
<1>9. CASE UNCHANGED fetches /\ Then(<<OfFetch("obtained", f)>>)
  <2> DEFINE x == OfFetch("obtained", f)
  <2>1. agenda' = After(<<x>>, agenda)
    BY <1>2, <1>9 DEF Then, After
  <2>2. x \in Entries /\ x.do = "obtained" /\ x.fetch = f /\ Fits(phase, x)
    BY EntriesMade DEF OfFetch, Fits, Asks
  <2> HIDE DEF x
  <2> QED
    BY <1>1, <1>2, <1>3, <1>5, <1>9, <2>1, <2>2, NextShape DEF Asks
<1> QED
  BY <1>2, <1>3, <1>8, <1>9 DEF GetRest

(* Replacing the first entry by nothing leaves an agenda that fits.        *)
LEMMA StaysNothing ==
  ASSUME Shape
  PROVE  /\ <<>> \in Seq(Entries)
         /\ AgendaFits(phase, After(<<>>, agenda))
         /\ \A f : ~Turn(<<>>, f)
<1>1. agenda \in Seq(Entries) /\ AgendaFits(phase, agenda)
  BY DEF Shape, Types
<1>2. \A i \in 2 .. Len(agenda) : Fits(phase, agenda[i])
  BY <1>1, Behind
<1> QED
  BY <1>1, <1>2, ThenNothing

(* Replacing the first entry by one that fits leaves an agenda that fits.  *)
LEMMA StaysOne ==
  ASSUME Shape, NEW x \in Entries, Fits(phase, x), x.do \notin {"key", "finish"}
  PROVE  /\ <<x>> \in Seq(Entries) /\ <<x>> # <<>> /\ <<x>>[1] = x
         /\ AgendaFits(phase, After(<<x>>, agenda))
         /\ \A f : Turn(<<x>>, f) <=> x.do \in Asks /\ x.fetch = f
<1>1. agenda \in Seq(Entries) /\ AgendaFits(phase, agenda)
  BY DEF Shape, Types
<1>2. \A i \in 2 .. Len(agenda) : Fits(phase, agenda[i])
  BY <1>1, Behind
<1>3. \A i \in 2 .. Len(agenda) : ~Finishes(x, agenda[i])
  BY DEF Finishes
<1> QED
  BY <1>1, <1>2, <1>3, ThenOne

(* Replacing the first entry by two that fit leaves an agenda that fits.   *)
LEMMA StaysTwo ==
  ASSUME Shape, NEW x \in Entries, Fits(phase, x), x.do \notin {"key", "finish"},
         NEW y \in Entries, Fits(phase, y), y.do \in {"free", "unref"}
  PROVE  /\ <<x, y>> \in Seq(Entries) /\ <<x, y>> # <<>> /\ <<x, y>>[1] = x
         /\ AgendaFits(phase, After(<<x, y>>, agenda))
         /\ \A f : Turn(<<x, y>>, f) <=> x.do \in Asks /\ x.fetch = f
<1>1. agenda \in Seq(Entries) /\ AgendaFits(phase, agenda)
  BY DEF Shape, Types
<1>2. \A i \in 2 .. Len(agenda) : Fits(phase, agenda[i])
  BY <1>1, Behind
<1>3. /\ \A i \in 2 .. Len(agenda) : ~Finishes(y, agenda[i])
      /\ y.do # "key" /\ y.do \in Later /\ x.do # "key" /\ x.do # "finish"
  BY DEF Finishes, Later
<1> QED
  BY <1>1, <1>2, <1>3, ThenTwo

(* The innermost process data changes, or goes.                            *)
LEMMA Innermost ==
  ASSUME NEW m \in Seq(Kinds), m # <<>>, NEW kind \in Kinds
  PROVE  /\ [m EXCEPT ![Len(m)] = kind] \in Seq(Kinds)
         /\ [m EXCEPT ![Len(m)] = kind] # <<>>
         /\ Len([m EXCEPT ![Len(m)] = kind]) = Len(m)
         /\ \A i \in 1 .. Len(m) : [m EXCEPT ![Len(m)] = kind][i] = IF i = Len(m) THEN kind ELSE m[i]
         /\ SubSeq(m, 1, Len(m) - 1) \in Seq(Kinds)
         /\ Len(SubSeq(m, 1, Len(m) - 1)) = Len(m) - 1
         /\ \A i \in 1 .. Len(m) - 1 : SubSeq(m, 1, Len(m) - 1)[i] = m[i]
<1>1. Len(m) \in Nat \ {0} /\ Len(m) \in 1 .. Len(m)
  BY EmptySeq
<1>2. /\ [m EXCEPT ![Len(m)] = kind] \in Seq(Kinds)
      /\ Len([m EXCEPT ![Len(m)] = kind]) = Len(m)
      /\ \A i \in 1 .. Len(m) : [m EXCEPT ![Len(m)] = kind][i] = IF i = Len(m) THEN kind ELSE m[i]
  BY <1>1, ExceptSeq
<1>3. [m EXCEPT ![Len(m)] = kind] # <<>>
  BY <1>1, <1>2, EmptySeq
<1>4. \A i \in 1 .. Len(m) - 1 : m[i] \in Kinds
  BY <1>1, ElementOfSeq
<1>5. /\ SubSeq(m, 1, Len(m) - 1) \in Seq(Kinds)
      /\ Len(SubSeq(m, 1, Len(m) - 1)) = Len(m) - 1
      /\ \A i \in 1 .. Len(m) - 1 : SubSeq(m, 1, Len(m) - 1)[i] = m[i]
  <2>1. PICK k \in Int : k = Len(m) - 1
    BY <1>1
  <2>2. /\ SubSeq(m, 1, k) \in Seq(Kinds)
        /\ Len(SubSeq(m, 1, k)) = IF 1 <= k THEN k - 1 + 1 ELSE 0
        /\ \A i \in 1 .. k - 1 + 1 : SubSeq(m, 1, k)[i] = m[1 + i - 1]
    BY <1>4, <2>1, SubSeqProperties
  <2>3. k \in Nat
    BY <1>1, <2>1
  <2>4. ASSUME NEW i \in 1 .. k PROVE SubSeq(m, 1, k)[i] = m[i]
    <3>1. i \in 1 .. k - 1 + 1 /\ 1 + i - 1 = i
      BY <2>3
    <3> QED
      BY <2>2, <3>1
  <2>5. Len(SubSeq(m, 1, k)) = k
    BY <2>2, <2>3
  <2> QED
    BY <2>1, <2>2, <2>4, <2>5
<1> QED
  BY <1>2, <1>3, <1>5

(* GoOn keeps Shape.                                                       *)
LEMMA GoOnShape == Shape /\ GoOn => Shape'
<1> SUFFICES ASSUME Shape, GoOn PROVE Shape'
  OBVIOUS
<1>1. Now("obtained") /\ UNCHANGED <<phase, rests, relayed, crashed>>
  BY DEF GoOn
<1>2. /\ agenda # <<>> /\ agenda \in Seq(Entries) /\ Now1 = agenda[1] /\ agenda[1] \in Entries
      /\ agenda[1].do = "obtained" /\ \A f : Turn(agenda, f) <=> agenda[1].fetch = f
      /\ Rest(agenda) = Tail(agenda) /\ phase[Outer] # "idle"
  BY <1>1, Opening DEF Asks
<1>3. PICK f \in Fetches : f = agenda[1].fetch
  BY <1>2, EntryTypes DEF Asks
<1>4. Running(f)
  BY <1>2, <1>3 DEF Shape, FetchesFit, Running
<1> DEFINE m == Nested(f)
<1>5. /\ m \in Seq(Kinds) /\ Len(m) \in Nat /\ Len(m) <= MaxDepth
      /\ \A i \in 1 .. Len(m) : m[i] \notin Asking
  BY <1>2, <1>3, <1>4, FetchOfTurn
<1>6. m # <<>>
  BY <1>2, <1>3 DEF GoOn
<1>7. rests' \in 0 .. MaxRests
  BY <1>1 DEF Shape, Types
<1>8. CASE Become(f, "input") /\ Then(<<OfFetch("get", f)>>)
  <2> DEFINE x == OfFetch("get", f)
             n == [m EXCEPT ![Len(m)] = "input"]
  <2>1. agenda' = After(<<x>>, agenda)
    BY <1>2, <1>8 DEF Then, After
  <2>2. fetches' = [fetches EXCEPT ![f].nested = n]
    BY <1>8 DEF Become, Nested
  <2>3. x \in Entries /\ x.do = "get" /\ x.fetch = f /\ Fits(phase, x)
    BY EntriesMade DEF OfFetch, Fits, Asks
  <2>4. "input" \in Kinds /\ "input" \notin Asking
    BY DEF Kinds, Expressions, Asking
  <2>5. /\ n \in Seq(Kinds) /\ Len(n) = Len(m)
        /\ \A i \in 1 .. Len(m) : n[i] = IF i = Len(m) THEN "input" ELSE m[i]
    BY <1>5, <1>6, <2>4, Innermost
  <2> HIDE DEF x, n
  <2>6. \A i \in 1 .. Len(n) : n[i] \notin Asking
    BY <1>5, <2>4, <2>5
  <2>7. /\ <<x>> \in Seq(Entries) /\ <<x>> # <<>> /\ <<x>>[1] = x
        /\ AgendaFits(phase, After(<<x>>, agenda))
        /\ \A g : Turn(<<x>>, g) <=> x.do \in Asks /\ x.fetch = g
    BY <2>3, StaysOne
  <2>8. /\ Turn(<<x>>, f) /\ \A g : Turn(agenda, g) \/ Turn(<<x>>, g) => g = f
        /\ <<x>>[1].do # "end"
    BY <1>2, <1>3, <2>3, <2>7 DEF Asks
  <2>9. Len(n) <= MaxDepth
    BY <1>5, <2>5
  <2> QED
    BY <1>1, <1>2, <1>4, <1>7, <2>1, <2>2, <2>5, <2>6, <2>7, <2>8, <2>9, NestedShape
<1>9. CASE Become(f, "requested") /\ Then(<<>>)
  <2> DEFINE n == [m EXCEPT ![Len(m)] = "requested"]
  <2>1. agenda' = After(<<>>, agenda)
    BY <1>2, <1>9 DEF Then, After
  <2>2. fetches' = [fetches EXCEPT ![f].nested = n]
    BY <1>9 DEF Become, Nested
  <2>3. "requested" \in Kinds /\ "requested" \in Asking
    BY DEF Kinds, Asking
  <2>4. /\ n \in Seq(Kinds) /\ Len(n) = Len(m) /\ n # <<>>
        /\ \A i \in 1 .. Len(m) : n[i] = IF i = Len(m) THEN "requested" ELSE m[i]
    BY <1>5, <1>6, <2>3, Innermost
  <2>5. Len(m) \in 1 .. Len(m)
    BY <1>5, <1>6, EmptySeq
  <2> HIDE DEF n
  <2>6. n[Len(n)] \in Asking /\ \A i \in 1 .. Len(n) : i < Len(n) => n[i] \notin Asking
    BY <1>5, <2>3, <2>4, <2>5
  <2>7. <<>> \in Seq(Entries) /\ AgendaFits(phase, After(<<>>, agenda)) /\ \A g : ~Turn(<<>>, g)
    BY StaysNothing
  <2>8. /\ \A g : Turn(agenda, g) \/ Turn(<<>>, g) => g = f
        /\ ~Turn(<<>>, f) /\ Len(n) <= MaxDepth
    BY <1>2, <1>3, <1>5, <2>4, <2>7
  <2> QED
    BY <1>1, <1>2, <1>4, <1>7, <2>1, <2>2, <2>4, <2>6, <2>7, <2>8, NestedShape
<1> QED
  BY <1>2, <1>3, <1>8, <1>9 DEF GoOn

(* The innermost process data of the fetch in turn goes.                   *)
LEMMA PopShape ==
  ASSUME Shape, UNCHANGED <<phase, rests, relayed, crashed>>,
         NEW f \in Fetches, Running(f), Nested(f) # <<>>, Pop(f),
         \A g : Turn(agenda, g) => g = f,
         NEW s \in Seq(Entries), s # <<>>, agenda' = After(s, agenda),
         AgendaFits(phase, After(s, agenda)),
         s[1].do = "obtained", \A g : Turn(s, g) <=> g = f
  PROVE  Shape'
<1> DEFINE m == Nested(f)
           n == SubSeq(m, 1, Len(m) - 1)
<1>1. /\ m \in Seq(Kinds) /\ Len(m) \in Nat /\ Len(m) <= MaxDepth /\ Len(m) > 0
      /\ \A i \in 1 .. Len(m) : i < Len(m) => m[i] \notin Asking
      /\ phase[fetches[f].call] \in {"query", "items"}
  BY FetchOfTurn
<1>2. "input" \in Kinds
  BY DEF Kinds, Expressions
<1>3. n \in Seq(Kinds) /\ Len(n) = Len(m) - 1 /\ \A i \in 1 .. Len(m) - 1 : n[i] = m[i]
  BY <1>1, <1>2, Innermost
<1>4. fetches' = [fetches EXCEPT ![f].nested = n]
  BY DEF Pop, Nested
<1> HIDE DEF n
<1>5. Len(n) <= MaxDepth /\ \A i \in 1 .. Len(n) : n[i] \notin Asking
  BY <1>1, <1>3, BoundsAssumption
<1>6. phase[Outer] # "idle"
  BY DEF Shape, CallsFit, Running
<1>7. rests' \in 0 .. MaxRests
  BY DEF Shape, Types
<1>8. Turn(s, f) /\ s[1].do # "end" /\ \A g : Turn(agenda, g) \/ Turn(s, g) => g = f
  OBVIOUS
<1> QED
  BY <1>3, <1>4, <1>5, <1>6, <1>7, <1>8, NestedShape

(* The entry that frees the innermost process data of a fetch is one that  *)
(* fits.                                                                   *)
LEMMA FreeEntry ==
  ASSUME Shape, NEW f \in Fetches, Running(f), Nested(f) # <<>>
  PROVE  /\ Top(f) \in Kinds
         /\ Free(Top(f), f) \in Entries /\ Fits(phase, Free(Top(f), f))
         /\ Free(Top(f), f).do = "free" /\ Free(Top(f), f).kind = Top(f)
         /\ Free(Top(f), f).call = fetches[f].call /\ Free(Top(f), f).raw = fetches[f].raw
<1>1. /\ fetches[f].call \in Calls /\ fetches[f].raw \in Raws /\ Nested(f) \in Seq(Kinds)
      /\ phase[fetches[f].call] \in {"query", "items"}
  BY FetchOfTurn
<1>2. Len(Nested(f)) \in 1 .. Len(Nested(f))
  BY <1>1, EmptySeq
<1>3. Top(f) \in Kinds
  BY <1>1, <1>2, ElementOfSeq DEF Top
<1>4. /\ Free(Top(f), f) \in Entries
      /\ Free(Top(f), f).do = "free" /\ Free(Top(f), f).kind = Top(f)
      /\ Free(Top(f), f).call = fetches[f].call /\ Free(Top(f), f).raw = fetches[f].raw
  BY <1>1, <1>3, EntriesMade DEF Free
<1> QED
  BY <1>1, <1>3, <1>4 DEF Fits

(* The entry that hands on the text a fetch obtained is one that fits.     *)
LEMMA ObtainedEntry ==
  ASSUME NEW f \in Fetches
  PROVE  /\ OfFetch("obtained", f) \in Entries /\ Fits(phase, OfFetch("obtained", f))
         /\ OfFetch("obtained", f).do = "obtained" /\ OfFetch("obtained", f).fetch = f
BY EntriesMade DEF OfFetch, Fits, Asks

(* CallBack keeps Shape.                                                   *)
LEMMA CallBackShape == Shape /\ CallBack => Shape'
<1> SUFFICES ASSUME Shape, CallBack PROVE Shape'
  OBVIOUS
<1>1. Now("obtained") /\ UNCHANGED <<phase, rests, relayed, crashed>>
  BY DEF CallBack
<1>2. /\ agenda # <<>> /\ agenda \in Seq(Entries) /\ Now1 = agenda[1] /\ agenda[1] \in Entries
      /\ agenda[1].do = "obtained" /\ \A f : Turn(agenda, f) <=> agenda[1].fetch = f
      /\ Rest(agenda) = Tail(agenda) /\ phase[Outer] # "idle"
  BY <1>1, Opening DEF Asks
<1>3. PICK f \in Fetches : f = agenda[1].fetch
  BY <1>2, EntryTypes DEF Asks
<1>4. Running(f)
  BY <1>2, <1>3 DEF Shape, FetchesFit, Running
<1> DEFINE x == OfFetch("obtained", f)
           y == Free(Top(f), f)
<1>5. Nested(f) # <<>> /\ Pop(f) /\ Then(<<x, y>>)
  BY <1>2, <1>3 DEF CallBack
<1>6. agenda' = After(<<x, y>>, agenda)
  BY <1>2, <1>5 DEF Then, After
<1>7. x \in Entries /\ Fits(phase, x) /\ x.do = "obtained" /\ x.fetch = f
  BY ObtainedEntry
<1>8. y \in Entries /\ Fits(phase, y) /\ y.do = "free"
  BY <1>4, <1>5, FreeEntry
<1> HIDE DEF x, y
<1>9. /\ <<x, y>> \in Seq(Entries) /\ <<x, y>> # <<>> /\ <<x, y>>[1] = x
      /\ AgendaFits(phase, After(<<x, y>>, agenda))
      /\ \A g : Turn(<<x, y>>, g) <=> x.do \in Asks /\ x.fetch = g
  BY <1>7, <1>8, StaysTwo
<1>10. /\ \A g : Turn(agenda, g) => g = f
       /\ \A g : Turn(<<x, y>>, g) <=> g = f
       /\ <<x, y>>[1].do = "obtained"
  BY <1>2, <1>3, <1>7, <1>9 DEF Asks
<1> QED
  BY <1>1, <1>4, <1>5, <1>6, <1>9, <1>10, PopShape

(* NetAnswers keeps Shape.                                                 *)
LEMMA NetAnswersShape ==
  ASSUME Shape, NEW f \in Fetches, NetAnswers(f)
  PROVE  Shape'
<1>1. Waiting /\ Running(f) /\ Pop(f) /\ UNCHANGED <<phase, rests, relayed, crashed>>
  BY DEF NetAnswers
<1>2. /\ \A g : ~Turn(agenda, g)
      /\ \A s \in Seq(Entries) : After(s, agenda) = s
  BY <1>1, WaitingOpening
<1>3. Nested(f) # <<>>
  BY <1>1, <1>2, FetchOfTurn
<1> DEFINE x == OfFetch("obtained", f)
           y == Free(Top(f), f)
<1>4. agenda' = <<x>> \o (IF Top(f) = "rest" THEN <<>> ELSE <<y>>)
  BY DEF NetAnswers
<1>5. x \in Entries /\ Fits(phase, x) /\ x.do = "obtained" /\ x.fetch = f
  BY ObtainedEntry
<1>6. y \in Entries /\ Fits(phase, y) /\ y.do = "free"
  BY <1>1, <1>3, FreeEntry
<1> HIDE DEF x, y
<1>7. CASE Top(f) = "rest"
  <2>1. /\ <<x>> \in Seq(Entries) /\ <<x>> # <<>> /\ <<x>>[1] = x
        /\ AgendaFits(phase, After(<<x>>, agenda))
        /\ \A g : Turn(<<x>>, g) <=> x.do \in Asks /\ x.fetch = g
    BY <1>5, StaysOne
  <2>2. <<x>> \o <<>> = <<x>>
    BY <2>1, ConcatEmptySeq
  <2>3. agenda' = After(<<x>>, agenda)
    BY <1>2, <1>4, <1>7, <2>1, <2>2
  <2>4. /\ \A g : Turn(agenda, g) => g = f
        /\ \A g : Turn(<<x>>, g) <=> g = f
        /\ <<x>>[1].do = "obtained"
    BY <1>2, <1>5, <2>1 DEF Asks
  <2> QED
    BY <1>1, <1>3, <2>1, <2>3, <2>4, PopShape
<1>8. CASE Top(f) # "rest"
  <2>1. /\ <<x, y>> \in Seq(Entries) /\ <<x, y>> # <<>> /\ <<x, y>>[1] = x
        /\ AgendaFits(phase, After(<<x, y>>, agenda))
        /\ \A g : Turn(<<x, y>>, g) <=> x.do \in Asks /\ x.fetch = g
    BY <1>5, <1>6, StaysTwo
  <2>2. <<x>> \o <<y>> = <<x, y>>
    <3>1. /\ <<x>> \in Seq(Entries) /\ <<y>> \in Seq(Entries) /\ Len(<<x>>) = 1 /\ Len(<<y>>) = 1
          /\ <<x>>[1] = x /\ <<y>>[1] = y
          /\ Len(<<x, y>>) = 2 /\ <<x, y>>[1] = x /\ <<x, y>>[2] = y
      BY <1>5, <1>6
    <3>2. /\ <<x>> \o <<y>> \in Seq(Entries) /\ Len(<<x>> \o <<y>>) = 2
          /\ \A i \in 1 .. 2 : (<<x>> \o <<y>>)[i] = IF i <= 1 THEN <<x>>[i] ELSE <<y>>[i - 1]
      BY <3>1, ConcatProperties
    <3>3. \A i \in 1 .. 2 : (<<x>> \o <<y>>)[i] = <<x, y>>[i]
      BY <3>1, <3>2
    <3> QED
      BY <2>1, <3>1, <3>2, <3>3, SeqEqual
  <2>3. agenda' = After(<<x, y>>, agenda)
    BY <1>2, <1>4, <1>8, <2>1, <2>2
  <2>4. /\ \A g : Turn(agenda, g) => g = f
        /\ \A g : Turn(<<x, y>>, g) <=> g = f
        /\ <<x, y>>[1].do = "obtained"
    BY <1>2, <1>5, <2>1 DEF Asks
  <2> QED
    BY <1>1, <1>3, <2>1, <2>3, <2>4, PopShape
<1> QED
  BY <1>7, <1>8

(* KeyFetched keeps Shape.                                                 *)
LEMMA KeyFetchedShape == Shape /\ KeyFetched => Shape'
<1> SUFFICES ASSUME Shape, KeyFetched PROVE Shape'
  OBVIOUS
<1>1. Now("obtained") /\ UNCHANGED <<phase, rests, relayed, crashed>>
  BY DEF KeyFetched
<1>2. /\ agenda # <<>> /\ agenda \in Seq(Entries) /\ Now1 = agenda[1] /\ agenda[1] \in Entries
      /\ agenda[1].do = "obtained" /\ \A f : Turn(agenda, f) <=> agenda[1].fetch = f
      /\ Rest(agenda) = Tail(agenda) /\ phase[Outer] # "idle"
  BY <1>1, Opening DEF Asks
<1>3. PICK f \in Fetches : f = agenda[1].fetch
  BY <1>2, EntryTypes DEF Asks
<1>4. Running(f)
  BY <1>2, <1>3 DEF Shape, FetchesFit, Running
<1>5. PICK c \in Calls : c = fetches[f].call
  BY <1>4, FetchOfTurn
<1> DEFINE x == OfCall("run", c)
<1>6. /\ phase[c] = "items" /\ fetches' = [fetches EXCEPT ![f] = NoFetch] /\ Then(<<x>>)
  BY <1>2, <1>3, <1>5 DEF KeyFetched
<1>7. agenda' = After(<<x>>, agenda)
  BY <1>2, <1>6 DEF Then, After
<1>8. x \in Entries /\ x.do = "run" /\ x.call = c /\ Fits(phase, x)
  BY <1>6, EntriesMade DEF OfCall, Fits, Asks, CallSteps
<1> HIDE DEF x
<1>9. /\ <<x>> \in Seq(Entries) /\ <<x>> # <<>> /\ <<x>>[1] = x
      /\ AgendaFits(phase, After(<<x>>, agenda))
      /\ \A g : Turn(<<x>>, g) <=> x.do \in Asks /\ x.fetch = g
  BY <1>8, StaysOne
<1>10. \A g : ~Turn(<<x>>, g)
  BY <1>8, <1>9 DEF Asks
<1>11. \A g : Turn(agenda, g) \/ Turn(<<x>>, g) => g = f
  BY <1>2, <1>3, <1>10
<1>12. NoFetch \in {NoFetch} \cup FetchRecords /\ rests' \in 0 .. MaxRests
  BY <1>1 DEF Shape, Types
<1>13. <<x>>[1].do # "end"
  BY <1>8, <1>9
<1> QED
  BY <1>1, <1>2, <1>6, <1>7, <1>9, <1>10, <1>11, <1>12, <1>13, OneFetch

(* A fetch started for an operation that may fetch fits.                   *)
LEMMA NewFetchFits ==
  ASSUME NEW p, NEW c \in Calls, NEW s \in Raws, p[c] \in {"query", "items"}
  PROVE  /\ [call |-> c, raw |-> s, nested |-> <<>>] \in FetchRecords
         /\ FetchFits(p, TRUE, [call |-> c, raw |-> s, nested |-> <<>>])
<1>1. <<>> \in Seq(Kinds) /\ Len(<<>>) = 0
  BY EmptySeq
<1>2. 0 <= MaxDepth
  BY BoundsAssumption
<1>3. [call |-> c, raw |-> s, nested |-> <<>>] \in FetchRecords
  BY <1>1 DEF FetchRecords
<1> QED
  BY <1>1, <1>2, <1>3 DEF FetchFits

(* Key keeps Shape.                                                        *)
LEMMA KeyShape == Shape /\ Key => Shape'
<1> SUFFICES ASSUME Shape, Key PROVE Shape'
  OBVIOUS
<1>1. Now("key") /\ UNCHANGED <<phase, rests, relayed, crashed>>
  BY DEF Key
<1>2. /\ agenda # <<>> /\ agenda \in Seq(Entries) /\ Now1 = agenda[1] /\ agenda[1] \in Entries
      /\ agenda[1].do = "key" /\ \A f : ~Turn(agenda, f) /\ Fits(phase, agenda[1])
      /\ Rest(agenda) = Tail(agenda) /\ phase[Outer] # "idle"
  BY <1>1, Opening DEF Asks
<1>3. PICK c \in Calls, s \in Raws : c = agenda[1].call /\ s = agenda[1].raw
  BY <1>2, EntryTypes DEF Asks
<1>4. phase[c] = "items" /\ rests' \in 0 .. MaxRests
  BY <1>1, <1>2, <1>3 DEF Fits, Shape, Types
<1>5. CASE Then(<<OfCall("run", c)>>) /\ UNCHANGED fetches
  <2> DEFINE x == OfCall("run", c)
  <2>1. agenda' = After(<<x>>, agenda)
    BY <1>2, <1>5 DEF Then, After
  <2>2. x \in Entries /\ x.do = "run" /\ x.call = c /\ Fits(phase, x)
    BY <1>4, EntriesMade DEF OfCall, Fits, Asks, CallSteps
  <2> HIDE DEF x
  <2>3. \A f : Turn(agenda, f) <=> x.do \in Asks /\ x.fetch = f
    BY <1>2, <2>2 DEF Asks
  <2>4. x.do \notin {"key", "finish", "end"}
    BY <2>2
  <2> QED
    BY <1>1, <1>2, <1>4, <1>5, <2>1, <2>2, <2>3, <2>4, NextShape
<1>6. ASSUME NEW f \in Fetches, ~Running(f),
             fetches' = [fetches EXCEPT ![f] = [call |-> c, raw |-> s, nested |-> <<>>]],
             Then(<<OfFetch("get", f)>>)
      PROVE  Shape'
  <2> DEFINE x == OfFetch("get", f)
             r == [call |-> c, raw |-> s, nested |-> <<>>]
  <2>1. agenda' = After(<<x>>, agenda)
    BY <1>2, <1>6 DEF Then, After
  <2>2. x \in Entries /\ x.do = "get" /\ x.fetch = f /\ Fits(phase, x)
    BY EntriesMade DEF OfFetch, Fits, Asks
  <2>3. r \in FetchRecords /\ FetchFits(phase, TRUE, r) /\ r.call = c
    BY <1>4, NewFetchFits
  <2>4. fetches' = [fetches EXCEPT ![f] = r]
    BY <1>6
  <2> HIDE DEF x, r
  <2>5. /\ <<x>> \in Seq(Entries) /\ <<x>> # <<>> /\ <<x>>[1] = x
        /\ AgendaFits(phase, After(<<x>>, agenda))
        /\ \A g : Turn(<<x>>, g) <=> x.do \in Asks /\ x.fetch = g
    BY <2>2, StaysOne
  <2>6. /\ Turn(<<x>>, f) = TRUE /\ <<x>>[1].do # "end"
        /\ \A g : Turn(agenda, g) \/ Turn(<<x>>, g) => g = f
    BY <1>2, <2>2, <2>5 DEF Asks, Turn
  <2>7. r \in {NoFetch} \cup FetchRecords /\ r # NoFetch /\ phase[r.call] # "query"
    BY <1>4, <2>3, RecordIsSome
  <2> QED
    BY <1>1, <1>2, <1>4, <2>1, <2>3, <2>4, <2>5, <2>6, <2>7, OneFetch
<1> QED
  BY <1>2, <1>3, <1>5, <1>6 DEF Key

(* Fetches end when no other is in turn.                                   *)
LEMMA FewerFetches ==
  ASSUME NEW p, NEW q, NEW a, NEW b, NEW F, NEW G, FetchesFit(p, a, F),
         \A f \in Fetches : ~Turn(b, f),
         \A f \in Fetches : G[f] # NoFetch =>
            G[f] = F[f] /\ ~Turn(a, f) /\ q[F[f].call] = p[F[f].call]
  PROVE  FetchesFit(q, b, G)
<1>1. ASSUME NEW f \in Fetches, G[f] # NoFetch PROVE FetchFits(q, Turn(b, f), G[f])
  <2>1. FetchFits(p, Turn(a, f), F[f]) /\ G[f] = F[f] /\ q[F[f].call] = p[F[f].call]
    BY <1>1 DEF FetchesFit
  <2>2. Turn(a, f) = Turn(b, f)
    BY <1>1 DEF Turn
  <2> QED
    BY <2>1, <2>2 DEF FetchFits
<1>2. ASSUME NEW f \in Fetches, NEW g \in Fetches, G[f] # NoFetch, G[g] # NoFetch,
             G[f].call = G[g].call, q[G[f].call] = "query"
      PROVE  f = g
  BY <1>2 DEF FetchesFit
<1> QED
  BY <1>1, <1>2 DEF FetchesFit

(* The entries behind do not mind when an operation that is not with its   *)
(* items goes on.                                                          *)
LEMMA BehindFits ==
  ASSUME Shape, NEW c \in Calls, phase[c] \notin {"items", "answered"},
         NEW x \in Phases, x # "idle"
  PROVE  \A i \in 2 .. Len(agenda) : Fits([phase EXCEPT ![c] = x], agenda[i])
<1>1. phase \in [Calls -> Phases] /\ agenda \in Seq(Entries) /\ AgendaFits(phase, agenda)
  BY DEF Shape, Types
<1>2. \A i \in 2 .. Len(agenda) : Fits(phase, agenda[i])
  BY <1>1, Behind
<1>3. \A i \in 2 .. Len(agenda) : agenda[i].do \in {"item", "key", "finish"} => agenda[i].call # c
  BY <1>2 DEF Fits
<1> QED
  BY <1>1, <1>3, OthersFit

(* EXECUTE_CALL.                                                           *)
LEMMA ExecuteShape ==
  ASSUME Shape, agenda # <<>>, NEW c \in Calls, ExecuteCall(c), phase[c] \in {"begun", "query"},
         fetches' \in [Fetches -> {NoFetch} \cup FetchRecords],
         \A f \in Fetches : fetches'[f] # NoFetch =>
            fetches'[f] = fetches[f] /\ ~Turn(agenda, f) /\ fetches[f].call # c,
         UNCHANGED <<rests, relayed, crashed>>
  PROVE  Shape'
<1>1. /\ phase \in [Calls -> Phases] /\ agenda \in Seq(Entries) /\ AgendaFits(phase, agenda)
      /\ FetchesFit(phase, agenda, fetches)
  BY DEF Shape, Types
<1>2. Rest(agenda) = Tail(agenda)
  BY DEF Rest
<1>3. /\ phase[Outer] # "idle"
      /\ c = Outer => \A r \in Resolves : ~BusyIn(phase, r)
      /\ c # Outer => BusyIn(phase, c)
  BY DEF Shape, CallsFit, BusyIn
<1>4. ASSUME NEW x \in Phases, x # "idle", phase' = [phase EXCEPT ![c] = x],
             \A f \in Fetches : ~Turn(agenda', f)
      PROVE  FetchesFit(phase', agenda', fetches')
  <2>1. \A f \in Fetches : fetches'[f] # NoFetch => fetches[f].call \in Calls
    BY <1>1, FetchOfTurn DEF Running
  <2>2. \A f \in Fetches : fetches'[f] # NoFetch => phase'[fetches[f].call] = phase[fetches[f].call]
    BY <1>1, <1>4, <2>1
  <2>3. /\ \A f \in Fetches : ~Turn(agenda', f)
        /\ \A f \in Fetches : fetches'[f] # NoFetch =>
             /\ fetches'[f] = fetches[f] /\ ~Turn(agenda, f)
             /\ phase'[fetches[f].call] = phase[fetches[f].call]
    BY <1>4, <2>2
  <2>4. FetchesFit(phase, agenda, fetches)
    BY <1>1
  <2> QED
    BY <2>3, <2>4, FewerFetches
<1>5. CASE relayed
  <2>1. phase' = [phase EXCEPT ![c] = "relay"] /\ agenda' = After(<<>>, agenda)
    BY <1>2, <1>5 DEF ExecuteCall, GoTo, Then, After
  <2>2. "relay" \in Phases
    BY DEF Phases
  <2>3. \A i \in 2 .. Len(agenda) : Fits(phase', agenda[i])
    BY <2>1, <2>2, BehindFits
  <2>4. <<>> \in Seq(Entries) /\ AgendaFits(phase', After(<<>>, agenda)) /\ \A f : ~Turn(<<>>, f)
    BY <1>1, <2>3, ThenNothing
  <2>5. \A f : ~Turn(agenda', f)
    BY <1>1, <2>1, <2>4, NewHead
  <2>6. FetchesFit(phase', agenda', fetches')
    BY <1>4, <2>1, <2>2, <2>5
  <2> QED
    BY <1>3, <2>1, <2>2, <2>4, <2>6, GoesTo
<1>6. CASE ~relayed
  <2> DEFINE x == OfCall("send", c)
  <2>1. phase' = [phase EXCEPT ![c] = "sending"] /\ agenda' = After(<<x>>, agenda)
    BY <1>2, <1>6 DEF ExecuteCall, GoTo, Then, After
  <2>2. "sending" \in Phases /\ phase'[c] = "sending"
    BY <1>1, <2>1 DEF Phases
  <2>3. x \in Entries /\ x.do = "send" /\ x.call = c
    BY EntriesMade DEF OfCall, CallSteps
  <2>4. Fits(phase', x)
    BY <2>2, <2>3 DEF Fits
  <2> HIDE DEF x
  <2>5. /\ \A i \in 2 .. Len(agenda) : Fits(phase', agenda[i])
        /\ \A i \in 2 .. Len(agenda) : ~Finishes(x, agenda[i])
    BY <2>1, <2>2, <2>3, BehindFits DEF Finishes
  <2>6. x.do # "key" /\ x.do # "end" /\ x.do \notin Asks
    BY <2>3 DEF Asks
  <2>7. /\ <<x>> \in Seq(Entries) /\ <<x>> # <<>> /\ <<x>>[1] = x
        /\ AgendaFits(phase', After(<<x>>, agenda))
        /\ \A g : Turn(<<x>>, g) <=> x.do \in Asks /\ x.fetch = g
    BY <1>1, <2>3, <2>4, <2>5, <2>6, ThenOne
  <2>8. \A f : ~Turn(agenda', f)
    BY <1>1, <2>1, <2>6, <2>7, NewHead
  <2>9. FetchesFit(phase', agenda', fetches')
    BY <1>4, <2>1, <2>2, <2>8
  <2> QED
    BY <1>3, <2>1, <2>2, <2>6, <2>7, <2>9, GoesTo
<1> QED
  BY <1>5, <1>6

(* Nothing of an operation that is not with its items, and has no fetch,   *)
(* is left when it ends.                                                   *)
LEMMA NothingLeft ==
  ASSUME Shape, NEW c \in Calls, phase[c] \in {"query", "sending"}
  PROVE  /\ \A i \in 2 .. Len(agenda) : agenda[i].do \in {"key", "item"} => agenda[i].call # c
         /\ c = Outer => \A r \in Resolves : ~BusyIn(phase, r)
         /\ phase[c] = "sending" => \A f \in Fetches : Running(f) => fetches[f].call # c
<1>1. agenda \in Seq(Entries) /\ AgendaFits(phase, agenda)
  BY DEF Shape, Types
<1>2. \A i \in 2 .. Len(agenda) : Fits(phase, agenda[i])
  BY <1>1, Behind
<1>3. \A i \in 2 .. Len(agenda) : agenda[i].do \in {"key", "item"} => agenda[i].call # c
  BY <1>2 DEF Fits
<1>4. c = Outer => \A r \in Resolves : ~BusyIn(phase, r)
  BY DEF Shape, CallsFit
<1>5. ASSUME phase[c] = "sending", NEW f \in Fetches, Running(f) PROVE fetches[f].call # c
  BY <1>5, FetchOfTurn
<1> QED
  BY <1>3, <1>4, <1>5

(* OperationCall keeps Shape.                                              *)
LEMMA OperationCallShape == Shape /\ OperationCall => Shape'
<1> SUFFICES ASSUME Shape, OperationCall PROVE Shape'
  OBVIOUS
<1>1. Now("call") /\ UNCHANGED <<rests, relayed, crashed>>
  BY DEF OperationCall
<1>2. /\ agenda # <<>> /\ agenda \in Seq(Entries) /\ Now1 = agenda[1] /\ agenda[1] \in Entries
      /\ agenda[1].do = "call" /\ \A f : ~Turn(agenda, f) /\ Fits(phase, agenda[1])
      /\ Rest(agenda) = Tail(agenda) /\ phase[Outer] # "idle"
  BY <1>1, Opening DEF Asks
<1>3. PICK c \in Calls : c = agenda[1].call
  BY <1>2, EntryTypes DEF Asks
<1>4. phase[c] = "begun"
  BY <1>2, <1>3 DEF Fits
<1>5. /\ phase \in [Calls -> Phases] /\ fetches \in [Fetches -> {NoFetch} \cup FetchRecords]
      /\ AgendaFits(phase, agenda) /\ FetchesFit(phase, agenda, fetches)
  BY DEF Shape, Types
<1>6. \A f \in Fetches : Running(f) => fetches[f].call \in Calls /\ fetches[f].call # c
  BY <1>4, FetchOfTurn
<1>7. CASE ExecuteCall(c) /\ UNCHANGED <<fetches, refs>>
  <2>1. /\ fetches' \in [Fetches -> {NoFetch} \cup FetchRecords]
        /\ \A f \in Fetches : fetches'[f] # NoFetch =>
             fetches'[f] = fetches[f] /\ ~Turn(agenda, f) /\ fetches[f].call # c
    BY <1>2, <1>5, <1>6, <1>7 DEF Running
  <2> QED
    BY <1>1, <1>2, <1>4, <1>7, <2>1, ExecuteShape
<1>8. ASSUME NEW s \in Raws, NEW f \in Fetches, ~Running(f), GoTo(c, "query"),
             fetches' = [fetches EXCEPT ![f] = [call |-> c, raw |-> s, nested |-> <<>>]],
             Then(<<OfFetch("get", f), WithRaw("unref", c, s)>>)
      PROVE  Shape'
  <2> DEFINE x == OfFetch("get", f)
             y == WithRaw("unref", c, s)
             r == [call |-> c, raw |-> s, nested |-> <<>>]
  <2>1. agenda' = After(<<x, y>>, agenda)
    BY <1>2, <1>8 DEF Then, After
  <2>2. phase' = [phase EXCEPT ![c] = "query"] /\ "query" \in Phases /\ fetches' = [fetches EXCEPT ![f] = r]
    BY <1>8 DEF GoTo, Phases
  <2>3. phase'[c] = "query" /\ \A d \in Calls : d # c => phase'[d] = phase[d]
    BY <1>5, <2>2
  <2>4. x \in Entries /\ x.do = "get" /\ x.fetch = f /\ Fits(phase', x)
    BY EntriesMade DEF OfFetch, Fits, Asks
  <2>5. y \in Entries /\ y.do = "unref" /\ y.call = c
    BY EntriesMade DEF WithRaw
  <2>6. Fits(phase', y)
    BY <2>3, <2>5 DEF Fits
  <2>7. r \in FetchRecords /\ FetchFits(phase', TRUE, r) /\ r.call = c
    BY <2>3, NewFetchFits
  <2> HIDE DEF x, y, r
  <2>8. /\ \A i \in 2 .. Len(agenda) : Fits(phase', agenda[i])
        /\ \A i \in 2 .. Len(agenda) : ~Finishes(y, agenda[i])
    BY <1>4, <2>2, <2>5, BehindFits DEF Finishes
  <2>9. x.do # "key" /\ x.do # "finish" /\ y.do # "key" /\ y.do \in Later
    BY <2>4, <2>5 DEF Later
  <2>10. /\ <<x, y>> \in Seq(Entries) /\ <<x, y>> # <<>> /\ <<x, y>>[1] = x
         /\ AgendaFits(phase', After(<<x, y>>, agenda))
         /\ \A g : Turn(<<x, y>>, g) <=> x.do \in Asks /\ x.fetch = g
    <3>1. agenda \in Seq(Entries) /\ AgendaFits(phase, agenda)
      BY <1>2, <1>5
    <3>2. x \in Entries /\ Fits(phase', x) /\ y \in Entries /\ Fits(phase', y)
      BY <2>4, <2>5, <2>6
    <3> QED
      BY <2>8, <2>9, <3>1, <3>2, ThenTwo
  <2>11. \A g : Turn(agenda', g) <=> Turn(<<x, y>>, g)
    BY <1>2, <1>5, <2>1, <2>10, NewHead
  <2>12. Turn(agenda', f) = TRUE /\ \A g : g # f => ~Turn(agenda', g)
    BY <2>4, <2>10, <2>11 DEF Turn, Asks
  <2>13. /\ \A g \in Fetches : g # f => ~Turn(agenda, g) /\ ~Turn(agenda', g)
         /\ \A g \in Fetches : g # f /\ fetches[g] # NoFetch => phase'[fetches[g].call] = phase[fetches[g].call]
         /\ \A g \in Fetches : g # f /\ fetches[g] # NoFetch => fetches[g].call # r.call
         /\ r \in {NoFetch} \cup FetchRecords /\ r # NoFetch
         /\ FetchFits(phase', Turn(agenda', f), r)
    BY <1>2, <1>6, <2>3, <2>7, <2>12, RecordIsSome DEF Running
  <2>14. FetchesFit(phase', agenda', [fetches EXCEPT ![f] = r])
    BY <1>5, <2>13, FetchStep
  <2>15. fetches' \in [Fetches -> {NoFetch} \cup FetchRecords] /\ FetchesFit(phase', agenda', fetches')
    BY <1>5, <2>2, <2>13, <2>14
  <2>16. <<x, y>>[1].do # "end"
    BY <2>4, <2>10
  <2>17. /\ c = Outer => \A q \in Resolves : ~BusyIn(phase, q)
         /\ c # Outer => BusyIn(phase, c)
    BY <1>4 DEF Shape, CallsFit, BusyIn
  <2> QED
    BY <1>1, <1>2, <2>1, <2>2, <2>10, <2>15, <2>16, <2>17, GoesTo
<1> QED
  BY <1>2, <1>3, <1>7, <1>8 DEF OperationCall

(* DataFetched keeps Shape.                                                *)
LEMMA DataFetchedShape == Shape /\ DataFetched => Shape'
<1> SUFFICES ASSUME Shape, DataFetched PROVE Shape'
  OBVIOUS
<1>1. Now("obtained") /\ UNCHANGED <<rests, relayed, crashed>>
  BY DEF DataFetched
<1>2. /\ agenda # <<>> /\ agenda \in Seq(Entries) /\ Now1 = agenda[1] /\ agenda[1] \in Entries
      /\ agenda[1].do = "obtained" /\ \A f : Turn(agenda, f) <=> agenda[1].fetch = f
      /\ Rest(agenda) = Tail(agenda) /\ phase[Outer] # "idle"
  BY <1>1, Opening DEF Asks
<1>3. PICK f \in Fetches : f = agenda[1].fetch
  BY <1>2, EntryTypes DEF Asks
<1>4. Running(f)
  BY <1>2, <1>3 DEF Shape, FetchesFit, Running
<1>5. PICK c \in Calls : c = fetches[f].call
  BY <1>4, FetchOfTurn
<1>6. /\ phase[c] = "query" /\ fetches' = [fetches EXCEPT ![f] = NoFetch]
      /\ \/ UNCHANGED phase /\ Then(<<OfCall("end", c)>>)
         \/ ExecuteCall(c)
  BY <1>2, <1>3, <1>5 DEF DataFetched
<1>7. /\ fetches \in [Fetches -> {NoFetch} \cup FetchRecords]
      /\ AgendaFits(phase, agenda) /\ rests' \in 0 .. MaxRests
  BY <1>1 DEF Shape, Types
<1>8. \A g \in Fetches : g # f /\ fetches[g] # NoFetch => fetches[g].call # c
  BY <1>4, <1>5, <1>6 DEF Shape, FetchesFit, Running
<1>9. CASE UNCHANGED phase /\ Then(<<OfCall("end", c)>>)
  <2> DEFINE x == OfCall("end", c)
  <2>1. agenda' = After(<<x>>, agenda)
    BY <1>2, <1>9 DEF Then, After
  <2>2. x \in Entries /\ x.do = "end" /\ x.call = c /\ Fits(phase, x)
    BY <1>6, EntriesMade DEF OfCall, Fits, Asks, CallSteps
  <2> HIDE DEF x
  <2>3. /\ <<x>> \in Seq(Entries) /\ <<x>> # <<>> /\ <<x>>[1] = x
        /\ AgendaFits(phase, After(<<x>>, agenda))
        /\ \A g : Turn(<<x>>, g) <=> x.do \in Asks /\ x.fetch = g
    BY <2>2, StaysOne
  <2>4. /\ \A g : ~Turn(<<x>>, g)
        /\ \A g : Turn(agenda, g) \/ Turn(<<x>>, g) => g = f
    BY <1>2, <1>3, <2>2, <2>3 DEF Asks
  <2>5. /\ \A i \in 2 .. Len(agenda) : agenda[i].do \in {"key", "item"} => agenda[i].call # c
        /\ c = Outer => \A r \in Resolves : ~BusyIn(phase, r)
    BY <1>6, NothingLeft
  <2>6. \A i \in 1 .. Len(After(<<x>>, agenda)) :
           After(<<x>>, agenda)[i].do \in {"key", "item"} => After(<<x>>, agenda)[i].call # c
    <3> SUFFICES ASSUME NEW i \in 1 .. Len(After(<<x>>, agenda)),
                        After(<<x>>, agenda)[i].do \in {"key", "item"}
                 PROVE  After(<<x>>, agenda)[i].call # c
      OBVIOUS
    <3>1. \/ i \in 1 .. Len(<<x>>) /\ After(<<x>>, agenda)[i] = <<x>>[i]
          \/ \E j \in 2 .. Len(agenda) : i = Len(<<x>>) + j - 1 /\ After(<<x>>, agenda)[i] = agenda[j]
      BY <1>2, <2>3, Comes
    <3>2. i \in 1 .. Len(<<x>>) => <<x>>[i] = x
      OBVIOUS
    <3> QED
      BY <3>1, <3>2, <2>2, <2>5
  <2>7. agenda'[1] = x
    BY <1>2, <1>7, <2>1, <2>3, NewHead
  <2>8. EndFits(phase, agenda', fetches')
    <3>1. \A i \in 1 .. Len(agenda') : agenda'[i].do \in {"key", "item"} => agenda'[i].call # c
      BY <2>1, <2>6
    <3>2. \A g \in Fetches : fetches'[g] # NoFetch => fetches'[g].call # c
      BY <1>6, <1>7, <1>8
    <3> QED
      BY <2>2, <2>5, <2>7, <3>1, <3>2 DEF EndFits
  <2>9. NoFetch \in {NoFetch} \cup FetchRecords
    OBVIOUS
  <2> QED
    BY <1>1, <1>2, <1>6, <1>7, <1>9, <2>1, <2>3, <2>4, <2>8, <2>9, OneFetch
<1>10. CASE ExecuteCall(c)
  <2>1. /\ fetches' \in [Fetches -> {NoFetch} \cup FetchRecords]
        /\ \A g \in Fetches : fetches'[g] # NoFetch =>
             fetches'[g] = fetches[g] /\ ~Turn(agenda, g) /\ fetches[g].call # c
    BY <1>2, <1>3, <1>6, <1>7, <1>8
  <2> QED
    BY <1>1, <1>2, <1>6, <1>10, <2>1, ExecuteShape
<1> QED
  BY <1>6, <1>9, <1>10

(* RelayFires keeps Shape.                                                 *)
LEMMA RelayFiresShape ==
  ASSUME NEW c \in Calls, Shape, RelayFires(c)
  PROVE  Shape'
<1> DEFINE x == OfCall("send", c)
<1>1. /\ Waiting /\ phase[c] = "relay" /\ phase' = [phase EXCEPT ![c] = "sending"]
      /\ agenda' = <<x>> /\ UNCHANGED <<fetches, rests, relayed, crashed>>
  BY DEF RelayFires, GoTo
<1>2. /\ agenda = <<>> /\ agenda \in Seq(Entries) /\ \A f : ~Turn(agenda, f)
      /\ \A i \in 2 .. Len(agenda) : FALSE /\ \A s \in Seq(Entries) : After(s, agenda) = s
  BY <1>1, WaitingOpening
<1>3. /\ phase \in [Calls -> Phases] /\ fetches \in [Fetches -> {NoFetch} \cup FetchRecords]
      /\ AgendaFits(phase, agenda) /\ FetchesFit(phase, agenda, fetches)
  BY DEF Shape, Types
<1>4. "sending" \in Phases /\ phase'[c] = "sending"
  BY <1>1, <1>3 DEF Phases
<1>5. x \in Entries /\ x.do = "send" /\ x.call = c
  BY EntriesMade DEF OfCall, CallSteps
<1>6. Fits(phase', x) /\ x.do # "key" /\ x.do # "end" /\ x.do \notin Asks
  BY <1>4, <1>5 DEF Fits, Asks
<1> HIDE DEF x
<1>7. /\ \A i \in 2 .. Len(agenda) : Fits(phase', agenda[i])
      /\ \A i \in 2 .. Len(agenda) : ~Finishes(x, agenda[i])
  BY <1>2
<1>8. /\ <<x>> \in Seq(Entries) /\ <<x>> # <<>> /\ <<x>>[1] = x
      /\ AgendaFits(phase', After(<<x>>, agenda))
      /\ \A g : Turn(<<x>>, g) <=> x.do \in Asks /\ x.fetch = g
  <2>1. agenda \in Seq(Entries) /\ AgendaFits(phase, agenda) /\ x \in Entries
    BY <1>2, <1>3, <1>5
  <2> QED
    BY <1>6, <1>7, <2>1, ThenOne
<1>9. agenda' = After(<<x>>, agenda)
  <2>1. agenda' = <<x>>
    BY <1>1
  <2>2. \A s \in Seq(Entries) : After(s, agenda) = s
    <3>1. Waiting
      BY <1>1
    <3> QED
      BY <3>1, WaitingOpening, Zenon
  <2>3. After(<<x>>, agenda) = <<x>>
    BY <1>8, <2>2
  <2> QED
    BY <2>1, <2>3
<1>10. FetchesFit(phase', agenda', fetches')
  <2>1. \A f \in Fetches : Turn(agenda, f) <=> Turn(agenda', f)
    BY <1>1, <1>2, <1>6, <1>8
  <2>2. \A f \in Fetches : fetches[f] # NoFetch => phase'[fetches[f].call] = phase[fetches[f].call]
    <3>1. \A f \in Fetches : fetches[f] # NoFetch => fetches[f].call \in Calls /\ fetches[f].call # c
      BY <1>1, FetchOfTurn DEF Running
    <3> QED
      BY <1>1, <1>3, <3>1
  <2>3. FetchesFit(phase', agenda', fetches)
    BY <1>3, <2>1, <2>2, FetchesStay
  <2> QED
    BY <1>1, <2>3
<1>11. /\ c # Outer => phase[Outer] # "idle"
       /\ c = Outer => \A r \in Resolves : ~BusyIn(phase, r)
       /\ c # Outer => BusyIn(phase, c)
  BY <1>1 DEF Shape, CallsFit, BusyIn, Calls
<1> QED
  BY <1>1, <1>3, <1>4, <1>6, <1>8, <1>9, <1>10, <1>11, GoesTo

(* SendResults keeps Shape.                                                *)
LEMMA SendResultsShape == Shape /\ SendResults => Shape'
<1> SUFFICES ASSUME Shape, SendResults PROVE Shape'
  OBVIOUS
<1>1. Now("send") /\ UNCHANGED <<fetches, rests, relayed, crashed>>
  BY DEF SendResults
<1>2. /\ agenda # <<>> /\ agenda \in Seq(Entries) /\ Now1 = agenda[1] /\ agenda[1] \in Entries
      /\ agenda[1].do = "send" /\ \A f : ~Turn(agenda, f) /\ Fits(phase, agenda[1])
      /\ Rest(agenda) = Tail(agenda) /\ phase[Outer] # "idle"
  BY <1>1, Opening DEF Asks
<1>3. PICK c \in Calls : c = agenda[1].call
  BY <1>2, EntryTypes DEF Asks
<1>4. phase[c] = "sending"
  BY <1>2, <1>3 DEF Fits
<1>5. /\ phase \in [Calls -> Phases] /\ fetches \in [Fetches -> {NoFetch} \cup FetchRecords]
      /\ AgendaFits(phase, agenda) /\ FetchesFit(phase, agenda, fetches)
  BY DEF Shape, Types
<1>6. CASE Then(<<OfCall("end", c)>>) /\ UNCHANGED phase
  <2>1. agenda' = After(<<OfCall("end", c)>>, agenda)
    BY <1>2, <1>6 DEF Then, After
  <2>2. /\ \A i \in 2 .. Len(agenda) : agenda[i].do \in {"key", "item"} => agenda[i].call # c
        /\ c = Outer => \A r \in Resolves : ~BusyIn(phase, r)
        /\ \A f \in Fetches : Running(f) => fetches[f].call # c
    BY <1>4, NothingLeft
  <2> QED
    BY <1>1, <1>2, <1>4, <1>6, <2>1, <2>2, EndShape
<1>7. CASE Then(<<OfCall("item", c)>>) /\ GoTo(c, "items")
  <2> DEFINE x == OfCall("item", c)
  <2>1. phase' = [phase EXCEPT ![c] = "items"] /\ agenda' = After(<<x>>, agenda)
    BY <1>2, <1>7 DEF GoTo, Then, After
  <2>2. "items" \in Phases /\ phase'[c] = "items"
    BY <1>5, <2>1 DEF Phases
  <2>3. x \in Entries /\ x.do = "item" /\ x.call = c
    BY EntriesMade DEF OfCall, CallSteps
  <2>4. Fits(phase', x) /\ x.do # "key" /\ x.do # "end" /\ x.do \notin Asks
    BY <2>2, <2>3 DEF Fits, Asks
  <2> HIDE DEF x
  <2>5. /\ \A i \in 2 .. Len(agenda) : Fits(phase', agenda[i])
        /\ \A i \in 2 .. Len(agenda) : ~Finishes(x, agenda[i])
    BY <1>4, <2>1, <2>2, <2>3, BehindFits DEF Finishes
  <2>6. /\ <<x>> \in Seq(Entries) /\ <<x>> # <<>> /\ <<x>>[1] = x
        /\ AgendaFits(phase', After(<<x>>, agenda))
        /\ \A g : Turn(<<x>>, g) <=> x.do \in Asks /\ x.fetch = g
    <3>1. agenda \in Seq(Entries) /\ AgendaFits(phase, agenda) /\ x \in Entries
      BY <1>2, <1>5, <2>3
    <3> QED
      BY <2>4, <2>5, <3>1, ThenOne
  <2>7. \A f \in Fetches : Turn(agenda, f) <=> Turn(agenda', f)
    BY <1>2, <1>5, <2>1, <2>4, <2>6, NewHead
  <2>8. \A f \in Fetches : fetches[f] # NoFetch => phase'[fetches[f].call] = phase[fetches[f].call]
    <3>1. \A f \in Fetches : fetches[f] # NoFetch => fetches[f].call \in Calls /\ fetches[f].call # c
      BY <1>4, FetchOfTurn DEF Running
    <3> QED
      BY <1>5, <2>1, <3>1
  <2>9. FetchesFit(phase', agenda', fetches')
    <3>1. FetchesFit(phase', agenda', fetches)
      BY <1>5, <2>7, <2>8, FetchesStay
    <3> QED
      BY <1>1, <3>1
  <2>10. c # Outer => BusyIn(phase, c)
    BY <1>4 DEF BusyIn
  <2> QED
    BY <1>1, <1>2, <1>5, <2>1, <2>2, <2>4, <2>6, <2>9, <2>10, GoesTo
<1> QED
  BY <1>2, <1>3, <1>6, <1>7 DEF SendResults

(* RunResolves keeps Shape.                                                *)
LEMMA RunResolvesShape == Shape /\ RunResolves => Shape'
<1> SUFFICES ASSUME Shape, RunResolves PROVE Shape'
  OBVIOUS
<1>1. Now("run") /\ Now1.call = Outer /\ UNCHANGED <<fetches, rests, relayed, crashed>>
  BY DEF RunResolves
<1>2. /\ agenda # <<>> /\ agenda \in Seq(Entries) /\ Now1 = agenda[1] /\ agenda[1] \in Entries
      /\ agenda[1].do = "run" /\ \A f : ~Turn(agenda, f) /\ Fits(phase, agenda[1])
      /\ Rest(agenda) = Tail(agenda) /\ phase[Outer] # "idle"
  BY <1>1, Opening DEF Asks
<1>3. PICK r \in Resolves : phase[r] = "idle" /\ GoTo(r, "begun") /\ Then(<<OfCall("call", r)>>)
  BY DEF RunResolves
<1>4. phase[Outer] = "items" /\ r \in Calls /\ r # Outer
  BY <1>1, <1>2, OuterAssumption DEF Fits, Calls
<1>5. /\ phase \in [Calls -> Phases] /\ fetches \in [Fetches -> {NoFetch} \cup FetchRecords]
      /\ AgendaFits(phase, agenda) /\ FetchesFit(phase, agenda, fetches)
  BY DEF Shape, Types
<1> DEFINE x == OfCall("call", r)
<1>6. phase' = [phase EXCEPT ![r] = "begun"] /\ agenda' = After(<<x>>, agenda)
  BY <1>2, <1>3 DEF GoTo, Then, After
<1>7. "begun" \in Phases /\ phase'[r] = "begun"
  BY <1>4, <1>5, <1>6 DEF Phases
<1>8. x \in Entries /\ x.do = "call" /\ x.call = r
  BY <1>4, EntriesMade DEF OfCall, CallSteps
<1>9. Fits(phase', x) /\ x.do # "key" /\ x.do # "end" /\ x.do # "finish" /\ x.do \notin Asks
  BY <1>7, <1>8 DEF Fits, Asks
<1> HIDE DEF x
<1>10. /\ \A i \in 2 .. Len(agenda) : Fits(phase', agenda[i])
       /\ \A i \in 2 .. Len(agenda) : ~Finishes(x, agenda[i])
  BY <1>3, <1>4, <1>6, <1>7, <1>9, BehindFits DEF Finishes
<1>11. /\ <<x>> \in Seq(Entries) /\ <<x>> # <<>> /\ <<x>>[1] = x
       /\ AgendaFits(phase', After(<<x>>, agenda))
       /\ \A g : Turn(<<x>>, g) <=> x.do \in Asks /\ x.fetch = g
  <2>1. agenda \in Seq(Entries) /\ AgendaFits(phase, agenda) /\ x \in Entries
    BY <1>2, <1>5, <1>8
  <2> QED
    BY <1>9, <1>10, <2>1, ThenOne
<1>12. \A f \in Fetches : Turn(agenda, f) <=> Turn(agenda', f)
  BY <1>2, <1>5, <1>6, <1>9, <1>11, NewHead
<1>13. \A f \in Fetches : fetches[f] # NoFetch => phase'[fetches[f].call] = phase[fetches[f].call]
  <2>1. \A f \in Fetches : fetches[f] # NoFetch => fetches[f].call \in Calls /\ fetches[f].call # r
    BY <1>3, FetchOfTurn DEF Running
  <2> QED
    BY <1>5, <1>6, <2>1
<1>14. FetchesFit(phase', agenda', fetches')
  <2>1. FetchesFit(phase', agenda', fetches)
    BY <1>5, <1>12, <1>13, FetchesStay
  <2> QED
    BY <1>1, <2>1
<1> QED
  BY <1>1, <1>4, <1>5, <1>6, <1>7, <1>9, <1>11, <1>14, GoesTo

(* The entries behind do not mind when an operation that nothing is left   *)
(* of but the current entry goes on.                                       *)
LEMMA OverFits ==
  ASSUME Shape, agenda # <<>>, NEW c \in Calls, NEW x \in Phases, x # "idle",
         phase' = [phase EXCEPT ![c] = x], UNCHANGED fetches,
         \A i \in 2 .. Len(agenda) : agenda[i].do \in {"item", "key", "finish"} => agenda[i].call # c,
         \A f \in Fetches : Running(f) => fetches[f].call # c,
         \A f : ~Turn(agenda, f) /\ ~Turn(agenda', f)
  PROVE  /\ phase'[c] = x /\ \A d \in Calls : d # c => phase'[d] = phase[d]
         /\ \A i \in 2 .. Len(agenda) : Fits(phase', agenda[i])
         /\ FetchesFit(phase', agenda', fetches')
<1>1. /\ phase \in [Calls -> Phases] /\ agenda \in Seq(Entries)
      /\ AgendaFits(phase, agenda) /\ FetchesFit(phase, agenda, fetches)
  BY DEF Shape, Types
<1>2. phase'[c] = x /\ \A d \in Calls : d # c => phase'[d] = phase[d]
  BY <1>1
<1>3. \A i \in 2 .. Len(agenda) : Fits(phase', agenda[i])
  BY <1>1, OthersFit
<1>4. \A f \in Fetches : fetches[f] # NoFetch => phase'[fetches[f].call] = phase[fetches[f].call]
  BY <1>2, FetchOfTurn DEF Running
<1>5. FetchesFit(phase', agenda', fetches)
  BY <1>1, <1>4, FetchesStay
<1> QED
  BY <1>2, <1>3, <1>5

(* OperationCallDataFree keeps Shape.                                      *)
LEMMA OperationCallDataFreeShape == Shape /\ OperationCallDataFree => Shape'
<1> SUFFICES ASSUME Shape, OperationCallDataFree PROVE Shape'
  OBVIOUS
<1>1. /\ Now("finish") /\ UNCHANGED <<fetches, rests, relayed, crashed>>
      /\ GoTo(Now1.call, "over") /\ Then(<<>>)
  BY DEF OperationCallDataFree
<1>2. /\ agenda # <<>> /\ agenda \in Seq(Entries) /\ Now1 = agenda[1] /\ agenda[1] \in Entries
      /\ agenda[1].do = "finish" /\ \A f : ~Turn(agenda, f) /\ Fits(phase, agenda[1])
      /\ Rest(agenda) = Tail(agenda) /\ phase[Outer] # "idle" /\ 1 \in 1 .. Len(agenda)
  BY <1>1, Opening DEF Asks
<1>3. PICK c \in Calls : c = agenda[1].call
  BY <1>2, EntryTypes DEF Asks
<1>4. phase[c] = "answered"
  BY <1>2, <1>3 DEF Fits
<1>5. /\ phase \in [Calls -> Phases] /\ fetches \in [Fetches -> {NoFetch} \cup FetchRecords]
      /\ AgendaFits(phase, agenda)
  BY DEF Shape, Types
<1>6. phase' = [phase EXCEPT ![c] = "over"] /\ agenda' = After(<<>>, agenda)
  BY <1>1, <1>2, <1>3 DEF GoTo, Then, After
<1>7. \A f : ~Turn(agenda', f)
  BY <1>2, <1>5, <1>6, StaysNothing, NewHead
<1>8. \A i \in 2 .. Len(agenda) : agenda[i].do \in {"item", "key", "finish"} => agenda[i].call # c
  <2>1. \A i \in 2 .. Len(agenda) : Fits(phase, agenda[i])
    BY <1>2, <1>5, Behind
  <2>2. ASSUME NEW i \in 2 .. Len(agenda), agenda[i].do = "finish", agenda[i].call = c PROVE FALSE
    <3>1. i \in 1 .. Len(agenda) /\ i # 1
      BY <1>2
    <3> QED
      BY <1>2, <1>3, <1>5, <2>2, <3>1 DEF AgendaFits, Finishes
  <2> QED
    BY <1>4, <2>1, <2>2 DEF Fits
<1>9. \A f \in Fetches : Running(f) => fetches[f].call # c
  BY <1>4, FetchOfTurn
<1>10. "over" \in Phases /\ UNCHANGED fetches
  BY <1>1 DEF Phases
<1>11. /\ phase'[c] = "over"
       /\ \A i \in 2 .. Len(agenda) : Fits(phase', agenda[i])
       /\ FetchesFit(phase', agenda', fetches')
  BY <1>2, <1>6, <1>7, <1>8, <1>9, <1>10, OverFits
<1>12. <<>> \in Seq(Entries) /\ AgendaFits(phase', After(<<>>, agenda))
  BY <1>2, <1>5, <1>11, ThenNothing
<1>13. c = Outer => \A r \in Resolves : ~BusyIn(phase, r)
  BY <1>4 DEF Shape, CallsFit
<1>14. ~BusyIn(phase', c)
  BY <1>11 DEF BusyIn
<1> QED
  BY <1>1, <1>2, <1>5, <1>6, <1>10, <1>11, <1>12, <1>13, <1>14, GoesTo

(* EndStep keeps Shape.                                                    *)
LEMMA EndStepShape == Shape /\ End => Shape'
<1> SUFFICES ASSUME Shape, End PROVE Shape'
  OBVIOUS
<1>1. Now("end") /\ UNCHANGED <<fetches, rests, relayed, crashed>>
  BY DEF End
<1>2. /\ agenda # <<>> /\ agenda \in Seq(Entries) /\ Now1 = agenda[1] /\ agenda[1] \in Entries
      /\ agenda[1].do = "end" /\ \A f : ~Turn(agenda, f) /\ Fits(phase, agenda[1])
      /\ Rest(agenda) = Tail(agenda) /\ phase[Outer] # "idle" /\ 1 \in 1 .. Len(agenda)
  BY <1>1, Opening DEF Asks
<1>3. PICK c \in Calls : c = agenda[1].call
  BY <1>2, EntryTypes DEF Asks
<1>4. phase[c] \in {"query", "sending", "items"}
  BY <1>2, <1>3 DEF Fits
<1>5. /\ phase \in [Calls -> Phases] /\ fetches \in [Fetches -> {NoFetch} \cup FetchRecords]
      /\ AgendaFits(phase, agenda) /\ EndFits(phase, agenda, fetches)
  BY DEF Shape, Types
<1>6. phase' = [phase EXCEPT ![c] = "answered"]
  BY <1>2, <1>3 DEF End, GoTo
<1>7. Then((IF c = Outer THEN <<>> ELSE <<OfCall("run", Outer)>>) \o <<OfCall("finish", c)>>)
  BY <1>2, <1>3 DEF End
<1>8. /\ \A i \in 2 .. Len(agenda) : agenda[i].do \in {"key", "item"} => agenda[i].call # c
      /\ \A f \in Fetches : Running(f) => fetches[f].call # c
      /\ c = Outer => \A r \in Resolves : ~BusyIn(phase, r)
  <2>1. \A i \in 2 .. Len(agenda) : i \in 1 .. Len(agenda)
    BY <1>2
  <2> QED
    BY <1>2, <1>3, <1>5, <2>1 DEF EndFits, Running
<1>9. \A i \in 2 .. Len(agenda) : agenda[i].do = "finish" => agenda[i].call # c
  <2>1. \A i \in 2 .. Len(agenda) : Fits(phase, agenda[i])
    BY <1>2, <1>5, Behind
  <2> QED
    BY <1>4, <2>1 DEF Fits
<1>10. "answered" \in Phases /\ UNCHANGED fetches
  BY <1>1 DEF Phases
<1> DEFINE x == OfCall("finish", c)
           y == OfCall("run", Outer)
<1>11. /\ x \in Entries /\ x.do = "finish" /\ x.call = c
       /\ y \in Entries /\ y.do = "run" /\ y.call = Outer
  BY EntriesMade DEF OfCall, CallSteps, Calls
<1>12. CASE c = Outer
  <2>1. agenda' = After(<<x>>, agenda)
    BY <1>2, <1>7, <1>12 DEF Then, After
  <2> HIDE DEF x, y
  <2>2. \A i \in 2 .. Len(agenda) : ~Finishes(x, agenda[i])
    BY <1>9, <1>11 DEF Finishes
  <2>3. <<x>> \in Seq(Entries) /\ <<x>> # <<>> /\ <<x>>[1] = x
    BY <1>11
  <2>4. \A f : ~Turn(agenda', f)
    <3>1. \A f : Turn(agenda', f) <=> Turn(<<x>>, f)
      BY <1>2, <1>5, <2>1, <2>3, NewHead
    <3> QED
      BY <1>11, <2>3, <3>1 DEF Turn, Asks
  <2>5. /\ phase'[c] = "answered"
        /\ \A i \in 2 .. Len(agenda) : Fits(phase', agenda[i])
        /\ FetchesFit(phase', agenda', fetches')
    BY <1>2, <1>6, <1>8, <1>9, <1>10, <2>4, OverFits
  <2>6. AgendaFits(phase', After(<<x>>, agenda))
    <3>1. Fits(phase', x) /\ x.do # "key" /\ x \in Entries
      BY <1>11, <2>5 DEF Fits
    <3>2. agenda \in Seq(Entries) /\ AgendaFits(phase, agenda)
      BY <1>2, <1>5
    <3> QED
      BY <2>2, <2>5, <3>1, <3>2, ThenOne
  <2>7. <<x>>[1].do # "end"
    BY <1>11, <2>3
  <2> QED
    BY <1>1, <1>2, <1>5, <1>6, <1>8, <1>10, <1>12, <2>1, <2>3, <2>5, <2>6, <2>7, GoesTo
<1>13. CASE c # Outer
  <2>1. agenda' = After(<<y, x>>, agenda)
    BY <1>2, <1>7, <1>13 DEF Then, After
  <2> HIDE DEF x, y
  <2>2. \A i \in 2 .. Len(agenda) : ~Finishes(x, agenda[i])
    BY <1>9, <1>11 DEF Finishes
  <2>3. <<y, x>> \in Seq(Entries) /\ <<y, x>> # <<>> /\ <<y, x>>[1] = y
    BY <1>11
  <2>4. \A f : ~Turn(agenda', f)
    <3>1. \A f : Turn(agenda', f) <=> Turn(<<y, x>>, f)
      BY <1>2, <1>5, <2>1, <2>3, NewHead
    <3> QED
      BY <1>11, <2>3, <3>1 DEF Turn, Asks
  <2>5. /\ phase'[c] = "answered" /\ \A d \in Calls : d # c => phase'[d] = phase[d]
        /\ \A i \in 2 .. Len(agenda) : Fits(phase', agenda[i])
        /\ FetchesFit(phase', agenda', fetches')
    BY <1>2, <1>6, <1>8, <1>9, <1>10, <2>4, OverFits
  <2>6. phase[Outer] = "items" /\ phase'[Outer] = "items"
    <3>1. c \in Resolves /\ BusyIn(phase, c) /\ Outer \in Calls
      BY <1>4, <1>13 DEF BusyIn, Calls
    <3>2. phase[Outer] = "items"
      BY <3>1 DEF Shape, CallsFit
    <3> QED
      BY <1>13, <2>5, <3>1, <3>2
  <2>7. AgendaFits(phase', After(<<y, x>>, agenda))
    <3>1. /\ Fits(phase', x) /\ x.do # "key" /\ x \in Entries /\ x.do \in Later
          /\ Fits(phase', y) /\ y.do # "key" /\ y.do # "finish" /\ y \in Entries
      BY <1>11, <2>5, <2>6 DEF Fits, Later
    <3>2. agenda \in Seq(Entries) /\ AgendaFits(phase, agenda)
      BY <1>2, <1>5
    <3> QED
      BY <2>2, <2>5, <3>1, <3>2, ThenTwo
  <2>8. <<y, x>>[1].do # "end"
    BY <1>11, <2>3
  <2>9. ~BusyIn(phase', c)
    BY <2>5 DEF BusyIn
  <2> QED
    BY <1>1, <1>2, <1>5, <1>6, <1>10, <1>13, <2>1, <2>3, <2>5, <2>7, <2>8, <2>9, GoesTo
<1> QED
  BY <1>12, <1>13

(* Begin keeps Shape.                                                      *)
LEMMA BeginShape == Shape /\ Begin => Shape'
<1> SUFFICES ASSUME Shape, Begin PROVE Shape'
  OBVIOUS
<1> DEFINE x == OfCall("call", Outer)
<1>1. /\ Waiting /\ phase[Outer] = "idle" /\ phase' = [phase EXCEPT ![Outer] = "begun"]
      /\ agenda' = <<x>> /\ UNCHANGED <<fetches, rests, relayed, crashed>>
  BY DEF Begin, GoTo
<1>2. /\ agenda = <<>> /\ agenda \in Seq(Entries) /\ \A f : ~Turn(agenda, f)
      /\ \A i \in 2 .. Len(agenda) : FALSE
  BY <1>1, WaitingOpening
<1>3. \A s \in Seq(Entries) : After(s, agenda) = s
  <2>1. Waiting
    BY <1>1
  <2> QED
    BY <2>1, WaitingOpening, Zenon
<1>4. /\ phase \in [Calls -> Phases] /\ fetches \in [Fetches -> {NoFetch} \cup FetchRecords]
      /\ AgendaFits(phase, agenda) /\ FetchesFit(phase, agenda, fetches)
      /\ \A d \in Calls : phase[d] = "idle"
      /\ \A f \in Fetches : fetches[f] = NoFetch
  BY <1>1 DEF Shape, Types, CallsFit
<1>5. Outer \in Calls /\ "begun" \in Phases /\ phase'[Outer] = "begun"
  BY <1>1, <1>4 DEF Phases, Calls
<1>6. x \in Entries /\ x.do = "call" /\ x.call = Outer
  BY <1>5, EntriesMade DEF OfCall, CallSteps
<1>7. Fits(phase', x) /\ x.do # "key" /\ x.do # "end" /\ x.do \notin Asks
  BY <1>5, <1>6 DEF Fits, Asks
<1> HIDE DEF x
<1>8. /\ \A i \in 2 .. Len(agenda) : Fits(phase', agenda[i])
      /\ \A i \in 2 .. Len(agenda) : ~Finishes(x, agenda[i])
  BY <1>2
<1>9. /\ <<x>> \in Seq(Entries) /\ <<x>> # <<>> /\ <<x>>[1] = x
      /\ AgendaFits(phase', After(<<x>>, agenda))
      /\ \A g : Turn(<<x>>, g) <=> x.do \in Asks /\ x.fetch = g
  <2>1. agenda \in Seq(Entries) /\ AgendaFits(phase, agenda) /\ x \in Entries
    BY <1>2, <1>4, <1>6
  <2> QED
    BY <1>7, <1>8, <2>1, ThenOne
<1>10. agenda' = After(<<x>>, agenda)
  <2>1. agenda' = <<x>>
    BY <1>1
  <2>2. After(<<x>>, agenda) = <<x>>
    BY <1>3, <1>9
  <2> QED
    BY <2>1, <2>2
<1>11. FetchesFit(phase', agenda', fetches')
  <2>1. \A f \in Fetches : Turn(agenda, f) <=> Turn(agenda', f)
    BY <1>1, <1>2, <1>7, <1>9
  <2>2. \A f \in Fetches : fetches[f] # NoFetch => phase'[fetches[f].call] = phase[fetches[f].call]
    BY <1>4
  <2>3. FetchesFit(phase', agenda', fetches)
    BY <1>4, <2>1, <2>2, FetchesStay
  <2> QED
    BY <1>1, <2>3
<1>12. \A r \in Resolves : ~BusyIn(phase, r)
  BY <1>4 DEF BusyIn, Calls
<1> QED
  BY <1>1, <1>4, <1>5, <1>7, <1>9, <1>10, <1>11, <1>12, GoesTo

(* What the next item puts on the agenda.                                  *)
ItemEntries(c, s, n, last) ==
    [i \in 1 .. n |-> WithRaw("key", c, s)] \o <<WithRaw("unref", c, s)>>
    \o IF last THEN <<>> ELSE <<OfCall("item", c)>>

(* An item on the agenda: its keys, its DataRef, the next item if any.     *)
LEMMA ItemEntriesAre ==
  ASSUME NEW c \in Calls, NEW s \in Raws, NEW n \in Nat, NEW last \in BOOLEAN
  PROVE  /\ ItemEntries(c, s, n, last) \in Seq(Entries)
         /\ Len(ItemEntries(c, s, n, last)) = n + IF last THEN 1 ELSE 2
         /\ \A i \in 1 .. n : ItemEntries(c, s, n, last)[i] = WithRaw("key", c, s)
         /\ ItemEntries(c, s, n, last)[n + 1] = WithRaw("unref", c, s)
         /\ ~last => ItemEntries(c, s, n, last)[n + 2] = OfCall("item", c)
<1> DEFINE keys == [i \in 1 .. n |-> WithRaw("key", c, s)]
           u == <<WithRaw("unref", c, s)>>
           z == IF last THEN <<>> ELSE <<OfCall("item", c)>>
<1>1. WithRaw("key", c, s) \in Entries /\ WithRaw("unref", c, s) \in Entries /\ OfCall("item", c) \in Entries
  BY EntriesMade DEF CallSteps
<1>2. keys \in Seq(Entries) /\ Len(keys) = n /\ \A i \in 1 .. n : keys[i] = WithRaw("key", c, s)
  BY <1>1
<1>3. u \in Seq(Entries) /\ Len(u) = 1 /\ u[1] = WithRaw("unref", c, s)
  BY <1>1
<1>4. /\ z \in Seq(Entries) /\ Len(z) = IF last THEN 0 ELSE 1
      /\ ~last => z[1] = OfCall("item", c)
  BY <1>1
<1>5. ItemEntries(c, s, n, last) = (keys \o u) \o z
  BY DEF ItemEntries
<1> HIDE DEF keys, u, z
<1>6. /\ keys \o u \in Seq(Entries) /\ Len(keys \o u) = n + 1
      /\ \A i \in 1 .. n : (keys \o u)[i] = WithRaw("key", c, s)
      /\ (keys \o u)[n + 1] = WithRaw("unref", c, s)
  <2>1. /\ keys \o u \in Seq(Entries) /\ Len(keys \o u) = Len(keys) + Len(u)
        /\ \A i \in 1 .. Len(keys) + Len(u) : (keys \o u)[i] = IF i <= Len(keys) THEN keys[i] ELSE u[i - Len(keys)]
    BY <1>2, <1>3, ConcatProperties
  <2> QED
    BY <1>2, <1>3, <2>1
<1> DEFINE ku == keys \o u
<1>7. /\ ku \o z \in Seq(Entries) /\ Len(ku \o z) = Len(ku) + Len(z)
      /\ \A i \in 1 .. Len(ku) + Len(z) : (ku \o z)[i] = IF i <= Len(ku) THEN ku[i] ELSE z[i - Len(ku)]
  BY <1>4, <1>6, ConcatProperties
<1>8. /\ ku \o z = ItemEntries(c, s, n, last) /\ Len(ku) = n + 1
      /\ \A i \in 1 .. n : ku[i] = WithRaw("key", c, s)
      /\ ku[n + 1] = WithRaw("unref", c, s)
  BY <1>5, <1>6
<1> HIDE DEF ku
<1>9. Len(ku \o z) = n + IF last THEN 1 ELSE 2
  BY <1>4, <1>7, <1>8
<1>10. ASSUME NEW i \in 1 .. n PROVE (ku \o z)[i] = WithRaw("key", c, s)
  <2>1. i \in 1 .. Len(ku) + Len(z) /\ i <= Len(ku)
    BY <1>4, <1>8
  <2> QED
    BY <1>7, <1>8, <2>1
<1>11. (ku \o z)[n + 1] = WithRaw("unref", c, s)
  <2>1. n + 1 \in 1 .. Len(ku) + Len(z) /\ n + 1 <= Len(ku)
    BY <1>4, <1>8
  <2> QED
    BY <1>7, <1>8, <2>1
<1>12. ASSUME ~last PROVE (ku \o z)[n + 2] = OfCall("item", c)
  <2>1. n + 2 \in 1 .. Len(ku) + Len(z) /\ ~(n + 2 <= Len(ku)) /\ n + 2 - Len(ku) = 1
    BY <1>4, <1>8, <1>12
  <2>2. (ku \o z)[n + 2] = z[n + 2 - Len(ku)]
    BY <1>7, <2>1
  <2> QED
    BY <1>4, <1>12, <2>1, <2>2
<1> QED
  BY <1>7, <1>8, <1>9, <1>10, <1>11, <1>12

(* NewItem keeps Shape.                                                    *)
LEMMA NewItemShape == Shape /\ NewItem => Shape'
<1> SUFFICES ASSUME Shape, NewItem PROVE Shape'
  OBVIOUS
<1>1. Now("item") /\ UNCHANGED <<phase, fetches, relayed, crashed>> /\ rests' = rests
  BY DEF NewItem
<1>2. /\ agenda # <<>> /\ agenda \in Seq(Entries) /\ Now1 = agenda[1] /\ agenda[1] \in Entries
      /\ agenda[1].do = "item" /\ \A f : ~Turn(agenda, f) /\ Fits(phase, agenda[1])
      /\ Rest(agenda) = Tail(agenda)
  BY <1>1, Opening DEF Asks
<1>3. PICK c \in Calls : c = agenda[1].call
  BY <1>2, EntryTypes DEF Asks
<1>4. PICK s \in Raws, n \in 0 .. MaxKeys, last \in BOOLEAN : Then(ItemEntries(c, s, n, last))
  BY <1>2, <1>3 DEF NewItem, ItemEntries
<1> DEFINE t == ItemEntries(c, s, n, last)
<1>5. n \in Nat
  BY BoundsAssumption
<1>6. agenda' = After(t, agenda)
  BY <1>2, <1>4 DEF Then, After
<1>7. /\ t \in Seq(Entries) /\ Len(t) = n + IF last THEN 1 ELSE 2
      /\ \A i \in 1 .. n : t[i] = WithRaw("key", c, s)
      /\ t[n + 1] = WithRaw("unref", c, s)
      /\ ~last => t[n + 2] = OfCall("item", c)
  BY <1>5, ItemEntriesAre
<1> HIDE DEF t
<1>8. phase[c] = "items"
  BY <1>2, <1>3 DEF Fits
<1>9. ASSUME NEW i \in 1 .. Len(t)
      PROVE  \/ i <= n /\ t[i] = WithRaw("key", c, s)
             \/ i = n + 1 /\ t[i] = WithRaw("unref", c, s)
             \/ i = n + 2 /\ t[i] = OfCall("item", c)
  <2>1. i \in 1 .. n \/ i = n + 1 \/ (i = n + 2 /\ ~last)
    BY <1>5, <1>7
  <2> QED
    BY <1>7, <2>1
<1>10. \A i \in 1 .. Len(t) : /\ t[i].do \in {"key", "unref", "item"}
                              /\ t[i].call = c
                              /\ t[i].do = "key" => i <= n /\ t[i].raw = s
                              /\ t[i].do # "key" => i > n
  BY <1>5, <1>9 DEF WithRaw, OfCall
<1>11. agenda \in Seq(Entries) /\ AgendaFits(phase, agenda) /\ rests' \in 0 .. MaxRests
  BY <1>1 DEF Shape, Types
<1>12. \A i \in 2 .. Len(agenda) : Fits(phase, agenda[i])
  BY <1>11, Behind
<1>13. \A i \in 1 .. Len(t) : Fits(phase, t[i])
  BY <1>8, <1>10 DEF Fits
<1>14. AgendaFits(phase, After(t, agenda))
  <2>1. \A i \in 2 .. Len(t) : t[i].do \in Later
    BY <1>7, <1>10 DEF Later
  <2>2. /\ \A i, j \in 1 .. Len(t) : Finishes(t[i], t[j]) => i = j
        /\ \A i \in 1 .. Len(t), j \in 2 .. Len(agenda) : ~Finishes(t[i], agenda[j])
    BY <1>10 DEF Finishes
  <2>3. ASSUME NEW i \in 1 .. Len(t), t[i].do = "key"
        PROVE  \E j \in i + 1 .. Len(t) : t[j] = WithRaw("unref", t[i].call, t[i].raw)
    <3>1. n + 1 \in i + 1 .. Len(t) /\ t[i].call = c /\ t[i].raw = s
      BY <1>5, <1>7, <1>10, <2>3
    <3> QED
      BY <3>1, <1>7
  <2> QED
    BY <1>7, <1>11, <1>12, <1>13, <2>1, <2>2, <2>3, AgendaStep
<1>15. t # <<>> /\ 1 \in 1 .. Len(t)
  BY <1>5, <1>7
<1>16. t[1].do \notin Asks /\ t[1].do # "end"
  BY <1>10, <1>15 DEF Asks
<1>17. \A f : Turn(t, f) <=> Turn(agenda, f)
  BY <1>2, <1>16 DEF Turn
<1> QED
  BY <1>1, <1>2, <1>6, <1>7, <1>11, <1>14, <1>16, <1>17, OnlyAgenda

(* NextKeeps keeps Shape.                                                  *)
LEMMA NextKeepsShape == Shape /\ [Next]_vars => Shape'
<1> SUFFICES ASSUME Shape, [Next]_vars PROVE Shape'
  OBVIOUS
<1>1. CASE UNCHANGED vars
  BY <1>1 DEF vars, Shape, Types
<1>2. CASE Next
  BY <1>2, BeginShape, OperationCallShape, UnrefShape, GetHereShape, GetNestedShape, GetRestShape,
     GoOnShape, CallBackShape, FreeProcessShape, NetAnswersShape, DataFetchedShape, SendResultsShape,
     RelayFiresShape, NewItemShape, KeyShape, KeyFetchedShape, RunWaitsShape, RunResolvesShape,
     RunEndsShape, EndStepShape, OperationCallDataFreeShape, CrashShape
  DEF Next
<1> QED
  BY <1>1, <1>2

-----------------------------------------------------------------------------
(* Who holds references: the process data nested in fetches, and that      *)
(* about to be freed, each with its operation, its DataRef, and whether it *)
(* reads through it.                                                       *)

Class(kind) == IF kind \in Expressions THEN "reader" ELSE "other"

Holds == [call : Calls, raw : Raws, class : {"reader", "other"}]

Hold(c, s, kind) == [call |-> c, raw |-> s, class |-> Class(kind)]

(* A process data is where it is nested.                                   *)
Nesting(F) ==
    {p \in Fetches \X (1 .. MaxDepth) :
        F[p[1]] # NoFetch /\ p[2] \in DOMAIN F[p[1]].nested /\ F[p[1]].nested[p[2]] # "rest"}

HoldAt(F, p) == Hold(F[p[1]].call, F[p[1]].raw, F[p[1]].nested[p[2]])

NestedIn(F, S) == {p \in Nesting(F) : HoldAt(F, p) \in S}

Freed(S) == {x \in Entries : x.do = "free" /\ Hold(x.call, x.raw, x.kind) \in S}

Held(F, a, S) == Cardinality(NestedIn(F, S)) + Count(a, Freed(S))

(* Who refers to a DataRef of the operations C: the readers, and the query *)
(* or item.                                                                *)
ReadersOf(C, s) == {h \in Holds : h.call \in C /\ h.raw = s /\ h.class = "reader"}

Unreffed(C, s) == {x \in Entries : x.do = "unref" /\ x.call \in C /\ x.raw = s}

Reads(F, a, C, s) == Held(F, a, ReadersOf(C, s)) + Count(a, Unreffed(C, s))

RawsIn(F, a, c) == {s \in Raws : Reads(F, a, {c}, s) > 0}

(* The process data nested in fetches are finitely many.                   *)
LEMMA HeldIsNat ==
  ASSUME NEW F, NEW a \in Seq(Entries), NEW S
  PROVE  /\ IsFiniteSet(Nesting(F)) /\ IsFiniteSet(NestedIn(F, S))
         /\ Cardinality(NestedIn(F, S)) \in Nat /\ Count(a, Freed(S)) \in Nat
         /\ Held(F, a, S) \in Nat
<1>1. MaxDepth \in Nat /\ IsFiniteSet(Fetches)
  BY BoundsAssumption, FiniteAssumption
<1>2. IsFiniteSet(Fetches \X (1 .. MaxDepth))
  <2>1. IsFiniteSet(1 .. MaxDepth)
    BY <1>1, FS_Interval
  <2> QED
    BY <1>1, <2>1, FS_Product
<1>3. IsFiniteSet(Nesting(F))
  <2>1. Nesting(F) \subseteq Fetches \X (1 .. MaxDepth)
    BY DEF Nesting
  <2> QED
    BY <1>2, <2>1, FS_Subset
<1>4. IsFiniteSet(NestedIn(F, S)) /\ Cardinality(NestedIn(F, S)) \in Nat
  <2>1. NestedIn(F, S) \subseteq Nesting(F)
    BY DEF NestedIn
  <2> QED
    BY <1>3, <2>1, FS_Subset, FS_CardinalityType
<1>5. Count(a, Freed(S)) \in Nat
  BY CountIsNat
<1> QED
  BY <1>3, <1>4, <1>5 DEF Held

(* The references to a DataRef are finitely many, and none is left when    *)
(* nobody holds one.                                                       *)
LEMMA ReadsIsNat ==
  ASSUME NEW F, NEW a \in Seq(Entries), NEW C, NEW s
  PROVE  /\ Reads(F, a, C, s) \in Nat
         /\ Reads(F, a, C, s) = 0 <=>
              /\ NestedIn(F, ReadersOf(C, s)) = {}
              /\ Occ(a, Freed(ReadersOf(C, s))) = {}
              /\ Occ(a, Unreffed(C, s)) = {}
<1>1. /\ IsFiniteSet(NestedIn(F, ReadersOf(C, s)))
      /\ Cardinality(NestedIn(F, ReadersOf(C, s))) \in Nat
      /\ Count(a, Freed(ReadersOf(C, s))) \in Nat
  BY HeldIsNat
<1>2. Count(a, Unreffed(C, s)) \in Nat /\ IsFiniteSet(Occ(a, Unreffed(C, s)))
  BY CountIsNat
<1>3. IsFiniteSet(Occ(a, Freed(ReadersOf(C, s))))
  BY CountIsNat
<1>4. /\ Cardinality(NestedIn(F, ReadersOf(C, s))) = 0 <=> NestedIn(F, ReadersOf(C, s)) = {}
      /\ Count(a, Freed(ReadersOf(C, s))) = 0 <=> Occ(a, Freed(ReadersOf(C, s))) = {}
      /\ Count(a, Unreffed(C, s)) = 0 <=> Occ(a, Unreffed(C, s)) = {}
  BY <1>1, <1>2, <1>3, FS_EmptySet DEF Count
<1> QED
  BY <1>1, <1>2, <1>4 DEF Reads, Held

(* Without a user of another operation, the users of a DataRef are those   *)
(* of the operation.                                                       *)
LEMMA ReadsOfOne ==
  ASSUME NEW F, NEW a \in Seq(Entries), NEW c \in Calls, NEW s,
         \A d \in Calls : d # c => Reads(F, a, {d}, s) = 0
  PROVE  Reads(F, a, Calls, s) = Reads(F, a, {c}, s)
<1>1. NestedIn(F, ReadersOf(Calls, s)) = NestedIn(F, ReadersOf({c}, s))
  <2>1. ASSUME NEW p \in NestedIn(F, ReadersOf(Calls, s)) PROVE p \in NestedIn(F, ReadersOf({c}, s))
    <3>1. HoldAt(F, p).call \in Calls /\ p \in NestedIn(F, ReadersOf({HoldAt(F, p).call}, s))
      BY DEF NestedIn, ReadersOf
    <3> QED
      BY <3>1, ReadsIsNat
  <2>2. NestedIn(F, ReadersOf({c}, s)) \subseteq NestedIn(F, ReadersOf(Calls, s))
    BY DEF NestedIn, ReadersOf
  <2> QED
    BY <2>1, <2>2
<1>2. Occ(a, Freed(ReadersOf(Calls, s))) = Occ(a, Freed(ReadersOf({c}, s)))
  <2>1. ASSUME NEW i \in Occ(a, Freed(ReadersOf(Calls, s))) PROVE i \in Occ(a, Freed(ReadersOf({c}, s)))
    <3> DEFINE d == Hold(a[i].call, a[i].raw, a[i].kind).call
    <3>1. d \in Calls /\ i \in Occ(a, Freed(ReadersOf({d}, s)))
      BY DEF Occ, Freed, ReadersOf
    <3> HIDE DEF d
    <3> QED
      BY <3>1, ReadsIsNat
  <2>2. Occ(a, Freed(ReadersOf({c}, s))) \subseteq Occ(a, Freed(ReadersOf(Calls, s)))
    BY DEF Occ, Freed, ReadersOf
  <2> QED
    BY <2>1, <2>2
<1>3. Occ(a, Unreffed(Calls, s)) = Occ(a, Unreffed({c}, s))
  <2>1. ASSUME NEW i \in Occ(a, Unreffed(Calls, s)) PROVE i \in Occ(a, Unreffed({c}, s))
    <3> DEFINE d == a[i].call
    <3>1. d \in Calls /\ i \in Occ(a, Unreffed({d}, s))
      BY DEF Occ, Unreffed
    <3> HIDE DEF d
    <3> QED
      BY <3>1, ReadsIsNat
  <2>2. Occ(a, Unreffed({c}, s)) \subseteq Occ(a, Unreffed(Calls, s))
    BY DEF Occ, Unreffed
  <2> QED
    BY <2>1, <2>2
<1> QED
  BY <1>1, <1>2, <1>3 DEF Reads, Held, Count

(* Nobody refers to a DataRef when no operation does.                      *)
LEMMA ReadsSplit ==
  ASSUME NEW F, NEW a \in Seq(Entries), NEW s
  PROVE  /\ Reads(F, a, Calls, s) = 0 <=> \A c \in Calls : Reads(F, a, {c}, s) = 0
<1>1. ASSUME Reads(F, a, Calls, s) = 0, NEW c \in Calls PROVE Reads(F, a, {c}, s) = 0
  <2>1. /\ NestedIn(F, ReadersOf({c}, s)) \subseteq NestedIn(F, ReadersOf(Calls, s))
        /\ Occ(a, Freed(ReadersOf({c}, s))) \subseteq Occ(a, Freed(ReadersOf(Calls, s)))
        /\ Occ(a, Unreffed({c}, s)) \subseteq Occ(a, Unreffed(Calls, s))
    BY DEF NestedIn, Occ, Freed, Unreffed, ReadersOf
  <2>2. /\ NestedIn(F, ReadersOf(Calls, s)) = {}
        /\ Occ(a, Freed(ReadersOf(Calls, s))) = {}
        /\ Occ(a, Unreffed(Calls, s)) = {}
    BY <1>1, ReadsIsNat
  <2>3. /\ NestedIn(F, ReadersOf({c}, s)) = {}
        /\ Occ(a, Freed(ReadersOf({c}, s))) = {}
        /\ Occ(a, Unreffed({c}, s)) = {}
    BY <2>1, <2>2
  <2> QED
    BY <2>3, ReadsIsNat
<1>2. ASSUME \A c \in Calls : Reads(F, a, {c}, s) = 0 PROVE Reads(F, a, Calls, s) = 0
  <2>1. Outer \in Calls
    BY DEF Calls
  <2> QED
    BY <1>2, <2>1, ReadsOfOne
<1> QED
  BY <1>1, <1>2

(* A process data or an entry of the agenda that refers to the DataRef.    *)
LEMMA ReadSomewhere ==
  ASSUME NEW F, NEW a \in Seq(Entries), NEW c \in Calls, NEW s \in Raws,
         \/ \E p \in Nesting(F) : HoldAt(F, p) = [call |-> c, raw |-> s, class |-> "reader"]
         \/ \E i \in 1 .. Len(a) : a[i] = WithRaw("unref", c, s)
  PROVE  Reads(F, a, {c}, s) > 0
<1>1. ASSUME NEW p \in Nesting(F), HoldAt(F, p) = [call |-> c, raw |-> s, class |-> "reader"]
      PROVE  Reads(F, a, {c}, s) > 0
  <2>1. p \in NestedIn(F, ReadersOf({c}, s))
    BY <1>1 DEF NestedIn, ReadersOf, Holds
  <2>2. Reads(F, a, {c}, s) \in Nat /\ Reads(F, a, {c}, s) # 0
    BY <2>1, ReadsIsNat
  <2> QED
    BY <2>2
<1>2. ASSUME NEW i \in 1 .. Len(a), a[i] = WithRaw("unref", c, s)
      PROVE  Reads(F, a, {c}, s) > 0
  <2>1. i \in DOMAIN a /\ a[i] \in Unreffed({c}, s)
    BY <1>2, LenProperties, EntriesMade DEF Unreffed, WithRaw
  <2>2. i \in Occ(a, Unreffed({c}, s))
    BY <2>1 DEF Occ
  <2>3. Reads(F, a, {c}, s) \in Nat /\ Reads(F, a, {c}, s) # 0
    BY <2>2, ReadsIsNat
  <2> QED
    BY <2>3
<1> QED
  BY <1>1, <1>2

-----------------------------------------------------------------------------
(* What a change of the fetches does to what is nested in them.            *)

(* Fetches that nest the same process data hold the same references.       *)
LEMMA SameNested ==
  ASSUME NEW F, NEW G,
         \A p \in Fetches \X (1 .. MaxDepth) :
            /\ p \in Nesting(F) <=> p \in Nesting(G)
            /\ p \in Nesting(F) => HoldAt(F, p) = HoldAt(G, p)
  PROVE  \A S : NestedIn(G, S) = NestedIn(F, S)
<1>1. Nesting(F) \subseteq Fetches \X (1 .. MaxDepth) /\ Nesting(G) \subseteq Fetches \X (1 .. MaxDepth)
  BY DEF Nesting
<1> QED
  BY <1>1 DEF NestedIn

(* One process data more holds one reference more.                         *)
LEMMA MoreNested ==
  ASSUME NEW F, NEW G, NEW q, q \notin Nesting(F), Nesting(G) = Nesting(F) \cup {q},
         \A p \in Nesting(F) : HoldAt(F, p) = HoldAt(G, p)
  PROVE  \A S : Cardinality(NestedIn(G, S)) = Cardinality(NestedIn(F, S)) + One(HoldAt(G, q) \in S)
<1> SUFFICES ASSUME NEW S
             PROVE  Cardinality(NestedIn(G, S)) = Cardinality(NestedIn(F, S)) + One(HoldAt(G, q) \in S)
  OBVIOUS
<1>1. IsFiniteSet(NestedIn(F, S)) /\ Cardinality(NestedIn(F, S)) \in Nat /\ q \notin NestedIn(F, S)
  <2>1. <<>> \in Seq(Entries)
    OBVIOUS
  <2> QED
    BY <2>1, HeldIsNat DEF NestedIn
<1>2. CASE HoldAt(G, q) \in S
  <2>1. NestedIn(G, S) = NestedIn(F, S) \cup {q}
    BY <1>2 DEF NestedIn
  <2> QED
    BY <1>1, <1>2, <2>1, FS_AddElement DEF One
<1>3. CASE HoldAt(G, q) \notin S
  <2>1. NestedIn(G, S) = NestedIn(F, S)
    BY <1>3 DEF NestedIn
  <2> QED
    BY <1>1, <1>3, <2>1 DEF One
<1> QED
  BY <1>2, <1>3

(* A fetch nothing is nested in comes or goes.                             *)
LEMMA NestsNothing ==
  ASSUME NEW F \in [Fetches -> {NoFetch} \cup FetchRecords], NEW f \in Fetches,
         F[f] = NoFetch \/ F[f].nested = <<>>,
         NEW r, r = NoFetch \/ r.nested = <<>>
  PROVE  \A S : NestedIn([F EXCEPT ![f] = r], S) = NestedIn(F, S)
<1> DEFINE G == [F EXCEPT ![f] = r]
<1>1. ASSUME NEW p \in Fetches \X (1 .. MaxDepth)
      PROVE  /\ p \in Nesting(F) <=> p \in Nesting(G)
             /\ p \in Nesting(F) => HoldAt(F, p) = HoldAt(G, p)
  <2>1. p[1] \in Fetches
    OBVIOUS
  <2>2. CASE p[1] = f
    <3>1. G[p[1]] = r /\ F[p[1]] = F[f]
      BY <2>2
    <3>2. p \notin Nesting(F) /\ p \notin Nesting(G)
      BY <3>1 DEF Nesting
    <3> QED
      BY <3>2
  <2>3. CASE p[1] # f
    <3>1. G[p[1]] = F[p[1]]
      BY <2>1, <2>3
    <3> HIDE DEF G
    <3> QED
      BY <3>1 DEF Nesting, HoldAt
  <2> QED
    BY <2>2, <2>3
<1> HIDE DEF G
<1>2. \A S : NestedIn(G, S) = NestedIn(F, S)
  BY <1>1, SameNested
<1> QED
  BY <1>2 DEF G

(* The process data nested in one fetch are others.                        *)
FetchOf(c, s, n) == [call |-> c, raw |-> s, nested |-> n]

NestedAt(F, G, f, c, s, m, n) ==
    \A p \in Fetches \X (1 .. MaxDepth) :
        /\ p[1] # f => (p \in Nesting(F) <=> p \in Nesting(G)) /\ HoldAt(F, p) = HoldAt(G, p)
        /\ p[1] = f =>
             /\ p \in Nesting(F) <=> p[2] \in 1 .. Len(m) /\ m[p[2]] # "rest"
             /\ HoldAt(F, p) = Hold(c, s, m[p[2]])
             /\ p \in Nesting(G) <=> p[2] \in 1 .. Len(n) /\ n[p[2]] # "rest"
             /\ HoldAt(G, p) = Hold(c, s, n[p[2]])

(* Fetches that differ in one only nest the same process data elsewhere.   *)
LEMMA NestsOthers ==
  ASSUME NEW F, NEW G, NEW f \in Fetches, NEW c, NEW s, NEW m \in Seq(Kinds), NEW n \in Seq(Kinds),
         F[f] = FetchOf(c, s, m), G[f] = FetchOf(c, s, n),
         \A g \in Fetches : g # f => G[g] = F[g]
  PROVE  NestedAt(F, G, f, c, s, m, n)
<1> SUFFICES ASSUME NEW p \in Fetches \X (1 .. MaxDepth)
             PROVE  /\ p[1] # f => (p \in Nesting(F) <=> p \in Nesting(G)) /\ HoldAt(F, p) = HoldAt(G, p)
                    /\ p[1] = f =>
                         /\ p \in Nesting(F) <=> p[2] \in 1 .. Len(m) /\ m[p[2]] # "rest"
                         /\ HoldAt(F, p) = Hold(c, s, m[p[2]])
                         /\ p \in Nesting(G) <=> p[2] \in 1 .. Len(n) /\ n[p[2]] # "rest"
                         /\ HoldAt(G, p) = Hold(c, s, n[p[2]])
  BY DEF NestedAt
<1>1. DOMAIN m = 1 .. Len(m) /\ DOMAIN n = 1 .. Len(n) /\ p[1] \in Fetches
  BY LenProperties
<1>2. /\ F[f].nested = m /\ F[f].call = c /\ F[f].raw = s
      /\ G[f].nested = n /\ G[f].call = c /\ G[f].raw = s
  BY DEF FetchOf
<1>3. F[f] # NoFetch /\ G[f] # NoFetch
  <2>1. \A k : FetchOf(c, s, k) # NoFetch
    BY DEF FetchOf, NoFetch
  <2> QED
    BY <2>1
<1>4. CASE p[1] # f
  <2>1. G[p[1]] = F[p[1]]
    BY <1>1, <1>4
  <2> QED
    BY <1>4, <2>1 DEF Nesting, HoldAt
<1>5. CASE p[1] = f
  <2>1. /\ p \in Nesting(F) <=> p[2] \in 1 .. Len(m) /\ m[p[2]] # "rest"
        /\ p \in Nesting(G) <=> p[2] \in 1 .. Len(n) /\ n[p[2]] # "rest"
    BY <1>1, <1>2, <1>3, <1>5 DEF Nesting
  <2>2. HoldAt(F, p) = Hold(c, s, m[p[2]]) /\ HoldAt(G, p) = Hold(c, s, n[p[2]])
    BY <1>2, <1>5 DEF HoldAt
  <2> QED
    BY <1>5, <2>1, <2>2
<1> QED
  BY <1>4, <1>5

(* Nesting one process data more in one fetch holds one reference more.    *)
LEMMA NestsOneMore ==
  ASSUME NEW A, NEW B, NEW f \in Fetches, NEW c, NEW s, NEW m \in Seq(Kinds), NEW n \in Seq(Kinds),
         A[f] = FetchOf(c, s, m), B[f] = FetchOf(c, s, n),
         \A g \in Fetches : g # f => B[g] = A[g],
         NEW kind, Len(n) = Len(m) + 1, n[Len(n)] = kind,
         \A i \in 1 .. Len(m) : n[i] = m[i], Len(n) <= MaxDepth
  PROVE  /\ kind # "rest" => \A S : Cardinality(NestedIn(B, S)) =
                                Cardinality(NestedIn(A, S)) + One(Hold(c, s, kind) \in S)
         /\ kind = "rest" => \A S : NestedIn(B, S) = NestedIn(A, S)
<1>1. /\ Len(m) \in Nat /\ Len(n) \in Nat /\ Len(n) = Len(m) + 1
      /\ Len(n) \in 1 .. Len(n) /\ Len(n) \in 1 .. MaxDepth
  BY LenProperties, BoundsAssumption
<1>2. PICK q \in Fetches \X (1 .. MaxDepth) :
         /\ q[1] = f /\ q[2] = Len(n)
         /\ \A p \in Fetches \X (1 .. MaxDepth) : p[1] = f /\ p[2] = Len(n) => p = q
  <2>1. PICK k \in 1 .. MaxDepth : k = Len(n)
    BY <1>1
  <2>2. <<f, k>> \in Fetches \X (1 .. MaxDepth) /\ <<f, k>>[1] = f /\ <<f, k>>[2] = k
    OBVIOUS
  <2>3. \A p \in Fetches \X (1 .. MaxDepth) : p = <<p[1], p[2]>>
    OBVIOUS
  <2> QED
    BY <2>1, <2>2, <2>3
<1>3. \A p \in Fetches \X (1 .. MaxDepth) :
        /\ p[1] # f => (p \in Nesting(A) <=> p \in Nesting(B)) /\ HoldAt(A, p) = HoldAt(B, p)
        /\ p[1] = f =>
             /\ p \in Nesting(A) <=> p[2] \in 1 .. Len(m) /\ m[p[2]] # "rest"
             /\ HoldAt(A, p) = Hold(c, s, m[p[2]])
             /\ p \in Nesting(B) <=> p[2] \in 1 .. Len(n) /\ n[p[2]] # "rest"
             /\ HoldAt(B, p) = Hold(c, s, n[p[2]])
  <2>1. NestedAt(A, B, f, c, s, m, n)
    BY NestsOthers
  <2> QED
    BY <2>1 DEF NestedAt
<1>4. /\ q \notin Nesting(A) /\ HoldAt(B, q) = Hold(c, s, kind)
      /\ q \in Nesting(B) <=> kind # "rest"
  <2>1. /\ q \in Nesting(A) => q[2] \in 1 .. Len(m)
        /\ q \in Nesting(B) <=> q[2] \in 1 .. Len(n) /\ n[q[2]] # "rest"
        /\ HoldAt(B, q) = Hold(c, s, n[q[2]])
    BY <1>2, <1>3
  <2> QED
    BY <1>1, <1>2, <2>1
<1>5. \A p \in Fetches \X (1 .. MaxDepth) : p # q =>
        /\ p \in Nesting(A) <=> p \in Nesting(B)
        /\ p \in Nesting(A) => HoldAt(A, p) = HoldAt(B, p)
  <2> SUFFICES ASSUME NEW p \in Fetches \X (1 .. MaxDepth), p # q
               PROVE  /\ p \in Nesting(A) <=> p \in Nesting(B)
                      /\ p \in Nesting(A) => HoldAt(A, p) = HoldAt(B, p)
    OBVIOUS
  <2>1. CASE p[1] # f
    BY <1>3, <2>1
  <2>2. CASE p[1] = f
    <3>1. p[2] # Len(n)
      BY <1>2, <2>2
    <3>2. /\ p[2] \in 1 .. Len(m) <=> p[2] \in 1 .. Len(n)
          /\ p[2] \in 1 .. Len(m) => n[p[2]] = m[p[2]]
      BY <1>1, <3>1
    <3> QED
      BY <1>3, <2>2, <3>2
  <2> QED
    BY <2>1, <2>2
<1>6. Nesting(A) \subseteq Fetches \X (1 .. MaxDepth) /\ Nesting(B) \subseteq Fetches \X (1 .. MaxDepth)
  BY DEF Nesting
<1>7. ASSUME kind # "rest"
      PROVE  \A S : Cardinality(NestedIn(B, S)) =
                Cardinality(NestedIn(A, S)) + One(Hold(c, s, kind) \in S)
  <2>1. Nesting(B) = Nesting(A) \cup {q}
    BY <1>4, <1>5, <1>6, <1>7
  <2>2. \A p \in Nesting(A) : HoldAt(A, p) = HoldAt(B, p)
    BY <1>4, <1>5, <1>6
  <2>3. \A S : Cardinality(NestedIn(B, S)) = Cardinality(NestedIn(A, S)) + One(HoldAt(B, q) \in S)
    <3>1. q \notin Nesting(A)
      BY <1>4
    <3> QED
      BY <2>1, <2>2, <3>1, MoreNested
  <2> QED
    BY <1>4, <2>3
<1>8. ASSUME kind = "rest" PROVE \A S : NestedIn(B, S) = NestedIn(A, S)
  <2>1. \A p \in Fetches \X (1 .. MaxDepth) :
            /\ p \in Nesting(A) <=> p \in Nesting(B)
            /\ p \in Nesting(A) => HoldAt(A, p) = HoldAt(B, p)
    BY <1>4, <1>5, <1>8
  <2> QED
    BY <2>1, SameNested
<1> QED
  BY <1>7, <1>8

(* A process data becomes another that is alike.                           *)
LEMMA NestsAlike ==
  ASSUME NEW A, NEW B, NEW f \in Fetches, NEW c, NEW s, NEW m \in Seq(Kinds), NEW n \in Seq(Kinds),
         A[f] = FetchOf(c, s, m), B[f] = FetchOf(c, s, n),
         \A g \in Fetches : g # f => B[g] = A[g],
         Len(n) = Len(m),
         \A i \in 1 .. Len(m) : (m[i] = "rest" <=> n[i] = "rest") /\ Class(m[i]) = Class(n[i])
  PROVE  \A S : NestedIn(B, S) = NestedIn(A, S)
<1>1. \A p \in Fetches \X (1 .. MaxDepth) :
        /\ p[1] # f => (p \in Nesting(A) <=> p \in Nesting(B)) /\ HoldAt(A, p) = HoldAt(B, p)
        /\ p[1] = f =>
             /\ p \in Nesting(A) <=> p[2] \in 1 .. Len(m) /\ m[p[2]] # "rest"
             /\ HoldAt(A, p) = Hold(c, s, m[p[2]])
             /\ p \in Nesting(B) <=> p[2] \in 1 .. Len(n) /\ n[p[2]] # "rest"
             /\ HoldAt(B, p) = Hold(c, s, n[p[2]])
  <2>1. NestedAt(A, B, f, c, s, m, n)
    BY NestsOthers
  <2> QED
    BY <2>1 DEF NestedAt
<1>2. \A i \in 1 .. Len(m) : Hold(c, s, m[i]) = Hold(c, s, n[i])
  BY DEF Hold
<1>3. \A p \in Fetches \X (1 .. MaxDepth) :
         /\ p \in Nesting(A) <=> p \in Nesting(B)
         /\ p \in Nesting(A) => HoldAt(A, p) = HoldAt(B, p)
  BY <1>1, <1>2
<1> QED
  BY <1>3, SameNested

-----------------------------------------------------------------------------
(* What a change of the agenda does to what is counted on it.              *)

(* An agenda without an entry of S counts none.                            *)
LEMMA CountNone ==
  ASSUME NEW s \in Seq(Entries), NEW S, \A i \in 1 .. Len(s) : s[i] \notin S
  PROVE  Count(s, S) = 0
<1>1. Occ(s, S) = {}
  BY LenProperties DEF Occ
<1> QED
  BY <1>1, FS_EmptySet DEF Count

(* An agenda of two entries counts each.                                   *)
LEMMA CountTwo ==
  ASSUME NEW x \in Entries, NEW y \in Entries, NEW S
  PROVE  Count(<<x, y>>, S) = One(x \in S) + One(y \in S)
<1>1. <<x, y>> \in Seq(Entries) /\ <<x, y>> # <<>> /\ <<x, y>>[1] = x /\ Tail(<<x, y>>) = <<y>>
  OBVIOUS
<1>2. Count(<<y>>, S) = Count(<<x, y>>, S) - One(x \in S)
  BY <1>1, CountTail
<1>3. Count(<<y>>, S) = One(y \in S) /\ Count(<<x, y>>, S) \in Nat
  BY <1>1, CountOne, CountIsNat
<1> QED
  BY <1>2, <1>3 DEF One

(* What replacing the first entry does to the count.                       *)
LEMMA CountAfter ==
  ASSUME NEW a \in Seq(Entries), NEW s \in Seq(Entries), NEW S
  PROVE  /\ Count(s, S) \in Nat /\ Count(a, S) \in Nat /\ Count(After(s, a), S) \in Nat
         /\ a = <<>> => Count(a, S) = 0 /\ Count(After(s, a), S) = Count(s, S)
         /\ a # <<>> => Count(After(s, a), S) + One(a[1] \in S) = Count(s, S) + Count(a, S)
<1>1. Rest(a) \in Seq(Entries) /\ After(s, a) \in Seq(Entries)
  BY RestIs
<1>2. Count(s, S) \in Nat /\ Count(a, S) \in Nat /\ Count(After(s, a), S) \in Nat /\ Count(Rest(a), S) \in Nat
  BY <1>1, CountIsNat
<1>3. Count(After(s, a), S) = Count(s, S) + Count(Rest(a), S)
  BY <1>1, CountConcat DEF After
<1>4. ASSUME a = <<>> PROVE Count(a, S) = 0 /\ Count(Rest(a), S) = 0
  BY <1>4, CountEmpty DEF Rest
<1>5. ASSUME a # <<>> PROVE Count(Rest(a), S) + One(a[1] \in S) = Count(a, S)
  <2>1. Count(Tail(a), S) = Count(a, S) - One(a[1] \in S) /\ Rest(a) = Tail(a)
    BY <1>5, CountTail DEF Rest
  <2> QED
    BY <1>2, <2>1 DEF One
<1> QED
  BY <1>2, <1>3, <1>4, <1>5 DEF One

(* Steps that leave the holders and the other users of DataRefs alone, or  *)
(* add one, or take one away.                                              *)
SameHeld == \A S : Held(fetches', agenda', S) = Held(fetches, agenda, S)
MoreHeld(h) == \A S : Held(fetches', agenda', S) = Held(fetches, agenda, S) + One(h \in S)
FewerHeld(h) == \A S : Held(fetches', agenda', S) + One(h \in S) = Held(fetches, agenda, S)

SameUnreffed ==
    \A C, s : Count(agenda', Unreffed(C, s)) = Count(agenda, Unreffed(C, s))
MoreUnreffed(c, t) ==
    \A C, s : Count(agenda', Unreffed(C, s)) = Count(agenda, Unreffed(C, s)) + One(c \in C /\ t = s)
FewerUnreffed(c, t) ==
    \A C, s : Count(agenda', Unreffed(C, s)) + One(c \in C /\ t = s) = Count(agenda, Unreffed(C, s))

SameNestedIn == \A S : Cardinality(NestedIn(fetches', S)) = Cardinality(NestedIn(fetches, S))

Plain(s) == \A i \in 1 .. Len(s) : s[i].do # "free" /\ s[i].do # "unref"

(* A plain agenda frees nothing and drops no reference.                    *)
LEMMA PlainCounts ==
  ASSUME NEW s \in Seq(Entries), Plain(s)
  PROVE  /\ \A S : Count(s, Freed(S)) = 0
         /\ \A C, t : Count(s, Unreffed(C, t)) = 0
<1>1. ASSUME NEW S PROVE Count(s, Freed(S)) = 0
  <2>1. \A i \in 1 .. Len(s) : s[i] \notin Freed(S)
    BY DEF Plain, Freed
  <2> QED
    BY <2>1, CountNone
<1>2. ASSUME NEW C, NEW t PROVE Count(s, Unreffed(C, t)) = 0
  <2>1. \A i \in 1 .. Len(s) : s[i] \notin Unreffed(C, t)
    BY DEF Plain, Unreffed
  <2> QED
    BY <2>1, CountNone
<1> QED
  BY <1>1, <1>2

(* Plain functions take the place of the current one.                      *)
LEMMA PlainAgenda ==
  ASSUME NEW a \in Seq(Entries), NEW s \in Seq(Entries), Plain(s),
         a # <<>> => a[1].do # "free" /\ a[1].do # "unref"
  PROVE  /\ \A S : Count(After(s, a), Freed(S)) = Count(a, Freed(S))
         /\ \A C, t : Count(After(s, a), Unreffed(C, t)) = Count(a, Unreffed(C, t))
<1>1. ASSUME NEW S PROVE Count(After(s, a), Freed(S)) = Count(a, Freed(S))
  <2>1. Count(s, Freed(S)) = 0
    BY PlainCounts
  <2>2. a # <<>> => One(a[1] \in Freed(S)) = 0
    BY DEF Freed, One
  <2>3. /\ Count(a, Freed(S)) \in Nat /\ Count(After(s, a), Freed(S)) \in Nat
        /\ a = <<>> => Count(a, Freed(S)) = 0 /\ Count(After(s, a), Freed(S)) = Count(s, Freed(S))
        /\ a # <<>> => Count(After(s, a), Freed(S)) + One(a[1] \in Freed(S)) = Count(s, Freed(S)) + Count(a, Freed(S))
    BY CountAfter
  <2> QED
    BY <2>1, <2>2, <2>3
<1>2. ASSUME NEW C, NEW t PROVE Count(After(s, a), Unreffed(C, t)) = Count(a, Unreffed(C, t))
  <2> DEFINE U == Unreffed(C, t)
  <2>1. Count(s, U) = 0
    BY PlainCounts
  <2>2. a # <<>> => One(a[1] \in U) = 0
    BY DEF Unreffed, One
  <2> HIDE DEF U
  <2>3. /\ Count(a, U) \in Nat /\ Count(After(s, a), U) \in Nat
        /\ a = <<>> => Count(a, U) = 0 /\ Count(After(s, a), U) = Count(s, U)
        /\ a # <<>> => Count(After(s, a), U) + One(a[1] \in U) = Count(s, U) + Count(a, U)
    BY CountAfter
  <2>4. Count(After(s, a), U) = Count(a, U)
    BY <2>1, <2>2, <2>3
  <2> QED
    BY <2>4 DEF U
<1> QED
  BY <1>1, <1>2

(* A step that neither frees nor drops a reference leaves who holds one to *)
(* the fetches.                                                            *)
LEMMA PlainSteady ==
  ASSUME Shape, NEW s \in Seq(Entries), agenda' = After(s, agenda), Plain(s),
         agenda # <<>> => agenda[1].do # "free" /\ agenda[1].do # "unref"
  PROVE  /\ SameUnreffed
         /\ SameNestedIn => SameHeld
         /\ \A h : (\A S : Cardinality(NestedIn(fetches', S)) = Cardinality(NestedIn(fetches, S)) + One(h \in S))
                   => MoreHeld(h)
<1>1. agenda \in Seq(Entries)
  BY DEF Shape, Types
<1>2. /\ \A S : Count(agenda', Freed(S)) = Count(agenda, Freed(S))
      /\ SameUnreffed
  BY <1>1, PlainAgenda DEF SameUnreffed
<1>3. \A S : Cardinality(NestedIn(fetches, S)) \in Nat /\ Count(agenda, Freed(S)) \in Nat /\ \A h : One(h \in S) \in Nat
  BY <1>1, HeldIsNat DEF One
<1> QED
  BY <1>2, <1>3 DEF SameNestedIn, SameHeld, MoreHeld, Held

-----------------------------------------------------------------------------
(* The books: the references, and who holds them.                          *)

RefRecords == [cancellable : Nat, source : Int, expand : [Calls -> Int], raw : [Raws -> Int]]

OfOne(c) == {h \in Holds : h.call = c}

Overs(p) == {r \in Resolves : p[r] = "over"}

HeldNow(S) == Held(fetches, agenda, S)
ReadsNow(C, s) == Reads(fetches, agenda, C, s)
RawsNow(c) == RawsIn(fetches, agenda, c)

Exact ==
    /\ refs \in RefRecords
    /\ \A c \in Calls : refs.expand[c] = One(Going(c)) + HeldNow(OfOne(c)) + Cardinality(RawsNow(c))
    /\ \A s \in Raws : refs.raw[s] = ReadsNow(Calls, s)
    /\ refs.source = 1 + HeldNow(Holds) + rests
    /\ refs.cancellable + Cardinality(Overs(phase)) = One(Going(Outer)) + HeldNow(Holds)

(* A DataRef holds the ExpandData of one operation.                        *)
Owned ==
    \A s \in Raws, c, d \in Calls : ReadsNow({c}, s) > 0 /\ ReadsNow({d}, s) > 0 => c = d

(* The DataRef that is fetched with is referred to.                        *)
GetFits ==
    agenda # <<>> /\ agenda[1].do = "get" =>
        \A f \in Fetches : agenda[1].fetch = f => ReadsNow({fetches[f].call}, fetches[f].raw) > 0

Books == Exact /\ Owned /\ GetFits

SameReads == \A C, s : ReadsNow(C, s)' = ReadsNow(C, s)
MoreReads(c, t) == \A C, s : ReadsNow(C, s)' = ReadsNow(C, s) + One(c \in C /\ t = s)
FewerReads(c, t) == \A C, s : ReadsNow(C, s)' + One(c \in C /\ t = s) = ReadsNow(C, s)

SameRaws == Owned' /\ \A d \in Calls : RawsNow(d)' = RawsNow(d)

(* All the counts of a state are natural numbers.                          *)
LEMMA NowIsNat ==
  ASSUME Shape
  PROVE  /\ \A S : HeldNow(S) \in Nat
         /\ \A C, s : ReadsNow(C, s) \in Nat
         /\ \A c : IsFiniteSet(RawsNow(c)) /\ Cardinality(RawsNow(c)) \in Nat
         /\ \A S : Count(agenda, S) \in Nat
<1>1. agenda \in Seq(Entries)
  BY DEF Shape, Types
<1>2. ASSUME NEW c PROVE IsFiniteSet(RawsNow(c)) /\ Cardinality(RawsNow(c)) \in Nat
  <2>1. RawsNow(c) \in SUBSET Raws /\ IsFiniteSet(Raws)
    BY FiniteAssumption DEF RawsNow, RawsIn
  <2> QED
    BY <2>1, FS_Subset, FS_CardinalityType
<1>3. \A S : Count(agenda, S) \in Nat
  BY <1>1, CountIsNat
<1>4. \A S : HeldNow(S) \in Nat
  BY <1>1, HeldIsNat DEF HeldNow
<1>5. \A C, s : ReadsNow(C, s) \in Nat
  BY <1>1, ReadsIsNat DEF ReadsNow
<1> QED
  BY <1>2, <1>3, <1>4, <1>5

(* Among which holders a process data is.                                  *)
LEMMA HoldIn ==
  ASSUME NEW c \in Calls, NEW s \in Raws, NEW kind
  PROVE  /\ Hold(c, s, kind) \in Holds
         /\ \A d : Hold(c, s, kind) \in OfOne(d) <=> c = d
         /\ kind \in Expressions =>
              \A C, t : Hold(c, s, kind) \in ReadersOf(C, t) <=> c \in C /\ s = t
         /\ kind \notin Expressions => \A C, t : Hold(c, s, kind) \notin ReadersOf(C, t)
BY DEF Hold, Holds, OfOne, ReadersOf, Class

(* What users come and go does to the DataRefs in use.                     *)
LEMMA RawsStay ==
  ASSUME Owned, SameReads
  PROVE  SameRaws
<1>1. \A d \in Calls : RawsNow(d)' = RawsNow(d)
  BY DEF SameReads, RawsNow, RawsIn, ReadsNow
<1>2. Owned'
  BY DEF SameReads, Owned
<1> QED
  BY <1>1, <1>2 DEF SameRaws

(* A DataRef that is referred to gets one more reference: no other DataRef *)
(* is used.                                                                *)
LEMMA OneMoreUser ==
  ASSUME Shape, Owned, NEW c \in Calls, NEW t \in Raws, ReadsNow({c}, t) > 0, MoreReads(c, t)
  PROVE  SameRaws
<1>1. ASSUME NEW d \in Calls, NEW s \in Raws
      PROVE  ReadsNow({d}, s)' > 0 <=> ReadsNow({d}, s) > 0
  <2>1. ReadsNow({d}, s)' = ReadsNow({d}, s) + One(c \in {d} /\ t = s) /\ ReadsNow({d}, s) \in Nat
    BY NowIsNat DEF MoreReads
  <2>2. CASE c = d /\ t = s
    BY <2>1, <2>2 DEF One
  <2>3. CASE ~(c = d /\ t = s)
    BY <2>1, <2>3 DEF One
  <2> QED
    BY <2>2, <2>3
<1>2. \A d \in Calls : RawsNow(d)' = RawsNow(d)
  BY <1>1 DEF RawsNow, RawsIn, ReadsNow
<1>3. Owned'
  BY <1>1 DEF Owned
<1> QED
  BY <1>2, <1>3 DEF SameRaws

(* The first reference to a DataRef is of one operation, which then uses   *)
(* one DataRef more.                                                       *)
LEMMA FirstUser ==
  ASSUME Shape, Owned, NEW c \in Calls, NEW t \in Raws, ReadsNow(Calls, t) = 0, MoreReads(c, t)
  PROVE  /\ Owned' /\ ReadsNow({c}, t)' > 0
         /\ \A d \in Calls : Cardinality(RawsNow(d)') = Cardinality(RawsNow(d)) + One(c = d)
<1>1. \A d \in Calls : ReadsNow({d}, t) = 0
  BY ReadsSplit DEF ReadsNow, Shape, Types
<1>2. ASSUME NEW d \in Calls, NEW s \in Raws
      PROVE  ReadsNow({d}, s)' > 0 <=> ReadsNow({d}, s) > 0 \/ (c = d /\ t = s)
  <2>1. ReadsNow({d}, s)' = ReadsNow({d}, s) + One(c \in {d} /\ t = s) /\ ReadsNow({d}, s) \in Nat
    BY NowIsNat DEF MoreReads
  <2>2. CASE c = d /\ t = s
    BY <2>1, <2>2 DEF One
  <2>3. CASE ~(c = d /\ t = s)
    BY <2>1, <2>3 DEF One
  <2> QED
    BY <2>2, <2>3
<1>3. Owned'
  BY <1>1, <1>2 DEF Owned
<1>4. ASSUME NEW d \in Calls
      PROVE  Cardinality(RawsNow(d)') = Cardinality(RawsNow(d)) + One(c = d)
  <2>1. IsFiniteSet(RawsNow(d)) /\ Cardinality(RawsNow(d)) \in Nat
    BY NowIsNat
  <2>2. CASE c = d
    <3>1. t \notin RawsNow(d) /\ RawsNow(d)' = RawsNow(d) \cup {t}
      BY <1>1, <1>2, <2>2 DEF RawsNow, RawsIn, ReadsNow
    <3> QED
      BY <2>1, <2>2, <3>1, FS_AddElement DEF One
  <2>3. CASE c # d
    <3>1. RawsNow(d)' = RawsNow(d)
      BY <1>2, <2>3 DEF RawsNow, RawsIn, ReadsNow
    <3> QED
      BY <2>1, <2>3, <3>1 DEF One
  <2> QED
    BY <2>2, <2>3
<1> QED
  BY <1>2, <1>3, <1>4

(* One reference less: the operation uses the DataRef no longer if it was  *)
(* the last.                                                               *)
LEMMA OneUserLess ==
  ASSUME Shape, Shape', Owned, NEW c \in Calls, NEW t \in Raws, FewerReads(c, t)
  PROVE  /\ Owned'
         /\ \A d \in Calls : Cardinality(RawsNow(d)') =
                Cardinality(RawsNow(d)) - One(c = d /\ ReadsNow(Calls, t) = 1)
<1>1. /\ \A C, s : ReadsNow(C, s)' + One(c \in C /\ t = s) = ReadsNow(C, s)
      /\ \A C, s : ReadsNow(C, s) \in Nat
      /\ \A C, s : ReadsNow(C, s)' \in Nat
  <2>1. \A C, s : ReadsNow(C, s)' \in Nat
    BY ReadsIsNat DEF ReadsNow, Shape, Types
  <2> QED
    BY <2>1, NowIsNat DEF FewerReads
<1>2. ReadsNow({c}, t) > 0
  <2>1. ReadsNow({c}, t)' + One(c \in {c} /\ t = t) = ReadsNow({c}, t)
    BY <1>1
  <2> QED
    BY <1>1, <2>1 DEF One
<1>3. ASSUME NEW d \in Calls, d # c PROVE ReadsNow({d}, t) = 0
  <2>1. ReadsNow({d}, t) \in Nat
    BY <1>1
  <2>2. ~(ReadsNow({d}, t) > 0)
    BY <1>2, <1>3 DEF Owned
  <2> QED
    BY <2>1, <2>2
<1>4. ReadsNow(Calls, t) = ReadsNow({c}, t)
  <2>1. agenda \in Seq(Entries)
    BY DEF Shape, Types
  <2>2. \A d \in Calls : d # c => Reads(fetches, agenda, {d}, t) = 0
    BY <1>3 DEF ReadsNow
  <2>3. Reads(fetches, agenda, Calls, t) = Reads(fetches, agenda, {c}, t)
    BY <2>1, <2>2, ReadsOfOne
  <2> QED
    BY <2>3 DEF ReadsNow
<1>5. ASSUME NEW d \in Calls, NEW s \in Raws
      PROVE  ReadsNow({d}, s)' > 0 <=> ReadsNow({d}, s) > 0 /\ ~(c = d /\ t = s /\ ReadsNow(Calls, t) = 1)
  <2>1. /\ ReadsNow({d}, s)' + One(c \in {d} /\ t = s) = ReadsNow({d}, s)
        /\ ReadsNow({d}, s)' \in Nat /\ ReadsNow({d}, s) \in Nat
    BY <1>1
  <2>2. CASE c = d /\ t = s
    BY <1>4, <2>1, <2>2 DEF One
  <2>3. CASE ~(c = d /\ t = s)
    BY <2>1, <2>3 DEF One
  <2> QED
    BY <2>2, <2>3
<1>6. Owned'
  BY <1>5 DEF Owned
<1>7. ASSUME NEW d \in Calls
      PROVE  Cardinality(RawsNow(d)') = Cardinality(RawsNow(d)) - One(c = d /\ ReadsNow(Calls, t) = 1)
  <2>1. IsFiniteSet(RawsNow(d)) /\ Cardinality(RawsNow(d)) \in Nat
    BY NowIsNat
  <2>2. CASE c = d /\ ReadsNow(Calls, t) = 1
    <3>1. t \in RawsNow(d) /\ RawsNow(d)' = RawsNow(d) \ {t}
      BY <1>2, <1>5, <2>2 DEF RawsNow, RawsIn, ReadsNow
    <3> QED
      BY <2>1, <2>2, <3>1, FS_RemoveElement DEF One
  <2>3. CASE ~(c = d /\ ReadsNow(Calls, t) = 1)
    <3>1. RawsNow(d)' = RawsNow(d)
      BY <1>5, <2>3 DEF RawsNow, RawsIn, ReadsNow
    <3> QED
      BY <2>1, <2>3, <3>1 DEF One
  <2> QED
    BY <2>2, <2>3
<1> QED
  BY <1>6, <1>7

(* The references to a DataRef follow the process data held and the items  *)
(* left.                                                                   *)
LEMMA ReadsChange ==
  ASSUME Shape, Shape'
  PROVE  /\ SameHeld /\ SameUnreffed => SameReads
         /\ \A c \in Calls, t \in Raws :
              /\ SameHeld /\ MoreUnreffed(c, t) => MoreReads(c, t)
              /\ SameHeld /\ FewerUnreffed(c, t) => FewerReads(c, t)
         /\ \A c \in Calls, t \in Raws, kind \in Expressions :
              /\ MoreHeld(Hold(c, t, kind)) /\ SameUnreffed => MoreReads(c, t)
              /\ FewerHeld(Hold(c, t, kind)) /\ SameUnreffed => FewerReads(c, t)
         /\ \A c \in Calls, t \in Raws : \A kind : kind \notin Expressions =>
              /\ MoreHeld(Hold(c, t, kind)) /\ SameUnreffed => SameReads
              /\ FewerHeld(Hold(c, t, kind)) /\ SameUnreffed => SameReads
<1> DEFINE H(C, s) == Held(fetches, agenda, ReadersOf(C, s))
           I(C, s) == Held(fetches', agenda', ReadersOf(C, s))
           U(C, s) == Count(agenda, Unreffed(C, s))
           V(C, s) == Count(agenda', Unreffed(C, s))
<1>1. /\ \A C, s : ReadsNow(C, s) = H(C, s) + U(C, s)
      /\ \A C, s : ReadsNow(C, s)' = I(C, s) + V(C, s)
  BY DEF ReadsNow, Reads
<1>2. /\ SameHeld => \A C, s : I(C, s) = H(C, s)
      /\ \A h : MoreHeld(h) => \A C, s : I(C, s) = H(C, s) + One(h \in ReadersOf(C, s))
      /\ \A h : FewerHeld(h) => \A C, s : I(C, s) + One(h \in ReadersOf(C, s)) = H(C, s)
  BY DEF SameHeld, MoreHeld, FewerHeld
<1>3. /\ SameUnreffed => \A C, s : V(C, s) = U(C, s)
      /\ \A c, t : MoreUnreffed(c, t) => \A C, s : V(C, s) = U(C, s) + One(c \in C /\ t = s)
      /\ \A c, t : FewerUnreffed(c, t) => \A C, s : V(C, s) + One(c \in C /\ t = s) = U(C, s)
  BY DEF SameUnreffed, MoreUnreffed, FewerUnreffed
<1>4. \A C, s : H(C, s) \in Nat /\ U(C, s) \in Nat /\ I(C, s) \in Nat /\ V(C, s) \in Nat
  <2>1. agenda \in Seq(Entries) /\ agenda' \in Seq(Entries)
    BY DEF Shape, Types
  <2> QED
    BY <2>1, HeldIsNat, CountIsNat
<1> HIDE DEF H, I, U, V
<1>5. ASSUME SameHeld, SameUnreffed PROVE SameReads
  <2>1. \A C, s : I(C, s) = H(C, s) /\ V(C, s) = U(C, s)
    BY <1>2, <1>3, <1>5
  <2> QED
    BY <1>1, <2>1 DEF SameReads
<1>6. ASSUME NEW c \in Calls, NEW t \in Raws
      PROVE  /\ SameHeld /\ MoreUnreffed(c, t) => MoreReads(c, t)
             /\ SameHeld /\ FewerUnreffed(c, t) => FewerReads(c, t)
  <2>1. \A C, s : One(c \in C /\ t = s) \in Nat
    BY DEF One
  <2>2. ASSUME SameHeld, MoreUnreffed(c, t) PROVE MoreReads(c, t)
    <3>1. \A C, s : I(C, s) = H(C, s) /\ V(C, s) = U(C, s) + One(c \in C /\ t = s)
      BY <1>2, <1>3, <2>2
    <3> QED
      BY <1>1, <1>4, <2>1, <3>1 DEF MoreReads
  <2>3. ASSUME SameHeld, FewerUnreffed(c, t) PROVE FewerReads(c, t)
    <3>1. \A C, s : I(C, s) = H(C, s) /\ V(C, s) + One(c \in C /\ t = s) = U(C, s)
      BY <1>2, <1>3, <2>3
    <3> QED
      BY <1>1, <1>4, <2>1, <3>1 DEF FewerReads
  <2> QED
    BY <2>2, <2>3
<1>7. ASSUME NEW c \in Calls, NEW t \in Raws, NEW kind \in Expressions
      PROVE  /\ MoreHeld(Hold(c, t, kind)) /\ SameUnreffed => MoreReads(c, t)
             /\ FewerHeld(Hold(c, t, kind)) /\ SameUnreffed => FewerReads(c, t)
  <2> DEFINE h == Hold(c, t, kind)
  <2>1. \A C, s : h \in ReadersOf(C, s) <=> c \in C /\ t = s
    BY HoldIn
  <2> HIDE DEF h
  <2>2. \A C, s : One(h \in ReadersOf(C, s)) = One(c \in C /\ t = s)
    BY <2>1 DEF One
  <2>5. \A C, s : One(c \in C /\ t = s) \in Nat
    BY DEF One
  <2>3. ASSUME MoreHeld(h), SameUnreffed PROVE MoreReads(c, t)
    <3>1. \A C, s : I(C, s) = H(C, s) + One(c \in C /\ t = s) /\ V(C, s) = U(C, s)
      BY <1>2, <1>3, <2>2, <2>3
    <3> SUFFICES ASSUME NEW C, NEW s
                 PROVE  ReadsNow(C, s)' = ReadsNow(C, s) + One(c \in C /\ t = s)
      BY DEF MoreReads
    <3>2. PICK n \in Nat : n = One(c \in C /\ t = s)
      BY <2>5
    <3>3. I(C, s) = H(C, s) + n /\ V(C, s) = U(C, s)
      BY <3>1, <3>2
    <3>4. ReadsNow(C, s)' = ReadsNow(C, s) + n
      BY <1>1, <1>4, <3>3
    <3> QED
      BY <3>2, <3>4
  <2>4. ASSUME FewerHeld(h), SameUnreffed PROVE FewerReads(c, t)
    <3>1. \A C, s : I(C, s) + One(c \in C /\ t = s) = H(C, s) /\ V(C, s) = U(C, s)
      BY <1>2, <1>3, <2>2, <2>4
    <3> SUFFICES ASSUME NEW C, NEW s
                 PROVE  ReadsNow(C, s)' + One(c \in C /\ t = s) = ReadsNow(C, s)
      BY DEF FewerReads
    <3>2. PICK n \in Nat : n = One(c \in C /\ t = s)
      BY <2>5
    <3>3. I(C, s) + n = H(C, s) /\ V(C, s) = U(C, s)
      BY <3>1, <3>2
    <3>4. ReadsNow(C, s)' + n = ReadsNow(C, s)
      BY <1>1, <1>4, <3>3
    <3> QED
      BY <3>2, <3>4
  <2> QED
    BY <2>3, <2>4 DEF h
<1>8. ASSUME NEW c \in Calls, NEW t \in Raws, NEW kind, kind \notin Expressions
      PROVE  /\ MoreHeld(Hold(c, t, kind)) /\ SameUnreffed => SameReads
             /\ FewerHeld(Hold(c, t, kind)) /\ SameUnreffed => SameReads
  <2> DEFINE h == Hold(c, t, kind)
  <2>1. \A C, s : h \notin ReadersOf(C, s)
    BY <1>8, HoldIn
  <2> HIDE DEF h
  <2>2. \A C, s : One(h \in ReadersOf(C, s)) = 0
    BY <2>1 DEF One
  <2>3. ASSUME MoreHeld(h), SameUnreffed PROVE SameReads
    <3>1. \A C, s : I(C, s) = H(C, s) + 0 /\ V(C, s) = U(C, s)
      BY <1>2, <1>3, <2>2, <2>3
    <3> QED
      BY <1>1, <1>4, <3>1 DEF SameReads
  <2>4. ASSUME FewerHeld(h), SameUnreffed PROVE SameReads
    <3>1. \A C, s : I(C, s) + 0 = H(C, s) /\ V(C, s) = U(C, s)
      BY <1>2, <1>3, <2>2, <2>4
    <3> QED
      BY <1>1, <1>4, <3>1 DEF SameReads
  <2> QED
    BY <2>3, <2>4 DEF h
<1> QED
  BY <1>5, <1>6, <1>7, <1>8

(* What the phase contributes stays.                                       *)
PhaseSteady ==
    Overs(phase') = Overs(phase) /\ \A c \in Calls : One(Going(c))' = One(Going(c))

(* Steps of a running operation that neither begin nor end it keep who is  *)
(* running.                                                                *)
LEMMA PhaseSteadies ==
  ASSUME Shape
  PROVE  /\ UNCHANGED phase => PhaseSteady
         /\ \A c \in Calls, x \in Phases :
              /\ phase[c] \notin {"idle", "over"} /\ x \notin {"idle", "over"}
              /\ phase' = [phase EXCEPT ![c] = x]
              => PhaseSteady
<1>1. ASSUME UNCHANGED phase PROVE PhaseSteady
  BY <1>1 DEF PhaseSteady, Overs, One, Going
<1>2. ASSUME NEW c \in Calls, NEW x \in Phases, phase[c] \notin {"idle", "over"}, x \notin {"idle", "over"},
             phase' = [phase EXCEPT ![c] = x]
      PROVE  PhaseSteady
  <2>1. phase \in [Calls -> Phases]
    BY DEF Shape, Types
  <2>2. phase'[c] = x /\ \A d \in Calls : d # c => phase'[d] = phase[d]
    BY <1>2, <2>1
  <2>3. Overs(phase') = Overs(phase)
    BY <1>2, <2>2 DEF Overs, Calls
  <2>4. ASSUME NEW d \in Calls PROVE One(Going(d))' = One(Going(d))
    BY <1>2, <2>2 DEF One, Going
  <2> QED
    BY <2>3, <2>4 DEF PhaseSteady
<1> QED
  BY <1>1, <1>2

-----------------------------------------------------------------------------
(* The books stay in order when nothing of them changes, ...               *)
LEMMA ExactStays ==
  ASSUME Shape, Shape', Exact, Owned, SameHeld, SameUnreffed, PhaseSteady, UNCHANGED <<refs, rests>>
  PROVE  Exact' /\ SameReads /\ SameRaws
<1>1. SameReads /\ SameRaws
  BY ReadsChange, RawsStay
<1>2. /\ \A S : HeldNow(S)' = HeldNow(S)
      /\ \A C, s : ReadsNow(C, s)' = ReadsNow(C, s)
      /\ \A d \in Calls : RawsNow(d)' = RawsNow(d)
      /\ \A d \in Calls : One(Going(d))' = One(Going(d))
      /\ Overs(phase') = Overs(phase) /\ refs' = refs /\ rests' = rests
  BY <1>1 DEF SameHeld, HeldNow, SameReads, SameRaws, PhaseSteady
<1>3. Outer \in Calls
  BY DEF Calls
<1> QED
  BY <1>1, <1>2, <1>3 DEF Exact

(* ... a process data takes its references, ...                            *)
LEMMA ExactTake ==
  ASSUME Shape, Shape', Exact, Owned, PhaseSteady, rests' = rests,
         NEW c \in Calls, NEW s \in Raws, NEW kind, refs' = Taken(kind, c, s),
         MoreHeld(Hold(c, s, kind)), SameUnreffed, ReadsNow({c}, s) > 0
  PROVE  Exact' /\ SameRaws /\ ReadsNow({c}, s)' > 0
<1> DEFINE h == Hold(c, s, kind)
           k == One(kind \in Expressions)
<1>1. \A S : HeldNow(S)' = HeldNow(S) + One(h \in S)
  BY DEF MoreHeld, HeldNow
<1>2. h \in Holds /\ \A d : h \in OfOne(d) <=> c = d
  BY HoldIn
<1>3. SameRaws /\ \A C, t : ReadsNow(C, t)' = ReadsNow(C, t) + One(c \in C /\ s = t /\ kind \in Expressions)
  <2>1. CASE kind \in Expressions
    <3>1. MoreReads(c, s)
      BY <2>1, ReadsChange
    <3>2. SameRaws
      BY <3>1, OneMoreUser
    <3>3. \A C, t : ReadsNow(C, t)' = ReadsNow(C, t) + One(c \in C /\ s = t)
      BY <3>1 DEF MoreReads
    <3> QED
      BY <2>1, <3>2, <3>3 DEF One
  <2>2. CASE kind \notin Expressions
    <3>1. SameReads
      BY <2>2, ReadsChange
    <3>2. SameRaws
      BY <3>1, RawsStay
    <3>3. \A C, t : ReadsNow(C, t) \in Nat /\ ReadsNow(C, t)' = ReadsNow(C, t)
      BY <3>1, NowIsNat DEF SameReads
    <3> QED
      BY <2>2, <3>2, <3>3 DEF One
  <2> QED
    BY <2>1, <2>2
<1> HIDE DEF h
<1>4. /\ \A S : HeldNow(S) \in Nat
      /\ \A d : Cardinality(RawsNow(d)) \in Nat
      /\ \A C, t : ReadsNow(C, t) \in Nat
  BY NowIsNat
<1>5. /\ refs \in RefRecords
      /\ refs'.source = refs.source + 1 /\ refs'.cancellable = refs.cancellable + 1
      /\ \A d \in Calls : refs'.expand[d] = refs.expand[d] + One(c = d)
      /\ \A t \in Raws : refs'.raw[t] = refs.raw[t] + One(s = t /\ kind \in Expressions)
      /\ refs' \in RefRecords
  <2>1. refs \in RefRecords
    BY DEF Exact
  <2>2. refs' = [cancellable |-> refs.cancellable + 1, source |-> refs.source + 1,
                 expand |-> [refs.expand EXCEPT ![c] = @ + 1],
                 raw |-> [refs.raw EXCEPT ![s] = @ + One(kind \in Expressions)]]
    BY <2>1 DEF RefRecords, Taken
  <2>3. One(kind \in Expressions) \in Nat
    BY DEF One
  <2>4. /\ refs'.source = refs.source + 1 /\ refs'.cancellable = refs.cancellable + 1
        /\ refs'.expand = [refs.expand EXCEPT ![c] = @ + 1]
        /\ refs'.raw = [refs.raw EXCEPT ![s] = @ + One(kind \in Expressions)]
    BY <2>2
  <2>5. /\ refs.expand \in [Calls -> Int] /\ refs.raw \in [Raws -> Int]
        /\ refs.source \in Int /\ refs.cancellable \in Nat
    BY <2>1 DEF RefRecords
  <2>6. \A d \in Calls : refs'.expand[d] = refs.expand[d] + One(c = d)
    BY <2>4, <2>5 DEF One
  <2>7. \A t \in Raws : refs'.raw[t] = refs.raw[t] + One(s = t /\ kind \in Expressions)
    BY <2>4, <2>5 DEF One
  <2>8. refs' \in RefRecords
    BY <2>2, <2>3, <2>5 DEF RefRecords
  <2> QED
    BY <2>1, <2>4, <2>6, <2>7, <2>8
<1>7. /\ Overs(phase') = Overs(phase) /\ \A d \in Calls : One(Going(d))' = One(Going(d))
      /\ Outer \in Calls
  BY DEF PhaseSteady, Calls
<1>8. ASSUME NEW d \in Calls
      PROVE  refs'.expand[d] = One(Going(d))' + HeldNow(OfOne(d))' + Cardinality(RawsNow(d)')
  <2>1. refs.expand[d] = One(Going(d)) + HeldNow(OfOne(d)) + Cardinality(RawsNow(d))
    BY DEF Exact
  <2>2. HeldNow(OfOne(d))' = HeldNow(OfOne(d)) + One(c = d) /\ RawsNow(d)' = RawsNow(d)
    BY <1>1, <1>2, <1>3 DEF SameRaws, One
  <2>3. One(c = d) \in Nat /\ One(Going(d)) \in Nat
    BY DEF One
  <2> QED
    BY <1>4, <1>5, <1>7, <2>1, <2>2, <2>3
<1>9. ASSUME NEW t \in Raws PROVE refs'.raw[t] = ReadsNow(Calls, t)'
  BY <1>3, <1>5 DEF Exact, One
<1>10. HeldNow(Holds)' = HeldNow(Holds) + 1
  BY <1>1, <1>2 DEF One
<1>11. /\ refs'.source = 1 + HeldNow(Holds)' + rests'
       /\ refs'.cancellable + Cardinality(Overs(phase')) = One(Going(Outer))' + HeldNow(Holds)'
  <2>1. /\ refs.source = 1 + HeldNow(Holds) + rests
        /\ refs.cancellable + Cardinality(Overs(phase)) = One(Going(Outer)) + HeldNow(Holds)
    BY DEF Exact
  <2>2. One(Going(Outer)) \in Nat /\ rests \in Int /\ refs.cancellable \in Nat
    BY <1>5, BoundsAssumption DEF One, Shape, Types, RefRecords
  <2>3. Cardinality(Overs(phase)) \in Nat
    <3>1. Overs(phase) \in SUBSET Resolves /\ IsFiniteSet(Resolves)
      BY FiniteAssumption DEF Overs
    <3> QED
      BY <3>1, FS_Subset, FS_CardinalityType
  <2> QED
    BY <1>4, <1>5, <1>7, <1>10, <2>1, <2>2, <2>3
<1>12. Exact'
  BY <1>5, <1>8, <1>9, <1>11 DEF Exact
<1>13. ReadsNow({c}, s)' > 0
  <2>1. ReadsNow({c}, s)' = ReadsNow({c}, s) + One(c \in {c} /\ s = s /\ kind \in Expressions)
    BY <1>3
  <2> QED
    BY <1>4, <2>1 DEF One
<1> QED
  BY <1>3, <1>12, <1>13

(* ... a process data drops its references, ...                            *)
LEMMA ExactDrop ==
  ASSUME Shape, Shape', Exact, Owned, PhaseSteady, rests' = rests, Alive,
         NEW c \in Calls, NEW s \in Raws, NEW p, p.call = c, p.raw = s,
         refs' = Dropped(p), FewerHeld(Hold(c, s, p.kind)), SameUnreffed
  PROVE  Exact' /\ Owned'
<1> DEFINE kind == p.kind
           h == Hold(c, s, kind)
           last == kind \in Expressions /\ ReadsNow(Calls, s) = 1
<1>1. \A S : HeldNow(S)' + One(h \in S) = HeldNow(S)
  BY DEF FewerHeld, HeldNow
<1>2. h \in Holds /\ \A d : h \in OfOne(d) <=> c = d
  BY HoldIn
<1>3. /\ Owned'
      /\ \A C, t : ReadsNow(C, t)' + One(c \in C /\ s = t /\ kind \in Expressions) = ReadsNow(C, t)
      /\ \A d \in Calls : Cardinality(RawsNow(d)') = Cardinality(RawsNow(d)) - One(c = d /\ last)
  <2>1. CASE kind \in Expressions
    <3>1. FewerReads(c, s)
      BY <2>1, ReadsChange
    <3>2. /\ Owned'
          /\ \A d \in Calls : Cardinality(RawsNow(d)') =
                Cardinality(RawsNow(d)) - One(c = d /\ ReadsNow(Calls, s) = 1)
      BY <3>1, OneUserLess
    <3>3. \A C, t : ReadsNow(C, t)' + One(c \in C /\ s = t) = ReadsNow(C, t)
      BY <3>1 DEF FewerReads
    <3> QED
      BY <2>1, <3>2, <3>3 DEF One
  <2>2. CASE kind \notin Expressions
    <3>1. SameReads
      BY <2>2, ReadsChange
    <3>2. SameRaws
      BY <3>1, RawsStay
    <3>3. \A C, t : ReadsNow(C, t) \in Nat /\ ReadsNow(C, t)' = ReadsNow(C, t)
      BY <3>1, NowIsNat DEF SameReads
    <3>4. \A d \in Calls : Cardinality(RawsNow(d)) \in Nat /\ RawsNow(d)' = RawsNow(d)
      BY <3>2, NowIsNat DEF SameRaws
    <3> QED
      BY <2>2, <3>2, <3>3, <3>4 DEF One, SameRaws
  <2> QED
    BY <2>1, <2>2
<1> HIDE DEF h
<1>4. /\ \A S : HeldNow(S) \in Nat
      /\ \A d : Cardinality(RawsNow(d)) \in Nat
      /\ \A C, t : ReadsNow(C, t) \in Nat
  BY NowIsNat
<1>0. \A S : HeldNow(S)' \in Nat
  BY HeldIsNat DEF HeldNow, Shape, Types
<1>5. /\ refs \in RefRecords
      /\ refs'.source = refs.source - 1 /\ refs'.cancellable = refs.cancellable - 1
      /\ \A d \in Calls : refs'.expand[d] = refs.expand[d] - One(c = d) - One(c = d /\ last)
      /\ \A t \in Raws : refs'.raw[t] = refs.raw[t] - One(s = t /\ kind \in Expressions)
      /\ refs' \in RefRecords
      /\ \A d \in Calls : refs.expand[d] \in Int
      /\ \A t \in Raws : refs.raw[t] \in Int
  <2>1. refs \in RefRecords
    BY DEF Exact
  <2>2. LastOf(kind, s) <=> last
    BY DEF LastOf, Exact
  <2> HIDE DEF last
  <2>3. refs' = [cancellable |-> refs.cancellable - 1, source |-> refs.source - 1,
                 expand |-> [refs.expand EXCEPT ![c] = @ - 1 - One(LastOf(kind, s))],
                 raw |-> [refs.raw EXCEPT ![s] = @ - One(kind \in Expressions)]]
    BY <2>1 DEF RefRecords, Dropped
  <2>4. One(kind \in Expressions) \in Nat /\ One(LastOf(kind, s)) \in Nat /\ One(LastOf(kind, s)) = One(last)
    BY <2>2 DEF One
  <2>5. /\ refs'.source = refs.source - 1 /\ refs'.cancellable = refs.cancellable - 1
        /\ refs'.expand = [refs.expand EXCEPT ![c] = @ - 1 - One(last)]
        /\ refs'.raw = [refs.raw EXCEPT ![s] = @ - One(kind \in Expressions)]
    BY <2>3, <2>4
  <2>6. /\ refs.expand \in [Calls -> Int] /\ refs.raw \in [Raws -> Int]
        /\ refs.source \in Int /\ refs.cancellable \in Nat
    BY <2>1 DEF RefRecords
  <2>7. \A d \in Calls : refs'.expand[d] = refs.expand[d] - One(c = d) - One(c = d /\ last)
    BY <2>5, <2>6 DEF One
  <2>8. \A t \in Raws : refs'.raw[t] = refs.raw[t] - One(s = t /\ kind \in Expressions)
    BY <2>5, <2>6 DEF One
  <2>9. refs' \in RefRecords
    <3>1. refs.cancellable - 1 \in Nat
      BY <2>6 DEF Alive
    <3> QED
      BY <2>3, <2>4, <2>6, <3>1 DEF RefRecords
  <2> QED
    BY <2>1, <2>5, <2>6, <2>7, <2>8, <2>9
<1> HIDE DEF kind, last
<1>7. /\ Overs(phase') = Overs(phase) /\ \A d \in Calls : One(Going(d))' = One(Going(d))
      /\ Outer \in Calls
  BY DEF PhaseSteady, Calls
<1>8. ASSUME NEW d \in Calls
      PROVE  refs'.expand[d] = One(Going(d))' + HeldNow(OfOne(d))' + Cardinality(RawsNow(d)')
  <2>1. refs.expand[d] = One(Going(d)) + HeldNow(OfOne(d)) + Cardinality(RawsNow(d))
    BY DEF Exact
  <2>2. /\ HeldNow(OfOne(d))' + One(c = d) = HeldNow(OfOne(d))
        /\ Cardinality(RawsNow(d)') = Cardinality(RawsNow(d)) - One(c = d /\ last)
    BY <1>1, <1>2, <1>3 DEF One
  <2>3. One(c = d) \in Nat /\ One(Going(d)) \in Nat /\ One(c = d /\ last) \in Nat
    BY DEF One
  <2>4. /\ refs'.expand[d] = refs.expand[d] - One(c = d) - One(c = d /\ last)
        /\ One(Going(d))' = One(Going(d)) /\ HeldNow(OfOne(d)) \in Nat /\ HeldNow(OfOne(d))' \in Nat
        /\ Cardinality(RawsNow(d)) \in Nat
    BY <1>0, <1>4, <1>5, <1>7
  <2> QED
    BY <2>1, <2>2, <2>3, <2>4
<1>9. ASSUME NEW t \in Raws PROVE refs'.raw[t] = ReadsNow(Calls, t)'
  <2>1. ReadsNow(Calls, t)' + One(s = t /\ kind \in Expressions) = ReadsNow(Calls, t)
    BY <1>3 DEF One
  <2>2. ReadsNow(Calls, t)' \in Nat
    BY ReadsIsNat DEF ReadsNow, Shape, Types
  <2>3. refs.raw[t] = ReadsNow(Calls, t) /\ One(s = t /\ kind \in Expressions) \in Nat
    BY DEF Exact, One
  <2> QED
    BY <1>5, <2>1, <2>2, <2>3
<1>10. HeldNow(Holds)' + 1 = HeldNow(Holds)
  BY <1>1, <1>2 DEF One
<1>11. /\ refs'.source = 1 + HeldNow(Holds)' + rests'
       /\ refs'.cancellable + Cardinality(Overs(phase')) = One(Going(Outer))' + HeldNow(Holds)'
  <2>1. /\ refs.source = 1 + HeldNow(Holds) + rests
        /\ refs.cancellable + Cardinality(Overs(phase)) = One(Going(Outer)) + HeldNow(Holds)
    BY DEF Exact
  <2>2. One(Going(Outer)) \in Nat /\ rests \in Int /\ refs.cancellable \in Nat
    BY <1>5, BoundsAssumption DEF One, Shape, Types, RefRecords
  <2>3. Cardinality(Overs(phase)) \in Nat
    <3>1. Overs(phase) \in SUBSET Resolves /\ IsFiniteSet(Resolves)
      BY FiniteAssumption DEF Overs
    <3> QED
      BY <3>1, FS_Subset, FS_CardinalityType
  <2> QED
    BY <1>0, <1>5, <1>7, <1>10, <2>1, <2>2, <2>3
<1>12. Exact'
  BY <1>5, <1>8, <1>9, <1>11 DEF Exact
<1> QED
  BY <1>3, <1>12

(* ... a query or an item makes its DataRef, ...                           *)
LEMMA ExactNew ==
  ASSUME Shape, Shape', Exact, Owned, PhaseSteady, rests' = rests,
         NEW c \in Calls, NEW s \in Raws, refs.raw[s] = 0, refs' = NewRaw(c, s),
         SameHeld, MoreUnreffed(c, s)
  PROVE  Exact' /\ Owned' /\ ReadsNow({c}, s)' > 0
<1>1. /\ \A S : HeldNow(S) \in Nat
      /\ \A d : Cardinality(RawsNow(d)) \in Nat
      /\ \A C, t : ReadsNow(C, t) \in Nat
  BY NowIsNat
<1>2. MoreReads(c, s) /\ ReadsNow(Calls, s) = 0
  BY ReadsChange DEF Exact
<1>3. /\ Owned' /\ ReadsNow({c}, s)' > 0
      /\ \A d \in Calls : Cardinality(RawsNow(d)') = Cardinality(RawsNow(d)) + One(c = d)
  BY <1>2, FirstUser
<1>4. \A S : HeldNow(S)' = HeldNow(S)
  BY DEF SameHeld, HeldNow
<1>5. /\ refs \in RefRecords
      /\ refs'.source = refs.source /\ refs'.cancellable = refs.cancellable
      /\ \A d \in Calls : refs'.expand[d] = refs.expand[d] + One(c = d)
      /\ \A t \in Raws : refs'.raw[t] = refs.raw[t] + One(s = t)
      /\ refs' \in RefRecords
  <2>1. refs \in RefRecords
    BY DEF Exact
  <2>2. refs' = [cancellable |-> refs.cancellable, source |-> refs.source,
                 expand |-> [refs.expand EXCEPT ![c] = @ + 1],
                 raw |-> [refs.raw EXCEPT ![s] = 1]]
    BY <2>1 DEF RefRecords, NewRaw
  <2>3. /\ refs'.source = refs.source /\ refs'.cancellable = refs.cancellable
        /\ refs'.expand = [refs.expand EXCEPT ![c] = @ + 1]
        /\ refs'.raw = [refs.raw EXCEPT ![s] = 1]
    BY <2>2
  <2>4. /\ refs.expand \in [Calls -> Int] /\ refs.raw \in [Raws -> Int]
        /\ refs.source \in Int /\ refs.cancellable \in Nat
    BY <2>1 DEF RefRecords
  <2>5. \A d \in Calls : refs'.expand[d] = refs.expand[d] + One(c = d)
    BY <2>3, <2>4 DEF One
  <2>6. \A t \in Raws : refs'.raw[t] = refs.raw[t] + One(s = t)
    BY <2>3, <2>4 DEF One
  <2>7. refs' \in RefRecords
    BY <2>2, <2>4 DEF RefRecords
  <2> QED
    BY <2>1, <2>3, <2>5, <2>6, <2>7
<1>6. /\ Overs(phase') = Overs(phase) /\ \A d \in Calls : One(Going(d))' = One(Going(d))
      /\ Outer \in Calls
  BY DEF PhaseSteady, Calls
<1>7. ASSUME NEW d \in Calls
      PROVE  refs'.expand[d] = One(Going(d))' + HeldNow(OfOne(d))' + Cardinality(RawsNow(d)')
  <2>1. refs.expand[d] = One(Going(d)) + HeldNow(OfOne(d)) + Cardinality(RawsNow(d))
    BY DEF Exact
  <2>2. One(c = d) \in Nat /\ One(Going(d)) \in Nat
    BY DEF One
  <2>3. /\ HeldNow(OfOne(d))' = HeldNow(OfOne(d))
        /\ Cardinality(RawsNow(d)') = Cardinality(RawsNow(d)) + One(c = d)
    BY <1>3, <1>4
  <2> QED
    BY <1>1, <1>5, <1>6, <2>1, <2>2, <2>3
<1>8. ASSUME NEW t \in Raws PROVE refs'.raw[t] = ReadsNow(Calls, t)'
  <2>1. ReadsNow(Calls, t)' = ReadsNow(Calls, t) + One(c \in Calls /\ s = t)
    BY <1>2 DEF MoreReads
  <2> QED
    BY <1>5, <2>1 DEF Exact, One
<1>9. Exact'
  BY <1>4, <1>5, <1>6, <1>7, <1>8 DEF Exact
<1> QED
  BY <1>3, <1>9

(* ... or is done with it.                                                 *)
LEMMA ExactUnref ==
  ASSUME Shape, Shape', Exact, Owned, PhaseSteady, rests' = rests,
         NEW c \in Calls, NEW s \in Raws,
         refs' = [refs EXCEPT !.raw[s] = @ - 1, !.expand[c] = @ - One(refs.raw[s] = 1)],
         SameHeld, FewerUnreffed(c, s)
  PROVE  Exact' /\ Owned'
<1> DEFINE last == ReadsNow(Calls, s) = 1
<1>1. /\ \A S : HeldNow(S) \in Nat
      /\ \A d : Cardinality(RawsNow(d)) \in Nat
      /\ \A C, t : ReadsNow(C, t) \in Nat
  BY NowIsNat
<1>2. FewerReads(c, s) /\ refs.raw[s] = ReadsNow(Calls, s)
  BY ReadsChange DEF Exact
<1>3. /\ Owned'
      /\ \A d \in Calls : Cardinality(RawsNow(d)') = Cardinality(RawsNow(d)) - One(c = d /\ last)
  BY <1>2, OneUserLess
<1>4. \A S : HeldNow(S)' = HeldNow(S)
  BY DEF SameHeld, HeldNow
<1>5. /\ refs \in RefRecords
      /\ refs'.source = refs.source /\ refs'.cancellable = refs.cancellable
      /\ \A d \in Calls : refs'.expand[d] = refs.expand[d] - One(c = d /\ last)
      /\ \A t \in Raws : refs'.raw[t] = refs.raw[t] - One(s = t)
      /\ refs' \in RefRecords
      /\ \A d \in Calls : refs.expand[d] \in Int
  <2>1. refs \in RefRecords
    BY DEF Exact
  <2>2. refs' = [cancellable |-> refs.cancellable, source |-> refs.source,
                 expand |-> [refs.expand EXCEPT ![c] = @ - One(refs.raw[s] = 1)],
                 raw |-> [refs.raw EXCEPT ![s] = @ - 1]]
    BY <2>1 DEF RefRecords
  <2>3. One(refs.raw[s] = 1) = One(last) /\ One(last) \in Nat
    BY <1>2 DEF One
  <2> HIDE DEF last
  <2>4. /\ refs'.source = refs.source /\ refs'.cancellable = refs.cancellable
        /\ refs'.expand = [refs.expand EXCEPT ![c] = @ - One(last)]
        /\ refs'.raw = [refs.raw EXCEPT ![s] = @ - 1]
    BY <2>2, <2>3
  <2>5. /\ refs.expand \in [Calls -> Int] /\ refs.raw \in [Raws -> Int]
        /\ refs.source \in Int /\ refs.cancellable \in Nat
    BY <2>1 DEF RefRecords
  <2>6. \A d \in Calls : refs'.expand[d] = refs.expand[d] - One(c = d /\ last)
    BY <2>4, <2>5 DEF One
  <2>7. \A t \in Raws : refs'.raw[t] = refs.raw[t] - One(s = t)
    BY <2>4, <2>5 DEF One
  <2>8. refs' \in RefRecords
    <3>1. [refs.expand EXCEPT ![c] = @ - One(last)] \in [Calls -> Int]
      BY <2>3, <2>5
    <3>2. [refs.raw EXCEPT ![s] = @ - 1] \in [Raws -> Int]
      BY <2>5
    <3>3. refs' = [cancellable |-> refs.cancellable, source |-> refs.source,
                   expand |-> [refs.expand EXCEPT ![c] = @ - One(last)],
                   raw |-> [refs.raw EXCEPT ![s] = @ - 1]]
      BY <2>2, <2>3
    <3>4. PICK e \in [Calls -> Int], r \in [Raws -> Int] :
             refs' = [cancellable |-> refs.cancellable, source |-> refs.source, expand |-> e, raw |-> r]
      BY <3>1, <3>2, <3>3
    <3>5. refs.cancellable \in Nat /\ refs.source \in Int
      BY <2>5
    <3> QED
      BY <3>4, <3>5 DEF RefRecords
  <2> QED
    BY <2>1, <2>4, <2>5, <2>6, <2>7, <2>8
<1> HIDE DEF last
<1>6. /\ Overs(phase') = Overs(phase) /\ \A d \in Calls : One(Going(d))' = One(Going(d))
      /\ Outer \in Calls
  BY DEF PhaseSteady, Calls
<1>7. ASSUME NEW d \in Calls
      PROVE  refs'.expand[d] = One(Going(d))' + HeldNow(OfOne(d))' + Cardinality(RawsNow(d)')
  <2>1. refs.expand[d] = One(Going(d)) + HeldNow(OfOne(d)) + Cardinality(RawsNow(d))
    BY DEF Exact
  <2>2. One(c = d /\ last) \in Nat /\ One(Going(d)) \in Nat
    BY DEF One
  <2>3. /\ HeldNow(OfOne(d))' = HeldNow(OfOne(d))
        /\ Cardinality(RawsNow(d)') = Cardinality(RawsNow(d)) - One(c = d /\ last)
    BY <1>3, <1>4
  <2> QED
    BY <1>1, <1>5, <1>6, <2>1, <2>2, <2>3
<1>8. ASSUME NEW t \in Raws PROVE refs'.raw[t] = ReadsNow(Calls, t)'
  <2>1. ReadsNow(Calls, t)' + One(c \in Calls /\ s = t) = ReadsNow(Calls, t)
    BY <1>2 DEF FewerReads
  <2>2. ReadsNow(Calls, t)' \in Nat
    BY ReadsIsNat DEF ReadsNow, Shape, Types
  <2>3. refs.raw[t] = ReadsNow(Calls, t) /\ One(c \in Calls /\ s = t) = One(s = t) /\ One(s = t) \in Nat
    BY DEF Exact, One
  <2> QED
    BY <1>5, <2>1, <2>2, <2>3
<1>9. Exact'
  BY <1>4, <1>5, <1>6, <1>7, <1>8 DEF Exact
<1> QED
  BY <1>3, <1>9

-----------------------------------------------------------------------------
(* The steps keep the books.                                               *)

(* When the next thing done is not a fetch, there is no DataRef to be      *)
(* referred to.                                                            *)
LEMMA NoGet ==
  ASSUME Shape, NEW s \in Seq(Entries), agenda' = After(s, agenda), s # <<>> => s[1].do # "get"
  PROVE  GetFits'
<1>1. agenda \in Seq(Entries) /\ AgendaFits(phase, agenda)
  BY DEF Shape, Types
<1>2. /\ s # <<>> => agenda'[1] = s[1]
      /\ s = <<>> /\ agenda' # <<>> => agenda'[1].do \in Later
  BY <1>1, NewHead
<1>3. agenda' # <<>> => agenda'[1].do # "get"
  BY <1>2 DEF Later
<1> QED
  BY <1>3 DEF GetFits

(* Entries that neither free nor drop a reference make a plain agenda.     *)
LEMMA PlainAre ==
  /\ Plain(<<>>)
  /\ \A x : x.do # "free" /\ x.do # "unref" => Plain(<<x>>)
  /\ \A x, y : x.do # "free" /\ x.do # "unref" /\ y.do # "free" /\ y.do # "unref" => Plain(<<x, y>>)
<1>1. Plain(<<>>)
  BY DEF Plain
<1>2. ASSUME NEW x, x.do # "free", x.do # "unref" PROVE Plain(<<x>>)
  BY <1>2 DEF Plain
<1>3. ASSUME NEW x, NEW y, x.do # "free", x.do # "unref", y.do # "free", y.do # "unref"
      PROVE  Plain(<<x, y>>)
  <2>1. \A i \in 1 .. Len(<<x, y>>) : <<x, y>>[i] = x \/ <<x, y>>[i] = y
    OBVIOUS
  <2> QED
    BY <1>3, <2>1 DEF Plain
<1> QED
  BY <1>1, <1>2, <1>3

(* Nothing that counts changes.                                            *)
LEMMA SteadyBooks ==
  ASSUME Shape, Shape', Books, UNCHANGED <<refs, rests>>, PhaseSteady, SameNestedIn,
         NEW s \in Seq(Entries), agenda' = After(s, agenda), Plain(s),
         agenda # <<>> => agenda[1].do # "free" /\ agenda[1].do # "unref"
  PROVE  /\ Exact' /\ Owned' /\ SameReads
         /\ (s # <<>> => s[1].do # "get") => Books'
<1>1. SameHeld /\ SameUnreffed
  BY PlainSteady
<1>2. Exact' /\ SameReads /\ SameRaws
  BY <1>1, ExactStays DEF Books
<1>3. (s # <<>> => s[1].do # "get") => GetFits'
  BY NoGet
<1> QED
  BY <1>2, <1>3 DEF Books, SameRaws

(* A step that changes no count and holds nothing new keeps Books.         *)
LEMMA SteadyStep ==
  ASSUME Shape, Shape', Books, UNCHANGED <<refs, rests>>, PhaseSteady, SameNestedIn,
         NEW do, Now(do), do # "free", do # "unref",
         \/ Then(<<>>)
         \/ \E d \in CallSteps, c \in Calls : Then(<<OfCall(d, c)>>)
         \/ \E f \in Fetches : Then(<<OfFetch("obtained", f)>>)
  PROVE  Books'
<1>1. agenda # <<>> /\ agenda[1].do = do /\ Rest(agenda) = Tail(agenda)
  BY Opening
<1>2. CASE Then(<<>>)
  <2>1. agenda' = After(<<>>, agenda) /\ <<>> \in Seq(Entries) /\ Plain(<<>>)
    BY <1>1, <1>2, PlainAre DEF Then, After
  <2> QED
    BY <1>1, <2>1, SteadyBooks
<1>3. ASSUME NEW x \in Entries, Then(<<x>>), x.do # "free", x.do # "unref", x.do # "get" PROVE Books'
  <2>1. agenda' = After(<<x>>, agenda) /\ <<x>> \in Seq(Entries) /\ <<x>>[1] = x
    BY <1>1, <1>3 DEF Then, After
  <2>2. Plain(<<x>>)
    BY <1>3, PlainAre
  <2> QED
    BY <1>1, <1>3, <2>1, <2>2, SteadyBooks
<1>4. \A d \in CallSteps, c \in Calls :
        /\ OfCall(d, c) \in Entries /\ OfCall(d, c).do # "free"
        /\ OfCall(d, c).do # "unref" /\ OfCall(d, c).do # "get"
  BY EntriesMade DEF OfCall, CallSteps
<1>5. \A f \in Fetches :
        /\ OfFetch("obtained", f) \in Entries /\ OfFetch("obtained", f).do # "free"
        /\ OfFetch("obtained", f).do # "unref" /\ OfFetch("obtained", f).do # "get"
  BY EntriesMade DEF OfFetch, Asks
<1> QED
  BY <1>2, <1>3, <1>4, <1>5

(* Changing fetches that nest nothing changes nothing that is held.        *)
LEMMA NestedSteadies ==
  ASSUME Shape
  PROVE  /\ UNCHANGED fetches => SameNestedIn
         /\ \A f \in Fetches : \A r :
              /\ fetches[f] = NoFetch \/ fetches[f].nested = <<>>
              /\ r = NoFetch \/ r.nested = <<>>
              /\ fetches' = [fetches EXCEPT ![f] = r]
              => SameNestedIn
<1>1. fetches \in [Fetches -> {NoFetch} \cup FetchRecords]
  BY DEF Shape, Types
<1>2. ASSUME NEW f \in Fetches, NEW r, fetches[f] = NoFetch \/ fetches[f].nested = <<>>,
             r = NoFetch \/ r.nested = <<>>, fetches' = [fetches EXCEPT ![f] = r]
      PROVE  SameNestedIn
  <2>1. \A S : NestedIn([fetches EXCEPT ![f] = r], S) = NestedIn(fetches, S)
    BY <1>1, <1>2, NestsNothing
  <2> QED
    BY <1>2, <2>1 DEF SameNestedIn
<1> QED
  BY <1>2 DEF SameNestedIn

(* Executing a call leads to another phase of it, and to plain entries.    *)
LEMMA ExecuteGoes ==
  ASSUME Shape, NEW c \in Calls, phase[c] \in {"begun", "query"}, ExecuteCall(c)
  PROVE  PhaseSteady /\ (Then(<<>>) \/ \E d \in CallSteps, e \in Calls : Then(<<OfCall(d, e)>>))
<1>1. CASE relayed
  <2>1. Then(<<>>) /\ phase' = [phase EXCEPT ![c] = "relay"] /\ "relay" \in Phases
    BY <1>1 DEF ExecuteCall, GoTo, Phases
  <2> QED
    BY <2>1, PhaseSteadies
<1>2. CASE ~relayed
  <2>1. Then(<<OfCall("send", c)>>) /\ phase' = [phase EXCEPT ![c] = "sending"] /\ "sending" \in Phases
    BY <1>2 DEF ExecuteCall, GoTo, Phases
  <2>2. "send" \in CallSteps
    BY DEF CallSteps
  <2> QED
    BY <2>1, <2>2, PhaseSteadies
<1> QED
  BY <1>1, <1>2

(* RunWaits keeps Books.                                                   *)
LEMMA RunWaitsBooks == Shape /\ Shape' /\ Books /\ RunWaits => Books'
<1> SUFFICES ASSUME Shape, Shape', Books, RunWaits PROVE Books'
  OBVIOUS
<1>1. Now("run") /\ Then(<<>>) /\ UNCHANGED <<phase, fetches, refs, rests>>
  BY DEF RunWaits
<1> QED
  BY <1>1, NestedSteadies, PhaseSteadies, SteadyStep

(* The operation of the entry now done.                                    *)
LEMMA NowCalls ==
  ASSUME Shape, NEW do \in CallSteps \cup {"key", "unref", "free"}, Now(do)
  PROVE  Now1.call \in Calls
<1>1. Now1 = agenda[1] /\ agenda[1] \in Entries /\ agenda[1].do = do
  BY Opening
<1> QED
  BY <1>1, EntryTypes DEF CallSteps, Asks

(* The fetch of the entry now done, which is the only one whose turn it    *)
(* is.                                                                     *)
LEMMA NowFetches ==
  ASSUME Shape, NEW do \in Asks, Now(do)
  PROVE  /\ Now1.fetch \in Fetches /\ Running(Now1.fetch)
         /\ Turn(agenda, Now1.fetch) /\ \A f : Turn(agenda, f) => f = Now1.fetch
         /\ fetches[Now1.fetch].call \in Calls /\ fetches[Now1.fetch].raw \in Raws
         /\ Nested(Now1.fetch) \in Seq(Kinds)
         /\ \A i \in 1 .. Len(Nested(Now1.fetch)) : Nested(Now1.fetch)[i] \notin Asking
<1>1. /\ Now1 = agenda[1] /\ agenda[1] \in Entries /\ agenda[1].do = do
      /\ \A f : Turn(agenda, f) <=> agenda[1].fetch = f
  BY Opening
<1>2. PICK f \in Fetches : f = Now1.fetch
  BY <1>1, EntryTypes
<1>3. Turn(agenda, f) /\ \A g : Turn(agenda, g) => g = f
  BY <1>1, <1>2
<1>4. Running(f)
  BY <1>3 DEF Shape, FetchesFit, Running
<1>5. /\ fetches[f].call \in Calls /\ fetches[f].raw \in Raws /\ Nested(f) \in Seq(Kinds)
      /\ \A i \in 1 .. Len(Nested(f)) : Nested(f)[i] \notin Asking
  BY <1>3, <1>4, FetchOfTurn
<1> QED
  BY <1>2, <1>3, <1>4, <1>5

(* RunEnds keeps Books.                                                    *)
LEMMA RunEndsBooks == Shape /\ Shape' /\ Books /\ RunEnds => Books'
<1> SUFFICES ASSUME Shape, Shape', Books, RunEnds PROVE Books'
  OBVIOUS
<1>1. Now("run") /\ Then(<<OfCall("end", Now1.call)>>) /\ UNCHANGED <<phase, fetches, refs, rests>>
  BY DEF RunEnds
<1>2. Now1.call \in Calls /\ "end" \in CallSteps
  BY <1>1, NowCalls DEF CallSteps
<1> QED
  BY <1>1, <1>2, NestedSteadies, PhaseSteadies, SteadyStep

(* GetHere keeps Books.                                                    *)
LEMMA GetHereBooks == Shape /\ Shape' /\ Books /\ GetHere => Books'
<1> SUFFICES ASSUME Shape, Shape', Books, GetHere PROVE Books'
  OBVIOUS
<1>1. /\ Now("get") /\ Then(<<OfFetch("obtained", Now1.fetch)>>)
      /\ UNCHANGED <<phase, fetches, refs, rests>>
  BY DEF GetHere
<1>2. Now1.fetch \in Fetches
  BY <1>1, NowFetches DEF Asks
<1> QED
  BY <1>1, <1>2, NestedSteadies, PhaseSteadies, SteadyStep

(* SendResults keeps Books.                                                *)
LEMMA SendResultsBooks == Shape /\ Shape' /\ Books /\ SendResults => Books'
<1> SUFFICES ASSUME Shape, Shape', Books, SendResults PROVE Books'
  OBVIOUS
<1>1. Now("send") /\ UNCHANGED <<fetches, refs, rests>>
  BY DEF SendResults
<1>2. PICK c \in Calls : c = Now1.call
  BY <1>1, NowCalls DEF CallSteps
<1>3. phase[c] = "sending"
  BY <1>1, <1>2, Opening DEF Fits
<1>4. \/ UNCHANGED phase /\ Then(<<OfCall("end", c)>>)
      \/ phase' = [phase EXCEPT ![c] = "items"] /\ Then(<<OfCall("item", c)>>)
  BY <1>2 DEF SendResults, GoTo
<1>5. PhaseSteady
  <2>1. "items" \in Phases
    BY DEF Phases
  <2> QED
    BY <1>3, <1>4, <2>1, PhaseSteadies
<1>6. \E d \in CallSteps, e \in Calls : Then(<<OfCall(d, e)>>)
  BY <1>4 DEF CallSteps
<1> QED
  BY <1>1, <1>5, <1>6, NestedSteadies, SteadyStep

(* KeyFetched keeps Books.                                                 *)
LEMMA KeyFetchedBooks == Shape /\ Shape' /\ Books /\ KeyFetched => Books'
<1> SUFFICES ASSUME Shape, Shape', Books, KeyFetched PROVE Books'
  OBVIOUS
<1>1. Now("obtained") /\ UNCHANGED <<phase, refs, rests>>
  BY DEF KeyFetched
<1>2. PICK f \in Fetches : f = Now1.fetch
  BY <1>1, NowFetches DEF Asks
<1>3. fetches[f].call \in Calls
  BY <1>1, <1>2, NowFetches DEF Asks
<1>4. /\ fetches[f].nested = <<>> /\ fetches' = [fetches EXCEPT ![f] = NoFetch]
      /\ Then(<<OfCall("run", fetches[f].call)>>)
  BY <1>2 DEF KeyFetched, Nested
<1>5. SameNestedIn /\ PhaseSteady
  BY <1>1, <1>4, NestedSteadies, PhaseSteadies
<1>6. \E d \in CallSteps, e \in Calls : Then(<<OfCall(d, e)>>)
  BY <1>3, <1>4 DEF CallSteps
<1> QED
  BY <1>1, <1>5, <1>6, SteadyStep

(* DataFetched keeps Books.                                                *)
LEMMA DataFetchedBooks == Shape /\ Shape' /\ Books /\ DataFetched => Books'
<1> SUFFICES ASSUME Shape, Shape', Books, DataFetched PROVE Books'
  OBVIOUS
<1>1. Now("obtained") /\ UNCHANGED <<refs, rests>>
  BY DEF DataFetched
<1>2. PICK f \in Fetches : f = Now1.fetch
  BY <1>1, NowFetches DEF Asks
<1>3. PICK c \in Calls : c = fetches[f].call
  BY <1>1, <1>2, NowFetches DEF Asks
<1>4. /\ fetches[f].nested = <<>> /\ fetches' = [fetches EXCEPT ![f] = NoFetch] /\ phase[c] = "query"
      /\ \/ UNCHANGED phase /\ Then(<<OfCall("end", c)>>)
         \/ ExecuteCall(c)
  BY <1>2, <1>3 DEF DataFetched, Nested
<1>5. SameNestedIn
  BY <1>4, NestedSteadies
<1>6. PhaseSteady /\ (Then(<<>>) \/ \E d \in CallSteps, e \in Calls : Then(<<OfCall(d, e)>>))
  <2>1. CASE UNCHANGED phase /\ Then(<<OfCall("end", c)>>)
    BY <2>1, PhaseSteadies DEF CallSteps
  <2>2. CASE ExecuteCall(c)
    BY <1>4, <2>2, ExecuteGoes
  <2> QED
    BY <1>4, <2>1, <2>2
<1> QED
  BY <1>1, <1>5, <1>6, SteadyStep

Grown(A, B, f, c, s, m, n, kind) ==
    /\ A[f] = FetchOf(c, s, m) /\ B[f] = FetchOf(c, s, n)
    /\ \A g \in Fetches : g # f => B[g] = A[g]
    /\ Len(n) = Len(m) + 1 /\ n[Len(n)] = kind
    /\ \A i \in 1 .. Len(m) : n[i] = m[i]
    /\ Len(n) <= MaxDepth

(* A fetch that has grown holds one reference more, unless it grew by raw  *)
(* values to free.                                                         *)
LEMMA GrownNests ==
  ASSUME NEW A, NEW B, NEW f \in Fetches, NEW c, NEW s, NEW m \in Seq(Kinds), NEW n \in Seq(Kinds),
         NEW kind, Grown(A, B, f, c, s, m, n, kind)
  PROVE  /\ kind # "rest" => \A S : Cardinality(NestedIn(B, S)) =
                                Cardinality(NestedIn(A, S)) + One(Hold(c, s, kind) \in S)
         /\ kind = "rest" => \A S : NestedIn(B, S) = NestedIn(A, S)
BY NestsOneMore DEF Grown

(* Two agendas of one entry put together.                                  *)
LEMMA TwoInOne ==
  ASSUME NEW x \in Entries, NEW y \in Entries
  PROVE  <<x>> \o <<y>> = <<x, y>>
<1>1. /\ <<x>> \in Seq(Entries) /\ <<y>> \in Seq(Entries) /\ Len(<<x>>) = 1 /\ Len(<<y>>) = 1
      /\ <<x>>[1] = x /\ <<y>>[1] = y /\ <<x, y>> \in Seq(Entries)
      /\ Len(<<x, y>>) = 2 /\ <<x, y>>[1] = x /\ <<x, y>>[2] = y
  OBVIOUS
<1>2. /\ <<x>> \o <<y>> \in Seq(Entries) /\ Len(<<x>> \o <<y>>) = 2
      /\ \A i \in 1 .. 2 : (<<x>> \o <<y>>)[i] = IF i <= 1 THEN <<x>>[i] ELSE <<y>>[i - 1]
  BY <1>1, ConcatProperties
<1>3. \A i \in 1 .. 2 : (<<x>> \o <<y>>)[i] = <<x, y>>[i]
  BY <1>1, <1>2
<1> QED
  BY <1>1, <1>2, <1>3, SeqEqual

(* RelayFires keeps Books.                                                 *)
LEMMA RelayFiresBooks ==
  ASSUME NEW c \in Calls, Shape, Shape', Books, RelayFires(c)
  PROVE  Books'
<1> DEFINE x == OfCall("send", c)
<1>1. /\ Waiting /\ phase[c] = "relay" /\ phase' = [phase EXCEPT ![c] = "sending"]
      /\ agenda' = <<x>> /\ UNCHANGED <<fetches, refs, rests>>
  BY DEF RelayFires, GoTo
<1>2. x \in Entries /\ x.do = "send"
  BY EntriesMade DEF OfCall, CallSteps
<1> HIDE DEF x
<1>3. <<x>> \in Seq(Entries) /\ <<x>>[1] = x /\ Plain(<<x>>)
  BY <1>2, PlainAre
<1>4. agenda = <<>> /\ agenda' = After(<<x>>, agenda)
  <2>1. Waiting
    BY <1>1
  <2>2. agenda = <<>> /\ \A s \in Seq(Entries) : After(s, agenda) = s
    BY <2>1, WaitingOpening, Zenon
  <2>3. After(<<x>>, agenda) = <<x>>
    BY <1>3, <2>2
  <2> QED
    BY <1>1, <2>2, <2>3
<1>5. PhaseSteady /\ SameNestedIn
  <2>1. "sending" \in Phases
    BY DEF Phases
  <2> QED
    BY <1>1, <2>1, PhaseSteadies, NestedSteadies
<1>6. /\ UNCHANGED <<refs, rests>>
      /\ agenda # <<>> => agenda[1].do # "free" /\ agenda[1].do # "unref"
      /\ <<x>> # <<>> => <<x>>[1].do # "get"
  BY <1>1, <1>2, <1>3, <1>4
<1>7. agenda' = After(<<x>>, agenda)
  BY <1>4
<1> QED
  BY <1>3, <1>5, <1>6, <1>7, SteadyBooks

(* End keeps Books.                                                        *)
LEMMA EndBooks == Shape /\ Shape' /\ Books /\ End => Books'
<1> SUFFICES ASSUME Shape, Shape', Books, End PROVE Books'
  OBVIOUS
<1>1. Now("end") /\ UNCHANGED <<fetches, refs, rests>>
  BY DEF End
<1>2. PICK c \in Calls : c = Now1.call
  BY <1>1, NowCalls DEF CallSteps
<1>3. /\ phase[c] \in {"query", "sending", "items"} /\ agenda # <<>> /\ Rest(agenda) = Tail(agenda)
      /\ agenda[1].do = "end"
  BY <1>1, <1>2, Opening DEF Fits
<1>4. /\ phase' = [phase EXCEPT ![c] = "answered"]
      /\ Then((IF c = Outer THEN <<>> ELSE <<OfCall("run", Outer)>>) \o <<OfCall("finish", c)>>)
  BY <1>2 DEF End, GoTo
<1> DEFINE x == OfCall("finish", c)
           y == OfCall("run", Outer)
<1>5. x \in Entries /\ x.do = "finish" /\ y \in Entries /\ y.do = "run"
  BY EntriesMade DEF OfCall, CallSteps, Calls
<1>6. \E s \in Seq(Entries) : agenda' = After(s, agenda) /\ Plain(s) /\ s[1].do # "get"
  <2>1. CASE c = Outer
    <3>1. agenda' = After(<<x>>, agenda)
      BY <1>3, <1>4, <2>1 DEF Then, After
    <3> HIDE DEF x
    <3>2. <<x>> \in Seq(Entries) /\ <<x>>[1] = x /\ Plain(<<x>>)
      BY <1>5, PlainAre
    <3> QED
      BY <1>5, <3>1, <3>2
  <2>2. CASE c # Outer
    <3>1. agenda' = After(<<y, x>>, agenda)
      BY <1>3, <1>4, <2>2 DEF Then, After
    <3> HIDE DEF x, y
    <3>2. <<y, x>> \in Seq(Entries) /\ <<y, x>>[1] = y /\ Plain(<<y, x>>)
      BY <1>5, PlainAre
    <3> QED
      BY <1>5, <3>1, <3>2
  <2> QED
    BY <2>1, <2>2
<1>7. PICK s \in Seq(Entries) : agenda' = After(s, agenda) /\ Plain(s) /\ s[1].do # "get"
  BY <1>6
<1>8. PhaseSteady /\ SameNestedIn
  <2>1. "answered" \in Phases
    BY DEF Phases
  <2> QED
    BY <1>1, <1>3, <1>4, <2>1, PhaseSteadies, NestedSteadies
<1>9. /\ UNCHANGED <<refs, rests>>
      /\ agenda # <<>> => agenda[1].do # "free" /\ agenda[1].do # "unref"
  BY <1>1, <1>3
<1> QED
  BY <1>7, <1>8, <1>9, SteadyBooks

(* What is innermost goes.                                                 *)
LEMMA PopNests ==
  ASSUME Shape, NEW f \in Fetches, Running(f), Nested(f) # <<>>, Pop(f)
  PROVE  /\ Top(f) # "rest" => \A S : Cardinality(NestedIn(fetches, S)) =
                Cardinality(NestedIn(fetches', S)) + One(Hold(fetches[f].call, fetches[f].raw, Top(f)) \in S)
         /\ Top(f) = "rest" => SameNestedIn
<1> DEFINE n == Nested(f)
           m == SubSeq(n, 1, Len(n) - 1)
           c == fetches[f].call
           s == fetches[f].raw
<1>1. /\ n \in Seq(Kinds) /\ Len(n) \in Nat /\ Len(n) <= MaxDepth /\ Len(n) > 0
      /\ fetches[f] \in FetchRecords /\ n = fetches[f].nested
  BY FetchOfTurn
<1>2. "input" \in Kinds
  BY DEF Kinds, Expressions
<1>3. m \in Seq(Kinds) /\ Len(m) = Len(n) - 1 /\ \A i \in 1 .. Len(n) - 1 : m[i] = n[i]
  BY <1>1, <1>2, Innermost
<1>4. fetches' = [fetches EXCEPT ![f].nested = m]
  BY DEF Pop, Nested
<1>5. fetches \in [Fetches -> {NoFetch} \cup FetchRecords]
  BY DEF Shape, Types
<1> HIDE DEF m
<1>6. fetches[f] = FetchOf(c, s, n) /\ fetches'[f] = FetchOf(c, s, m)
  BY <1>1, <1>4, <1>5 DEF FetchRecords, FetchOf
<1>7. \A g \in Fetches : g # f => fetches[g] = fetches'[g]
  BY <1>4, <1>5
<1>8. /\ Top(f) = n[Len(n)] /\ Len(n) = Len(m) + 1 /\ \A i \in 1 .. Len(m) : n[i] = m[i]
  BY <1>1, <1>3 DEF Top
<1> HIDE DEF n, c, s
<1>9. /\ Top(f) # "rest" => \A S : Cardinality(NestedIn(fetches, S)) =
              Cardinality(NestedIn(fetches', S)) + One(Hold(c, s, Top(f)) \in S)
      /\ Top(f) = "rest" => \A S : NestedIn(fetches, S) = NestedIn(fetches', S)
  <2>1. n[Len(n)] = Top(f)
    BY <1>8
  <2>2. Len(n) <= MaxDepth /\ n \in Seq(Kinds) /\ m \in Seq(Kinds)
    BY <1>1, <1>3
  <2>3. Len(n) = Len(m) + 1 /\ \A i \in 1 .. Len(m) : n[i] = m[i]
    BY <1>8
  <2> DEFINE kind == Top(f)
             A == fetches'
             B == fetches
  <2>4. /\ A[f] = FetchOf(c, s, m) /\ B[f] = FetchOf(c, s, n)
        /\ \A g \in Fetches : g # f => B[g] = A[g]
        /\ n[Len(n)] = kind
    BY <1>6, <1>7, <2>1
  <2> HIDE DEF kind, A, B
  <2>5. /\ kind # "rest" => \A S : Cardinality(NestedIn(B, S)) =
                Cardinality(NestedIn(A, S)) + One(Hold(c, s, kind) \in S)
        /\ kind = "rest" => \A S : NestedIn(B, S) = NestedIn(A, S)
    <3>1. Grown(A, B, f, c, s, m, n, kind)
      BY <2>2, <2>3, <2>4 DEF Grown
    <3> QED
      BY <2>2, <3>1, GrownNests
  <2> QED
    BY <2>5 DEF kind, A, B
<1> QED
  BY <1>9 DEF c, s, SameNestedIn

(* It calls back, and is freed afterwards.                                 *)
LEMMA PoppedBooks ==
  ASSUME Shape, Shape', Books, UNCHANGED <<phase, refs, rests>>,
         NEW f \in Fetches, Running(f), Nested(f) # <<>>, Top(f) # "rest", Pop(f),
         agenda' = After(<<OfFetch("obtained", f), Free(Top(f), f)>>, agenda),
         agenda # <<>> => agenda[1].do # "free" /\ agenda[1].do # "unref"
  PROVE  Books'
<1> DEFINE x == OfFetch("obtained", f)
           y == Free(Top(f), f)
           h == Hold(fetches[f].call, fetches[f].raw, Top(f))
<1>1. x \in Entries /\ x.do = "obtained"
  BY ObtainedEntry
<1>2. /\ y \in Entries /\ y.do = "free"
      /\ Hold(y.call, y.raw, y.kind) = h
  BY FreeEntry
<1>3. \A S : Cardinality(NestedIn(fetches, S)) = Cardinality(NestedIn(fetches', S)) + One(h \in S)
  BY PopNests
<1>4. agenda' = After(<<x, y>>, agenda)
  OBVIOUS
<1> HIDE DEF x, y, h
<1>5. agenda \in Seq(Entries) /\ <<x, y>> \in Seq(Entries) /\ <<x, y>>[1] = x
  BY <1>1, <1>2 DEF Shape, Types
<1>6. ASSUME NEW S PROVE Count(agenda', Freed(S)) = Count(agenda, Freed(S)) + One(h \in S)
  <2>1. Count(<<x, y>>, Freed(S)) = One(h \in S)
    <3>1. Count(<<x, y>>, Freed(S)) = One(x \in Freed(S)) + One(y \in Freed(S))
      BY <1>1, <1>2, CountTwo
    <3>2. x \notin Freed(S) /\ (y \in Freed(S) <=> h \in S)
      BY <1>1, <1>2 DEF Freed
    <3> QED
      BY <3>1, <3>2 DEF One
  <2> DEFINE U == Freed(S)
  <2> HIDE DEF U
  <2>4. /\ Count(agenda, U) \in Nat /\ Count(After(<<x, y>>, agenda), U) \in Nat
        /\ agenda = <<>> => Count(agenda, U) = 0 /\ Count(After(<<x, y>>, agenda), U) = Count(<<x, y>>, U)
        /\ agenda # <<>> => Count(After(<<x, y>>, agenda), U) + One(agenda[1] \in U) =
                               Count(<<x, y>>, U) + Count(agenda, U)
    BY <1>5, CountAfter
  <2>2. /\ Count(agenda, Freed(S)) \in Nat /\ Count(agenda', Freed(S)) \in Nat
        /\ agenda = <<>> => Count(agenda, Freed(S)) = 0 /\ Count(agenda', Freed(S)) = Count(<<x, y>>, Freed(S))
        /\ agenda # <<>> => Count(agenda', Freed(S)) + One(agenda[1] \in Freed(S)) =
                               Count(<<x, y>>, Freed(S)) + Count(agenda, Freed(S))
    BY <1>4, <2>4 DEF U
  <2>3. agenda # <<>> => One(agenda[1] \in Freed(S)) = 0
    BY DEF Freed, One
  <2>5. One(h \in S) \in Nat
    BY DEF One
  <2> QED
    BY <2>1, <2>2, <2>3, <2>5
<1>7. SameUnreffed
  <2> SUFFICES ASSUME NEW C, NEW t PROVE Count(agenda', Unreffed(C, t)) = Count(agenda, Unreffed(C, t))
    BY DEF SameUnreffed
  <2> DEFINE U == Unreffed(C, t)
  <2>1. Count(<<x, y>>, U) = 0
    <3>1. Count(<<x, y>>, U) = One(x \in U) + One(y \in U)
      BY <1>1, <1>2, CountTwo
    <3>2. x \notin U /\ y \notin U
      BY <1>1, <1>2 DEF Unreffed
    <3> QED
      BY <3>1, <3>2 DEF One
  <2>3. agenda # <<>> => One(agenda[1] \in U) = 0
    BY DEF Unreffed, One
  <2> HIDE DEF U
  <2>4. /\ Count(agenda, U) \in Nat /\ Count(After(<<x, y>>, agenda), U) \in Nat
        /\ agenda = <<>> => Count(agenda, U) = 0 /\ Count(After(<<x, y>>, agenda), U) = Count(<<x, y>>, U)
        /\ agenda # <<>> => Count(After(<<x, y>>, agenda), U) + One(agenda[1] \in U) =
                               Count(<<x, y>>, U) + Count(agenda, U)
    BY <1>5, CountAfter
  <2>2. /\ Count(agenda, U) \in Nat /\ Count(agenda', U) \in Nat
        /\ agenda = <<>> => Count(agenda, U) = 0 /\ Count(agenda', U) = Count(<<x, y>>, U)
        /\ agenda # <<>> => Count(agenda', U) + One(agenda[1] \in U) = Count(<<x, y>>, U) + Count(agenda, U)
    BY <1>4, <2>4
  <2> QED
    BY <2>1, <2>2, <2>3 DEF U
<1>8. SameHeld
  <2> SUFFICES ASSUME NEW S PROVE Held(fetches', agenda', S) = Held(fetches, agenda, S)
    BY DEF SameHeld
  <2>1. /\ Cardinality(NestedIn(fetches, S)) \in Nat /\ Cardinality(NestedIn(fetches', S)) \in Nat
        /\ Count(agenda, Freed(S)) \in Nat
    BY <1>5, HeldIsNat
  <2>2. PICK n \in Nat : n = One(h \in S)
    BY DEF One
  <2>3. /\ Cardinality(NestedIn(fetches, S)) = Cardinality(NestedIn(fetches', S)) + n
        /\ Count(agenda', Freed(S)) = Count(agenda, Freed(S)) + n
    BY <1>3, <1>6, <2>2
  <2> QED
    BY <2>1, <2>3 DEF Held
<1>9. PhaseSteady
  BY PhaseSteadies
<1>10. Exact' /\ SameRaws
  <2>1. UNCHANGED <<refs, rests>> /\ Exact /\ Owned
    BY DEF Books
  <2> QED
    BY <1>7, <1>8, <1>9, <2>1, ExactStays
<1>11. GetFits'
  <2>1. <<x, y>> # <<>> => <<x, y>>[1].do # "get"
    BY <1>1, <1>5
  <2> QED
    BY <1>4, <1>5, <2>1, NoGet
<1> QED
  BY <1>10, <1>11 DEF Books, SameRaws

(* CallBack keeps Books.                                                   *)
LEMMA CallBackBooks == Shape /\ Shape' /\ Books /\ CallBack => Books'
<1> SUFFICES ASSUME Shape, Shape', Books, CallBack PROVE Books'
  OBVIOUS
<1>1. Now("obtained") /\ UNCHANGED <<phase, refs, rests>>
  BY DEF CallBack
<1>2. PICK f \in Fetches : f = Now1.fetch
  BY <1>1, NowFetches DEF Asks
<1>3. Running(f) /\ \A i \in 1 .. Len(Nested(f)) : Nested(f)[i] \notin Asking
  BY <1>1, <1>2, NowFetches DEF Asks
<1>4. Nested(f) # <<>> /\ Pop(f) /\ Then(<<OfFetch("obtained", f), Free(Top(f), f)>>)
  BY <1>2 DEF CallBack
<1>5. agenda # <<>> /\ agenda[1].do = "obtained" /\ Rest(agenda) = Tail(agenda)
  BY <1>1, Opening
<1>6. agenda' = After(<<OfFetch("obtained", f), Free(Top(f), f)>>, agenda)
  BY <1>4, <1>5 DEF Then, After
<1>7. Top(f) # "rest"
  <2>1. Len(Nested(f)) \in 1 .. Len(Nested(f))
    BY <1>3, <1>4, FetchOfTurn
  <2> QED
    BY <1>3, <2>1 DEF Top, Asking
<1>8. agenda # <<>> => agenda[1].do # "free" /\ agenda[1].do # "unref"
  BY <1>5
<1> QED
  BY <1>1, <1>3, <1>4, <1>6, <1>7, <1>8, PoppedBooks

(* NetAnswers keeps Books.                                                 *)
LEMMA NetAnswersBooks ==
  ASSUME Shape, Shape', Books, NEW f \in Fetches, NetAnswers(f)
  PROVE  Books'
<1>1. Waiting /\ Running(f) /\ Pop(f) /\ UNCHANGED <<phase, refs, rests>>
  BY DEF NetAnswers
<1>2. agenda = <<>> /\ (\A g : ~Turn(agenda, g)) /\ \A s \in Seq(Entries) : After(s, agenda) = s
  <2>1. Waiting
    BY <1>1
  <2> QED
    BY <2>1, WaitingOpening, Zenon
<1>3. Nested(f) # <<>>
  BY <1>1, <1>2, FetchOfTurn
<1> DEFINE x == OfFetch("obtained", f)
           y == Free(Top(f), f)
<1>4. agenda' = <<x>> \o (IF Top(f) = "rest" THEN <<>> ELSE <<y>>)
  BY DEF NetAnswers
<1>5. x \in Entries /\ x.do = "obtained" /\ y \in Entries
  BY <1>1, <1>3, ObtainedEntry, FreeEntry
<1>6. agenda # <<>> => agenda[1].do # "free" /\ agenda[1].do # "unref"
  BY <1>2
<1>7. CASE Top(f) = "rest"
  <2> HIDE DEF x, y
  <2>1. <<x>> \in Seq(Entries) /\ <<x>>[1] = x /\ Plain(<<x>>)
    BY <1>5, PlainAre
  <2>2. agenda' = After(<<x>>, agenda)
    <3>1. agenda' = <<x>>
      BY <1>4, <1>7
    <3> QED
      BY <1>2, <2>1, <3>1
  <2>3. SameNestedIn /\ PhaseSteady
    BY <1>1, <1>3, <1>7, PopNests, PhaseSteadies
  <2>4. UNCHANGED <<refs, rests>> /\ (<<x>> # <<>> => <<x>>[1].do # "get")
    BY <1>1, <1>5, <2>1
  <2> QED
    BY <1>6, <2>1, <2>2, <2>3, <2>4, SteadyBooks
<1>8. CASE Top(f) # "rest"
  <2>1. <<x, y>> \in Seq(Entries)
    BY <1>5
  <2>2. agenda' = <<x, y>>
    <3>1. agenda' = <<x>> \o <<y>>
      BY <1>4, <1>8
    <3> HIDE DEF x, y
    <3>2. <<x>> \o <<y>> = <<x, y>>
      BY <1>5, TwoInOne
    <3> QED
      BY <3>1, <3>2
  <2>3. After(<<x, y>>, agenda) = <<x, y>>
    BY <1>2, <2>1
  <2>4. agenda' = After(<<x, y>>, agenda)
    BY <2>2, <2>3
  <2> QED
    BY <1>1, <1>3, <1>6, <1>8, <2>4, PoppedBooks
<1> QED
  BY <1>7, <1>8

(* A fetch done next for a DataRef that is referred to fits.               *)
LEMMA GetOf ==
  ASSUME NEW f, NEW c, NEW s, agenda'[1].fetch = f, fetches'[f].call = c, fetches'[f].raw = s,
         ReadsNow({c}, s)' > 0
  PROVE  GetFits'
BY DEF GetFits, ReadsNow

(* A new DataRef, and what is to be done with it.                          *)
LEMMA NewRawBooks ==
  ASSUME Shape, Shape', Books, PhaseSteady, SameNestedIn, rests' = rests,
         NEW c \in Calls, NEW s \in Raws, refs.raw[s] = 0, refs' = NewRaw(c, s),
         NEW t \in Seq(Entries), agenda' = After(t, agenda),
         agenda # <<>>, agenda[1].do # "free", agenda[1].do # "unref",
         \A S : Count(t, Freed(S)) = 0,
         \A C, u : Count(t, Unreffed(C, u)) = One(c \in C /\ s = u)
  PROVE  Exact' /\ Owned' /\ ReadsNow({c}, s)' > 0
<1>1. agenda \in Seq(Entries)
  BY DEF Shape, Types
<1>2. ASSUME NEW S PROVE Count(After(t, agenda), Freed(S)) = Count(agenda, Freed(S))
  <2> DEFINE U == Freed(S)
  <2>1. One(agenda[1] \in U) = 0
    BY DEF Freed, One
  <2>2. Count(t, U) = 0
    OBVIOUS
  <2> HIDE DEF U
  <2>3. /\ Count(agenda, U) \in Nat /\ Count(After(t, agenda), U) \in Nat
        /\ Count(After(t, agenda), U) + One(agenda[1] \in U) = Count(t, U) + Count(agenda, U)
    BY <1>1, CountAfter
  <2>4. Count(After(t, agenda), U) = Count(agenda, U)
    BY <2>1, <2>2, <2>3
  <2> QED
    BY <2>4 DEF U
<1>3. ASSUME NEW C, NEW u
      PROVE  Count(After(t, agenda), Unreffed(C, u)) = Count(agenda, Unreffed(C, u)) + One(c \in C /\ s = u)
  <2> DEFINE U == Unreffed(C, u)
  <2>1. One(agenda[1] \in U) = 0
    BY DEF Unreffed, One
  <2>2. PICK n \in Nat : n = One(c \in C /\ s = u)
    BY DEF One
  <2>3. Count(t, U) = n
    BY <2>2
  <2> HIDE DEF U
  <2>4. /\ Count(agenda, U) \in Nat /\ Count(After(t, agenda), U) \in Nat
        /\ Count(After(t, agenda), U) + One(agenda[1] \in U) = Count(t, U) + Count(agenda, U)
    BY <1>1, CountAfter
  <2>5. Count(After(t, agenda), U) = Count(agenda, U) + n
    BY <2>1, <2>3, <2>4
  <2> QED
    BY <2>2, <2>5 DEF U
<1>4. SameHeld
  <2>1. \A S : Count(agenda', Freed(S)) = Count(agenda, Freed(S))
    BY <1>2
  <2> QED
    BY <2>1 DEF SameHeld, Held, SameNestedIn
<1>5. MoreUnreffed(c, s)
  BY <1>3 DEF MoreUnreffed
<1>6. Exact /\ Owned
  BY DEF Books
<1> QED
  BY <1>4, <1>5, <1>6, ExactNew

(* OperationCall keeps Books.                                              *)
LEMMA OperationCallBooks == Shape /\ Shape' /\ Books /\ OperationCall => Books'
<1> SUFFICES ASSUME Shape, Shape', Books, OperationCall PROVE Books'
  OBVIOUS
<1>1. Now("call") /\ UNCHANGED rests
  BY DEF OperationCall
<1>2. PICK c \in Calls : c = Now1.call
  BY <1>1, NowCalls DEF CallSteps
<1>3. /\ phase[c] = "begun" /\ agenda # <<>> /\ agenda[1].do = "call" /\ Rest(agenda) = Tail(agenda)
  BY <1>1, <1>2, Opening DEF Fits
<1>4. CASE ExecuteCall(c) /\ UNCHANGED <<fetches, refs>>
  <2>1. PhaseSteady /\ (Then(<<>>) \/ \E d \in CallSteps, e \in Calls : Then(<<OfCall(d, e)>>))
    BY <1>3, <1>4, ExecuteGoes
  <2> QED
    BY <1>1, <1>4, <2>1, NestedSteadies, SteadyStep
<1>5. ASSUME NEW s \in Raws, NEW f \in Fetches, refs.raw[s] = 0, ~Running(f), GoTo(c, "query"),
             refs' = NewRaw(c, s),
             fetches' = [fetches EXCEPT ![f] = [call |-> c, raw |-> s, nested |-> <<>>]],
             Then(<<OfFetch("get", f), WithRaw("unref", c, s)>>)
      PROVE  Books'
  <2> DEFINE x == OfFetch("get", f)
             y == WithRaw("unref", c, s)
             r == [call |-> c, raw |-> s, nested |-> <<>>]
  <2>1. x \in Entries /\ x.do = "get" /\ x.fetch = f
    BY EntriesMade DEF OfFetch, Asks
  <2>2. y \in Entries /\ y.do = "unref" /\ y.call = c /\ y.raw = s
    BY EntriesMade DEF WithRaw
  <2>3. agenda' = After(<<x, y>>, agenda)
    BY <1>3, <1>5 DEF Then, After
  <2>4. PhaseSteady /\ SameNestedIn
    <3>1. "query" \in Phases /\ phase' = [phase EXCEPT ![c] = "query"]
      BY <1>5 DEF Phases, GoTo
    <3>2. fetches[f] = NoFetch /\ r.nested = <<>> /\ fetches' = [fetches EXCEPT ![f] = r]
      BY <1>5 DEF Running
    <3> HIDE DEF r
    <3> QED
      BY <1>3, <3>1, <3>2, PhaseSteadies, NestedSteadies
  <2>5. fetches'[f].call = c /\ fetches'[f].raw = s
    <3>1. fetches'[f] = r
      BY <1>5 DEF Shape, Types
    <3> QED
      BY <3>1
  <2> HIDE DEF x, y, r
  <2>6. <<x, y>> \in Seq(Entries) /\ <<x, y>> # <<>> /\ <<x, y>>[1] = x
    BY <2>1, <2>2
  <2>7. \A S : Count(<<x, y>>, Freed(S)) = 0
    <3> SUFFICES ASSUME NEW S PROVE Count(<<x, y>>, Freed(S)) = 0
      OBVIOUS
    <3>1. Count(<<x, y>>, Freed(S)) = One(x \in Freed(S)) + One(y \in Freed(S))
      BY <2>1, <2>2, CountTwo
    <3>2. x \notin Freed(S) /\ y \notin Freed(S)
      BY <2>1, <2>2 DEF Freed
    <3> QED
      BY <3>1, <3>2 DEF One
  <2>8. \A C, u : Count(<<x, y>>, Unreffed(C, u)) = One(c \in C /\ s = u)
    <3> SUFFICES ASSUME NEW C, NEW u PROVE Count(<<x, y>>, Unreffed(C, u)) = One(c \in C /\ s = u)
      OBVIOUS
    <3>1. Count(<<x, y>>, Unreffed(C, u)) = One(x \in Unreffed(C, u)) + One(y \in Unreffed(C, u))
      BY <2>1, <2>2, CountTwo
    <3>2. x \notin Unreffed(C, u) /\ (y \in Unreffed(C, u) <=> c \in C /\ s = u)
      BY <2>1, <2>2 DEF Unreffed
    <3> QED
      BY <3>1, <3>2 DEF One
  <2>9. Exact' /\ Owned' /\ ReadsNow({c}, s)' > 0
    <3>1. refs.raw[s] = 0 /\ refs' = NewRaw(c, s) /\ rests' = rests
      BY <1>1, <1>5
    <3>2. agenda # <<>> /\ agenda[1].do # "free" /\ agenda[1].do # "unref"
      BY <1>3
    <3> QED
      BY <2>3, <2>4, <2>6, <2>7, <2>8, <3>1, <3>2, NewRawBooks
  <2>10. GetFits'
    <3>1. agenda'[1] = x
      <4>1. agenda \in Seq(Entries) /\ AgendaFits(phase, agenda)
        BY DEF Shape, Types
      <4> QED
        BY <2>3, <2>6, <4>1, NewHead
    <3>2. agenda'[1].fetch = f
      BY <2>1, <3>1
    <3> QED
      BY <2>5, <2>9, <3>2, GetOf
  <2> QED
    BY <2>9, <2>10 DEF Books
<1> QED
  BY <1>2, <1>4, <1>5 DEF OperationCall

(* The innermost becomes another that is alike.                            *)
LEMMA BecomeNests ==
  ASSUME Shape, NEW f \in Fetches, Running(f), Nested(f) # <<>>, NEW kind \in Kinds, Become(f, kind),
         Top(f) # "rest", kind # "rest", Class(kind) = Class(Top(f))
  PROVE  /\ SameNestedIn
         /\ \E p \in Nesting(fetches') : HoldAt(fetches', p) = Hold(fetches[f].call, fetches[f].raw, kind)
         /\ fetches'[f].call = fetches[f].call /\ fetches'[f].raw = fetches[f].raw
<1> DEFINE m == Nested(f)
           n == [m EXCEPT ![Len(m)] = kind]
           c == fetches[f].call
           s == fetches[f].raw
<1>1. /\ m \in Seq(Kinds) /\ Len(m) \in Nat /\ Len(m) <= MaxDepth /\ Len(m) > 0
      /\ fetches[f] \in FetchRecords /\ m = fetches[f].nested
  BY FetchOfTurn
<1>2. /\ n \in Seq(Kinds) /\ Len(n) = Len(m)
      /\ \A i \in 1 .. Len(m) : n[i] = IF i = Len(m) THEN kind ELSE m[i]
  BY <1>1, Innermost
<1>3. fetches' = [fetches EXCEPT ![f].nested = n]
  BY DEF Become, Nested
<1>4. fetches \in [Fetches -> {NoFetch} \cup FetchRecords]
  BY DEF Shape, Types
<1> HIDE DEF n
<1>5. fetches[f] = FetchOf(c, s, m) /\ fetches'[f] = FetchOf(c, s, n)
  BY <1>1, <1>3, <1>4 DEF FetchRecords, FetchOf
<1>6. \A g \in Fetches : g # f => fetches'[g] = fetches[g]
  BY <1>3, <1>4
<1>7. \A i \in 1 .. Len(m) : (m[i] = "rest" <=> n[i] = "rest") /\ Class(m[i]) = Class(n[i])
  BY <1>2 DEF Top
<1> HIDE DEF m, c, s
<1>8. \A S : NestedIn(fetches', S) = NestedIn(fetches, S)
  <2> DEFINE A == fetches
             B == fetches'
  <2>1. /\ A[f] = FetchOf(c, s, m) /\ B[f] = FetchOf(c, s, n)
        /\ \A g \in Fetches : g # f => B[g] = A[g]
    BY <1>5, <1>6
  <2>2. Len(n) = Len(m) /\ m \in Seq(Kinds) /\ n \in Seq(Kinds)
    BY <1>1, <1>2
  <2> HIDE DEF A, B
  <2>3. \A S : NestedIn(B, S) = NestedIn(A, S)
    BY <1>7, <2>1, <2>2, NestsAlike
  <2> QED
    BY <2>3 DEF A, B
<1>9. \E p \in Nesting(fetches') : HoldAt(fetches', p) = Hold(c, s, kind)
  <2>1. PICK k \in 1 .. MaxDepth : k = Len(m)
    BY <1>1, BoundsAssumption
  <2>2. fetches'[f] # NoFetch /\ fetches'[f].nested = n /\ fetches'[f].call = c /\ fetches'[f].raw = s
    BY <1>5 DEF FetchOf, NoFetch
  <2>3. k \in DOMAIN n /\ n[k] = kind
    BY <1>1, <1>2, <2>1, LenProperties
  <2>4. <<f, k>> \in Fetches \X (1 .. MaxDepth) /\ <<f, k>>[1] = f /\ <<f, k>>[2] = k
    OBVIOUS
  <2>5. <<f, k>> \in Nesting(fetches')
    BY <2>2, <2>3, <2>4 DEF Nesting
  <2>6. HoldAt(fetches', <<f, k>>) = Hold(c, s, kind)
    BY <2>2, <2>3, <2>4 DEF HoldAt
  <2> QED
    BY <2>5, <2>6
<1>10. fetches'[f].call = c /\ fetches'[f].raw = s
  BY <1>5 DEF FetchOf
<1> QED
  BY <1>8, <1>9, <1>10 DEF c, s, SameNestedIn

(* GoOn keeps Books.                                                       *)
LEMMA GoOnBooks == Shape /\ Shape' /\ Books /\ GoOn => Books'
<1> SUFFICES ASSUME Shape, Shape', Books, GoOn PROVE Books'
  OBVIOUS
<1>1. Now("obtained") /\ UNCHANGED <<phase, refs, rests>>
  BY DEF GoOn
<1>2. PICK f \in Fetches : f = Now1.fetch
  BY <1>1, NowFetches DEF Asks
<1>3. Running(f) /\ fetches[f].call \in Calls /\ fetches[f].raw \in Raws
  BY <1>1, <1>2, NowFetches DEF Asks
<1>4. agenda # <<>> /\ agenda[1].do = "obtained" /\ Rest(agenda) = Tail(agenda)
  BY <1>1, Opening
<1>5. /\ Nested(f) # <<>>
      /\ \/ Top(f) = "regexp" /\ Become(f, "input") /\ Then(<<OfFetch("get", f)>>)
         \/ Top(f) = "url" /\ Become(f, "requested") /\ Then(<<>>)
  BY <1>2 DEF GoOn
<1>6. /\ "input" \in Kinds /\ "requested" \in Kinds
      /\ Class("input") = "reader" /\ Class("regexp") = "reader"
      /\ Class("url") = "other" /\ Class("requested") = "other"
  BY DEF Kinds, Class, Expressions
<1>7. PhaseSteady
  BY <1>1, PhaseSteadies
<1>8. CASE Top(f) = "regexp" /\ Become(f, "input") /\ Then(<<OfFetch("get", f)>>)
  <2>0. PICK c \in Calls, s \in Raws : c = fetches[f].call /\ s = fetches[f].raw
    BY <1>3
  <2> DEFINE x == OfFetch("get", f)
  <2>1. x \in Entries /\ x.do = "get" /\ x.fetch = f
    BY EntriesMade DEF OfFetch, Asks
  <2>2. agenda' = After(<<x>>, agenda)
    BY <1>4, <1>8 DEF Then, After
  <2> HIDE DEF x
  <2>3. <<x>> \in Seq(Entries) /\ <<x>> # <<>> /\ <<x>>[1] = x /\ Plain(<<x>>)
    BY <2>1, PlainAre
  <2>4. /\ SameNestedIn
        /\ \E p \in Nesting(fetches') : HoldAt(fetches', p) = Hold(c, s, "input")
        /\ fetches'[f].call = c /\ fetches'[f].raw = s
    <3>1. Top(f) # "rest" /\ "input" # "rest" /\ Class("input") = Class(Top(f)) /\ Become(f, "input")
      BY <1>6, <1>8
    <3> QED
      BY <1>3, <1>5, <1>6, <2>0, <3>1, BecomeNests
  <2>5. Exact' /\ Owned'
    <3>1. UNCHANGED <<refs, rests>> /\ agenda[1].do # "free" /\ agenda[1].do # "unref"
      BY <1>1, <1>4
    <3> QED
      BY <1>7, <2>2, <2>3, <2>4, <3>1, SteadyBooks
  <2>6. ReadsNow({c}, s)' > 0
    <3>1. Hold(c, s, "input") = [call |-> c, raw |-> s, class |-> "reader"]
      BY <1>6 DEF Hold
    <3>2. agenda' \in Seq(Entries)
      BY DEF Shape, Types
    <3>3. Reads(fetches', agenda', {c}, s) > 0
      BY <1>3, <2>4, <3>1, <3>2, ReadSomewhere
    <3> QED
      BY <3>3 DEF ReadsNow
  <2>7. GetFits'
    <3>1. agenda'[1] = x
      <4>1. agenda \in Seq(Entries) /\ AgendaFits(phase, agenda)
        BY DEF Shape, Types
      <4> QED
        BY <2>2, <2>3, <4>1, NewHead
    <3>2. agenda'[1].fetch = f
      BY <2>1, <3>1
    <3> QED
      BY <2>4, <2>6, <3>2, GetOf
  <2> QED
    BY <2>5, <2>7 DEF Books
<1>9. CASE Top(f) = "url" /\ Become(f, "requested") /\ Then(<<>>)
  <2>1. SameNestedIn
    <3>1. /\ Top(f) # "rest" /\ "requested" # "rest" /\ Class("requested") = Class(Top(f))
          /\ Become(f, "requested")
      BY <1>6, <1>9
    <3> QED
      BY <1>3, <1>5, <1>6, <3>1, BecomeNests
  <2>2. Then(<<>>) /\ UNCHANGED <<refs, rests>>
    BY <1>1, <1>9
  <2> QED
    BY <1>1, <1>7, <2>1, <2>2, SteadyStep
<1> QED
  BY <1>5, <1>8, <1>9

(* A process data is made for what is nested.                              *)
LEMMA PushNests ==
  ASSUME Shape, NEW f \in Fetches, Running(f), NEW kind \in Kinds, Push(f, kind), Len(Nested(f)) < MaxDepth
  PROVE  /\ kind # "rest" => \A S : Cardinality(NestedIn(fetches', S)) =
                Cardinality(NestedIn(fetches, S)) + One(Hold(fetches[f].call, fetches[f].raw, kind) \in S)
         /\ kind = "rest" => SameNestedIn
         /\ fetches'[f].call = fetches[f].call /\ fetches'[f].raw = fetches[f].raw
<1> DEFINE m == Nested(f)
           n == Append(m, kind)
           c == fetches[f].call
           s == fetches[f].raw
           A == fetches
           B == fetches'
<1>1. /\ m \in Seq(Kinds) /\ Len(m) \in Nat /\ fetches[f] \in FetchRecords /\ m = fetches[f].nested
  BY FetchOfTurn
<1>2. /\ n \in Seq(Kinds) /\ Len(n) = Len(m) + 1 /\ n[Len(n)] = kind
      /\ \A i \in 1 .. Len(m) : n[i] = m[i]
  BY <1>1, AppendProperties
<1>3. fetches' = [fetches EXCEPT ![f].nested = n]
  BY DEF Push, Nested
<1>4. fetches \in [Fetches -> {NoFetch} \cup FetchRecords]
  BY DEF Shape, Types
<1> HIDE DEF n
<1>5. fetches[f] = FetchOf(c, s, m) /\ fetches'[f] = FetchOf(c, s, n)
  BY <1>1, <1>3, <1>4 DEF FetchRecords, FetchOf
<1>6. \A g \in Fetches : g # f => fetches'[g] = fetches[g]
  BY <1>3, <1>4
<1>7. Len(n) <= MaxDepth
  BY <1>1, <1>2, BoundsAssumption
<1> HIDE DEF m, c, s, A, B
<1>8. Grown(A, B, f, c, s, m, n, kind)
  BY <1>2, <1>5, <1>6, <1>7 DEF Grown, A, B
<1>9. /\ kind # "rest" => \A S : Cardinality(NestedIn(B, S)) =
                Cardinality(NestedIn(A, S)) + One(Hold(c, s, kind) \in S)
      /\ kind = "rest" => \A S : NestedIn(B, S) = NestedIn(A, S)
  BY <1>1, <1>2, <1>8, GrownNests
<1>10. fetches'[f].call = c /\ fetches'[f].raw = s
  BY <1>5 DEF FetchOf
<1> QED
  BY <1>9, <1>10 DEF A, B, c, s, SameNestedIn

(* GetNested keeps Books.                                                  *)
LEMMA GetNestedBooks == Shape /\ Shape' /\ Books /\ GetNested => Books'
<1> SUFFICES ASSUME Shape, Shape', Books, GetNested PROVE Books'
  OBVIOUS
<1>1. Now("get") /\ UNCHANGED <<phase, rests>>
  BY DEF GetNested
<1>2. PICK f \in Fetches : f = Now1.fetch
  BY <1>1, NowFetches DEF Asks
<1>3. PICK c \in Calls, s \in Raws : c = fetches[f].call /\ s = fetches[f].raw
  BY <1>1, <1>2, NowFetches DEF Asks
<1>4. Running(f)
  BY <1>1, <1>2, NowFetches DEF Asks
<1>5. /\ agenda # <<>> /\ agenda[1].do = "get" /\ agenda[1].fetch = f /\ Rest(agenda) = Tail(agenda)
  BY <1>1, <1>2, Opening
<1>6. PICK kind \in NestedKinds(f) : Push(f, kind) /\ refs' = Taken(kind, c, s)
  BY <1>2, <1>3 DEF GetNested
<1>7. kind \in Kinds /\ kind # "rest"
  BY DEF NestedKinds, Kinds, Expressions
<1> DEFINE x == OfFetch("get", f)
<1>8. Len(Nested(f)) < MaxDepth /\ agenda' = After(<<x>>, agenda)
  BY <1>2, <1>5 DEF GetNested, Then, After
<1>9. x \in Entries /\ x.do = "get" /\ x.fetch = f
  BY EntriesMade DEF OfFetch, Asks
<1> HIDE DEF x
<1>10. <<x>> \in Seq(Entries) /\ <<x>> # <<>> /\ <<x>>[1] = x /\ Plain(<<x>>)
  BY <1>9, PlainAre
<1>11. /\ \A S : Cardinality(NestedIn(fetches', S)) = Cardinality(NestedIn(fetches, S)) + One(Hold(c, s, kind) \in S)
       /\ fetches'[f].call = c /\ fetches'[f].raw = s
  BY <1>3, <1>4, <1>6, <1>7, <1>8, PushNests
<1>12. SameUnreffed /\ MoreHeld(Hold(c, s, kind))
  <2>1. agenda # <<>> => agenda[1].do # "free" /\ agenda[1].do # "unref"
    BY <1>5
  <2>2. agenda' = After(<<x>>, agenda) /\ <<x>> \in Seq(Entries) /\ Plain(<<x>>)
    BY <1>8, <1>10
  <2>3. /\ SameUnreffed
        /\ \A h : (\A S : Cardinality(NestedIn(fetches', S)) = Cardinality(NestedIn(fetches, S)) + One(h \in S))
                   => MoreHeld(h)
    BY <2>1, <2>2, PlainSteady
  <2> QED
    BY <1>11, <2>3
<1>13. ReadsNow({c}, s) > 0
  BY <1>3, <1>5 DEF Books, GetFits
<1>14. Exact' /\ SameRaws /\ ReadsNow({c}, s)' > 0
  <2>1. PhaseSteady
    BY <1>1, PhaseSteadies
  <2>2. Exact /\ Owned /\ rests' = rests /\ refs' = Taken(kind, c, s)
    BY <1>1, <1>6 DEF Books
  <2> QED
    BY <1>12, <1>13, <2>1, <2>2, ExactTake
<1>15. GetFits'
  <2>1. agenda'[1] = x
    <3>1. agenda \in Seq(Entries) /\ AgendaFits(phase, agenda)
      BY DEF Shape, Types
    <3> QED
      BY <1>8, <1>10, <3>1, NewHead
  <2>2. agenda'[1].fetch = f
    BY <1>9, <2>1
  <2> QED
    BY <1>11, <1>14, <2>2, GetOf
<1> QED
  BY <1>14, <1>15 DEF Books, SameRaws

(* Key keeps Books.                                                        *)
LEMMA KeyBooks == Shape /\ Shape' /\ Books /\ Key => Books'
<1> SUFFICES ASSUME Shape, Shape', Books, Key PROVE Books'
  OBVIOUS
<1>1. Now("key") /\ UNCHANGED <<phase, refs, rests>>
  BY DEF Key
<1>2. PICK c \in Calls : c = Now1.call
  BY <1>1, NowCalls
<1>3. /\ agenda # <<>> /\ agenda[1].do = "key" /\ agenda[1].call = c /\ Rest(agenda) = Tail(agenda)
      /\ agenda[1] \in Entries /\ Now1 = agenda[1] /\ agenda \in Seq(Entries) /\ 1 \in 1 .. Len(agenda)
  BY <1>1, <1>2, Opening
<1>4. PICK s \in Raws : s = agenda[1].raw
  BY <1>3, EntryTypes
<1>5. PhaseSteady
  BY <1>1, PhaseSteadies
<1>6. CASE Then(<<OfCall("run", c)>>) /\ UNCHANGED fetches
  <2>1. \E d \in CallSteps, e \in Calls : Then(<<OfCall(d, e)>>)
    BY <1>6 DEF CallSteps
  <2> QED
    BY <1>1, <1>5, <1>6, <2>1, NestedSteadies, SteadyStep
<1>7. ASSUME NEW f \in Fetches, ~Running(f),
             fetches' = [fetches EXCEPT ![f] = [call |-> c, raw |-> s, nested |-> <<>>]],
             Then(<<OfFetch("get", f)>>)
      PROVE  Books'
  <2> DEFINE x == OfFetch("get", f)
             r == [call |-> c, raw |-> s, nested |-> <<>>]
  <2>1. x \in Entries /\ x.do = "get" /\ x.fetch = f
    BY EntriesMade DEF OfFetch, Asks
  <2>2. agenda' = After(<<x>>, agenda)
    BY <1>3, <1>7 DEF Then, After
  <2>3. fetches'[f].call = c /\ fetches'[f].raw = s
    <3>1. fetches'[f] = r
      BY <1>7 DEF Shape, Types
    <3> QED
      BY <3>1
  <2>4. SameNestedIn
    <3>1. fetches[f] = NoFetch /\ r.nested = <<>> /\ fetches' = [fetches EXCEPT ![f] = r]
      BY <1>7 DEF Running
    <3> HIDE DEF r
    <3> QED
      BY <3>1, NestedSteadies
  <2> HIDE DEF x, r
  <2>5. <<x>> \in Seq(Entries) /\ <<x>> # <<>> /\ <<x>>[1] = x /\ Plain(<<x>>)
    BY <2>1, PlainAre
  <2>6. Exact' /\ Owned' /\ SameReads
    <3>1. UNCHANGED <<refs, rests>> /\ agenda[1].do # "free" /\ agenda[1].do # "unref"
      BY <1>1, <1>3
    <3> QED
      BY <1>5, <2>2, <2>4, <2>5, <3>1, SteadyBooks
  <2>7. ReadsNow({c}, s) > 0
    <3>1. \E j \in 1 + 1 .. Len(agenda) : agenda[j] = WithRaw("unref", agenda[1].call, agenda[1].raw)
      BY <1>3 DEF Shape, AgendaFits
    <3>2. \E j \in 1 .. Len(agenda) : agenda[j] = WithRaw("unref", c, s)
      BY <1>3, <1>4, <3>1
    <3>3. Reads(fetches, agenda, {c}, s) > 0
      BY <1>3, <3>2, ReadSomewhere
    <3> QED
      BY <3>3 DEF ReadsNow
  <2>8. ReadsNow({c}, s)' > 0
    BY <2>6, <2>7 DEF SameReads
  <2>9. GetFits'
    <3>1. agenda'[1] = x
      <4>1. agenda \in Seq(Entries) /\ AgendaFits(phase, agenda)
        BY DEF Shape, Types
      <4> QED
        BY <2>2, <2>5, <4>1, NewHead
    <3>2. agenda'[1].fetch = f
      BY <2>1, <3>1
    <3> QED
      BY <2>3, <2>8, <3>2, GetOf
  <2> QED
    BY <2>6, <2>9 DEF Books
<1> QED
  BY <1>2, <1>3, <1>4, <1>6, <1>7 DEF Key

(* A request to a REST service keeps the source.                           *)
LEMMA ExactRest ==
  ASSUME Shape, Shape', Exact, Owned, SameHeld, SameUnreffed, PhaseSteady,
         rests' = rests + 1, refs' = [refs EXCEPT !.source = @ + 1]
  PROVE  Exact' /\ Owned'
<1>1. SameReads /\ SameRaws
  BY ReadsChange, RawsStay
<1>2. /\ \A S : HeldNow(S)' = HeldNow(S)
      /\ \A C, s : ReadsNow(C, s)' = ReadsNow(C, s)
      /\ \A d \in Calls : RawsNow(d)' = RawsNow(d)
      /\ \A d \in Calls : One(Going(d))' = One(Going(d))
      /\ Overs(phase') = Overs(phase)
  BY <1>1 DEF SameHeld, HeldNow, SameReads, SameRaws, PhaseSteady
<1>3. Outer \in Calls
  BY DEF Calls
<1>4. /\ refs \in RefRecords /\ refs' \in RefRecords
      /\ refs'.source = refs.source + 1 /\ refs'.cancellable = refs.cancellable
      /\ refs'.expand = refs.expand /\ refs'.raw = refs.raw
  BY DEF Exact, RefRecords
<1>5. refs'.source = 1 + HeldNow(Holds)' + rests'
  <2>1. refs.source = 1 + HeldNow(Holds) + rests /\ HeldNow(Holds) \in Nat /\ rests \in Int
    BY NowIsNat, BoundsAssumption DEF Exact, Shape, Types
  <2> QED
    BY <1>2, <1>4, <2>1
<1>6. Exact'
  BY <1>2, <1>3, <1>4, <1>5 DEF Exact
<1> QED
  BY <1>1, <1>6 DEF SameRaws

(* GetRest keeps Books.                                                    *)
LEMMA GetRestBooks == Shape /\ Shape' /\ Books /\ GetRest => Books'
<1> SUFFICES ASSUME Shape, Shape', Books, GetRest PROVE Books'
  OBVIOUS
<1>1. Now("get") /\ UNCHANGED phase /\ rests' = rests + 1 /\ refs' = [refs EXCEPT !.source = @ + 1]
  BY DEF GetRest
<1>2. PICK f \in Fetches : f = Now1.fetch
  BY <1>1, NowFetches DEF Asks
<1>3. Running(f)
  BY <1>1, <1>2, NowFetches DEF Asks
<1>4. /\ agenda # <<>> /\ agenda[1].do = "get" /\ Rest(agenda) = Tail(agenda)
  BY <1>1, <1>2, Opening
<1>5. /\ Len(Nested(f)) < MaxDepth
      /\ \/ Push(f, "rest") /\ Then(<<>>)
         \/ UNCHANGED fetches /\ Then(<<OfFetch("obtained", f)>>)
  BY <1>2 DEF GetRest
<1>6. SameNestedIn
  <2>1. "rest" \in Kinds
    BY DEF Kinds
  <2> QED
    BY <1>3, <1>5, <2>1, PushNests, NestedSteadies
<1>7. \E s \in Seq(Entries) : agenda' = After(s, agenda) /\ Plain(s) /\ (s # <<>> => s[1].do # "get")
  <2>1. CASE Then(<<>>)
    <3>1. agenda' = After(<<>>, agenda) /\ <<>> \in Seq(Entries) /\ Plain(<<>>)
      BY <1>4, <2>1, PlainAre DEF Then, After
    <3> QED
      BY <3>1
  <2>2. CASE Then(<<OfFetch("obtained", f)>>)
    <3> DEFINE x == OfFetch("obtained", f)
    <3>1. agenda' = After(<<x>>, agenda)
      BY <1>4, <2>2 DEF Then, After
    <3>2. x \in Entries /\ x.do = "obtained"
      BY ObtainedEntry
    <3> HIDE DEF x
    <3>3. <<x>> \in Seq(Entries) /\ <<x>>[1] = x /\ Plain(<<x>>)
      BY <3>2, PlainAre
    <3> QED
      BY <3>1, <3>2, <3>3
  <2> QED
    BY <1>5, <2>1, <2>2
<1>8. PICK s \in Seq(Entries) : agenda' = After(s, agenda) /\ Plain(s) /\ (s # <<>> => s[1].do # "get")
  BY <1>7
<1>9. SameHeld /\ SameUnreffed
  <2>1. agenda # <<>> => agenda[1].do # "free" /\ agenda[1].do # "unref"
    BY <1>4
  <2> QED
    BY <1>6, <1>8, <2>1, PlainSteady
<1>10. Exact' /\ Owned'
  <2>1. PhaseSteady /\ Exact /\ Owned
    BY <1>1, PhaseSteadies DEF Books
  <2>2. rests' = rests + 1 /\ refs' = [refs EXCEPT !.source = @ + 1]
    BY <1>1
  <2> QED
    BY <1>9, <2>1, <2>2, ExactRest
<1>11. GetFits'
  BY <1>8, NoGet
<1> QED
  BY <1>10, <1>11 DEF Books

(* The current function is done.                                           *)
LEMMA HeadGoes ==
  ASSUME Shape, agenda # <<>>, agenda' = After(<<>>, agenda)
  PROVE  /\ \A U : Count(agenda', U) + One(agenda[1] \in U) = Count(agenda, U)
         /\ \A U : Count(agenda', U) \in Nat /\ Count(agenda, U) \in Nat
<1>1. agenda \in Seq(Entries) /\ <<>> \in Seq(Entries)
  BY DEF Shape, Types
<1>2. ASSUME NEW U
      PROVE  /\ Count(agenda', U) + One(agenda[1] \in U) = Count(agenda, U)
             /\ Count(agenda', U) \in Nat /\ Count(agenda, U) \in Nat
  <2>1. /\ Count(agenda, U) \in Nat /\ Count(After(<<>>, agenda), U) \in Nat
        /\ Count(After(<<>>, agenda), U) + One(agenda[1] \in U) = Count(<<>>, U) + Count(agenda, U)
    BY <1>1, CountAfter
  <2>2. Count(<<>>, U) = 0
    BY CountEmpty
  <2> QED
    BY <2>1, <2>2
<1> QED
  BY <1>2

(* FreeProcess keeps Books.                                                *)
LEMMA FreeProcessBooks == Shape /\ Shape' /\ Books /\ FreeProcess => Books'
<1> SUFFICES ASSUME Shape, Shape', Books, FreeProcess PROVE Books'
  OBVIOUS
<1>1. Now("free") /\ Alive /\ Then(<<>>) /\ UNCHANGED <<phase, fetches, rests>>
  BY DEF FreeProcess
<1>2. /\ agenda # <<>> /\ agenda[1].do = "free" /\ Rest(agenda) = Tail(agenda)
      /\ agenda[1] \in Entries /\ Now1 = agenda[1]
  BY <1>1, Opening
<1>3. PICK c \in Calls, s \in Raws : c = agenda[1].call /\ s = agenda[1].raw
  BY <1>2, EntryTypes DEF Asks
<1>4. refs' = Dropped(agenda[1]) /\ agenda' = After(<<>>, agenda)
  BY <1>1, <1>2 DEF FreeProcess, Then, After
<1> DEFINE h == Hold(c, s, agenda[1].kind)
<1>5. \A S : agenda[1] \in Freed(S) <=> h \in S
  BY <1>2, <1>3 DEF Freed
<1>6. \A C, t : agenda[1] \notin Unreffed(C, t)
  BY <1>2 DEF Unreffed
<1> HIDE DEF h
<1>7. /\ \A U : Count(agenda', U) + One(agenda[1] \in U) = Count(agenda, U)
      /\ \A U : Count(agenda', U) \in Nat /\ Count(agenda, U) \in Nat
  BY <1>2, <1>4, HeadGoes
<1>8. FewerHeld(h)
  <2> SUFFICES ASSUME NEW S PROVE Held(fetches', agenda', S) + One(h \in S) = Held(fetches, agenda, S)
    BY DEF FewerHeld
  <2>1. Count(agenda', Freed(S)) + One(h \in S) = Count(agenda, Freed(S))
    <3>1. One(agenda[1] \in Freed(S)) = One(h \in S)
      BY <1>5 DEF One
    <3> QED
      BY <1>7, <3>1
  <2>2. Cardinality(NestedIn(fetches, S)) \in Nat
    BY HeldIsNat DEF Shape, Types
  <2>3. PICK n \in Nat : n = One(h \in S)
    BY DEF One
  <2>4. fetches' = fetches /\ Count(agenda', Freed(S)) \in Nat
    BY <1>1, <1>7
  <2> QED
    BY <2>1, <2>2, <2>3, <2>4 DEF Held
<1>9. SameUnreffed
  <2>1. ASSUME NEW C, NEW t PROVE Count(agenda', Unreffed(C, t)) = Count(agenda, Unreffed(C, t))
    <3> DEFINE U == Unreffed(C, t)
    <3>1. One(agenda[1] \in U) = 0
      BY <1>6 DEF One
    <3> HIDE DEF U
    <3>2. Count(agenda', U) = Count(agenda, U)
      BY <1>7, <3>1
    <3> QED
      BY <3>2 DEF U
  <2> QED
    BY <2>1 DEF SameUnreffed
<1>10. Exact' /\ Owned'
  <2>1. PhaseSteady /\ Exact /\ Owned /\ rests' = rests /\ Alive
    BY <1>1, PhaseSteadies DEF Books
  <2>2. agenda[1].call = c /\ agenda[1].raw = s /\ FewerHeld(Hold(c, s, agenda[1].kind))
    BY <1>3, <1>8 DEF h
  <2> QED
    BY <1>4, <1>9, <2>1, <2>2, ExactDrop
<1>11. GetFits'
  <2>1. <<>> \in Seq(Entries)
    OBVIOUS
  <2> QED
    BY <1>4, <2>1, NoGet
<1> QED
  BY <1>10, <1>11 DEF Books

(* Unref keeps Books.                                                      *)
LEMMA UnrefBooks == Shape /\ Shape' /\ Books /\ Unref => Books'
<1> SUFFICES ASSUME Shape, Shape', Books, Unref PROVE Books'
  OBVIOUS
<1>1. Now("unref") /\ Then(<<>>) /\ UNCHANGED <<phase, fetches, rests>>
  BY DEF Unref
<1>2. /\ agenda # <<>> /\ agenda[1].do = "unref" /\ Rest(agenda) = Tail(agenda)
      /\ agenda[1] \in Entries /\ Now1 = agenda[1]
  BY <1>1, Opening
<1>3. PICK c \in Calls, s \in Raws : c = agenda[1].call /\ s = agenda[1].raw
  BY <1>2, EntryTypes DEF Asks
<1>4. /\ refs' = [refs EXCEPT !.raw[s] = @ - 1, !.expand[c] = @ - One(refs.raw[s] = 1)]
      /\ agenda' = After(<<>>, agenda)
  BY <1>1, <1>2, <1>3 DEF Unref, Then, After
<1>5. \A S : agenda[1] \notin Freed(S)
  BY <1>2 DEF Freed
<1>6. \A C, t : agenda[1] \in Unreffed(C, t) <=> c \in C /\ s = t
  BY <1>2, <1>3 DEF Unreffed
<1>7. /\ \A U : Count(agenda', U) + One(agenda[1] \in U) = Count(agenda, U)
      /\ \A U : Count(agenda', U) \in Nat /\ Count(agenda, U) \in Nat
  BY <1>2, <1>4, HeadGoes
<1>8. SameHeld
  <2>1. ASSUME NEW S PROVE Count(agenda', Freed(S)) = Count(agenda, Freed(S))
    <3> DEFINE U == Freed(S)
    <3>1. One(agenda[1] \in U) = 0
      BY <1>5 DEF One
    <3> HIDE DEF U
    <3>2. Count(agenda', U) = Count(agenda, U)
      BY <1>7, <3>1
    <3> QED
      BY <3>2 DEF U
  <2> QED
    BY <1>1, <2>1 DEF SameHeld, Held
<1>9. FewerUnreffed(c, s)
  <2>1. ASSUME NEW C, NEW t
        PROVE  Count(agenda', Unreffed(C, t)) + One(c \in C /\ s = t) = Count(agenda, Unreffed(C, t))
    <3>1. One(agenda[1] \in Unreffed(C, t)) = One(c \in C /\ s = t)
      BY <1>6 DEF One
    <3>2. Count(agenda', Unreffed(C, t)) + One(agenda[1] \in Unreffed(C, t)) = Count(agenda, Unreffed(C, t))
      BY <1>7
    <3> QED
      BY <3>1, <3>2
  <2> QED
    BY <2>1 DEF FewerUnreffed
<1>10. Exact' /\ Owned'
  <2>1. PhaseSteady /\ Exact /\ Owned /\ rests' = rests
    BY <1>1, PhaseSteadies DEF Books
  <2>2. refs' = [refs EXCEPT !.raw[s] = @ - 1, !.expand[c] = @ - One(refs.raw[s] = 1)]
    BY <1>4
  <2> QED
    BY <1>8, <1>9, <2>1, <2>2, ExactUnref
<1>11. GetFits'
  <2>1. <<>> \in Seq(Entries)
    OBVIOUS
  <2> QED
    BY <1>4, <2>1, NoGet
<1> QED
  BY <1>10, <1>11 DEF Books

(* NewItem keeps Books.                                                    *)
LEMMA NewItemBooks == Shape /\ Shape' /\ Books /\ NewItem => Books'
<1> SUFFICES ASSUME Shape, Shape', Books, NewItem PROVE Books'
  OBVIOUS
<1>1. Now("item") /\ UNCHANGED <<phase, fetches, rests>>
  BY DEF NewItem
<1>2. /\ agenda # <<>> /\ agenda[1].do = "item" /\ Rest(agenda) = Tail(agenda)
  BY <1>1, Opening
<1>3. PICK c \in Calls : c = Now1.call
  BY <1>1, NowCalls DEF CallSteps
<1>4. PICK s \in Raws, n \in 0 .. MaxKeys, last \in BOOLEAN :
         refs.raw[s] = 0 /\ refs' = NewRaw(c, s) /\ Then(ItemEntries(c, s, n, last))
  BY <1>3 DEF NewItem, ItemEntries
<1> DEFINE t == ItemEntries(c, s, n, last)
<1>5. n \in Nat
  BY BoundsAssumption
<1>6. agenda' = After(t, agenda)
  BY <1>2, <1>4 DEF Then, After
<1>7. /\ t \in Seq(Entries) /\ Len(t) = n + IF last THEN 1 ELSE 2
      /\ \A i \in 1 .. n : t[i] = WithRaw("key", c, s)
      /\ t[n + 1] = WithRaw("unref", c, s)
      /\ ~last => t[n + 2] = OfCall("item", c)
  BY <1>5, ItemEntriesAre
<1> HIDE DEF t
<1>8. ASSUME NEW i \in 1 .. Len(t)
      PROVE  /\ t[i].do \in {"key", "unref", "item"}
             /\ t[i].do = "unref" => i = n + 1
  <2>1. i \in 1 .. n \/ i = n + 1 \/ (i = n + 2 /\ ~last)
    BY <1>5, <1>7
  <2> QED
    BY <1>7, <2>1 DEF WithRaw, OfCall
<1>9. /\ DOMAIN t = 1 .. Len(t) /\ n + 1 \in 1 .. Len(t) /\ t[n + 1] \in Entries
      /\ t[n + 1].do = "unref" /\ t[n + 1].call = c /\ t[n + 1].raw = s /\ 1 \in 1 .. Len(t)
  <2>1. n + 1 \in 1 .. Len(t) /\ 1 \in 1 .. Len(t)
    BY <1>5, <1>7
  <2> QED
    BY <1>7, <2>1, LenProperties, EntriesMade DEF WithRaw
<1>10. \A S : Count(t, Freed(S)) = 0
  <2> SUFFICES ASSUME NEW S PROVE Count(t, Freed(S)) = 0
    OBVIOUS
  <2>1. \A i \in 1 .. Len(t) : t[i] \notin Freed(S)
    BY <1>8 DEF Freed
  <2> QED
    BY <1>7, <2>1, CountNone
<1>11. \A C, u : Count(t, Unreffed(C, u)) = One(c \in C /\ s = u)
  <2> SUFFICES ASSUME NEW C, NEW u PROVE Count(t, Unreffed(C, u)) = One(c \in C /\ s = u)
    OBVIOUS
  <2>1. CASE c \in C /\ s = u
    <3>1. Occ(t, Unreffed(C, u)) = {n + 1}
      BY <1>8, <1>9, <2>1 DEF Occ, Unreffed
    <3> QED
      BY <2>1, <3>1, FS_Singleton DEF Count, One
  <2>2. CASE ~(c \in C /\ s = u)
    <3>1. Occ(t, Unreffed(C, u)) = {}
      BY <1>8, <1>9, <2>2 DEF Occ, Unreffed
    <3> QED
      BY <2>2, <3>1, FS_EmptySet DEF Count, One
  <2> QED
    BY <2>1, <2>2
<1>12. PhaseSteady /\ SameNestedIn
  BY <1>1, PhaseSteadies, NestedSteadies
<1>13. Exact' /\ Owned'
  <2>1. refs.raw[s] = 0 /\ refs' = NewRaw(c, s) /\ rests' = rests
    BY <1>1, <1>4
  <2>2. agenda # <<>> /\ agenda[1].do # "free" /\ agenda[1].do # "unref"
    BY <1>2
  <2> QED
    BY <1>6, <1>7, <1>10, <1>11, <1>12, <2>1, <2>2, NewRawBooks
<1>14. GetFits'
  <2>1. t # <<>> => t[1].do # "get"
    BY <1>8, <1>9
  <2> QED
    BY <1>6, <1>7, <2>1, NoGet
<1> QED
  BY <1>13, <1>14 DEF Books

(* Nothing is held for an operation that did not begin.                    *)
LEMMA IdleHolds ==
  ASSUME Shape, NEW c \in Calls, phase[c] = "idle"
  PROVE  HeldNow(OfOne(c)) = 0 /\ Cardinality(RawsNow(c)) = 0
<1>1. agenda \in Seq(Entries) /\ DOMAIN agenda = 1 .. Len(agenda)
  BY LenProperties DEF Shape, Types
<1>2. NestedIn(fetches, OfOne(c)) = {}
  <2>1. ASSUME NEW p \in NestedIn(fetches, OfOne(c)) PROVE FALSE
    <3>1. p[1] \in Fetches /\ fetches[p[1]] # NoFetch /\ fetches[p[1]].call = c
      BY DEF NestedIn, Nesting, HoldAt, Hold, OfOne
    <3> QED
      BY <3>1, FetchOfTurn DEF Running
  <2> QED
    BY <2>1
<1>3. \A i \in 1 .. Len(agenda) : agenda[i].do \in {"free", "unref"} => agenda[i].call # c
  BY DEF Shape, AgendaFits, Fits, Asks
<1>4. Occ(agenda, Freed(OfOne(c))) = {} /\ \A s : Occ(agenda, Unreffed({c}, s)) = {}
  BY <1>1, <1>3 DEF Occ, Freed, Unreffed, OfOne, Hold
<1>5. HeldNow(OfOne(c)) = 0
  BY <1>2, <1>4, FS_EmptySet DEF HeldNow, Held, Count
<1>6. ASSUME NEW s \in Raws PROVE ~(ReadsNow({c}, s) > 0)
  <2>1. ReadersOf({c}, s) \subseteq OfOne(c)
    BY DEF ReadersOf, OfOne
  <2>2. NestedIn(fetches, ReadersOf({c}, s)) = {} /\ Occ(agenda, Freed(ReadersOf({c}, s))) = {}
    <3>1. NestedIn(fetches, ReadersOf({c}, s)) \subseteq NestedIn(fetches, OfOne(c))
      BY <2>1 DEF NestedIn
    <3>2. Occ(agenda, Freed(ReadersOf({c}, s))) \subseteq Occ(agenda, Freed(OfOne(c)))
      BY <2>1 DEF Occ, Freed
    <3> QED
      BY <1>2, <1>4, <3>1, <3>2
  <2>3. ReadsNow({c}, s) = 0
    BY <1>1, <1>4, <2>2, ReadsIsNat DEF ReadsNow
  <2> QED
    BY <2>3
<1>7. RawsNow(c) = {}
  BY <1>6 DEF RawsNow, RawsIn, ReadsNow
<1> QED
  BY <1>5, <1>7, FS_EmptySet

(* An operation that begins takes one ExpandData and one cancellable.      *)
LEMMA ExactBegins ==
  ASSUME Shape, Shape', Exact, Owned, SameHeld, SameUnreffed, rests' = rests,
         NEW c \in Calls, phase[c] = "idle", phase' = [phase EXCEPT ![c] = "begun"], NEW n \in Nat,
         refs' = [cancellable |-> n, source |-> refs.source,
                  expand |-> [refs.expand EXCEPT ![c] = 1], raw |-> refs.raw],
         n + Cardinality(Overs(phase)) = One(c = Outer \/ Going(Outer)) + HeldNow(Holds)
  PROVE  Exact' /\ Owned'
<1>1. SameReads /\ SameRaws
  BY ReadsChange, RawsStay
<1>2. /\ \A S : HeldNow(S)' = HeldNow(S)
      /\ \A C, s : ReadsNow(C, s)' = ReadsNow(C, s)
      /\ \A d \in Calls : RawsNow(d)' = RawsNow(d)
  BY <1>1 DEF SameHeld, HeldNow, SameReads, SameRaws
<1>3. /\ \A d \in Calls : d # c => phase'[d] = phase[d]
      /\ phase'[c] = "begun" /\ Outer \in Calls /\ Resolves \subseteq Calls
  BY DEF Shape, Types, Calls
<1>4. Overs(phase') = Overs(phase)
  BY <1>3 DEF Overs
<1>5. /\ One(Going(c))' = 1 /\ One(Going(c)) = 0
      /\ \A d \in Calls : d # c => One(Going(d))' = One(Going(d))
      /\ One(Going(Outer))' = One(c = Outer \/ Going(Outer))
  BY <1>3 DEF One, Going
<1>6. /\ refs \in RefRecords /\ refs' \in RefRecords
      /\ refs'.source = refs.source /\ refs'.cancellable = n
      /\ refs'.expand[c] = 1 /\ (\A d \in Calls : d # c => refs'.expand[d] = refs.expand[d])
      /\ refs'.raw = refs.raw
  <2>1. refs \in RefRecords
    BY DEF Exact
  <2>2. refs.expand \in [Calls -> Int] /\ refs.raw \in [Raws -> Int] /\ refs.source \in Int
    BY <2>1 DEF RefRecords
  <2>3. [refs.expand EXCEPT ![c] = 1] \in [Calls -> Int]
    BY <2>2
  <2>4. refs' \in RefRecords
    BY <2>2, <2>3 DEF RefRecords
  <2> QED
    BY <2>1, <2>2, <2>4
<1>7. ASSUME NEW d \in Calls
      PROVE  refs'.expand[d] = One(Going(d))' + HeldNow(OfOne(d))' + Cardinality(RawsNow(d)')
  <2>1. CASE d = c
    <3>1. HeldNow(OfOne(d))' = 0 /\ Cardinality(RawsNow(d)') = 0
      BY <1>2, <2>1, IdleHolds
    <3> QED
      BY <1>5, <1>6, <2>1, <3>1
  <2>2. CASE d # c
    <3>1. HeldNow(OfOne(d))' = HeldNow(OfOne(d)) /\ RawsNow(d)' = RawsNow(d)
      BY <1>2
    <3>2. refs.expand[d] = One(Going(d)) + HeldNow(OfOne(d)) + Cardinality(RawsNow(d))
      BY DEF Exact
    <3> QED
      BY <1>5, <1>6, <2>2, <3>1, <3>2
  <2> QED
    BY <2>1, <2>2
<1>8. /\ refs'.source = 1 + HeldNow(Holds)' + rests'
      /\ refs'.cancellable + Cardinality(Overs(phase')) = One(Going(Outer))' + HeldNow(Holds)'
  <2>1. HeldNow(Holds)' = HeldNow(Holds)
    BY <1>2
  <2> QED
    BY <1>4, <1>5, <1>6, <2>1 DEF Exact
<1>9. ASSUME NEW s \in Raws PROVE refs'.raw[s] = ReadsNow(Calls, s)'
  BY <1>2, <1>6 DEF Exact
<1>10. Exact'
  BY <1>6, <1>7, <1>8, <1>9 DEF Exact
<1> QED
  BY <1>1, <1>10 DEF SameRaws

(* RunResolves keeps Books.                                                *)
LEMMA RunResolvesBooks == Shape /\ Shape' /\ Books /\ RunResolves => Books'
<1> SUFFICES ASSUME Shape, Shape', Books, RunResolves PROVE Books'
  OBVIOUS
<1>1. Now("run") /\ UNCHANGED <<fetches, rests>>
  BY DEF RunResolves
<1>2. /\ agenda # <<>> /\ agenda[1].do = "run" /\ Rest(agenda) = Tail(agenda)
  BY <1>1, Opening
<1>3. PICK r \in Resolves : /\ phase[r] = "idle" /\ phase' = [phase EXCEPT ![r] = "begun"]
                            /\ refs' = [refs EXCEPT !.expand[r] = 1]
                            /\ Then(<<OfCall("call", r)>>)
  BY DEF RunResolves, GoTo
<1> DEFINE x == OfCall("call", r)
<1>4. r \in Calls /\ r # Outer
  BY OuterAssumption DEF Calls
<1>5. x \in Entries /\ x.do = "call"
  BY <1>4, EntriesMade DEF OfCall, CallSteps
<1>6. agenda' = After(<<x>>, agenda)
  BY <1>2, <1>3 DEF Then, After
<1> HIDE DEF x
<1>7. <<x>> \in Seq(Entries) /\ <<x>>[1] = x /\ Plain(<<x>>)
  BY <1>5, PlainAre
<1>8. SameHeld /\ SameUnreffed
  <2>1. SameNestedIn
    BY <1>1, NestedSteadies
  <2>2. agenda # <<>> => agenda[1].do # "free" /\ agenda[1].do # "unref"
    BY <1>2
  <2> QED
    BY <1>6, <1>7, <2>1, <2>2, PlainSteady
<1>9. Exact' /\ Owned'
  <2>1. refs \in RefRecords /\ Exact /\ Owned
    BY DEF Books, Exact
  <2>2. PICK n \in Nat : n = refs.cancellable
    BY <2>1 DEF RefRecords
  <2>3. refs' = [cancellable |-> n, source |-> refs.source,
                 expand |-> [refs.expand EXCEPT ![r] = 1], raw |-> refs.raw]
    BY <1>3, <2>1, <2>2 DEF RefRecords
  <2>4. n + Cardinality(Overs(phase)) = One(r = Outer \/ Going(Outer)) + HeldNow(Holds)
    <3>1. One(r = Outer \/ Going(Outer)) = One(Going(Outer))
      BY <1>4 DEF One
    <3> QED
      BY <2>1, <2>2, <3>1 DEF Exact
  <2>5. phase[r] = "idle" /\ phase' = [phase EXCEPT ![r] = "begun"] /\ rests' = rests
    BY <1>1, <1>3
  <2> QED
    BY <1>4, <1>8, <2>1, <2>3, <2>4, <2>5, ExactBegins
<1>10. GetFits'
  <2>1. <<x>> # <<>> => <<x>>[1].do # "get"
    BY <1>5, <1>7
  <2> QED
    BY <1>6, <1>7, <2>1, NoGet
<1> QED
  BY <1>9, <1>10 DEF Books

(* Begin keeps Books.                                                      *)
LEMMA BeginBooks == Shape /\ Shape' /\ Books /\ Begin => Books'
<1> SUFFICES ASSUME Shape, Shape', Books, Begin PROVE Books'
  OBVIOUS
<1> DEFINE x == OfCall("call", Outer)
<1>1. /\ Waiting /\ phase[Outer] = "idle" /\ phase' = [phase EXCEPT ![Outer] = "begun"]
      /\ agenda' = <<x>> /\ UNCHANGED <<fetches, rests>>
      /\ refs' = [refs EXCEPT !.cancellable = 1, !.expand[Outer] = 1]
  BY DEF Begin, GoTo
<1>2. agenda = <<>> /\ \A s \in Seq(Entries) : After(s, agenda) = s
  <2>1. Waiting
    BY <1>1
  <2> QED
    BY <2>1, WaitingOpening, Zenon
<1>3. Outer \in Calls
  BY DEF Calls
<1>4. x \in Entries /\ x.do = "call"
  BY <1>3, EntriesMade DEF OfCall, CallSteps
<1> HIDE DEF x
<1>5. <<x>> \in Seq(Entries) /\ <<x>>[1] = x /\ Plain(<<x>>)
  BY <1>4, PlainAre
<1>6. agenda' = After(<<x>>, agenda)
  <2>1. agenda' = <<x>>
    BY <1>1
  <2>2. After(<<x>>, agenda) = <<x>>
    BY <1>2, <1>5
  <2> QED
    BY <2>1, <2>2
<1>7. SameHeld /\ SameUnreffed
  <2>1. SameNestedIn
    BY <1>1, NestedSteadies
  <2>2. agenda # <<>> => agenda[1].do # "free" /\ agenda[1].do # "unref"
    BY <1>2
  <2> QED
    BY <1>5, <1>6, <2>1, <2>2, PlainSteady
<1>8. /\ \A d \in Calls : phase[d] = "idle"
      /\ \A f \in Fetches : fetches[f] = NoFetch
  BY <1>1 DEF Shape, CallsFit
<1>9. HeldNow(Holds) = 0 /\ Cardinality(Overs(phase)) = 0
  <2>1. NestedIn(fetches, Holds) = {} /\ Overs(phase) = {}
    BY <1>8 DEF NestedIn, Nesting, Overs, Calls
  <2>2. Count(agenda, Freed(Holds)) = 0
    BY <1>2, CountEmpty
  <2> QED
    BY <2>1, <2>2, FS_EmptySet DEF HeldNow, Held
<1>10. Exact' /\ Owned'
  <2>1. refs \in RefRecords /\ Exact /\ Owned
    BY DEF Books, Exact
  <2>2. refs' = [cancellable |-> 1, source |-> refs.source,
                 expand |-> [refs.expand EXCEPT ![Outer] = 1], raw |-> refs.raw]
    BY <1>1, <2>1 DEF RefRecords
  <2>3. 1 \in Nat /\ 1 + Cardinality(Overs(phase)) = One(Outer = Outer \/ Going(Outer)) + HeldNow(Holds)
    BY <1>9 DEF One
  <2>4. phase[Outer] = "idle" /\ phase' = [phase EXCEPT ![Outer] = "begun"] /\ rests' = rests
    BY <1>1
  <2> QED
    BY <1>3, <1>7, <2>1, <2>2, <2>3, <2>4, ExactBegins
<1>11. GetFits'
  <2>1. <<x>> # <<>> => <<x>>[1].do # "get"
    BY <1>4, <1>5
  <2> QED
    BY <1>5, <1>6, <2>1, NoGet
<1> QED
  BY <1>10, <1>11 DEF Books

(* OperationCallDataFree keeps Books.                                      *)
LEMMA OperationCallDataFreeBooks == Shape /\ Shape' /\ Books /\ OperationCallDataFree => Books'
<1> SUFFICES ASSUME Shape, Shape', Books, OperationCallDataFree PROVE Books'
  OBVIOUS
<1>1. Now("finish") /\ Alive /\ Then(<<>>) /\ UNCHANGED <<fetches, rests>>
  BY DEF OperationCallDataFree
<1>2. PICK c \in Calls : c = Now1.call
  BY <1>1, NowCalls DEF CallSteps
<1>3. /\ phase[c] = "answered" /\ agenda # <<>> /\ Rest(agenda) = Tail(agenda) /\ agenda[1].do = "finish"
  BY <1>1, <1>2, Opening DEF Fits
<1>4. /\ phase' = [phase EXCEPT ![c] = "over"] /\ agenda' = After(<<>>, agenda)
      /\ refs' = [refs EXCEPT !.expand[c] = @ - 1, !.cancellable = @ - 1]
  BY <1>1, <1>2, <1>3 DEF OperationCallDataFree, GoTo, Then, After
<1>5. <<>> \in Seq(Entries) /\ Plain(<<>>)
  BY PlainAre
<1>6. SameHeld /\ SameUnreffed
  <2>1. SameNestedIn
    BY <1>1, NestedSteadies
  <2>2. agenda # <<>> => agenda[1].do # "free" /\ agenda[1].do # "unref"
    BY <1>3
  <2>3. agenda' = After(<<>>, agenda)
    BY <1>4
  <2> QED
    BY <1>5, <2>1, <2>2, <2>3, PlainSteady
<1>7. SameReads /\ SameRaws
  BY <1>6, ReadsChange, RawsStay DEF Books
<1>8. /\ \A S : HeldNow(S)' = HeldNow(S)
      /\ \A C, s : ReadsNow(C, s)' = ReadsNow(C, s)
      /\ \A d \in Calls : RawsNow(d)' = RawsNow(d)
  BY <1>6, <1>7 DEF SameHeld, HeldNow, SameReads, SameRaws
<1>9. /\ \A d \in Calls : d # c => phase'[d] = phase[d]
      /\ phase'[c] = "over" /\ Outer \in Calls /\ Resolves \subseteq Calls
  BY <1>4 DEF Shape, Types, Calls
<1>10. /\ One(Going(c))' = 0 /\ One(Going(c)) = 1
       /\ \A d \in Calls : d # c => One(Going(d))' = One(Going(d))
  BY <1>3, <1>9 DEF One, Going
<1>11. Cardinality(Overs(phase')) = Cardinality(Overs(phase)) + One(c # Outer) /\ Cardinality(Overs(phase)) \in Nat
  <2>1. IsFiniteSet(Overs(phase)) /\ Cardinality(Overs(phase)) \in Nat
    <3>1. Overs(phase) \in SUBSET Resolves /\ IsFiniteSet(Resolves)
      BY FiniteAssumption DEF Overs
    <3> QED
      BY <3>1, FS_Subset, FS_CardinalityType
  <2>2. CASE c = Outer
    <3>1. Overs(phase') = Overs(phase)
      BY <1>9, <2>2, OuterAssumption DEF Overs
    <3> QED
      BY <2>1, <2>2, <3>1 DEF One
  <2>3. CASE c # Outer
    <3>1. c \in Resolves
      BY <2>3 DEF Calls
    <3>2. c \notin Overs(phase) /\ Overs(phase') = Overs(phase) \cup {c}
      BY <1>3, <1>9, <3>1 DEF Overs
    <3> QED
      BY <2>1, <2>3, <3>2, FS_AddElement DEF One
  <2> QED
    BY <2>2, <2>3
<1>12. refs \in RefRecords
  BY DEF Books, Exact
<1>13. /\ refs'.source = refs.source /\ refs'.cancellable = refs.cancellable - 1
       /\ refs'.expand[c] = refs.expand[c] - 1
       /\ \A d \in Calls : d # c => refs'.expand[d] = refs.expand[d]
       /\ refs'.raw = refs.raw /\ refs' \in RefRecords
       /\ refs.cancellable \in Nat /\ refs.expand[c] \in Int
  <2>1. refs' = [cancellable |-> refs.cancellable - 1, source |-> refs.source,
                 expand |-> [refs.expand EXCEPT ![c] = @ - 1], raw |-> refs.raw]
    BY <1>4, <1>12 DEF RefRecords
  <2>2. /\ refs.expand \in [Calls -> Int] /\ refs.raw \in [Raws -> Int]
        /\ refs.source \in Int /\ refs.cancellable \in Nat
    BY <1>12 DEF RefRecords
  <2>3. refs.cancellable - 1 \in Nat /\ [refs.expand EXCEPT ![c] = @ - 1] \in [Calls -> Int]
    BY <1>1, <2>2 DEF Alive
  <2>4. refs' \in RefRecords
    BY <2>1, <2>2, <2>3 DEF RefRecords
  <2> QED
    BY <2>1, <2>2, <2>4
<1>14. ASSUME NEW d \in Calls
       PROVE  refs'.expand[d] = One(Going(d))' + HeldNow(OfOne(d))' + Cardinality(RawsNow(d)')
  <2>1. refs.expand[d] = One(Going(d)) + HeldNow(OfOne(d)) + Cardinality(RawsNow(d))
    BY DEF Books, Exact
  <2>2. /\ HeldNow(OfOne(d))' = HeldNow(OfOne(d)) /\ RawsNow(d)' = RawsNow(d)
        /\ HeldNow(OfOne(d)) \in Nat /\ Cardinality(RawsNow(d)) \in Nat
    BY <1>8, NowIsNat
  <2>3. CASE d = c
    BY <1>10, <1>13, <2>1, <2>2, <2>3
  <2>4. CASE d # c
    BY <1>10, <1>13, <2>1, <2>2, <2>4
  <2> QED
    BY <2>3, <2>4
<1>15. refs'.cancellable + Cardinality(Overs(phase')) = One(Going(Outer))' + HeldNow(Holds)'
  <2>1. refs.cancellable + Cardinality(Overs(phase)) = One(Going(Outer)) + HeldNow(Holds)
    BY DEF Books, Exact
  <2>2. HeldNow(Holds)' = HeldNow(Holds) /\ HeldNow(Holds) \in Nat /\ One(Going(Outer)) \in Nat
    BY <1>8, NowIsNat DEF One
  <2>3. CASE c = Outer
    <3>1. One(Going(Outer))' = 0 /\ One(Going(Outer)) = 1 /\ One(c # Outer) = 0
      BY <1>10, <2>3 DEF One
    <3> QED
      BY <1>11, <1>13, <2>1, <2>2, <3>1
  <2>4. CASE c # Outer
    <3>1. One(Going(Outer))' = One(Going(Outer)) /\ One(c # Outer) = 1
      BY <1>9, <1>10, <2>4 DEF One
    <3> QED
      BY <1>11, <1>13, <2>1, <2>2, <3>1
  <2> QED
    BY <2>3, <2>4
<1>16. refs'.source = 1 + HeldNow(Holds)' + rests'
  BY <1>1, <1>8, <1>13 DEF Books, Exact
<1>17. ASSUME NEW s \in Raws PROVE refs'.raw[s] = ReadsNow(Calls, s)'
  BY <1>8, <1>13 DEF Books, Exact
<1>18. Exact'
  BY <1>13, <1>14, <1>15, <1>16, <1>17 DEF Exact
<1>19. GetFits'
  BY <1>4, <1>5, NoGet
<1> QED
  BY <1>7, <1>18, <1>19 DEF Books, SameRaws

(* Nothing keeps Books.                                                    *)
LEMMA NothingBooks ==
  ASSUME Shape, Books, UNCHANGED <<phase, fetches, agenda, refs, rests>>
  PROVE  Books'
<1>1. /\ \A S : HeldNow(S)' = HeldNow(S)
      /\ \A C, s : ReadsNow(C, s)' = ReadsNow(C, s)
      /\ \A d : RawsNow(d)' = RawsNow(d)
      /\ \A d : Going(d)' <=> Going(d)
  BY DEF HeldNow, ReadsNow, RawsNow, Going
<1>2. \A d : One(Going(d))' = One(Going(d))
  BY <1>1 DEF One
<1>3. Exact'
  BY <1>1, <1>2 DEF Books, Exact
<1>4. Owned'
  BY <1>1 DEF Books, Owned
<1>5. GetFits'
  <2>1. \A f \in Fetches : ReadsNow({fetches[f].call}, fetches[f].raw)' = ReadsNow({fetches[f].call}, fetches[f].raw)
    BY DEF ReadsNow
  <2> QED
    BY <2>1 DEF Books, GetFits
<1> QED
  BY <1>3, <1>4, <1>5 DEF Books

(* NextKeeps keeps Books.                                                  *)
LEMMA NextKeepsBooks == Shape /\ Books /\ [Next]_vars => Books'
<1> SUFFICES ASSUME Shape, Books, [Next]_vars PROVE Books'
  OBVIOUS
<1>1. Shape'
  BY NextKeepsShape
<1>2. CASE UNCHANGED vars
  BY <1>2, NothingBooks DEF vars
<1>3. Crash => Books'
  BY NothingBooks DEF Crash
<1>4. CASE Next
  BY <1>1, <1>3, <1>4, BeginBooks, OperationCallBooks, UnrefBooks, GetHereBooks, GetNestedBooks, GetRestBooks,
     GoOnBooks, CallBackBooks, FreeProcessBooks, NetAnswersBooks, DataFetchedBooks, SendResultsBooks,
     RelayFiresBooks, NewItemBooks, KeyBooks, KeyFetchedBooks, RunWaitsBooks, RunResolvesBooks,
     RunEndsBooks, EndBooks, OperationCallDataFreeBooks
  DEF Next
<1> QED
  BY <1>2, <1>4

(* Initially keeps Books.                                                  *)
LEMMA InitiallyBooks == Init => Books
<1> SUFFICES ASSUME Init PROVE Books
  OBVIOUS
<1>1. /\ phase = [c \in Calls |-> "idle"] /\ agenda = <<>> /\ \A f \in Fetches : fetches[f] = NoFetch
      /\ refs = [cancellable |-> 0, source |-> 1,
                 expand |-> [c \in Calls |-> 0], raw |-> [s \in Raws |-> 0]]
      /\ rests = 0
  BY DEF Init
<1>2. \A S : NestedIn(fetches, S) = {} /\ Count(agenda, S) = 0
  BY <1>1, CountEmpty DEF NestedIn, Nesting
<1>3. \A S : HeldNow(S) = 0
  BY <1>2, FS_EmptySet DEF HeldNow, Held
<1>4. \A C, s : ReadsNow(C, s) = 0
  <2>1. \A S : Held(fetches, agenda, S) = 0
    BY <1>3 DEF HeldNow
  <2> QED
    BY <1>2, <2>1 DEF ReadsNow, Reads
<1>5. \A c : Cardinality(RawsNow(c)) = 0
  <2>1. \A c : RawsNow(c) = {}
    BY <1>4 DEF RawsNow, RawsIn, ReadsNow
  <2> QED
    BY <2>1, FS_EmptySet
<1>6. Outer \in Calls /\ \A c \in Calls : One(Going(c)) = 0
  BY <1>1 DEF One, Going, Calls
<1>7. Cardinality(Overs(phase)) = 0
  <2>1. Overs(phase) = {}
    BY <1>1 DEF Overs, Calls
  <2> QED
    BY <2>1, FS_EmptySet
<1>8. refs \in RefRecords
  BY <1>1 DEF RefRecords
<1>9. Exact
  BY <1>1, <1>3, <1>4, <1>5, <1>6, <1>7, <1>8 DEF Exact
<1>10. Owned
  BY <1>4 DEF Owned
<1>11. GetFits
  BY <1>1 DEF GetFits
<1> QED
  BY <1>9, <1>10, <1>11 DEF Books

-----------------------------------------------------------------------------
(* What the books say.                                                     *)

(* Shape and Books give the type of the state.                             *)
LEMMA BooksTypes ==
  ASSUME Shape, Books
  PROVE  TypeOK
<1>1. /\ phase \in [Calls -> Phases] /\ rests \in 0 .. MaxRests
      /\ relayed \in BOOLEAN /\ crashed \in BOOLEAN
  BY DEF Shape, Types
<1>2. ASSUME NEW f \in Fetches, Running(f)
      PROVE  /\ fetches[f].call \in Calls /\ fetches[f].raw \in Raws
             /\ \A i \in DOMAIN Nested(f) : Nested(f)[i] \in Kinds
  BY <1>2, FetchOfTurn
<1>3. refs \in [cancellable : Nat, source : Nat, expand : [Calls -> Nat], raw : [Raws -> Nat]]
  <2>1. refs \in RefRecords
    BY DEF Books, Exact
  <2>2. \A c \in Calls : refs.expand[c] \in Nat
    <3>1. \A c \in Calls : /\ refs.expand[c] = One(Going(c)) + HeldNow(OfOne(c)) + Cardinality(RawsNow(c))
                           /\ One(Going(c)) \in Nat /\ HeldNow(OfOne(c)) \in Nat /\ Cardinality(RawsNow(c)) \in Nat
      BY NowIsNat DEF Books, Exact, One
    <3> QED
      BY <3>1
  <2>3. \A s \in Raws : refs.raw[s] \in Nat
    BY NowIsNat DEF Books, Exact
  <2>4. refs.source \in Nat
    <3>1. refs.source = 1 + HeldNow(Holds) + rests /\ HeldNow(Holds) \in Nat /\ rests \in Nat
      BY <1>1, NowIsNat, BoundsAssumption DEF Books, Exact
    <3> QED
      BY <3>1
  <2>5. refs.expand \in [Calls -> Nat] /\ refs.raw \in [Raws -> Nat]
    <3>1. refs.expand \in [Calls -> Int] /\ refs.raw \in [Raws -> Int]
      BY <2>1 DEF RefRecords
    <3> QED
      BY <2>2, <2>3, <3>1
  <2> QED
    BY <2>1, <2>4, <2>5 DEF RefRecords
<1> QED
  BY <1>1, <1>2, <1>3 DEF TypeOK, Phases

(* The process data, its readers and the DataRefs in use are those that    *)
(* are counted.                                                            *)
LEMMA BooksCount ==
  ASSUME Shape
  PROVE  /\ Cardinality(Process) + Cardinality(Freeing) = HeldNow(Holds)
         /\ \A c \in Calls : Allocated(c) = HeldNow(OfOne(c)) /\ RawsOf(c) = RawsNow(c)
         /\ \A s \in Raws : Reading(s) + Cardinality(Unfinished(s)) = ReadsNow(Calls, s)
<1>1. agenda \in Seq(Entries) /\ DOMAIN agenda = 1 .. Len(agenda) /\ \A i \in DOMAIN agenda : agenda[i] \in Entries
  BY LenProperties, ElementOfSeq DEF Shape, Types
<1>2. Process = Nesting(fetches)
  BY DEF Process, Nesting, Running, Nested
<1>3. ASSUME NEW p \in Process
      PROVE  /\ fetches[p[1]].call \in Calls /\ fetches[p[1]].raw \in Raws
             /\ HoldAt(fetches, p) = Hold(fetches[p[1]].call, fetches[p[1]].raw, Nested(p[1])[p[2]])
             /\ HoldAt(fetches, p).call = fetches[p[1]].call /\ HoldAt(fetches, p).raw = fetches[p[1]].raw
             /\ HoldAt(fetches, p) \in Holds
             /\ HoldAt(fetches, p).class = "reader" <=> Nested(p[1])[p[2]] \in Expressions
  <2>1. p[1] \in Fetches /\ Running(p[1])
    BY DEF Process
  <2>2. fetches[p[1]].call \in Calls /\ fetches[p[1]].raw \in Raws
    BY <2>1, FetchOfTurn
  <2>3. HoldAt(fetches, p) = Hold(fetches[p[1]].call, fetches[p[1]].raw, Nested(p[1])[p[2]])
    BY DEF HoldAt, Nested
  <2> QED
    BY <2>2, <2>3 DEF Hold, Holds, Class
<1>4. ASSUME NEW i \in Freeing
      PROVE  /\ i \in DOMAIN agenda /\ agenda[i] \in Entries /\ agenda[i].do = "free"
             /\ agenda[i].call \in Calls /\ agenda[i].raw \in Raws
             /\ Hold(agenda[i].call, agenda[i].raw, agenda[i].kind) \in Holds
             /\ Hold(agenda[i].call, agenda[i].raw, agenda[i].kind).call = agenda[i].call
             /\ Hold(agenda[i].call, agenda[i].raw, agenda[i].kind).raw = agenda[i].raw
             /\ Hold(agenda[i].call, agenda[i].raw, agenda[i].kind).class = "reader"
                  <=> agenda[i].kind \in Expressions
  <2>1. i \in DOMAIN agenda /\ agenda[i] \in Entries /\ agenda[i].do = "free"
    BY <1>1 DEF Freeing
  <2>2. agenda[i].call \in Calls /\ agenda[i].raw \in Raws
    BY <2>1, EntryTypes DEF Asks
  <2> QED
    BY <2>1, <2>2 DEF Hold, Holds, Class
<1>5. \A S : Occ(agenda, Freed(S)) =
               {i \in Freeing : Hold(agenda[i].call, agenda[i].raw, agenda[i].kind) \in S}
  BY <1>1 DEF Occ, Freed, Freeing
<1>6. \A S : NestedIn(fetches, S) = {p \in Process : HoldAt(fetches, p) \in S}
  BY <1>2 DEF NestedIn
<1>7. \A S : HeldNow(S) = Cardinality({p \in Process : HoldAt(fetches, p) \in S})
               + Cardinality({i \in Freeing : Hold(agenda[i].call, agenda[i].raw, agenda[i].kind) \in S})
  BY <1>5, <1>6 DEF HeldNow, Held, Count
<1>8. Cardinality(Process) + Cardinality(Freeing) = HeldNow(Holds)
  <2>1. /\ {p \in Process : HoldAt(fetches, p) \in Holds} = Process
        /\ {i \in Freeing : Hold(agenda[i].call, agenda[i].raw, agenda[i].kind) \in Holds} = Freeing
    BY <1>3, <1>4
  <2>2. HeldNow(Holds) = Cardinality({p \in Process : HoldAt(fetches, p) \in Holds})
               + Cardinality({i \in Freeing : Hold(agenda[i].call, agenda[i].raw, agenda[i].kind) \in Holds})
    BY <1>7
  <2> QED
    BY <2>1, <2>2
<1>9. ASSUME NEW c \in Calls PROVE Allocated(c) = HeldNow(OfOne(c))
  <2>1. /\ {p \in Process : HoldAt(fetches, p) \in OfOne(c)} = {p \in Process : fetches[p[1]].call = c}
        /\ {i \in Freeing : Hold(agenda[i].call, agenda[i].raw, agenda[i].kind) \in OfOne(c)}
              = {i \in Freeing : agenda[i].call = c}
    BY <1>3, <1>4 DEF OfOne
  <2>2. HeldNow(OfOne(c)) = Cardinality({p \in Process : HoldAt(fetches, p) \in OfOne(c)})
               + Cardinality({i \in Freeing : Hold(agenda[i].call, agenda[i].raw, agenda[i].kind) \in OfOne(c)})
    BY <1>7
  <2> QED
    BY <2>1, <2>2 DEF Allocated
<1>10. ASSUME NEW s \in Raws PROVE Reading(s) + Cardinality(Unfinished(s)) = ReadsNow(Calls, s)
  <2>1. /\ {p \in Process : HoldAt(fetches, p) \in ReadersOf(Calls, s)}
              = {p \in Process : fetches[p[1]].raw = s /\ Nested(p[1])[p[2]] \in Expressions}
        /\ {i \in Freeing : Hold(agenda[i].call, agenda[i].raw, agenda[i].kind) \in ReadersOf(Calls, s)}
              = {i \in Freeing : agenda[i].raw = s /\ agenda[i].kind \in Expressions}
    BY <1>3, <1>4 DEF ReadersOf
  <2>2. HeldNow(ReadersOf(Calls, s)) = Reading(s)
    <3>1. HeldNow(ReadersOf(Calls, s)) = Cardinality({p \in Process : HoldAt(fetches, p) \in ReadersOf(Calls, s)})
               + Cardinality({i \in Freeing : Hold(agenda[i].call, agenda[i].raw, agenda[i].kind) \in ReadersOf(Calls, s)})
      BY <1>7
    <3> QED
      BY <2>1, <3>1 DEF Reading
  <2>3. Unfinished(s) = Occ(agenda, Unreffed(Calls, s))
    <3>1. \A i \in DOMAIN agenda : agenda[i].do = "unref" => agenda[i].call \in Calls
      BY <1>1, EntryTypes DEF Asks
    <3> QED
      BY <1>1, <3>1 DEF Unfinished, Occ, Unreffed
  <2> QED
    BY <2>2, <2>3 DEF ReadsNow, Reads, HeldNow, Count
<1>11. ASSUME NEW c \in Calls PROVE RawsOf(c) = RawsNow(c)
  <2>1. ASSUME NEW s
        PROVE  s \in RawsOf(c) <=>
                 \/ \E p \in Process : fetches[p[1]].call = c /\ Nested(p[1])[p[2]] \in Expressions
                                       /\ s = fetches[p[1]].raw
                 \/ \E i \in Freeing : agenda[i].call = c /\ agenda[i].kind \in Expressions /\ s = agenda[i].raw
                 \/ \E i \in DOMAIN agenda : agenda[i].do = "unref" /\ agenda[i].call = c /\ s = agenda[i].raw
    BY DEF RawsOf
  <2>2. \A i \in DOMAIN agenda : agenda[i].do = "unref" => agenda[i].raw \in Raws
    BY <1>1, EntryTypes
  <2>3. \A s \in RawsOf(c) : s \in Raws
    BY <1>3, <1>4, <2>1, <2>2
  <2>4. ASSUME NEW s \in Raws PROVE s \in RawsOf(c) <=> ReadsNow({c}, s) > 0
    <3>1. /\ (\E p \in Process : /\ fetches[p[1]].call = c /\ Nested(p[1])[p[2]] \in Expressions
                                 /\ s = fetches[p[1]].raw)
              <=> NestedIn(fetches, ReadersOf({c}, s)) # {}
          /\ (\E i \in Freeing : agenda[i].call = c /\ agenda[i].kind \in Expressions /\ s = agenda[i].raw)
              <=> Occ(agenda, Freed(ReadersOf({c}, s))) # {}
      <4>1. \A p \in Process : HoldAt(fetches, p) \in ReadersOf({c}, s) <=>
                 fetches[p[1]].call = c /\ Nested(p[1])[p[2]] \in Expressions /\ s = fetches[p[1]].raw
        BY <1>3 DEF ReadersOf
      <4>2. \A i \in Freeing : Hold(agenda[i].call, agenda[i].raw, agenda[i].kind) \in ReadersOf({c}, s) <=>
                 agenda[i].call = c /\ agenda[i].kind \in Expressions /\ s = agenda[i].raw
        BY <1>4 DEF ReadersOf
      <4>3. NestedIn(fetches, ReadersOf({c}, s)) = {p \in Process : HoldAt(fetches, p) \in ReadersOf({c}, s)}
        BY <1>6
      <4>4. Occ(agenda, Freed(ReadersOf({c}, s))) =
               {i \in Freeing : Hold(agenda[i].call, agenda[i].raw, agenda[i].kind) \in ReadersOf({c}, s)}
        BY <1>5
      <4> QED
        BY <4>1, <4>2, <4>3, <4>4
    <3>2. (\E i \in DOMAIN agenda : agenda[i].do = "unref" /\ agenda[i].call = c /\ s = agenda[i].raw)
            <=> Occ(agenda, Unreffed({c}, s)) # {}
      BY <1>1 DEF Occ, Unreffed
    <3>3. /\ ReadsNow({c}, s) \in Nat
          /\ ReadsNow({c}, s) = 0 <=>
               /\ NestedIn(fetches, ReadersOf({c}, s)) = {}
               /\ Occ(agenda, Freed(ReadersOf({c}, s))) = {}
               /\ Occ(agenda, Unreffed({c}, s)) = {}
      BY <1>1, ReadsIsNat DEF ReadsNow
    <3>4. ReadsNow({c}, s) > 0 <=> ReadsNow({c}, s) # 0
      BY <3>3
    <3> QED
      BY <2>1, <3>1, <3>2, <3>3, <3>4
  <2>5. RawsNow(c) = {s \in Raws : ReadsNow({c}, s) > 0}
    BY DEF RawsNow, RawsIn, ReadsNow
  <2> QED
    BY <2>3, <2>4, <2>5
<1> QED
  BY <1>8, <1>9, <1>10, <1>11

(* Shape and Books give the exact counts.                                  *)
LEMMA BooksExact ==
  ASSUME Shape, Books
  PROVE  RefsAreExact
<1>1. /\ Cardinality(Process) + Cardinality(Freeing) = HeldNow(Holds)
      /\ \A c \in Calls : Allocated(c) = HeldNow(OfOne(c)) /\ RawsOf(c) = RawsNow(c)
      /\ \A s \in Raws : Reading(s) + Cardinality(Unfinished(s)) = ReadsNow(Calls, s)
  BY BooksCount
<1>2. Overs(phase) = {r \in Resolves : phase[r] = "over"}
  BY DEF Overs
<1> QED
  BY <1>1, <1>2 DEF Books, Exact, RefsAreExact

(* Until a resolve is over, whoever uses the cancellable has a reference   *)
(* that keeps it.                                                          *)
LEMMA UsersKeep ==
  ASSUME Shape, Books, UsesCancellable, \A r \in Resolves : phase[r] \notin {"answered", "over"}
  PROVE  Alive
<1>1. Cardinality(Overs(phase)) = 0
  <2>1. Overs(phase) = {}
    BY DEF Overs
  <2> QED
    BY <2>1, FS_EmptySet
<1>2. /\ refs.cancellable = One(Going(Outer)) + HeldNow(Holds)
      /\ HeldNow(Holds) \in Nat /\ One(Going(Outer)) \in Nat
  <2>1. /\ refs.cancellable + Cardinality(Overs(phase)) = One(Going(Outer)) + HeldNow(Holds)
        /\ refs.cancellable \in Nat
    BY DEF Books, Exact, RefRecords
  <2>2. HeldNow(Holds) \in Nat /\ One(Going(Outer)) \in Nat
    BY NowIsNat DEF One
  <2> QED
    BY <1>1, <2>1, <2>2
<1>3. ASSUME Going(Outer) PROVE Alive
  BY <1>2, <1>3 DEF Alive, One
<1>4. ASSUME NEW c \in Calls, phase[c] \in {"query", "sending", "items"} PROVE Alive
  <2>1. Going(Outer)
    <3>1. CASE c = Outer
      BY <1>4, <3>1 DEF Going
    <3>2. CASE c # Outer
      <4>1. c \in Resolves /\ BusyIn(phase, c)
        BY <1>4, <3>2 DEF Calls, BusyIn
      <4> QED
        BY <4>1 DEF Shape, CallsFit, Going
    <3> QED
      BY <3>1, <3>2
  <2> QED
    BY <1>3, <2>1
<1>5. ASSUME NEW f \in Fetches, Running(f) PROVE Alive
  BY <1>4, <1>5, FetchOfTurn
<1>6. CASE Now("free")
  <2>1. agenda # <<>> /\ agenda[1] \in Entries /\ agenda[1].do = "free" /\ 1 \in 1 .. Len(agenda)
        /\ agenda \in Seq(Entries)
    BY <1>6, Opening
  <2>2. agenda[1] \in Freed(Holds)
    BY <2>1, EntryTypes DEF Asks, Freed, Hold, Holds, Class
  <2>3. 1 \in Occ(agenda, Freed(Holds))
    BY <2>1, <2>2, LenProperties DEF Occ
  <2>4. HeldNow(Holds) > 0
    <3>1. /\ Cardinality(NestedIn(fetches, Holds)) \in Nat
          /\ IsFiniteSet(Occ(agenda, Freed(Holds))) /\ Count(agenda, Freed(Holds)) \in Nat
      BY <2>1, HeldIsNat, CountIsNat
    <3>2. Count(agenda, Freed(Holds)) # 0
      BY <2>3, <3>1, FS_EmptySet DEF Count
    <3> QED
      BY <3>1, <3>2 DEF HeldNow, Held
  <2> QED
    BY <1>2, <2>4 DEF Alive
<1>7. CASE Now("finish")
  <2>1. PICK c \in Calls : phase[c] = "answered"
    <3>1. agenda[1] \in Entries /\ agenda[1].do = "finish" /\ Fits(phase, agenda[1])
      BY <1>7, Opening
    <3> QED
      BY <3>1, EntryTypes DEF Fits, Asks
  <2>2. c = Outer
    BY <2>1 DEF Calls
  <2> QED
    BY <1>3, <2>1, <2>2 DEF Going
<1>8. CASE Now("get") \/ Now("obtained")
  BY <1>5, <1>8, NowFetches DEF Asks
<1>9. CASE Now("send")
  <2>1. agenda[1] \in Entries /\ agenda[1].do = "send" /\ Fits(phase, agenda[1])
    BY <1>9, Opening
  <2> QED
    BY <1>4, <2>1, EntryTypes DEF Fits, Asks
<1>10. CASE \E f \in Fetches : Running(f)
  BY <1>5, <1>10
<1> QED
  BY <1>6, <1>7, <1>8, <1>9, <1>10 DEF UsesCancellable

(* Only the finish of a resolve operation can lead to a crash.             *)
LEMMA CrashStep ==
  Shape /\ Books /\ CrashOnlyAfterResolve /\ [Next]_vars => CrashOnlyAfterResolve'
<1> SUFFICES ASSUME Shape, Books, CrashOnlyAfterResolve, [Next]_vars PROVE CrashOnlyAfterResolve'
  OBVIOUS
<1>1. CASE UNCHANGED vars
  BY <1>1 DEF vars, CrashOnlyAfterResolve
<1>2. CASE Crash
  <2>1. UsesCancellable /\ ~Alive /\ phase' = phase
    BY <1>2 DEF Crash
  <2> QED
    BY <2>1, UsersKeep DEF CrashOnlyAfterResolve
<1>3. CASE Next /\ ~Crash
  <2>1. ~crashed
    BY <1>3 DEF Next, Begin, OperationCall, Unref, GetHere, GetNested, GetRest, GoOn, CallBack,
       FreeProcess, NetAnswers, DataFetched, SendResults, RelayFires, NewItem, Key, KeyFetched,
       RunWaits, RunResolves, RunEnds, End, OperationCallDataFree, Now, Waiting
  <2>2. crashed' = crashed
    BY <1>3 DEF Next, Begin, OperationCall, Unref, GetHere, GetNested, GetRest, GoOn, CallBack,
       FreeProcess, NetAnswers, DataFetched, SendResults, RelayFires, NewItem, Key, KeyFetched,
       RunWaits, RunResolves, RunEnds, End, OperationCallDataFree
  <2> QED
    BY <2>1, <2>2 DEF CrashOnlyAfterResolve
<1> QED
  BY <1>1, <1>2, <1>3

(* The inductive invariant holds in every state.                           *)
LEMMA Invariantly == Spec => [](Shape /\ Books /\ CrashOnlyAfterResolve)
<1>1. Init => Shape /\ Books /\ CrashOnlyAfterResolve
  BY Initially, InitiallyBooks DEF Init, CrashOnlyAfterResolve
<1>2. Shape /\ Books /\ CrashOnlyAfterResolve /\ [Next]_vars => (Shape /\ Books /\ CrashOnlyAfterResolve)'
  BY NextKeepsShape, NextKeepsBooks, CrashStep
<1> QED
  BY <1>1, <1>2, PTL DEF Spec

(* Type correctness: no count becomes negative, so nothing is dropped more *)
(* often than it was taken.                                                *)
THEOREM TypeIsOK == Spec => []TypeOK
<1>1. Shape /\ Books => TypeOK
  BY BooksTypes
<1> QED
  BY <1>1, Invariantly, PTL

(* Whatever the order of the callbacks, each count is that of the users    *)
(* there are (dataref_new, dataref_unref, net_process_data_free,           *)
(* expression_process_data_free, operation_call_data_free).                *)
THEOREM RefsAreAccounted == Spec => []RefsAreExact
<1>1. Shape /\ Books => RefsAreExact
  BY BooksExact
<1> QED
  BY <1>1, Invariantly, PTL

(* The cancellable is used after it was freed only when a resolve, whose   *)
(* get_resolve_data took no reference to it, has ended.                    *)
THEOREM CrashesAreOfResolves == Spec => []CrashOnlyAfterResolve
<1> QED
  BY Invariantly, PTL

(* A call without resolves never uses the cancellable after it was freed.  *)
THEOREM NeverCrashesAlone == Spec => [](Resolves = {} => ~crashed)
<1>1. CrashOnlyAfterResolve => (Resolves = {} => ~crashed)
  BY DEF CrashOnlyAfterResolve
<1> QED
  BY <1>1, Invariantly, PTL
=============================================================================
