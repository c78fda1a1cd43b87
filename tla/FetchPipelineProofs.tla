------------------------- MODULE FetchPipelineProofs -------------------------
(***************************************************************************)
(* Proofs about FetchPipeline, for any number of fetches of any FetchData: *)
(* the process data of a fetch that is not done is a chain, each waiting   *)
(* for the next, and a regexp goes through its parts in their order.       *)
(*                                                                         *)
(* What a step does to a fetch is stated about the phases p of its         *)
(* FetchData and its current_subregexp c, whatever the other fetches do.   *)
(***************************************************************************)
EXTENDS FetchPipeline, SequenceTheorems, TLAPS

(* What is reached and has not called back.                                *)
Active(p) == {n \in Data : p[n] \notin {"idle", "done"}}

Waits(p, n) == p[n] \in {"sub", "input"}

(* m waits for n: for its current sub-regexp or for its input.             *)
WaitsFor(p, c, m, n) ==
    \/ p[m] = "sub" /\ c[m] \in DOMAIN Subregexps(m) /\ Subregexps(m)[c[m]] = n
    \/ p[m] = "input" /\ Input(m) = n

(* The chain from the FetchData that was asked for to the one whose turn   *)
(* it is.                                                                  *)
Chain(p, c, r, s) ==
    /\ s \in Seq(Data)
    /\ Active(p) = {s[i] : i \in 1 .. Len(s)}
    /\ s # <<>> => s[1] = r /\ ~Waits(p, s[Len(s)])
    /\ \A i \in 1 .. Len(s) - 1 : WaitsFor(p, c, s[i], s[i + 1])

AllDone(p, n) == \A i \in DOMAIN Subregexps(n) : p[Subregexps(n)[i]] = "done"

(* How far a FetchData is with its parts.                                  *)
Progress(p, c, n) ==
    /\ p[n] \in {"idle", "asked"} =>
         c[n] = 1 /\ \A i \in DOMAIN Subregexps(n) : p[Subregexps(n)[i]] = "idle"
    /\ p[n] \in {"idle", "asked", "subs", "sub"} /\ Input(n) # NoInput => p[Input(n)] = "idle"
    /\ p[n] \in {"subs", "sub"} =>
         /\ Kind(n) = "regexp"
         /\ \A i \in DOMAIN Subregexps(n) :
              /\ i < c[n] => p[Subregexps(n)[i]] = "done"
              /\ i > c[n] => p[Subregexps(n)[i]] = "idle"
    /\ p[n] = "subs" => \A i \in DOMAIN Subregexps(n) : i = c[n] => p[Subregexps(n)[i]] = "idle"
    /\ p[n] = "input" => Input(n) # NoInput /\ Kind(n) \in {"url", "replace", "regexp"}
    /\ p[n] = "net" => Kind(n) \in {"url", "rest"}
    /\ p[n] \in {"input", "answering"} /\ Kind(n) = "regexp" => AllDone(p, n)

FetchInv(p, c, r) ==
    /\ p \in [Data -> Phases] /\ c \in [Data -> Nat \ {0}] /\ r \in Roots
    /\ \A n \in Data : Progress(p, c, n)
    /\ \E s : Chain(p, c, r, s)

-----------------------------------------------------------------------------
(* The structures.                                                         *)

(* What Fetchable says of one FetchData.                                   *)
LEMMA Structure ==
  ASSUME NEW n \in Data
  PROVE  /\ Input(n) \in Data \cup {NoInput}
         /\ Kind(n) \in {"url", "replace"} => Input(n) \in Data
         /\ Subregexps(n) \in Seq(Data)
         /\ \A i \in DOMAIN Subregexps(n) : Subregexps(n)[i] \in Data \ {NoInput}
<1>1. /\ Input(n) \in Data \cup {NoInput}
      /\ Kind(n) \in {"url", "replace"} => Input(n) \in Data
      /\ Subregexps(n) \in Seq(Data)
  BY FetchDataAssumption DEF Fetchable, Data, Input, Kind, Subregexps
<1>2. \A i \in DOMAIN Subregexps(n) : Subregexps(n)[i] \in Data
  BY <1>1
<1>. QED
  BY <1>1, <1>2, NoInputAssumption

(* A FetchData is a part of one other at most, in one place, and none of   *)
(* what is asked for is.                                                   *)
LEMMA OneOwner ==
  ASSUME NEW m \in Data, NEW n \in Data
  PROVE  /\ \A i \in DOMAIN Subregexps(m) : \A j \in DOMAIN Subregexps(n) :
              Subregexps(m)[i] = Subregexps(n)[j] => m = n /\ i = j
         /\ \A i \in DOMAIN Subregexps(m) : Subregexps(m)[i] # Input(n)
         /\ Input(m) = Input(n) /\ Input(m) # NoInput => m = n
         /\ \A i \in DOMAIN Subregexps(m) : Subregexps(m)[i] \notin Roots
         /\ Input(m) \notin Roots
<1>1. /\ 0 \in Places(m) /\ DOMAIN Subregexps(m) \subseteq Places(m)
      /\ 0 \in Places(n) /\ DOMAIN Subregexps(n) \subseteq Places(n)
  BY DEF Places, Subregexps
<1>2. /\ Part(m, 0) = Input(m) /\ Part(n, 0) = Input(n)
      /\ \A i \in DOMAIN Subregexps(m) : i # 0 /\ Part(m, i) = Subregexps(m)[i]
      /\ \A i \in DOMAIN Subregexps(n) : i # 0 /\ Part(n, i) = Subregexps(n)[i]
  BY Structure DEF Part, Input, Subregexps
<1>3. \A i \in DOMAIN Subregexps(m) : Subregexps(m)[i] # NoInput
  BY Structure
<1>. QED
  BY <1>1, <1>2, <1>3, PartsAssumption
-----------------------------------------------------------------------------
(* The chain.                                                              *)

(* What is active and does not wait is the last of the chain.              *)
LEMMA LastOfChain ==
  ASSUME NEW p, NEW c, NEW r, NEW s, Chain(p, c, r, s),
         NEW n \in Active(p), ~Waits(p, n)
  PROVE  Len(s) \in Nat \ {0} /\ s[Len(s)] = n
<1>1. PICK i \in 1 .. Len(s) : s[i] = n
  BY DEF Chain
<1>2. i = Len(s)
  <2>. SUFFICES ASSUME i \in 1 .. Len(s) - 1 PROVE FALSE
    BY DEF Chain
  <2>. QED
    BY <1>1 DEF Chain, WaitsFor, Waits
<1>. QED
  BY <1>1, <1>2 DEF Chain

(* The chain is empty when what was asked for is not active.               *)
LEMMA NoChain ==
  ASSUME NEW p, NEW c, NEW r, NEW s, Chain(p, c, r, s), r \notin Active(p)
  PROVE  Active(p) = {} /\ s = <<>>
BY DEF Chain

(* A FetchData that keeps its phase, and whose parts do unless they are    *)
(* active, is as far as it was.                                            *)
LEMMA Elsewhere ==
  ASSUME NEW p, NEW c, NEW q, NEW d, NEW m \in Data, Progress(p, c, m),
         q[m] = p[m], d[m] = c[m],
         \A n \in Data : n = Input(m) \/ (\E i \in DOMAIN Subregexps(m) : Subregexps(m)[i] = n)
             => q[n] = p[n] \/ p[n] \notin {"idle", "done"}
  PROVE  Progress(q, d, m)
<1>1. /\ \A i \in DOMAIN Subregexps(m) :
           \/ q[Subregexps(m)[i]] = p[Subregexps(m)[i]]
           \/ p[Subregexps(m)[i]] \notin {"idle", "done"}
      /\ Input(m) # NoInput => q[Input(m)] = p[Input(m)] \/ p[Input(m)] \notin {"idle", "done"}
  BY Structure
<1>. QED
  BY <1>1 DEF Progress, AllDone

-----------------------------------------------------------------------------
(* What steps do to a fetch.                                               *)

(* One takes its turn and neither waits for a part nor calls back.         *)
LEMMA Turn ==
  ASSUME NEW p, NEW c, NEW r, FetchInv(p, c, r),
         NEW n \in Data, NEW to,
         \/ p[n] = "asked" /\ to = "subs" /\ Kind(n) = "regexp"
         \/ p[n] = "asked" /\ to = "net" /\ Kind(n) = "rest"
         \/ p[n] \in {"asked", "net"} /\ to = "answering" /\ Kind(n) # "regexp"
         \/ p[n] = "subs" /\ to = "answering" /\ AllDone(p, n)
  PROVE  FetchInv([p EXCEPT ![n] = to], c, r)
<1> DEFINE q == [p EXCEPT ![n] = to]
<1>1. p \in [Data -> Phases] /\ c \in [Data -> Nat \ {0}] /\ r \in Roots
  BY DEF FetchInv
<1>2. q \in [Data -> Phases]
  BY <1>1 DEF Phases
<1>3. q[n] = to /\ \A m \in Data \ {n} : q[m] = p[m]
  BY <1>1
<1>4. ASSUME NEW m \in Data PROVE Progress(q, c, m)
  <2>1. Progress(p, c, m)
    BY DEF FetchInv
  <2>2. CASE m # n
    BY <1>3, <2>1, <2>2, Elsewhere
  <2>3. CASE m = n
    <3>1. /\ \A i \in DOMAIN Subregexps(n) :
               q[Subregexps(n)[i]] = p[Subregexps(n)[i]] \/ p[Subregexps(n)[i]] \notin {"idle", "done"}
          /\ Input(n) # NoInput => q[Input(n)] = p[Input(n)] \/ p[Input(n)] \notin {"idle", "done"}
      BY <1>3, Structure
    <3>2. CASE to = "subs"
      <4>1. c[n] = 1 /\ \A i \in DOMAIN Subregexps(n) : i \in Nat \ {0} /\ p[Subregexps(n)[i]] = "idle"
        BY <2>1, <2>3, <3>2, Structure DEF Progress
      <4>. QED
        BY <1>3, <2>1, <2>3, <3>1, <3>2, <4>1 DEF Progress
    <3>3. CASE to # "subs"
      BY <1>3, <2>1, <2>3, <3>1, <3>3 DEF Progress, AllDone
    <3>. QED
      BY <3>2, <3>3
  <2>. QED
    BY <2>2, <2>3
<1>5. \E s : Chain(q, c, r, s)
  <2>1. PICK s : Chain(p, c, r, s)
    BY DEF FetchInv
  <2>2. n \in Active(p) /\ Active(q) = Active(p)
    BY <1>3 DEF Active
  <2>3. Len(s) \in Nat \ {0} /\ s[Len(s)] = n
    BY <2>1, <2>2, LastOfChain DEF Waits
  <2>4. \A i \in 1 .. Len(s) - 1 : WaitsFor(q, c, s[i], s[i + 1])
    <3> SUFFICES ASSUME NEW i \in 1 .. Len(s) - 1 PROVE WaitsFor(q, c, s[i], s[i + 1])
      OBVIOUS
    <3>1. s[i] \in Data /\ WaitsFor(p, c, s[i], s[i + 1])
      BY <2>1 DEF Chain
    <3>2. s[i] # n
      BY <3>1 DEF WaitsFor
    <3>. QED
      BY <1>3, <3>1, <3>2 DEF WaitsFor
  <2>. QED
    BY <1>3, <2>1, <2>2, <2>3, <2>4 DEF Chain, Waits
<1>. QED
  BY <1>1, <1>2, <1>4, <1>5 DEF FetchInv

(* One asks for a part, and waits for it.                                  *)
LEMMA Ask ==
  ASSUME NEW p, NEW c, NEW r, FetchInv(p, c, r),
         NEW n \in Data, NEW k \in Data, NEW to,
         \/ p[n] = "asked" /\ Kind(n) \in {"url", "replace"} /\ k = Input(n) /\ to = "input"
         \/ p[n] = "subs" /\ AllDone(p, n) /\ k = Input(n) /\ to = "input"
         \/ /\ p[n] = "subs" /\ to = "sub"
            /\ c[n] \in DOMAIN Subregexps(n) /\ k = Subregexps(n)[c[n]]
  PROVE  FetchInv([p EXCEPT ![n] = to, ![k] = "asked"], c, r)
<1> DEFINE q == [p EXCEPT ![n] = to, ![k] = "asked"]
<1>1. p \in [Data -> Phases] /\ c \in [Data -> Nat \ {0}] /\ r \in Roots
  BY DEF FetchInv
<1>2. q \in [Data -> Phases]
  BY <1>1 DEF Phases
<1>3. p[k] = "idle" /\ k # n /\ k # NoInput
  <2>1. Progress(p, c, n)
    BY DEF FetchInv
  <2>2. k # NoInput
    BY NoInputAssumption
  <2>. QED
    BY <2>1, <2>2 DEF Progress
<1>4. q[n] = to /\ q[k] = "asked" /\ \A m \in Data \ {n, k} : q[m] = p[m]
  BY <1>1, <1>3
<1>5. ASSUME NEW m \in Data PROVE Progress(q, c, m)
  <2>1. Progress(p, c, m) /\ Progress(p, c, n) /\ Progress(p, c, k)
    BY DEF FetchInv
  <2>2. CASE m \notin {n, k}
    <3>1. k # Input(m) /\ \A i \in DOMAIN Subregexps(m) : Subregexps(m)[i] # k
      BY <1>3, <2>2, OneOwner
    <3>2. p[n] \notin {"idle", "done"}
      OBVIOUS
    <3>3. \A x \in Data : x = Input(m) \/ (\E i \in DOMAIN Subregexps(m) : Subregexps(m)[i] = x)
             => q[x] = p[x] \/ p[x] \notin {"idle", "done"}
      BY <1>4, <3>1, <3>2
    <3>4. q[m] = p[m]
      BY <1>4, <2>2
    <3>. HIDE DEF q
    <3>. QED
      BY <2>1, <3>3, <3>4, Elsewhere
  <2>3. CASE m = k
    <3>1. k # Input(k) /\ \A i \in DOMAIN Subregexps(k) : Subregexps(k)[i] # k
      BY <1>3, OneOwner
    <3>2. /\ c[k] = 1
          /\ \A i \in DOMAIN Subregexps(k) : p[Subregexps(k)[i]] = "idle"
          /\ Input(k) # NoInput => p[Input(k)] = "idle"
      BY <1>3, <2>1 DEF Progress
    <3>3. /\ \A i \in DOMAIN Subregexps(k) : q[Subregexps(k)[i]] = "idle"
          /\ Input(k) # NoInput => q[Input(k)] = "idle"
      BY <1>3, <1>4, <3>1, <3>2, Structure
    <3>. QED
      BY <1>4, <2>3, <3>2, <3>3 DEF Progress
  <2>4. CASE m = n
    <3>1. \A i \in DOMAIN Subregexps(n) :
             Subregexps(n)[i] # k => \/ q[Subregexps(n)[i]] = p[Subregexps(n)[i]]
                                     \/ p[Subregexps(n)[i]] \notin {"idle", "done"}
      BY <1>4, Structure
    <3>2. CASE to = "input"
      <4>1. \A i \in DOMAIN Subregexps(n) : Subregexps(n)[i] # k
        BY <3>2, OneOwner
      <4>2. Kind(n) \in {"url", "replace", "regexp"} /\ (Kind(n) = "regexp" => AllDone(p, n))
        BY <2>1, <3>2 DEF Progress
      <4>. QED
        BY <1>3, <1>4, <2>4, <3>1, <3>2, <4>1, <4>2 DEF Progress, AllDone
    <3>3. CASE to = "sub"
      <4>1. /\ p[n] = "subs" /\ c[n] \in DOMAIN Subregexps(n) /\ c[n] \in Nat
            /\ k = Subregexps(n)[c[n]]
        BY <1>1, <3>3
      <4>2. \A i \in DOMAIN Subregexps(n) : i # c[n] => Subregexps(n)[i] # k
        BY <4>1, OneOwner
      <4>3. k # Input(n)
        BY <4>1, OneOwner
      <4>4. Input(n) # NoInput => Input(n) # n /\ q[Input(n)] = "idle"
        BY <1>4, <2>1, <4>1, <4>3, Structure DEF Progress
      <4>5. ASSUME NEW i \in DOMAIN Subregexps(n)
            PROVE  /\ i < c[n] => q[Subregexps(n)[i]] = "done"
                   /\ i > c[n] => q[Subregexps(n)[i]] = "idle"
        <5>1. i \in Nat
          BY Structure
        <5>2. i # c[n] => \/ q[Subregexps(n)[i]] = p[Subregexps(n)[i]]
                          \/ p[Subregexps(n)[i]] \notin {"idle", "done"}
          BY <3>1, <4>2
        <5>3. /\ i < c[n] => p[Subregexps(n)[i]] = "done"
              /\ i > c[n] => p[Subregexps(n)[i]] = "idle"
          BY <2>1, <4>1 DEF Progress
        <5>. QED
          BY <4>1, <5>1, <5>2, <5>3
      <4>6. Kind(n) = "regexp"
        BY <2>1, <4>1 DEF Progress
      <4>. QED
        BY <1>3, <1>4, <2>4, <3>3, <4>1, <4>4, <4>5, <4>6 DEF Progress
    <3>. QED
      BY <3>2, <3>3
  <2>. QED
    BY <2>2, <2>3, <2>4
<1>6. \E s : Chain(q, c, r, s)
  <2>1. PICK s : Chain(p, c, r, s)
    BY DEF FetchInv
  <2>2. n \in Active(p) /\ ~Waits(p, n) /\ Active(q) = Active(p) \cup {k}
    BY <1>3, <1>4 DEF Active, Waits
  <2>3. Len(s) \in Nat \ {0} /\ s[Len(s)] = n
    BY <2>1, <2>2, LastOfChain
  <2> DEFINE t == Append(s, k)
  <2>4. /\ s \in Seq(Data) /\ t \in Seq(Data) /\ Len(t) = Len(s) + 1 /\ t[Len(s) + 1] = k
        /\ \A i \in 1 .. Len(s) : t[i] = s[i]
    BY <2>1 DEF Chain
  <2>5. Active(q) = {t[i] : i \in 1 .. Len(t)}
    <3>1. 1 .. Len(t) = (1 .. Len(s)) \cup {Len(s) + 1}
      BY <2>3, <2>4
    <3>2. {t[i] : i \in 1 .. Len(t)} = {t[i] : i \in 1 .. Len(s)} \cup {t[Len(s) + 1]}
      BY <3>1
    <3>3. {t[i] : i \in 1 .. Len(s)} = {s[i] : i \in 1 .. Len(s)}
      BY <2>4
    <3>. QED
      BY <2>1, <2>2, <2>4, <3>2, <3>3 DEF Chain
  <2>6. \A i \in 1 .. Len(t) - 1 : WaitsFor(q, c, t[i], t[i + 1])
    <3> SUFFICES ASSUME NEW i \in 1 .. Len(t) - 1 PROVE WaitsFor(q, c, t[i], t[i + 1])
      OBVIOUS
    <3>1. CASE i = Len(s)
      <4>1. t[i] = n /\ t[i + 1] = k
        BY <2>3, <2>4, <3>1
      <4>. QED
        BY <1>4, <4>1, <1>3 DEF WaitsFor
    <3>2. CASE i # Len(s)
      <4>1. i \in 1 .. Len(s) - 1 /\ i + 1 \in 1 .. Len(s)
        BY <2>3, <2>4, <3>2
      <4>2. t[i] = s[i] /\ t[i + 1] = s[i + 1] /\ s[i] \in Data
        BY <2>4, <4>1
      <4>3. WaitsFor(p, c, s[i], s[i + 1])
        BY <2>1, <4>1 DEF Chain
      <4>4. s[i] # n /\ s[i] # k
        BY <1>3, <4>3 DEF WaitsFor
      <4>. QED
        BY <1>4, <4>2, <4>3, <4>4 DEF WaitsFor
    <3>. QED
      BY <3>1, <3>2
  <2>7. t[1] = r
    BY <2>1, <2>3, <2>4 DEF Chain
  <2>8. ~Waits(q, t[Len(t)])
    BY <1>4, <2>4 DEF Waits
  <2>. QED
    BY <2>4, <2>5, <2>6, <2>7, <2>8 DEF Chain
<1>. QED
  BY <1>1, <1>2, <1>5, <1>6 DEF FetchInv

(* What calls back and is not what was asked for has one that waits for    *)
(* it, its owner.                                                          *)
LEMMA Awaited ==
  ASSUME NEW p, NEW c, NEW r, FetchInv(p, c, r),
         NEW n \in Data, p[n] = "answering", n # r,
         NEW s, Chain(p, c, r, s)
  PROVE  /\ Len(s) \in Nat /\ Len(s) > 1
         /\ s[Len(s)] = n /\ s[Len(s) - 1] = Owner(n)
         /\ Owner(n) \in Data /\ WaitsFor(p, c, Owner(n), n)
<1>1. n \in Active(p) /\ ~Waits(p, n)
  BY DEF Active, Waits
<1>2. Len(s) \in Nat \ {0} /\ s[Len(s)] = n
  BY <1>1, LastOfChain
<1>3. Len(s) \in Nat /\ Len(s) > 1
  <2>1. Len(s) # 1
    BY <1>2 DEF Chain
  <2> DEFINE l == Len(s)
  <2>2. l \in Nat \ {0}
    BY <1>2
  <2>3. l # 1
    BY <2>1
  <2> HIDE DEF l
  <2>4. l > 1
    BY <2>2, <2>3
  <2>. QED
    BY <2>2, <2>4 DEF l
<1> DEFINE m == s[Len(s) - 1]
<1>4. m \in Data /\ WaitsFor(p, c, m, n)
  <2>1. Len(s) - 1 \in 1 .. Len(s) - 1 /\ Len(s) - 1 \in 1 .. Len(s)
    BY <1>3
  <2>2. Len(s) - 1 + 1 = Len(s)
    BY <1>2
  <2>3. \A i \in 1 .. Len(s) - 1 : WaitsFor(p, c, s[i], s[i + 1])
    BY DEF Chain
  <2>4. WaitsFor(p, c, s[Len(s) - 1], s[Len(s) - 1 + 1])
    BY <2>1, <2>3
  <2>5. s[Len(s) - 1] \in Data
    BY <2>1 DEF Chain
  <2>. QED
    BY <1>2, <2>2, <2>4, <2>5
<1>. HIDE DEF m
<1>5. Input(m) = n \/ IsSubregexp(n, m)
  BY <1>4 DEF WaitsFor, IsSubregexp
<1>6. ASSUME NEW x \in Data, Input(x) = n \/ IsSubregexp(n, x) PROVE x = m
  <2>1. n # NoInput
    BY NoInputAssumption
  <2>2. CASE Input(x) = n
    BY <1>4, <1>5, <2>1, <2>2, OneOwner DEF IsSubregexp
  <2>3. CASE IsSubregexp(n, x)
    BY <1>4, <1>5, <2>1, <2>3, OneOwner DEF IsSubregexp
  <2>. QED
    BY <1>6, <2>2, <2>3
<1>7. Owner(n) = m
  BY <1>4, <1>5, <1>6 DEF Owner
<1>. QED
  BY <1>2, <1>3, <1>4, <1>7 DEF m

(* One calls back, and the one that waits for it goes on.                  *)
LEMMA Return ==
  ASSUME NEW p, NEW c, NEW r, FetchInv(p, c, r),
         NEW n \in Data, p[n] = "answering", n # r,
         NEW m \in Data, m = Owner(n), NEW to, NEW d,
         \/ p[m] = "sub" /\ to = "subs" /\ d = [c EXCEPT ![m] = @ + 1]
         \/ p[m] = "input" /\ to = "answering" /\ d = c
         \/ p[m] = "input" /\ to = "net" /\ d = c /\ Kind(m) = "url"
  PROVE  FetchInv([p EXCEPT ![n] = "done", ![m] = to], d, r)
<1> DEFINE q == [p EXCEPT ![n] = "done", ![m] = to]
<1>1. p \in [Data -> Phases] /\ c \in [Data -> Nat \ {0}] /\ r \in Roots
  BY DEF FetchInv
<1>2. PICK s : Chain(p, c, r, s)
  BY DEF FetchInv
<1>3. /\ Len(s) \in Nat /\ Len(s) > 1 /\ s[Len(s)] = n /\ s[Len(s) - 1] = m
      /\ WaitsFor(p, c, m, n)
  BY <1>2, Awaited
<1>4. q \in [Data -> Phases] /\ d \in [Data -> Nat \ {0}]
  BY <1>1 DEF Phases
<1>5. m # n /\ to \notin {"idle", "done", "sub", "input"} /\ p[m] \notin {"idle", "done"}
  OBVIOUS
<1>6. q[n] = "done" /\ q[m] = to /\ \A x \in Data \ {n, m} : q[x] = p[x]
  BY <1>1, <1>5
<1>7. \A x \in Data \ {m} : d[x] = c[x]
  BY <1>1
<1>8. \A x \in Data : p[x] = "done" => q[x] = "done"
  BY <1>5, <1>6
<1>9. \A x \in Data : p[x] = "idle" => q[x] = "idle"
  BY <1>5, <1>6
<1>. HIDE DEF q
<1>10. ASSUME NEW x \in Data PROVE Progress(q, d, x)
  <2>1. Progress(p, c, x)
    BY DEF FetchInv
  <2>2. CASE x \notin {n, m}
    <3>1. n # Input(x) /\ \A i \in DOMAIN Subregexps(x) : Subregexps(x)[i] # n
      <4>1. x # m /\ n # NoInput
        BY <2>2, NoInputAssumption
      <4>2. CASE Input(m) = n
        BY <4>1, <4>2, OneOwner
      <4>3. CASE IsSubregexp(n, m)
        BY <4>1, <4>3, OneOwner DEF IsSubregexp
      <4>. QED
        BY <1>3, <4>2, <4>3 DEF WaitsFor, IsSubregexp
    <3>2. \A y \in Data : y = Input(x) \/ (\E i \in DOMAIN Subregexps(x) : Subregexps(x)[i] = y)
             => q[y] = p[y] \/ p[y] \notin {"idle", "done"}
      BY <1>5, <1>6, <3>1
    <3>3. q[x] = p[x] /\ d[x] = c[x]
      BY <1>6, <1>7, <2>2
    <3>. QED
      BY <2>1, <3>2, <3>3, Elsewhere
  <2>3. CASE x = n
    BY <1>6, <2>3 DEF Progress
  <2>4. CASE x = m /\ p[m] = "sub"
    <3>1. to = "subs" /\ d[m] = c[m] + 1 /\ c[m] \in Nat
      BY <1>1, <2>4
    <3>2. c[m] \in DOMAIN Subregexps(m) /\ Subregexps(m)[c[m]] = n
      BY <1>3, <2>4 DEF WaitsFor
    <3>3. Kind(m) = "regexp" /\ (Input(m) # NoInput => p[Input(m)] = "idle")
      BY <2>1, <2>4 DEF Progress
    <3>4. Input(m) # NoInput => q[Input(m)] = "idle"
      BY <1>9, <3>3, Structure
    <3>5. ASSUME NEW i \in DOMAIN Subregexps(m)
          PROVE  /\ i < d[m] => q[Subregexps(m)[i]] = "done"
                 /\ i >= d[m] => q[Subregexps(m)[i]] = "idle"
      <4>1. i \in Nat /\ Subregexps(m)[i] \in Data
        BY Structure
      <4>2. /\ i < c[m] => p[Subregexps(m)[i]] = "done"
            /\ i > c[m] => p[Subregexps(m)[i]] = "idle"
        BY <2>1, <2>4 DEF Progress
      <4>3. i = c[m] => q[Subregexps(m)[i]] = "done"
        BY <1>6, <3>2
      <4>4. /\ i < c[m] => q[Subregexps(m)[i]] = "done"
            /\ i > c[m] => q[Subregexps(m)[i]] = "idle"
        BY <1>8, <1>9, <4>1, <4>2
      <4>. QED
        BY <3>1, <4>1, <4>3, <4>4
    <3>6. \A i \in DOMAIN Subregexps(m) : /\ i > d[m] => q[Subregexps(m)[i]] = "idle"
                                          /\ i = d[m] => q[Subregexps(m)[i]] = "idle"
      <4>1. \A i \in DOMAIN Subregexps(m) : i \in Nat
        BY Structure
      <4>. QED
        BY <3>1, <3>5, <4>1
    <3>7. q[m] = "subs"
      BY <1>6, <3>1
    <3>8. Progress(q, d, m)
      BY <3>3, <3>4, <3>5, <3>6, <3>7 DEF Progress
    <3>. QED
      BY <2>4, <3>8
  <2>5. CASE x = m /\ p[m] = "input"
    <3>1. Kind(m) = "regexp" => AllDone(p, m)
      BY <2>1, <2>5 DEF Progress
    <3>2. AllDone(p, m) => AllDone(q, m)
      BY <1>8, Structure DEF AllDone
    <3>3. \/ to = "answering"
          \/ to = "net" /\ Kind(m) = "url"
      BY <2>5
    <3>. QED
      BY <1>6, <2>5, <3>1, <3>2, <3>3 DEF Progress
  <2>6. p[m] \in {"sub", "input"}
    OBVIOUS
  <2>. QED
    BY <2>2, <2>3, <2>4, <2>5, <2>6
<1>11. \E t : Chain(q, d, r, t)
  <2> DEFINE t == SubSeq(s, 1, Len(s) - 1)
  <2>1. /\ s \in Seq(Data) /\ s[1] = r
        /\ Active(p) = {s[i] : i \in 1 .. Len(s)}
        /\ \A i \in 1 .. Len(s) - 1 : WaitsFor(p, c, s[i], s[i + 1])
    BY <1>2, <1>3 DEF Chain
  <2>2. /\ t \in Seq(Data) /\ Len(t) = Len(s) - 1
        /\ \A i \in 1 .. Len(s) - 1 : t[i] = s[i]
    BY <1>3, <2>1
  <2>. HIDE DEF t
  <2>3. \A i \in 1 .. Len(s) - 1 : s[i] \in Data /\ s[i] # n
    BY <1>3, <2>1 DEF WaitsFor
  <2>4. \A i \in 1 .. Len(s) - 2 : s[i] # m
    <3> SUFFICES ASSUME NEW i \in 1 .. Len(s) - 2, s[i] = m PROVE FALSE
      OBVIOUS
    <3>1. i \in 1 .. Len(s) - 1 /\ i + 1 \in 1 .. Len(s) - 1
      BY <1>3
    <3>2. WaitsFor(p, c, m, s[i + 1]) /\ s[i + 1] # n
      BY <2>1, <2>3, <3>1
    <3>. QED
      BY <1>3, <3>2 DEF WaitsFor
  <2>5. Active(q) = {t[i] : i \in 1 .. Len(t)}
    <3>1. Active(q) = Active(p) \ {n}
      BY <1>5, <1>6 DEF Active
    <3>2. 1 .. Len(s) = (1 .. Len(s) - 1) \cup {Len(s)}
      BY <1>3
    <3>3. {s[i] : i \in 1 .. Len(s)} = {s[i] : i \in 1 .. Len(s) - 1} \cup {s[Len(s)]}
      BY <3>2
    <3>4. {t[i] : i \in 1 .. Len(t)} = {s[i] : i \in 1 .. Len(s) - 1}
      BY <2>2
    <3>. QED
      BY <1>3, <2>1, <2>3, <3>1, <3>3, <3>4
  <2>6. t[1] = r /\ t[Len(t)] = m
    BY <1>3, <2>1, <2>2
  <2>7. ~Waits(q, t[Len(t)])
    BY <1>5, <1>6, <2>6 DEF Waits
  <2>8. ASSUME NEW i \in 1 .. Len(t) - 1 PROVE WaitsFor(q, d, t[i], t[i + 1])
    <3>1. i \in 1 .. Len(s) - 2 /\ i \in 1 .. Len(s) - 1 /\ i + 1 \in 1 .. Len(s) - 1
      BY <1>3, <2>2
    <3>2. t[i] = s[i] /\ t[i + 1] = s[i + 1] /\ WaitsFor(p, c, s[i], s[i + 1])
      BY <2>1, <2>2, <3>1
    <3>3. s[i] \in Data /\ s[i] # n /\ s[i] # m
      BY <2>3, <2>4, <3>1
    <3>4. q[s[i]] = p[s[i]] /\ d[s[i]] = c[s[i]]
      BY <1>6, <1>7, <3>3
    <3>. QED
      BY <3>2, <3>4 DEF WaitsFor
  <2>. QED
    BY <2>2, <2>5, <2>6, <2>7, <2>8 DEF Chain
<1>. QED
  BY <1>1, <1>4, <1>10, <1>11 DEF FetchInv, q

(* A fetch starts with what is asked for.                                  *)
LEMMA StartRoot ==
  ASSUME NEW p, NEW c, NEW r, FetchInv(p, c, r), p[r] = "idle"
  PROVE  FetchInv([p EXCEPT ![r] = "asked"], c, r)
<1> DEFINE q == [p EXCEPT ![r] = "asked"]
<1>1. p \in [Data -> Phases] /\ c \in [Data -> Nat \ {0}] /\ r \in Roots /\ r \in Data
  BY RootsAssumption DEF FetchInv
<1>2. q \in [Data -> Phases] /\ q[r] = "asked" /\ \A x \in Data \ {r} : q[x] = p[x]
  BY <1>1 DEF Phases
<1>. HIDE DEF q
<1>3. ASSUME NEW x \in Data PROVE Progress(q, c, x)
  <2>1. Progress(p, c, x)
    BY DEF FetchInv
  <2>2. Input(x) # r /\ \A i \in DOMAIN Subregexps(x) : Subregexps(x)[i] # r
    BY <1>1, OneOwner
  <2>3. CASE x # r
    BY <1>2, <2>1, <2>2, <2>3, Elsewhere
  <2>4. CASE x = r
    <3>1. /\ \A i \in DOMAIN Subregexps(r) : q[Subregexps(r)[i]] = p[Subregexps(r)[i]]
          /\ Input(r) # NoInput => q[Input(r)] = p[Input(r)]
      BY <1>1, <1>2, <2>2, <2>4, Structure
    <3>. QED
      BY <1>2, <2>1, <2>4, <3>1 DEF Progress
  <2>. QED
    BY <2>3, <2>4
<1>4. Chain(q, c, r, <<r>>)
  <2>1. Active(p) = {}
    BY NoChain DEF FetchInv, Active
  <2>2. Active(q) = {r}
    BY <1>1, <1>2, <2>1 DEF Active
  <2>3. <<r>> \in Seq(Data) /\ Len(<<r>>) = 1 /\ <<r>>[1] = r
    BY <1>1
  <2>. QED
    BY <1>2, <2>2, <2>3 DEF Chain, Waits
<1>. QED
  BY <1>1, <1>2, <1>3, <1>4 DEF FetchInv, q

(* A fetch ends when what was asked for calls back: nothing else of it is  *)
(* active then.                                                            *)
LEMMA FinishRoot ==
  ASSUME NEW p, NEW c, NEW r, FetchInv(p, c, r), p[r] = "answering"
  PROVE  FetchInv([p EXCEPT ![r] = "done"], c, r)
<1> DEFINE q == [p EXCEPT ![r] = "done"]
<1>1. p \in [Data -> Phases] /\ c \in [Data -> Nat \ {0}] /\ r \in Roots /\ r \in Data
  BY RootsAssumption DEF FetchInv
<1>2. q \in [Data -> Phases] /\ q[r] = "done" /\ \A x \in Data \ {r} : q[x] = p[x]
  BY <1>1 DEF Phases
<1>. HIDE DEF q
<1>3. ASSUME NEW x \in Data PROVE Progress(q, c, x)
  <2>1. Progress(p, c, x)
    BY DEF FetchInv
  <2>2. Input(x) # r /\ \A i \in DOMAIN Subregexps(x) : Subregexps(x)[i] # r
    BY <1>1, OneOwner
  <2>3. CASE x # r
    BY <1>2, <2>1, <2>2, <2>3, Elsewhere
  <2>4. CASE x = r
    BY <1>2, <2>4 DEF Progress
  <2>. QED
    BY <2>3, <2>4
<1>4. Chain(q, c, r, <<>>)
  <2>1. PICK s : Chain(p, c, r, s)
    BY DEF FetchInv
  <2>2. r \in Active(p) /\ ~Waits(p, r)
    BY <1>1 DEF Active, Waits
  <2>3. Len(s) \in Nat \ {0} /\ s[1] = r
    BY <2>1, <2>2, LastOfChain DEF Chain
  <2>4. Len(s) = 1
    <3>. SUFFICES ASSUME Len(s) > 1 PROVE FALSE
      BY <2>3
    <3>1. 1 \in 1 .. Len(s) - 1
      BY <2>3
    <3>. QED
      BY <2>1, <2>3, <3>1 DEF Chain, WaitsFor
  <2>5. Active(p) = {r}
    BY <2>1, <2>3, <2>4 DEF Chain
  <2>6. Active(q) = {}
    BY <1>2, <2>5 DEF Active
  <2>. QED
    BY <2>6 DEF Chain
<1>. QED
  BY <1>1, <1>2, <1>3, <1>4 DEF FetchInv, q

-----------------------------------------------------------------------------
(* The contents.                                                           *)

(* What a nested fetch makes of its input, and what is put in its place,   *)
(* are contents of buffers.                                                *)
LEMMA MadeIsContent ==
  ASSUME buffers \in [Ids -> Contents], NEW n \in Data, NEW input \in Contents
  PROVE  Made(n, input) \subseteq Contents /\ Replaced(n, input) \subseteq Contents
<1>1. Null \in Contents /\ SUBSET Fetches \subseteq Contents
  BY DEF Contents
<1>2. \A x \in Contents : x # Null => x \subseteq Fetches
  BY DEF Contents
<1>3. ASSUME NEW b PROVE Buffer(b) \in Contents
  BY <1>1 DEF Buffer
<1>4. \A x \in Mentioned(n) : x \subseteq Fetches
  BY <1>2, <1>3 DEF Mentioned
<1>5. UNION Mentioned(n) \subseteq Fetches
  BY <1>4
<1>6. \A x \in Mentioned(n) \cup ({input} \ {Null}) : x \subseteq Fetches
  BY <1>2, <1>4
<1>7. UNION (Mentioned(n) \cup ({input} \ {Null})) \subseteq Fetches
  BY <1>6
<1>8. input # Null => input \cup UNION Mentioned(n) \subseteq Fetches
  BY <1>2, <1>5
<1>9. \A x : x \subseteq Fetches => x \in Contents
  BY <1>1
<1>10. Made(n, input) \subseteq Contents
  BY <1>1, <1>5, <1>7, <1>9 DEF Made
<1>11. Replaced(n, input) \subseteq Contents
  BY <1>1, <1>5, <1>8, <1>9 DEF Replaced
<1>. QED
  BY <1>10, <1>11

-----------------------------------------------------------------------------
(* The inductive invariant.                                                *)

(* A fetch was answered when what it asked for is done.                    *)
AnsweredWhenDone ==
    \A f \in Fetches : answers[f] = IF phase[f][root[f]] = "done" THEN 1 ELSE 0

FetchesInv == \A f \in Fetches : FetchInv(phase[f], current[f], root[f])

IInv == TypeOK /\ FetchesInv /\ AnsweredWhenDone

(* The invariant holds at the start.                                       *)
LEMMA InitIInv == Init => IInv
<1>. SUFFICES ASSUME Init PROVE IInv
  OBVIOUS
<1>1. TypeOK
  <2>1. Null \in Contents
    BY DEF Contents
  <2>. QED
    BY <2>1 DEF Init, TypeOK, Phases
<1>2. ASSUME NEW f \in Fetches PROVE FetchInv(phase[f], current[f], root[f])
  <2>1. /\ phase[f] = [n \in Data |-> "idle"] /\ current[f] = [n \in Data |-> 1]
        /\ root[f] \in Roots
    BY DEF Init
  <2>2. \A n \in Data : Progress(phase[f], current[f], n)
    BY <2>1, Structure DEF Progress
  <2>3. Chain(phase[f], current[f], root[f], <<>>)
    BY <2>1 DEF Chain, Active
  <2>. QED
    BY <2>1, <2>2, <2>3 DEF FetchInv, Phases
<1>3. AnsweredWhenDone
  BY RootsAssumption DEF Init, AnsweredWhenDone
<1>. QED
  BY <1>1, <1>2, <1>3 DEF IInv, FetchesInv

(* A step of one fetch that goes on leaves the others as they are, and it  *)
(* is not answered.                                                        *)
LEMMA OneFetch ==
  ASSUME IInv, NEW f \in Fetches, NEW p, NEW c, FetchInv(p, c, root[f]),
         Active(phase[f]) # {}, Active(p) # {},
         phase' = [phase EXCEPT ![f] = p], current' = [current EXCEPT ![f] = c],
         UNCHANGED <<root, answers>>
  PROVE  /\ FetchesInv' /\ AnsweredWhenDone'
         /\ phase' \in [Fetches -> [Data -> Phases]] /\ current' \in [Fetches -> [Data -> Nat]]
<1>1. /\ phase \in [Fetches -> [Data -> Phases]] /\ current \in [Fetches -> [Data -> Nat]]
      /\ p \in [Data -> Phases] /\ c \in [Data -> Nat]
  BY DEF IInv, TypeOK, FetchInv
<1>2. FetchesInv'
  BY <1>1 DEF IInv, FetchesInv
<1>3. phase[f][root[f]] # "done" /\ p[root[f]] # "done"
  <2>1. FetchInv(phase[f], current[f], root[f])
    BY DEF IInv, FetchesInv
  <2>2. root[f] \in Active(phase[f]) /\ root[f] \in Active(p)
    BY <2>1, NoChain DEF FetchInv
  <2>. QED
    BY <2>2 DEF Active
<1>4. AnsweredWhenDone'
  BY <1>1, <1>3 DEF IInv, AnsweredWhenDone
<1>. QED
  BY <1>1, <1>2, <1>4

(* Such a step keeps the invariant when what it leaves in the result and   *)
(* in the buffers are contents.                                            *)
LEMMA GoesOn ==
  ASSUME IInv, NEW f \in Fetches, NEW p, NEW c, FetchInv(p, c, root[f]),
         Active(phase[f]) # {}, Active(p) # {},
         phase' = [phase EXCEPT ![f] = p], current' = [current EXCEPT ![f] = c],
         result' \in [Fetches -> [content : Contents, error : BOOLEAN]],
         buffers' \in [Ids -> Contents],
         UNCHANGED Outside
  PROVE  IInv'
<1>1. UNCHANGED <<root, cancelled, answers, got>>
  BY DEF Outside
<1>2. /\ FetchesInv' /\ AnsweredWhenDone'
      /\ phase' \in [Fetches -> [Data -> Phases]] /\ current' \in [Fetches -> [Data -> Nat]]
  BY <1>1, OneFetch
<1>3. TypeOK'
  BY <1>1, <1>2 DEF IInv, TypeOK
<1>. QED
  BY <1>2, <1>3 DEF IInv

(* The answers that decide a FetchData.                                    *)
LEMMA AnswerStep ==
  ASSUME IInv, NEW f \in Fetches, NEW n \in Data, NEW content \in Contents, NEW error \in BOOLEAN,
         \/ phase[f][n] \in {"asked", "net"} /\ Kind(n) # "regexp"
         \/ phase[f][n] = "subs" /\ AllDone(phase[f], n),
         Answer(f, n, content, error),
         UNCHANGED <<current, buffers, Outside>>
  PROVE  IInv'
<1> DEFINE p == [phase[f] EXCEPT ![n] = "answering"]
<1>1. TypeOK /\ FetchInv(phase[f], current[f], root[f])
  BY DEF IInv, FetchesInv
<1>2. FetchInv(p, current[f], root[f])
  BY <1>1, Turn
<1>3. phase' = [phase EXCEPT ![f] = p] /\ current' = [current EXCEPT ![f] = current[f]]
  BY <1>1 DEF Answer, Go, TypeOK
<1>4. result' \in [Fetches -> [content : Contents, error : BOOLEAN]] /\ buffers' \in [Ids -> Contents]
  BY <1>1 DEF Answer, TypeOK
<1>5. n \in Active(phase[f]) /\ n \in Active(p)
  BY <1>1 DEF Active, TypeOK
<1>. HIDE DEF p
<1>. QED
  BY <1>2, <1>3, <1>4, <1>5, GoesOn

(* One takes its turn without an answer.                                   *)
LEMMA GoStep ==
  ASSUME IInv, NEW f \in Fetches, NEW n \in Data, NEW to,
         \/ phase[f][n] = "asked" /\ to = "subs" /\ Kind(n) = "regexp"
         \/ phase[f][n] = "asked" /\ to = "net" /\ Kind(n) = "rest",
         Go(f, n, to),
         UNCHANGED <<current, result, buffers, Outside>>
  PROVE  IInv'
<1> DEFINE p == [phase[f] EXCEPT ![n] = to]
<1>1. TypeOK /\ FetchInv(phase[f], current[f], root[f])
  BY DEF IInv, FetchesInv
<1>2. FetchInv(p, current[f], root[f])
  BY <1>1, Turn
<1>3. phase' = [phase EXCEPT ![f] = p] /\ current' = [current EXCEPT ![f] = current[f]]
  BY <1>1 DEF Go, TypeOK
<1>4. result' \in [Fetches -> [content : Contents, error : BOOLEAN]] /\ buffers' \in [Ids -> Contents]
  BY <1>1 DEF TypeOK
<1>5. n \in Active(phase[f]) /\ n \in Active(p)
  BY <1>1 DEF Active, TypeOK
<1>. HIDE DEF p
<1>. QED
  BY <1>2, <1>3, <1>4, <1>5, GoesOn

(* One asks for k and waits for it.                                        *)
LEMMA AskStep ==
  ASSUME IInv, NEW f \in Fetches, NEW n \in Data, NEW k \in Data, NEW to,
         \/ /\ phase[f][n] = "asked" /\ Kind(n) \in {"url", "replace"}
            /\ k = Input(n) /\ to = "input"
         \/ phase[f][n] = "subs" /\ AllDone(phase[f], n) /\ k = Input(n) /\ to = "input"
         \/ /\ phase[f][n] = "subs" /\ to = "sub"
            /\ current[f][n] \in DOMAIN Subregexps(n) /\ k = Subregexps(n)[current[f][n]],
         phase' = [phase EXCEPT ![f][n] = to, ![f][k] = "asked"],
         UNCHANGED <<current, result, buffers, Outside>>
  PROVE  IInv'
<1> DEFINE p == [phase[f] EXCEPT ![n] = to, ![k] = "asked"]
<1>1. TypeOK /\ FetchInv(phase[f], current[f], root[f])
  BY DEF IInv, FetchesInv
<1>2. FetchInv(p, current[f], root[f])
  BY <1>1, Ask
<1>3. phase' = [phase EXCEPT ![f] = p] /\ current' = [current EXCEPT ![f] = current[f]]
  BY <1>1 DEF TypeOK
<1>4. result' \in [Fetches -> [content : Contents, error : BOOLEAN]] /\ buffers' \in [Ids -> Contents]
  BY <1>1 DEF TypeOK
<1>5. n \in Active(phase[f]) /\ k \in Active(p)
  BY <1>1 DEF Active, TypeOK
<1>. HIDE DEF p
<1>. QED
  BY <1>2, <1>3, <1>4, <1>5, GoesOn

(* One calls back, and its owner goes on.                                  *)
LEMMA ReturnStep ==
  ASSUME IInv, NEW f \in Fetches, NEW n \in Data, phase[f][n] = "answering", n # root[f],
         NEW m \in Data, m = Owner(n), NEW to, NEW c,
         \/ phase[f][m] = "sub" /\ to = "subs" /\ c = [current[f] EXCEPT ![m] = @ + 1]
         \/ phase[f][m] = "input" /\ to = "answering" /\ c = current[f]
         \/ phase[f][m] = "input" /\ to = "net" /\ c = current[f] /\ Kind(m) = "url",
         Pass(f, n, m, to), current' = [current EXCEPT ![f] = c],
         result' \in [Fetches -> [content : Contents, error : BOOLEAN]],
         buffers' \in [Ids -> Contents],
         UNCHANGED Outside
  PROVE  IInv'
<1> DEFINE p == [phase[f] EXCEPT ![n] = "done", ![m] = to]
<1>1. TypeOK /\ FetchInv(phase[f], current[f], root[f])
  BY DEF IInv, FetchesInv
<1>2. FetchInv(p, c, root[f])
  BY <1>1, Return
<1>3. phase' = [phase EXCEPT ![f] = p]
  BY <1>1 DEF Pass, TypeOK
<1>4. n \in Active(phase[f]) /\ m \in Active(p)
  BY <1>1 DEF Active, TypeOK
<1>. HIDE DEF p
<1>. QED
  BY <1>2, <1>3, <1>4, GoesOn

-----------------------------------------------------------------------------
(* The actions.                                                            *)

(* Start keeps the invariant.                                              *)
LEMMA StartIInv == ASSUME IInv, NEW f \in Fetches, Start(f) PROVE IInv'
<1> DEFINE p == [phase[f] EXCEPT ![root[f]] = "asked"]
<1>1. TypeOK /\ FetchInv(phase[f], current[f], root[f])
  BY DEF IInv, FetchesInv
<1>2. root[f] \in Data
  BY <1>1, RootsAssumption DEF TypeOK
<1>3. FetchInv(p, current[f], root[f]) /\ p \in [Data -> Phases]
  BY <1>1, StartRoot DEF Start, FetchInv
<1>4. /\ phase' = [phase EXCEPT ![f] = p] /\ p[root[f]] = "asked"
      /\ UNCHANGED <<root, current, result, buffers, cancelled, answers, got>>
  BY <1>1, <1>2 DEF Start, Go, TypeOK, Outside
<1>. HIDE DEF p
<1>5. TypeOK'
  BY <1>1, <1>3, <1>4 DEF TypeOK
<1>6. FetchesInv'
  BY <1>1, <1>3, <1>4 DEF IInv, FetchesInv, TypeOK
<1>7. phase[f][root[f]] = "idle"
  BY DEF Start
<1>8. AnsweredWhenDone'
  BY <1>1, <1>4, <1>7 DEF IInv, AnsweredWhenDone, TypeOK
<1>. QED
  BY <1>5, <1>6, <1>8 DEF IInv

(* Answered keeps the invariant.                                           *)
LEMMA AnsweredIInv == ASSUME IInv, NEW f \in Fetches, Answered(f) PROVE IInv'
<1> DEFINE p == [phase[f] EXCEPT ![root[f]] = "done"]
<1>1. TypeOK /\ FetchInv(phase[f], current[f], root[f])
  BY DEF IInv, FetchesInv
<1>2. root[f] \in Data
  BY <1>1, RootsAssumption DEF TypeOK
<1>3. FetchInv(p, current[f], root[f]) /\ p \in [Data -> Phases]
  BY <1>1, FinishRoot DEF Answered, FetchInv
<1>4. /\ phase' = [phase EXCEPT ![f] = p] /\ p[root[f]] = "done"
      /\ answers' = [answers EXCEPT ![f] = @ + 1] /\ got' = [got EXCEPT ![f] = Content(f)]
      /\ UNCHANGED <<root, current, result, buffers, cancelled>>
  BY <1>1, <1>2 DEF Answered, Go, TypeOK
<1>. HIDE DEF p
<1>5. TypeOK'
  BY <1>1, <1>3, <1>4 DEF TypeOK, Content
<1>6. FetchesInv'
  BY <1>1, <1>3, <1>4 DEF IInv, FetchesInv, TypeOK
<1>7. phase[f][root[f]] = "answering"
  BY DEF Answered
<1>8. AnsweredWhenDone'
  BY <1>1, <1>4, <1>7 DEF IInv, AnsweredWhenDone, TypeOK
<1>. QED
  BY <1>5, <1>6, <1>8 DEF IInv

(* Nothing of a regexp is left when its current sub-regexp is past them.   *)
LEMMA AllSubregexpsDone ==
  ASSUME IInv, NEW f \in Fetches, NEW n \in Data, phase[f][n] = "subs", AllSubregexps(f, n)
  PROVE  AllDone(phase[f], n) /\ Kind(n) = "regexp"
<1>1. Progress(phase[f], current[f], n) /\ current[f][n] \in Nat
  BY DEF IInv, FetchesInv, FetchInv
<1>2. Subregexps(n) \in Seq(Data)
  BY Structure
<1>3. \A i \in DOMAIN Subregexps(n) : i < current[f][n]
  BY <1>1, <1>2 DEF AllSubregexps
<1>. QED
  BY <1>1, <1>3 DEF Progress, AllDone

(* RegexpInput keeps the invariant.                                        *)
LEMMA RegexpInputIInv ==
  ASSUME IInv, NEW f \in Fetches, NEW n \in Data, RegexpInput(f, n) PROVE IInv'
<1>1. /\ phase[f][n] = "subs" /\ AllSubregexps(f, n)
      /\ UNCHANGED <<current, buffers, Outside>>
  BY DEF RegexpInput
<1>2. AllDone(phase[f], n)
  BY <1>1, AllSubregexpsDone
<1>3. TypeOK
  BY DEF IInv
<1>4. \A b : Buffer(b) \in Contents
  BY <1>3 DEF TypeOK, Buffer, Contents
<1>5. ASSUME NEW input \in Contents, NEW content \in Made(n, input),
             Answer(f, n, content, FALSE)
      PROVE  IInv'
  <2>1. content \in Contents
    BY <1>3, <1>5, MadeIsContent DEF TypeOK
  <2>. QED
    BY <1>1, <1>2, <1>5, <2>1, AnswerStep
<1>6. CASE \E content \in Made(n, Buffer(FetchData[n].ref)) : Answer(f, n, content, FALSE)
  BY <1>4, <1>5, <1>6
<1>7. CASE \E content \in Made(n, Null) : Answer(f, n, content, FALSE)
  <2>1. Null \in Contents
    BY DEF Contents
  <2>. QED
    BY <1>5, <1>7, <2>1
<1>8. CASE Input(n) # NoInput /\ AskInput(f, n)
  <2>1. Input(n) \in Data
    BY <1>8, Structure
  <2>2. phase' = [phase EXCEPT ![f][n] = "input", ![f][Input(n)] = "asked"] /\ UNCHANGED result
    BY <1>8 DEF AskInput
  <2>. QED
    BY <1>1, <1>2, <2>1, <2>2, AskStep
<1>. QED
  BY <1>6, <1>7, <1>8 DEF RegexpInput

(* Subregexp keeps the invariant.                                          *)
LEMMA SubregexpIInv ==
  ASSUME IInv, NEW f \in Fetches, NEW n \in Data, Subregexp(f, n) PROVE IInv'
<1> DEFINE k == Subregexps(n)[current[f][n]]
<1>1. /\ phase[f][n] = "subs" /\ current[f][n] <= Len(Subregexps(n))
      /\ phase' = [phase EXCEPT ![f][n] = "sub", ![f][k] = "asked"]
      /\ UNCHANGED <<current, result, buffers, Outside>>
  BY DEF Subregexp
<1>2. current[f][n] \in DOMAIN Subregexps(n)
  <2>1. current[f][n] \in Nat \ {0}
    BY DEF IInv, FetchesInv, FetchInv
  <2>. QED
    BY <1>1, <2>1, Structure
<1>3. k \in Data
  BY <1>2, Structure
<1>. HIDE DEF k
<1>. QED
  BY <1>1, <1>2, <1>3, AskStep DEF k

(* Callback keeps the invariant.                                           *)
LEMMA CallbackIInv ==
  ASSUME IInv, NEW f \in Fetches, NEW n \in Data, Callback(f, n) PROVE IInv'
<1>1. phase[f][n] = "answering" /\ n # root[f] /\ UNCHANGED Outside
  BY DEF Callback
<1>2. TypeOK /\ FetchInv(phase[f], current[f], root[f])
  BY DEF IInv, FetchesInv
<1> DEFINE m == Owner(n)
<1>3. m \in Data /\ WaitsFor(phase[f], current[f], m, n)
  <2>1. PICK s : Chain(phase[f], current[f], root[f], s)
    BY <1>2 DEF FetchInv
  <2>. QED
    BY <1>1, <1>2, <2>1, Awaited
<1>. HIDE DEF m
<1>4. Progress(phase[f], current[f], m)
  BY <1>2, <1>3 DEF FetchInv
<1>5. Content(f) \in Contents /\ result \in [Fetches -> [content : Contents, error : BOOLEAN]]
  BY <1>2 DEF TypeOK, Content
<1>6. Null \in Contents
  BY DEF Contents
<1>7. current' = current => current' = [current EXCEPT ![f] = current[f]]
  BY <1>2 DEF TypeOK
<1>8. CASE Kind(m) = "url" /\ UrlObtained(f, n, m)
  <2>1. phase[f][m] = "input"
    BY <1>3, <1>4, <1>8 DEF Progress, WaitsFor
  <2> DEFINE to == IF result[f].error \/ Content(f) = Null THEN "answering" ELSE "net"
  <2>2. Pass(f, n, m, to) /\ to \in {"answering", "net"} /\ UNCHANGED <<current, buffers>>
    BY <1>8 DEF UrlObtained
  <2>3. result' \in [Fetches -> [content : Contents, error : BOOLEAN]] /\ buffers' \in [Ids -> Contents]
    BY <1>2, <1>5, <1>6, <1>8 DEF UrlObtained, TypeOK
  <2>. HIDE DEF to
  <2>. QED
    BY <1>1, <1>3, <1>7, <1>8, <2>1, <2>2, <2>3, ReturnStep DEF m
<1>9. CASE Kind(m) = "replace" /\ ReplaceInputObtained(f, n, m)
  <2>1. phase[f][m] = "input"
    BY <1>3, <1>4, <1>9 DEF Progress, WaitsFor
  <2>2. Pass(f, n, m, "answering") /\ UNCHANGED <<current, buffers>>
    BY <1>9 DEF ReplaceInputObtained
  <2>3. PICK content \in Replaced(m, Content(f)) : result' = [result EXCEPT ![f].content = content]
    BY <1>9 DEF ReplaceInputObtained
  <2>4. content \in Contents
    BY <1>2, <1>3, <1>5, MadeIsContent DEF TypeOK
  <2>5. result' \in [Fetches -> [content : Contents, error : BOOLEAN]] /\ buffers' \in [Ids -> Contents]
    BY <1>2, <1>5, <2>2, <2>3, <2>4 DEF TypeOK
  <2>. QED
    BY <1>1, <1>3, <1>7, <2>1, <2>2, <2>5, ReturnStep DEF m
<1>10. CASE IsSubregexp(n, m) /\ SubregexpObtained(f, n, m)
  <2>1. phase[f][m] = "sub"
    BY <1>3, <1>10, OneOwner DEF WaitsFor, IsSubregexp
  <2> DEFINE c == [current[f] EXCEPT ![m] = @ + 1]
  <2>2. Pass(f, n, m, "subs") /\ UNCHANGED result /\ current' = [current EXCEPT ![f] = c]
    BY <1>2, <1>10 DEF SubregexpObtained, TypeOK
  <2>3. buffers' \in [Ids -> Contents]
    BY <1>2, <1>5, <1>10 DEF SubregexpObtained, TypeOK
  <2>. QED
    BY <1>1, <1>3, <1>5, <2>1, <2>2, <2>3, ReturnStep DEF m
<1>11. CASE Kind(m) = "regexp" /\ Input(m) = n /\ RegexpInputObtained(f, n, m)
  <2>1. phase[f][m] = "input"
    BY <1>3, <1>11, OneOwner DEF WaitsFor
  <2>2. Pass(f, n, m, "answering") /\ UNCHANGED <<current, buffers>>
    BY <1>11 DEF RegexpInputObtained
  <2>3. PICK content \in Made(m, Content(f)) :
           result' = [result EXCEPT ![f] = [content |-> content, error |-> FALSE]]
    BY <1>11 DEF RegexpInputObtained
  <2>4. content \in Contents
    BY <1>2, <1>3, <1>5, MadeIsContent DEF TypeOK
  <2>5. result' \in [Fetches -> [content : Contents, error : BOOLEAN]] /\ buffers' \in [Ids -> Contents]
    BY <1>2, <1>5, <2>2, <2>3, <2>4 DEF TypeOK
  <2>. QED
    BY <1>1, <1>3, <1>7, <2>1, <2>2, <2>5, ReturnStep DEF m
<1>. QED
  BY <1>8, <1>9, <1>10, <1>11 DEF Callback, m

(* Every step keeps the invariant.                                         *)
LEMMA NextIInv == IInv /\ [Next]_vars => IInv'
<1>. SUFFICES ASSUME IInv, [Next]_vars PROVE IInv'
  OBVIOUS
<1>1. TypeOK
  BY DEF IInv
<1>2. \A x \in Fetches : {x} \in Contents /\ Null \in Contents
  BY DEF Contents
<1>3. ASSUME NEW f \in Fetches, NEW n \in Data, GetHere(f, n) PROVE IInv'
  <2>1. /\ phase[f][n] = "asked" /\ Kind(n) # "regexp" /\ UNCHANGED <<current, buffers, Outside>>
        /\ \E content \in {Null, {f}}, error \in BOOLEAN : Answer(f, n, content, error)
    BY <1>3 DEF GetHere
  <2>. QED
    BY <1>2, <2>1, AnswerStep
<1>4. ASSUME NEW f \in Fetches, NEW n \in Data, GetInput(f, n) PROVE IInv'
  <2>1. Input(n) \in Data
    BY <1>4, Structure DEF GetInput
  <2>2. /\ phase[f][n] = "asked" /\ Kind(n) \in {"url", "replace"}
        /\ phase' = [phase EXCEPT ![f][n] = "input", ![f][Input(n)] = "asked"]
        /\ UNCHANGED <<current, result, buffers, Outside>>
    BY <1>4 DEF GetInput, AskInput
  <2>. QED
    BY <2>1, <2>2, AskStep
<1>5. ASSUME NEW f \in Fetches, NEW n \in Data, GetRest(f, n) PROVE IInv'
  <2>1. phase[f][n] = "asked" /\ Kind(n) = "rest" /\ UNCHANGED <<current, buffers, Outside>>
    BY <1>5 DEF GetRest
  <2>2. CASE Go(f, n, "net") /\ UNCHANGED result
    BY <2>1, <2>2, GoStep
  <2>3. CASE \E error \in BOOLEAN : Answer(f, n, Null, error)
    BY <1>2, <2>1, <2>3, AnswerStep
  <2>. QED
    BY <1>5, <2>2, <2>3 DEF GetRest
<1>6. ASSUME NEW f \in Fetches, NEW n \in Data, GetRegexp(f, n) PROVE IInv'
  BY <1>6, GoStep DEF GetRegexp
<1>7. ASSUME NEW f \in Fetches, NEW n \in Data, NetAnswers(f, n) PROVE IInv'
  <2>1. /\ phase[f][n] = "net" /\ UNCHANGED <<current, buffers, Outside>>
        /\ \E content \in {Null, {f}}, error \in BOOLEAN : Answer(f, n, content, error)
    BY <1>7 DEF NetAnswers
  <2>2. Kind(n) # "regexp"
    BY <2>1 DEF IInv, FetchesInv, FetchInv, Progress
  <2>. QED
    BY <1>2, <2>1, <2>2, AnswerStep
<1>8. ASSUME Cancel PROVE IInv'
  BY <1>8 DEF Cancel, IInv, TypeOK, FetchesInv, AnsweredWhenDone
<1>9. CASE UNCHANGED vars
  BY <1>9 DEF vars, IInv, TypeOK, FetchesInv, AnsweredWhenDone
<1>. QED
  BY <1>3, <1>4, <1>5, <1>6, <1>7, <1>8, <1>9, StartIInv, AnsweredIInv, RegexpInputIInv,
     SubregexpIInv, CallbackIInv DEF Next, Run, Dispatch

-----------------------------------------------------------------------------
(* The theorems.                                                           *)

(* The invariant holds in every state.                                     *)
LEMMA Invariance == Safety => []IInv
BY InitIInv, NextIInv, PTL DEF Safety

(* Phases, contents and buffers are what the code can hold, for any        *)
(* FetchData the loader may have made and any number of fetches.           *)
THEOREM TypesHold == Safety => []TypeOK
<1>1. IInv => TypeOK
  BY DEF IInv
<1>. QED
  BY <1>1, Invariance, PTL

(* fetch_data_get calls its callback once at most, and nothing of the      *)
(* fetch can call back or wait when it does: what the callback frees is    *)
(* not used again.                                                         *)
THEOREM AnsweredOnceAndFinished == Safety => []AnsweredIsFinished
<1>1. IInv => AnsweredIsFinished
  <2>. SUFFICES ASSUME IInv, NEW f \in Fetches
                PROVE  /\ answers[f] <= 1
                       /\ answers[f] = 1 => \A n \in Data : phase[f][n] \in {"idle", "done"}
    BY DEF AnsweredIsFinished
  <2>1. answers[f] = IF phase[f][root[f]] = "done" THEN 1 ELSE 0
    BY DEF IInv, AnsweredWhenDone
  <2>2. ASSUME answers[f] = 1 PROVE Active(phase[f]) = {}
    <3>1. root[f] \notin Active(phase[f])
      BY <2>1, <2>2 DEF Active
    <3>. QED
      BY <3>1, NoChain DEF IInv, FetchesInv, FetchInv
  <2>. QED
    BY <2>1, <2>2 DEF Active
<1>. QED
  BY <1>1, Invariance, PTL

(* fetch_subregexp goes through the sub-regexps one after the other, and   *)
(* the input is fetched when each has left its output in its buffer.       *)
THEOREM SubregexpsFirst == Safety => []InputAfterSubregexps
<1>1. IInv => InputAfterSubregexps
  BY DEF IInv, FetchesInv, FetchInv, Progress, AllDone, InputAfterSubregexps
<1>. QED
  BY <1>1, Invariance, PTL

(* What waits waits for one that was reached and has not called back, up   *)
(* to one whose turn it is: no fetch waits for itself or for nothing.      *)
THEOREM WaitingIsAChain ==
  Safety => [](\A f \in Fetches : \E s : Chain(phase[f], current[f], root[f], s))
<1>1. IInv => \A f \in Fetches : \E s : Chain(phase[f], current[f], root[f], s)
  BY DEF IInv, FetchesInv, FetchInv
<1>. QED
  BY <1>1, Invariance, PTL

(* A fetch that is not over waits for the network whenever none of its     *)
(* code is on the stack: the last of its chain does.                       *)
THEOREM WaitsForTheNetwork == Safety => []FetchIsNotForgotten
<1>1. IInv => FetchIsNotForgotten
  <2>. SUFFICES ASSUME IInv, Quiet, NEW f \in Fetches, phase[f][root[f]] \notin {"idle", "done"}
                PROVE  \E n \in Data : phase[f][n] = "net"
    BY DEF FetchIsNotForgotten
  <2>1. PICK s : Chain(phase[f], current[f], root[f], s)
    BY DEF IInv, FetchesInv, FetchInv
  <2>2. root[f] \in Active(phase[f])
    BY RootsAssumption DEF Active, IInv, TypeOK
  <2>3. Len(s) \in Nat \ {0}
    BY <2>1, <2>2 DEF Chain
  <2> DEFINE n == s[Len(s)]
  <2>4. n \in Data /\ n \in Active(phase[f]) /\ ~Waits(phase[f], n)
    BY <2>1, <2>3 DEF Chain, Active
  <2>5. phase[f][n] \in Phases
    BY <2>4 DEF IInv, TypeOK
  <2>. HIDE DEF n
  <2>. QED
    BY <2>4, <2>5 DEF Active, Waits, Quiet, Phases
<1>. QED
  BY <1>1, Invariance, PTL

-----------------------------------------------------------------------------
(* What is left to do runs out.                                            *)

(* current_subregexp goes one past the sub-regexps and no further.         *)
Within == \A f \in Fetches, n \in Data : current[f][n] <= Len(Subregexps(n)) + 1

(* A step after which no FetchData has more steps left, and one has less.  *)
Nearer ==
    /\ \A f \in Fetches, n \in Data : Left(f, n)' \in 0..Left(f, n)
    /\ \E f \in Fetches, n \in Data : Left(f, n)' # Left(f, n)

LEMMA Ranks ==
  /\ PhaseRank["idle"] = 7 /\ PhaseRank["asked"] = 6 /\ PhaseRank["subs"] = 5
  /\ PhaseRank["sub"] = 4 /\ PhaseRank["input"] = 3 /\ PhaseRank["net"] = 2
  /\ PhaseRank["answering"] = 1 /\ PhaseRank["done"] = 0
  /\ \A to \in Phases : PhaseRank[to] \in Nat
BY DEF PhaseRank, Phases

(* The two ways a callback moves the owner of what it answers.             *)
LEMMA CallbackKinds ==
  ASSUME IInv, NEW f \in Fetches, NEW n \in Data, Callback(f, n)
  PROVE  /\ phase[f][n] = "answering"
         /\ \E m \in Data, to \in Phases :
              /\ Pass(f, n, m, to)
              /\ \/ /\ phase[f][m] = "input" /\ to \in {"net", "answering"}
                    /\ UNCHANGED current
                 \/ /\ phase[f][m] = "sub" /\ to = "subs"
                    /\ current[f][m] \in DOMAIN Subregexps(m)
                    /\ current' = [current EXCEPT ![f][m] = @ + 1]
<1>1. phase[f][n] = "answering" /\ n # root[f]
  BY DEF Callback
<1>2. FetchInv(phase[f], current[f], root[f])
  BY DEF IInv, FetchesInv
<1> DEFINE m == Owner(n)
<1>3. m \in Data /\ WaitsFor(phase[f], current[f], m, n)
  <2>1. PICK s : Chain(phase[f], current[f], root[f], s)
    BY <1>2 DEF FetchInv
  <2>. QED
    BY <1>1, <1>2, <2>1, Awaited
<1>. HIDE DEF m
<1>4. Progress(phase[f], current[f], m)
  BY <1>2, <1>3 DEF FetchInv
<1>5. CASE Kind(m) = "url" /\ UrlObtained(f, n, m)
  <2>1. phase[f][m] = "input"
    BY <1>3, <1>4, <1>5 DEF Progress, WaitsFor
  <2>2. \E to \in {"net", "answering"} : Pass(f, n, m, to) /\ UNCHANGED current
    BY <1>5 DEF UrlObtained
  <2>. QED
    BY <1>1, <1>3, <2>1, <2>2 DEF Phases
<1>6. CASE \/ Kind(m) = "replace" /\ ReplaceInputObtained(f, n, m)
           \/ Kind(m) = "regexp" /\ Input(m) = n /\ RegexpInputObtained(f, n, m)
  <2>1. phase[f][m] = "input"
    BY <1>3, <1>4, <1>6, OneOwner DEF Progress, WaitsFor
  <2>2. Pass(f, n, m, "answering") /\ UNCHANGED current
    BY <1>6 DEF ReplaceInputObtained, RegexpInputObtained
  <2>. QED
    BY <1>1, <1>3, <2>1, <2>2 DEF Phases
<1>7. CASE IsSubregexp(n, m) /\ SubregexpObtained(f, n, m)
  <2>1. phase[f][m] = "sub" /\ current[f][m] \in DOMAIN Subregexps(m)
    BY <1>3, <1>7, OneOwner DEF WaitsFor, IsSubregexp
  <2>2. Pass(f, n, m, "subs") /\ current' = [current EXCEPT ![f][m] = @ + 1]
    BY <1>7 DEF SubregexpObtained
  <2>. QED
    BY <1>1, <1>3, <2>1, <2>2 DEF Phases
<1>. QED
  BY <1>5, <1>6, <1>7 DEF Callback, m

(* Only the answer of a sub-regexp moves current_subregexp.                *)
LEMMA WithinStep == IInv /\ Within /\ [Next]_vars => Within'
<1>. SUFFICES ASSUME IInv, Within, [Next]_vars PROVE Within'
  OBVIOUS
<1>1. ASSUME UNCHANGED current PROVE Within'
  BY <1>1 DEF Within
<1>2. ASSUME NEW f \in Fetches, NEW n \in Data, Callback(f, n) PROVE Within'
  <2>1. CASE UNCHANGED current
    BY <1>1, <2>1
  <2>2. ASSUME NEW m \in Data, current[f][m] \in DOMAIN Subregexps(m),
               current' = [current EXCEPT ![f][m] = @ + 1]
        PROVE  Within'
    <3>1. current[f][m] <= Len(Subregexps(m)) /\ Len(Subregexps(m)) \in Nat
          /\ current[f][m] \in Nat
      BY <2>2, Structure
    <3>2. \A g \in Fetches, k \in Data :
            current'[g][k] = IF g = f /\ k = m THEN current[f][m] + 1 ELSE current[g][k]
      BY <2>2 DEF IInv, TypeOK
    <3>. QED
      BY <3>1, <3>2 DEF Within
  <2>. QED
    BY <1>2, <2>1, <2>2, CallbackKinds
<1>. QED
  BY <1>1, <1>2 DEF Next, Run, Dispatch, Cancel, Start, Answered, GetHere, GetInput, GetRest,
                    GetRegexp, Subregexp, RegexpInput, NetAnswers, vars

(* One FetchData, or one and then another, goes on to a later phase.       *)
LEMMA NearerByPhase ==
  ASSUME TypeOK, Within', NEW f \in Fetches, NEW n \in Data, NEW k \in Data,
         NEW tn \in Phases, NEW tk \in Phases,
         phase' = [phase EXCEPT ![f][n] = tn, ![f][k] = tk],
         n = k \/ PhaseRank[tn] < PhaseRank[phase[f][n]],
         PhaseRank[tk] < PhaseRank[phase[f][k]],
         UNCHANGED current
  PROVE  Nearer
<1> DEFINE after == phase'
<1>1. ASSUME NEW g \in Fetches, NEW m \in Data
      PROVE  /\ phase[g][m] \in Phases /\ after[g][m] \in Phases
             /\ after[g][m] = IF g = f /\ m = k THEN tk
                              ELSE IF g = f /\ m = n THEN tn ELSE phase[g][m]
  BY DEF TypeOK
<1>. HIDE DEF after
<1>2. ASSUME NEW g \in Fetches, NEW m \in Data
      PROVE  /\ PhaseRank[phase[g][m]] \in Nat /\ PhaseRank[after[g][m]] \in Nat
             /\ PhaseRank[after[g][m]] <= PhaseRank[phase[g][m]]
             /\ g = f /\ m = k => PhaseRank[after[g][m]] # PhaseRank[phase[g][m]]
  <2>1. /\ phase[g][m] \in Phases /\ after[g][m] \in Phases
        /\ PhaseRank[phase[g][m]] \in Nat /\ PhaseRank[after[g][m]] \in Nat
    BY <1>1, Ranks
  <2> DEFINE before == PhaseRank[phase[g][m]]
             later  == PhaseRank[after[g][m]]
  <2>2. g = f /\ m = k => later < before
    BY <1>1
  <2>3. g = f /\ m = n /\ m # k => later < before
    BY <1>1
  <2>4. ~(g = f /\ m \in {k, n}) => later = before
    BY <1>1
  <2>5. before \in Nat /\ later \in Nat
    BY <2>1
  <2>. HIDE DEF before, later
  <2>6. later <= before /\ (g = f /\ m = k => later # before)
    BY <2>2, <2>3, <2>4, <2>5
  <2>. QED
    BY <2>5, <2>6 DEF before, later
<1>3. ASSUME NEW g \in Fetches, NEW m \in Data
      PROVE  /\ current'[g][m] = current[g][m] /\ current[g][m] \in Nat
             /\ Len(Subregexps(m)) \in Nat
             /\ current[g][m] <= Len(Subregexps(m)) + 1
  BY Structure DEF TypeOK, Within
<1>4. ASSUME NEW g \in Fetches, NEW m \in Data
      PROVE  /\ Left(g, m)' \in 0..Left(g, m)
             /\ g = f /\ m = k => Left(g, m)' # Left(g, m)
  <2> DEFINE before == PhaseRank[phase[g][m]]
             later  == PhaseRank[after[g][m]]
             subs   == 2 * (Len(Subregexps(m)) + 1 - current[g][m])
  <2>1. Left(g, m) = before + subs /\ Left(g, m)' = later + subs
    BY <1>3 DEF Left, after
  <2>2. subs \in Nat
    BY <1>3
  <2>3. /\ before \in Nat /\ later \in Nat /\ later <= before
        /\ g = f /\ m = k => later # before
    BY <1>2
  <2>. HIDE DEF before, later, subs
  <2>. QED
    BY <2>1, <2>2, <2>3
<1>. QED
  BY <1>4 DEF Nearer

(* A sub-regexp answers, and the regexp it is of goes on to the next.      *)
LEMMA NearerBySubregexp ==
  ASSUME TypeOK, Within', NEW f \in Fetches, NEW n \in Data, NEW m \in Data,
         phase[f][n] = "answering", phase[f][m] = "sub",
         phase' = [phase EXCEPT ![f][n] = "done", ![f][m] = "subs"],
         current' = [current EXCEPT ![f][m] = @ + 1]
  PROVE  Nearer
<1> DEFINE p == phase'
           c == current'
<1>1. ASSUME NEW g \in Fetches, NEW k \in Data
      PROVE  /\ phase[g][k] \in Phases /\ current[g][k] \in Nat
             /\ p[g][k] = IF g = f /\ k = m THEN "subs"
                          ELSE IF g = f /\ k = n THEN "done" ELSE phase[g][k]
             /\ c[g][k] = IF g = f /\ k = m THEN current[g][k] + 1 ELSE current[g][k]
             /\ Len(Subregexps(k)) \in Nat /\ c[g][k] <= Len(Subregexps(k)) + 1
  BY Structure DEF TypeOK, Within
<1>. HIDE DEF p, c
<1>2. ASSUME NEW g \in Fetches, NEW k \in Data
      PROVE  Left(g, k)' \in 0..Left(g, k) /\ (g = f /\ k = m => Left(g, k)' # Left(g, k))
  <2> DEFINE before == PhaseRank[phase[g][k]]
             after  == PhaseRank[p[g][k]]
             subs   == 2 * (Len(Subregexps(k)) + 1 - current[g][k])
             later  == 2 * (Len(Subregexps(k)) + 1 - c[g][k])
  <2>1. Left(g, k) = before + subs /\ Left(g, k)' = after + later
    BY DEF Left, p, c
  <2>2. /\ subs \in Int /\ later \in Nat
        /\ later = IF g = f /\ k = m THEN subs - 2 ELSE subs
    <3> DEFINE all == Len(Subregexps(k))
               i   == current[g][k]
               j   == c[g][k]
    <3>1. /\ all \in Nat /\ i \in Nat /\ j <= all + 1
          /\ j = IF g = f /\ k = m THEN i + 1 ELSE i
      BY <1>1
    <3>2. subs = 2 * (all + 1 - i) /\ later = 2 * (all + 1 - j)
      OBVIOUS
    <3>. HIDE DEF all, i, j, subs, later
    <3>. QED
      BY <3>1, <3>2
  <2>3. before \in Nat
    BY <1>1, Ranks
  <2>4. g = f /\ k = m => before = 4 /\ after = 5
    BY <1>1, Ranks
  <2>5. g = f /\ k = n /\ k # m => before = 1 /\ after = 0
    BY <1>1, Ranks
  <2>6. ~(g = f /\ k \in {m, n}) => after = before
    BY <1>1
  <2>. HIDE DEF before, after, subs, later
  <2>. QED
    BY <2>1, <2>2, <2>3, <2>4, <2>5, <2>6
<1>. QED
  BY <1>2 DEF Nearer

(* Every step of the code of a fetch, and every answer of the network.     *)
LEMMA NearerStep ==
  ASSUME IInv, Within', Run \/ Dispatch
  PROVE  Nearer
<1>1. TypeOK
  BY DEF IInv
<1>2. ASSUME NEW f \in Fetches, NEW n \in Data, NEW to \in Phases, Go(f, n, to),
             PhaseRank[to] < PhaseRank[phase[f][n]], UNCHANGED current
      PROVE  Nearer
  <2>1. phase' = [phase EXCEPT ![f][n] = to, ![f][n] = to]
    BY <1>1, <1>2 DEF Go, TypeOK
  <2>. QED
    BY <1>1, <1>2, <2>1, NearerByPhase
<1>3. ASSUME NEW f \in Fetches, NEW n \in Data, NEW content, NEW error,
             Answer(f, n, content, error), phase[f][n] \in {"asked", "subs", "net"},
             UNCHANGED current
      PROVE  Nearer
  <2>1. Go(f, n, "answering") /\ "answering" \in Phases
        /\ PhaseRank["answering"] < PhaseRank[phase[f][n]]
    BY <1>3, Ranks DEF Answer, Phases
  <2>. QED
    BY <1>2, <1>3, <2>1
<1>4. ASSUME NEW f \in Fetches, NEW n \in Data, NEW k \in Data, NEW to \in {"sub", "input"},
             phase' = [phase EXCEPT ![f][n] = to, ![f][k] = "asked"],
             phase[f][n] \in {"asked", "subs"}, phase[f][k] = "idle", UNCHANGED current
      PROVE  Nearer
  <2>1. /\ to \in Phases /\ "asked" \in Phases
        /\ PhaseRank[to] < PhaseRank[phase[f][n]] /\ PhaseRank["asked"] < PhaseRank[phase[f][k]]
    BY <1>4, Ranks DEF Phases
  <2>. QED
    BY <1>1, <1>4, <2>1, NearerByPhase
<1>5. ASSUME NEW f \in Fetches, NEW n \in Data, AskInput(f, n), Input(n) # NoInput,
             phase[f][n] \in {"asked", "subs"}, UNCHANGED current
      PROVE  Nearer
  <2>1. Input(n) \in Data
    BY <1>5, Structure
  <2>2. phase[f][Input(n)] = "idle"
    BY <1>5 DEF IInv, FetchesInv, FetchInv, Progress
  <2>. QED
    BY <1>4, <1>5, <2>1, <2>2 DEF AskInput
<1>6. ASSUME NEW f \in Fetches, Answered(f) PROVE Nearer
  <2>1. root[f] \in Data
    BY <1>1, RootsAssumption DEF TypeOK
  <2>2. Go(f, root[f], "done") /\ "done" \in Phases /\ UNCHANGED current
        /\ PhaseRank["done"] < PhaseRank[phase[f][root[f]]]
    BY <1>6, Ranks DEF Answered, Phases
  <2>. QED
    BY <1>2, <2>1, <2>2
<1>7. ASSUME NEW f \in Fetches, NEW n \in Data, GetHere(f, n) PROVE Nearer
  <2>1. phase[f][n] = "asked" /\ UNCHANGED current /\ \E content, error : Answer(f, n, content, error)
    BY <1>7 DEF GetHere
  <2>. QED
    BY <1>3, <2>1
<1>8. ASSUME NEW f \in Fetches, NEW n \in Data, GetInput(f, n) PROVE Nearer
  <2>1. /\ phase[f][n] = "asked" /\ Kind(n) \in {"url", "replace"} /\ AskInput(f, n)
        /\ UNCHANGED current
    BY <1>8 DEF GetInput
  <2>2. Input(n) # NoInput
    BY <2>1, Structure, NoInputAssumption
  <2>. QED
    BY <1>5, <2>1, <2>2
<1>9. ASSUME NEW f \in Fetches, NEW n \in Data, GetRest(f, n) PROVE Nearer
  <2>1. /\ phase[f][n] = "asked" /\ UNCHANGED current
        /\ Go(f, n, "net") \/ \E content, error : Answer(f, n, content, error)
    BY <1>9 DEF GetRest
  <2>2. "net" \in Phases /\ PhaseRank["net"] < PhaseRank[phase[f][n]]
    BY <2>1, Ranks DEF Phases
  <2>. QED
    BY <1>2, <1>3, <2>1, <2>2
<1>10. ASSUME NEW f \in Fetches, NEW n \in Data, GetRegexp(f, n) PROVE Nearer
  <2>1. Go(f, n, "subs") /\ phase[f][n] = "asked" /\ UNCHANGED current
    BY <1>10 DEF GetRegexp
  <2>2. "subs" \in Phases /\ PhaseRank["subs"] < PhaseRank[phase[f][n]]
    BY <2>1, Ranks DEF Phases
  <2>. QED
    BY <1>2, <2>1, <2>2
<1>11. ASSUME NEW f \in Fetches, NEW n \in Data, Subregexp(f, n) PROVE Nearer
  <2> DEFINE k == Subregexps(n)[current[f][n]]
  <2>1. /\ phase[f][n] = "subs" /\ current[f][n] <= Len(Subregexps(n)) /\ UNCHANGED current
        /\ phase' = [phase EXCEPT ![f][n] = "sub", ![f][k] = "asked"]
    BY <1>11 DEF Subregexp
  <2>2. current[f][n] \in DOMAIN Subregexps(n)
    <3>1. current[f][n] \in Nat \ {0}
      BY DEF IInv, FetchesInv, FetchInv
    <3>. QED
      BY <2>1, <3>1, Structure
  <2>3. k \in Data
    BY <2>2, Structure
  <2>4. phase[f][k] = "idle"
    BY <2>1, <2>2 DEF IInv, FetchesInv, FetchInv, Progress
  <2>. HIDE DEF k
  <2>. QED
    BY <1>4, <2>1, <2>3, <2>4
<1>12. ASSUME NEW f \in Fetches, NEW n \in Data, RegexpInput(f, n) PROVE Nearer
  <2>1. /\ phase[f][n] = "subs" /\ UNCHANGED current
        /\ \/ \E content, error : Answer(f, n, content, error)
           \/ Input(n) # NoInput /\ AskInput(f, n)
    BY <1>12 DEF RegexpInput
  <2>. QED
    BY <1>3, <1>5, <2>1
<1>13. ASSUME NEW f \in Fetches, NEW n \in Data, Callback(f, n) PROVE Nearer
  <2>1. phase[f][n] = "answering"
    BY <1>13, CallbackKinds
  <2>2. PICK m \in Data, to \in Phases :
          /\ Pass(f, n, m, to)
          /\ \/ /\ phase[f][m] = "input" /\ to \in {"net", "answering"}
                /\ UNCHANGED current
             \/ /\ phase[f][m] = "sub" /\ to = "subs"
                /\ current' = [current EXCEPT ![f][m] = @ + 1]
    BY <1>13, CallbackKinds
  <2>3. phase' = [phase EXCEPT ![f][n] = "done", ![f][m] = to]
    BY <2>2 DEF Pass
  <2>4. CASE phase[f][m] = "input"
    <3>1. /\ "done" \in Phases /\ PhaseRank["done"] < PhaseRank[phase[f][n]]
          /\ PhaseRank[to] < PhaseRank[phase[f][m]] /\ UNCHANGED current
      BY <2>1, <2>2, <2>4, Ranks DEF Phases
    <3>. QED
      BY <1>1, <2>3, <3>1, NearerByPhase
  <2>5. CASE phase[f][m] = "sub"
    BY <1>1, <2>1, <2>2, <2>3, <2>5, NearerBySubregexp
  <2>. QED
    BY <2>2, <2>4, <2>5
<1>14. ASSUME NEW f \in Fetches, NEW n \in Data, NetAnswers(f, n) PROVE Nearer
  <2>1. phase[f][n] = "net" /\ UNCHANGED current /\ \E content, error : Answer(f, n, content, error)
    BY <1>14 DEF NetAnswers
  <2>. QED
    BY <1>3, <2>1
<1>. QED
  BY <1>6, <1>7, <1>8, <1>9, <1>10, <1>11, <1>12, <1>13, <1>14 DEF Run, Dispatch

(* No part of a fetch is asked for, waited for or answered twice: every    *)
(* step takes one of the finitely many that its FetchData have left.       *)
THEOREM StepsRunOut == Safety => FetchesRunOut
<1>1. Init => Within
  <2>. SUFFICES ASSUME Init, NEW f \in Fetches, NEW n \in Data
                PROVE  current[f][n] <= Len(Subregexps(n)) + 1
    BY DEF Within
  <2>1. current[f][n] = 1 /\ Len(Subregexps(n)) \in Nat
    BY Structure DEF Init
  <2>. QED
    BY <2>1
<1>2. IInv /\ Within /\ [Next]_vars => Within'
  BY WithinStep
<1>3. IInv /\ Within' /\ [Next]_vars => [Run \/ Dispatch => Nearer]_vars
  BY NearerStep
<1>4. [Run \/ Dispatch => Nearer]_vars
      <=> [Run \/ Dispatch =>
             /\ \A f \in Fetches, n \in Data : Left(f, n)' \in 0..Left(f, n)
             /\ \E f \in Fetches, n \in Data : Left(f, n)' # Left(f, n)]_vars
  BY DEF Nearer
<1>. QED
  BY <1>1, <1>2, <1>3, <1>4, Invariance, PTL DEF Safety, FetchesRunOut
(* Fetches of any Fetchable tree are bound to end, if only the network     *)
(* answers (fetch_data_get and the callbacks of its kinds).                *)
THEOREM FetchesComeToAnEnd == Safety => FetchesAreBoundToEnd
BY WaitsForTheNetwork, StepsRunOut, PTL DEF FetchesAreBoundToEnd
=============================================================================
