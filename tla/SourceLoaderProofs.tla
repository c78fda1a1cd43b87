------------------------- MODULE SourceLoaderProofs -------------------------
(***************************************************************************)
(* Theorems about SourceLoader, for any source files.                      *)
(*                                                                         *)
(* The stages fill one part of the source each, and leave it alone later.  *)
(* So each part has an invariant of its own, which says what it holds      *)
(* while its list is gone through ("up to next") and after it.             *)
(***************************************************************************)
EXTENDS SourceLoader, FiniteSetTheorems, SequenceTheorems, WellFoundedInduction, TLAPS

(* What is read does not change.                                           *)
Given == \E input \in Inputs : spec = input.spec /\ configs = input.configs

(* The parts of a given specification that are lists.                      *)
LEMMA GivenLists ==
    ASSUME Given
    PROVE  /\ spec \in Specs
           /\ configs \in Seq(Range(configs))
           /\ \A i \in DOMAIN configs : configs[i].of \in {"this", "any", "other"}
           /\ spec.strings \in Seq(Range(spec.strings))
           /\ spec.operations \in Seq(Range(spec.operations))
BY ConfigsAssumption, StringsAssumption, OperationsAssumption DEF Given, Specs

(* Only the first action reads, and each of the others does one thing.     *)
LEMMA NextCases ==
    ASSUME [Next]_vars
    PROVE  \/ ReadFile /\ UNCHANGED loaderVars
           \/ MergeConfig /\ UNCHANGED loaderVars
           \/ CheckConfig /\ UNCHANGED loaderVars
           \/ ReadStrings /\ UNCHANGED loaderVars
           \/ StringsRead /\ UNCHANGED loaderVars
           \/ InitScript /\ UNCHANGED loaderVars
           \/ SharedResult \/ NoResult \/ OwnResult \/ NamedResult
           \/ OperationsRead \/ ReadMedia \/ MediasRead \/ Finalize
           \/ Crash /\ (stage \in {"operations", "provide", "loaded"})
           \/ UNCHANGED vars
BY Zenon DEF Next, Configure, LoadOperation, LoadMedia, BadOperation, BadMedia,
   BadFinalize, Reading

-----------------------------------------------------------------------------
(* The options.  AllConfigs, place by place.                               *)

(* Where each configuration stands among those merged.                     *)
LEMMA AllConfigsPlaces ==
    ASSUME Given
    PROVE  LET n == Len(configs)
           IN  /\ n \in Nat
               /\ Len(AllConfigs) = 2 * n + 1
               /\ \A k \in 1 .. n :
                    /\ AllConfigs[k] = IF configs[k].of = "this" THEN configs[k].has ELSE <<>>
                    /\ AllConfigs[n + k] = IF configs[k].of = "any" THEN configs[k].has ELSE <<>>
               /\ AllConfigs[2 * n + 1] = spec.defaults
<1> DEFINE n == Len(configs)
           S == Range(Pass("this")) \cup Range(Pass("any")) \cup {spec.defaults}
<1>1. n \in Nat /\ DOMAIN configs = 1 .. n
  BY GivenLists
<1>2. \A of : Len(Pass(of)) = n /\ DOMAIN Pass(of) = 1 .. n
  BY <1>1 DEF Pass
<1>3. Pass("this") \in Seq(S) /\ Pass("any") \in Seq(S)
  BY <1>1, <1>2 DEF Pass, Range
<1>4. Pass("this") \o Pass("any") \in Seq(S) /\ Len(Pass("this") \o Pass("any")) = 2 * n
  BY <1>1, <1>2, <1>3
<1>5. <<spec.defaults>> \in Seq(S) /\ Len(<<spec.defaults>>) = 1
  OBVIOUS
<1>6. Len(AllConfigs) = 2 * n + 1 /\ AllConfigs[2 * n + 1] = spec.defaults
  BY <1>1, <1>4, <1>5 DEF AllConfigs
<1>7. ASSUME NEW k \in 1 .. n
      PROVE  AllConfigs[k] = Pass("this")[k] /\ AllConfigs[n + k] = Pass("any")[k]
  BY <1>1, <1>2, <1>3, <1>4, <1>5 DEF AllConfigs
<1>8. ASSUME NEW k \in 1 .. n, NEW of
      PROVE  Pass(of)[k] = IF configs[k].of = of THEN configs[k].has ELSE <<>>
  BY <1>1 DEF Pass
<1> QED
  BY <1>1, <1>6, <1>7, <1>8

-----------------------------------------------------------------------------
(* The options have the first value in AllConfigs.                         *)

IsFirst(o, k) ==
    /\ o \in DOMAIN AllConfigs[k]
    /\ \A j \in 1 .. k - 1 : o \notin DOMAIN AllConfigs[j]

MergedUpTo(m) ==
    /\ DOMAIN merged = {o \in spec.options : \E k \in 1 .. m : o \in DOMAIN AllConfigs[k]}
    /\ \A o \in DOMAIN merged :
         \E k \in 1 .. m : IsFirst(o, k) /\ merged[o] = AllConfigs[k][o]

After(stages) == stage \notin stages

MergeInv ==
    /\ Given
    /\ stage \in Stages /\ next \in Nat \ {0} /\ DOMAIN merged \subseteq spec.options
    /\ stage = "read" => merged = <<>>
    /\ stage = "config" => spec.valid /\ next <= Len(AllConfigs) + 1 /\ MergedUpTo(next - 1)
    /\ After({"read", "config"}) /\ (stage = "skipped" => spec.valid) =>
            MergedUpTo(Len(AllConfigs))
    /\ After({"read", "config", "skipped"}) => spec.valid /\ AllOptionsHaveValue
    /\ stage = "skipped" /\ spec.valid /\ ~spec.script => ~AllOptionsHaveValue

(* A set of natural numbers that is not empty has a least element.         *)
LEMMA Least ==
    ASSUME NEW T \in SUBSET Nat, T # {}
    PROVE  \E k \in T : \A j \in T : k <= j
<1> DEFINE R == OpToRel(<, Nat)
<1>1. IsWellFoundedOn(R, Nat)
  BY NatLessThanWellFounded
<1>2. \A j, k \in Nat : j < k => <<j, k>> \in R
  <2>1. R = {ss \in Nat \X Nat : ss[1] < ss[2]}
    BY Zenon DEF OpToRel
  <2> QED
    BY <2>1
<1> HIDE DEF R
<1>3. PICK k \in T : \A j \in T : ~(<<j, k>> \in R)
  BY <1>1, WFMin, Zenon
<1>4. ASSUME NEW j \in T, ~(k <= j)
      PROVE  FALSE
  <2>1. j \in Nat /\ k \in Nat /\ j < k
    BY <1>4
  <2>2. <<j, k>> \in R
    BY <1>2, <2>1
  <2> QED
    BY <1>3, <2>2, Zenon
<1> QED
  BY <1>3, <1>4

(* If some configuration has an option, there is a first that has it.      *)
LEMMA FirstOne ==
    ASSUME NEW m \in Nat, NEW o, NEW f, \E k \in 1 .. m : o \in DOMAIN f[k]
    PROVE  \E k \in 1 .. m : o \in DOMAIN f[k] /\ \A j \in 1 .. k - 1 : o \notin DOMAIN f[j]
<1> DEFINE T == {k \in 1 .. m : o \in DOMAIN f[k]}
<1>1. T \in SUBSET Nat /\ T # {}
  OBVIOUS
<1> HIDE DEF T
<1>2. PICK k \in T : \A j \in T : k <= j
  BY <1>1, Least
<1> QED
  BY <1>2 DEF T

(* Merging one more configuration.                                         *)
LEMMA MergeOne ==
    ASSUME Given, NEW m \in Nat, m < Len(AllConfigs), MergedUpTo(m),
           merged' = Merge(merged, Declared(AllConfigs[m + 1])), UNCHANGED <<spec, configs>>
    PROVE  MergedUpTo(m + 1)'
<1> DEFINE all == AllConfigs
           new == Declared(all[m + 1])
<1>1. all' = all
  BY DEF AllConfigs, Pass
<1>2. DOMAIN new = DOMAIN all[m + 1] \cap spec.options /\ \A o \in DOMAIN new : new[o] = all[m + 1][o]
  BY DEF Declared
<1>3. /\ DOMAIN merged' = DOMAIN merged \cup DOMAIN new
      /\ \A o \in DOMAIN merged' : merged'[o] = IF o \in DOMAIN merged THEN merged[o] ELSE new[o]
  BY DEF Merge
<1>4. 1 .. m + 1 = (1 .. m) \cup {m + 1}
  OBVIOUS
<1> HIDE DEF all, new
<1>5. DOMAIN merged = {o \in spec.options : \E k \in 1 .. m : o \in DOMAIN all[k]}
  BY DEF MergedUpTo, all
<1>6. DOMAIN merged' = {o \in spec.options : \E k \in 1 .. m + 1 : o \in DOMAIN all[k]}
  BY <1>2, <1>3, <1>4, <1>5
<1>7. ASSUME NEW o \in DOMAIN merged'
      PROVE  \E k \in 1 .. m + 1 : /\ o \in DOMAIN all[k]
                                   /\ \A j \in 1 .. k - 1 : o \notin DOMAIN all[j]
                                   /\ merged'[o] = all[k][o]
  <2>1. CASE o \in DOMAIN merged
    <3>1. PICK k \in 1 .. m : IsFirst(o, k) /\ merged[o] = all[k][o]
      BY <2>1 DEF MergedUpTo, all
    <3> QED
      BY <3>1, <2>1, <1>3, <1>4 DEF IsFirst, all
  <2>2. CASE o \notin DOMAIN merged
    <3>1. \A j \in 1 .. m : o \notin DOMAIN all[j]
      BY <2>2, <1>5, <1>6
    <3>2. o \in DOMAIN new
      BY <2>2, <1>3
    <3> QED
      BY <3>1, <3>2, <2>2, <1>2, <1>3
  <2> QED
    BY <2>1, <2>2
<1> QED
  BY <1>1, <1>6, <1>7 DEF MergedUpTo, IsFirst, all

(* What the merge reads, when it does not change.                          *)
LEMMA MergeKept ==
    ASSUME UNCHANGED <<spec, configs, merged>>
    PROVE  /\ Given' = Given /\ AllConfigs' = AllConfigs
           /\ AllOptionsHaveValue' = AllOptionsHaveValue
           /\ \A m : MergedUpTo(m)' = MergedUpTo(m)
BY DEF Given, AllConfigs, Pass, AllOptionsHaveValue, MergedUpTo, IsFirst

(* MergeInv holds at the start.                                            *)
LEMMA InitMerge == LoaderInit => MergeInv
BY DEF LoaderInit, Init, MergeInv, Given, Stages, After

(* Every step keeps MergeInv.                                              *)
LEMMA NextMerge ==
    ASSUME MergeInv, [Next]_vars
    PROVE  MergeInv'
<1> USE DEF MergeInv, After, Stages, GoTo
<1>1. CASE UNCHANGED <<spec, configs, merged>> /\ stage' = stage /\ next' \in Nat \ {0} /\ stage # "config"
  BY <1>1, MergeKept
<1>2. CASE UNCHANGED <<spec, configs, merged>> /\ stage' \in Stages /\ next' \in Nat \ {0}
           /\ stage \notin {"read", "config"} /\ stage' \notin {"read", "config", "skipped"}
           /\ stage # "skipped"
  BY <1>2, MergeKept
<1>3. CASE ReadFile
  <2>1. UNCHANGED <<spec, configs, merged>>
    BY <1>3 DEF ReadFile
  <2>2. merged = <<>> => MergedUpTo(0)
    BY DEF MergedUpTo
  <2>3. Len(AllConfigs) \in Nat
    BY AllConfigsPlaces
  <2> QED
    BY <1>3, <2>1, <2>2, <2>3, MergeKept DEF ReadFile
<1>4. CASE MergeConfig
  <2>1. PICK m \in Nat : m = next - 1
    OBVIOUS
  <2>2. m < Len(AllConfigs) /\ MergedUpTo(m)
    BY <1>4, <2>1, AllConfigsPlaces DEF MergeConfig
  <2>3. AllConfigs[next] = AllConfigs[m + 1]
    BY <2>1
  <2>4. MergedUpTo(m + 1)'
    BY <1>4, <2>2, <2>3, MergeOne DEF MergeConfig
  <2>u. UNCHANGED <<spec, configs>>
    BY <1>4 DEF MergeConfig
  <2>5. Given' /\ AllConfigs' = AllConfigs /\ Len(AllConfigs) \in Nat
    <3>1. Given /\ Given'
      BY <2>u DEF Given
    <3> QED
      BY <2>u, <3>1, AllConfigsPlaces DEF AllConfigs, Pass
  <2>6. next' = m + 2 /\ stage' = "config" /\ spec'.valid = spec.valid /\ spec.valid
    BY <1>4, <2>1 DEF MergeConfig
  <2>7. MergedUpTo(next - 1)'
    <3>1. next' - 1 = m + 1
      BY <2>6
    <3> QED
      BY <2>4, <3>1
  <2>8. DOMAIN merged' \subseteq spec'.options
    BY <2>4 DEF MergedUpTo
  <2> QED
    BY <2>1, <2>2, <2>5, <2>6, <2>7, <2>8
<1>5. CASE CheckConfig
  <2>1. UNCHANGED <<spec, configs, merged>>
    BY <1>5 DEF CheckConfig
  <2>2. Len(AllConfigs) \in Nat /\ next - 1 = Len(AllConfigs)
    BY <1>5, AllConfigsPlaces DEF CheckConfig
  <2>3. MergedUpTo(Len(AllConfigs)) /\ spec.valid
    BY <1>5, <2>2 DEF CheckConfig
  <2> QED
    BY <1>5, <2>1, <2>2, <2>3, MergeKept DEF CheckConfig
<1>6. CASE InitScript
  BY <1>6, MergeKept DEF InitScript
<1>7. CASE UNCHANGED vars
  BY <1>7, MergeKept DEF vars, configVars
<1>8. CASE ReadStrings
  BY <1>8, <1>1 DEF ReadStrings
<1>9. CASE StringsRead
  BY <1>9, <1>2 DEF StringsRead
<1>10. CASE SharedResult \/ NoResult \/ OwnResult \/ NamedResult
  <2>1. stage = "operations" /\ NextOperation
    BY <1>10 DEF SharedResult, NoResult, OwnResult, NamedResult, Reading
  <2> QED
    BY <2>1, <1>1 DEF NextOperation
<1>11. CASE OperationsRead \/ MediasRead \/ Finalize
  BY <1>11, <1>2 DEF OperationsRead, MediasRead, Finalize
<1>12. CASE ReadMedia
  BY <1>12, <1>1 DEF ReadMedia
<1>13. CASE Crash /\ stage \in {"operations", "provide", "loaded"}
  BY <1>13, <1>2 DEF Crash
<1> QED
  BY <1>3, <1>4, <1>5, <1>6, <1>7, <1>8, <1>9, <1>10, <1>11, <1>12, <1>13, NextCases

(* The place in AllConfigs of the first value is that of the most specific *)
(* giver.                                                                  *)
LEMMA MergedIsMostSpecific ==
    ASSUME MergeInv
    PROVE  ConfigIsMostSpecific
<1> DEFINE n == Len(configs)
           all == AllConfigs
<1>1. /\ n \in Nat /\ DOMAIN configs = 1 .. n
      /\ \A i \in 1 .. n : configs[i].of \in {"this", "any", "other"}
  BY GivenLists DEF MergeInv
<1>2. /\ Len(all) = 2 * n + 1
      /\ \A k \in 1 .. n :
           /\ all[k] = IF configs[k].of = "this" THEN configs[k].has ELSE <<>>
           /\ all[n + k] = IF configs[k].of = "any" THEN configs[k].has ELSE <<>>
      /\ all[2 * n + 1] = spec.defaults
  BY AllConfigsPlaces DEF MergeInv
<1>3. DOMAIN <<>> = {}
  OBVIOUS
<1> HIDE DEF n, all
<1>4. ASSUME NEW o, NEW i \in Givers(o)
      PROVE  /\ i \in 1 .. n /\ o \in DOMAIN configs[i].has
             /\ configs[i].of = "this" => o \in DOMAIN all[i]
             /\ configs[i].of = "any" => o \in DOMAIN all[n + i]
             /\ configs[i].of \in {"this", "any"}
  BY <1>1, <1>2 DEF Givers
<1>5. ASSUME NEW o, NEW k \in 1 .. 2 * n + 1, o \in DOMAIN all[k],
             \A j \in 1 .. k - 1 : o \notin DOMAIN all[j]
      PROVE  \/ Givers(o) = {} /\ o \in DOMAIN spec.defaults /\ all[k] = spec.defaults
             \/ \E i \in Givers(o) : /\ \A j \in Givers(o) \ {i} : MoreSpecific(i, j)
                                     /\ all[k] = configs[i].has
  <2>1. CASE k \in 1 .. n
    <3>1. configs[k].of = "this" /\ all[k] = configs[k].has
      BY <2>1, <1>2, <1>3, <1>5
    <3>2. k \in Givers(o)
      BY <3>1, <2>1, <1>1, <1>5 DEF Givers
    <3>3. ASSUME NEW j \in Givers(o) \ {k}
          PROVE  MoreSpecific(k, j)
      <4>1. configs[j].of = "this" => ~(j \in 1 .. k - 1)
        BY <1>4, <1>5
      <4> QED
        BY <4>1, <3>1, <2>1, <1>1, <1>4 DEF MoreSpecific
    <3> QED
      BY <3>1, <3>2, <3>3
  <2>2. CASE k \in n + 1 .. 2 * n
    <3>1. PICK i \in 1 .. n : k = n + i
      <4>1. k - n \in 1 .. n /\ k = n + (k - n)
        BY <2>2, <1>1
      <4> QED
        BY <4>1
    <3>2. configs[i].of = "any" /\ all[k] = configs[i].has
      BY <3>1, <1>2, <1>3, <1>5
    <3>3. i \in Givers(o)
      BY <3>1, <3>2, <1>1, <1>5 DEF Givers
    <3>4. ASSUME NEW j \in Givers(o) \ {i}
          PROVE  MoreSpecific(i, j)
      <4>1. j \in 1 .. n /\ j \in 1 .. k - 1
        BY <1>1, <1>4, <3>1
      <4>2. configs[j].of = "any"
        BY <4>1, <1>4, <1>5
      <4>3. ~(n + j \in 1 .. k - 1)
        BY <4>2, <1>4, <1>5
      <4> QED
        BY <4>1, <4>2, <4>3, <3>1, <3>2, <1>1 DEF MoreSpecific
    <3> QED
      BY <3>2, <3>3, <3>4
  <2>3. CASE k = 2 * n + 1
    <3>1. ASSUME NEW i \in Givers(o)
          PROVE  FALSE
      <4>1. i \in 1 .. k - 1 /\ n + i \in 1 .. k - 1
        BY <2>3, <1>1, <1>4
      <4> QED
        BY <4>1, <1>4, <1>5
    <3> QED
      BY <3>1, <2>3, <1>2, <1>5
  <2> QED
    BY <2>1, <2>2, <2>3, <1>1
<1>6. ASSUME MergedUpTo(Len(AllConfigs)), AllOptionsHaveValue
      PROVE  /\ DOMAIN merged = spec.options
             /\ \A o \in spec.options :
                  \/ Givers(o) = {} /\ o \in DOMAIN spec.defaults /\ merged[o] = spec.defaults[o]
                  \/ \E i \in Givers(o) :
                       /\ \A j \in Givers(o) \ {i} : MoreSpecific(i, j)
                       /\ merged[o] = configs[i].has[o]
  <2>1. DOMAIN merged = spec.options
    BY <1>6 DEF MergedUpTo, AllOptionsHaveValue
  <2>2. ASSUME NEW o \in spec.options
        PROVE  \E k \in 1 .. 2 * n + 1 :
                  /\ o \in DOMAIN all[k]
                  /\ \A j \in 1 .. k - 1 : o \notin DOMAIN all[j]
                  /\ merged[o] = all[k][o]
    BY <1>6, <2>1, <1>2 DEF MergedUpTo, IsFirst, all
  <2> QED
    BY <2>1, <2>2, <1>5
<1>7. ASSUME MergedUpTo(Len(AllConfigs)), ~AllOptionsHaveValue
      PROVE  \E o \in spec.options : Givers(o) = {} /\ o \notin DOMAIN spec.defaults
  <2>1. PICK o \in spec.options : o \notin DOMAIN merged
    BY <1>7 DEF AllOptionsHaveValue
  <2>2. \A k \in 1 .. 2 * n + 1 : o \notin DOMAIN all[k]
    BY <1>7, <2>1, <1>2 DEF MergedUpTo, all
  <2>3. ASSUME NEW i \in Givers(o)
        PROVE  FALSE
    <3>1. i \in 1 .. 2 * n + 1 /\ n + i \in 1 .. 2 * n + 1
      BY <1>1, <1>4
    <3> QED
      BY <3>1, <2>2, <1>4
  <2>4. 2 * n + 1 \in 1 .. 2 * n + 1
    BY <1>1
  <2> QED
    BY <2>2, <2>3, <2>4, <1>2
<1> QED
  BY <1>6, <1>7 DEF MergeInv, ConfigIsMostSpecific, After

(* Every option of a source that is loaded has the value of the most       *)
(* specific configuration that gives one, and a source is only skipped for *)
(* its options when one has no value anywhere.                             *)
THEOREM MostSpecificValues == Spec => []ConfigIsMostSpecific
<1>1. LoaderInit => MergeInv
  BY InitMerge
<1>2. MergeInv /\ [Next]_vars => MergeInv'
  BY NextMerge
<1>3. MergeInv => ConfigIsMostSpecific
  BY MergedIsMostSpecific
<1> QED
  BY <1>1, <1>2, <1>3, PTL DEF Spec

-----------------------------------------------------------------------------
(* The tables have the last block of each language.                        *)

At(i) == Places(spec.strings[i].lang)

TabledUpTo(m) ==
    /\ \A p : p \in DOMAIN tables <=> \E i \in 1 .. m : p \in At(i)
    /\ \A p \in DOMAIN tables :
         \E i \in 1 .. m : /\ p \in At(i) /\ \A j \in i + 1 .. m : p \notin At(j)
                           /\ tables[p] = spec.strings[i].texts

TablesInv ==
    /\ DOMAIN tables \subseteq DOMAIN Languages
    /\ stage \in {"read", "config"} => tables = <<>>
    /\ stage = "strings" => next <= Len(spec.strings) + 1 /\ TabledUpTo(next - 1)
    /\ After({"read", "config", "strings"}) /\ spec.valid /\ AllOptionsHaveValue =>
            TabledUpTo(Len(spec.strings))

(* TablesInv holds at the start.                                           *)
LEMMA InitTables == LoaderInit => TablesInv
BY DEF LoaderInit, Init, TablesInv, After

(* One more block takes the place of those of its language.                *)
LEMMA TableOne ==
    ASSUME NEW m \in Nat, TabledUpTo(m), UNCHANGED spec,
           tables' = Merge([p \in At(m + 1) |-> spec.strings[m + 1].texts], tables)
    PROVE  TabledUpTo(m + 1)'
<1> DEFINE texts(i) == spec.strings[i].texts
           new == At(m + 1)
           at(i) == At(i)
<1>1. \A i : At(i)' = at(i) /\ spec'.strings[i].texts = texts(i)
  BY DEF At, Places
<1>2. /\ DOMAIN tables' = new \cup DOMAIN tables
      /\ \A p \in DOMAIN tables' : tables'[p] = IF p \in new THEN texts(m + 1) ELSE tables[p]
  BY DEF Merge
<1>3. 1 .. m + 1 = (1 .. m) \cup {m + 1} /\ m + 1 + 1 .. m + 1 = {}
  OBVIOUS
<1>4. /\ \A p : p \in DOMAIN tables <=> \E i \in 1 .. m : p \in at(i)
      /\ \A p \in DOMAIN tables :
           \E i \in 1 .. m : /\ p \in at(i) /\ \A j \in i + 1 .. m : p \notin at(j)
                             /\ tables[p] = texts(i)
  BY DEF TabledUpTo
<1>5. new = at(m + 1)
  OBVIOUS
<1> HIDE DEF texts, new, at
<1>6. \A p : p \in DOMAIN tables' <=> \E i \in 1 .. m + 1 : p \in at(i)
  BY <1>2, <1>3, <1>4, <1>5
<1>7. ASSUME NEW p \in DOMAIN tables'
      PROVE  \E i \in 1 .. m + 1 : /\ p \in at(i) /\ \A j \in i + 1 .. m + 1 : p \notin at(j)
                                   /\ tables'[p] = texts(i)
  <2>1. CASE p \in new
    BY <2>1, <1>2, <1>3, <1>5
  <2>2. CASE p \notin new
    <3>1. PICK i \in 1 .. m : /\ p \in at(i) /\ \A j \in i + 1 .. m : p \notin at(j)
                              /\ tables[p] = texts(i)
      BY <2>2, <1>2, <1>4
    <3>2. \A j \in i + 1 .. m + 1 : j \in i + 1 .. m \/ j = m + 1
      OBVIOUS
    <3> QED
      BY <3>1, <3>2, <2>2, <1>2, <1>3, <1>5
  <2> QED
    BY <2>1, <2>2
<1> QED
  BY <1>1, <1>6, <1>7 DEF TabledUpTo

(* What the tables of strings read, when it does not change.               *)
LEMMA TablesKept ==
    ASSUME UNCHANGED <<spec, merged, tables>>
    PROVE  /\ AllOptionsHaveValue' = AllOptionsHaveValue
           /\ \A m : TabledUpTo(m)' = TabledUpTo(m)
BY DEF AllOptionsHaveValue, TabledUpTo, At, Places

(* Every step keeps TablesInv.                                             *)
LEMMA NextTables ==
    ASSUME MergeInv, TablesInv, [Next]_vars
    PROVE  TablesInv'
<1> USE DEF TablesInv, After, GoTo
<1>0. stage \in Stages /\ next \in Nat \ {0} /\ Len(spec.strings) \in Nat
  BY GivenLists DEF MergeInv
<1>1. CASE UNCHANGED <<spec, merged, tables>> /\ stage' = stage /\ stage # "strings"
  BY <1>1, TablesKept
<1>2. CASE /\ UNCHANGED <<spec, merged, tables>>
           /\ After({"read", "config", "strings"}) /\ After({"read", "config", "strings"})'
  BY <1>2, TablesKept
<1>3. CASE ReadFile
  <2>1. UNCHANGED <<spec, merged, tables>> /\ tables = <<>>
    BY <1>3 DEF ReadFile
  <2> QED
    BY <1>3, <2>1, TablesKept DEF ReadFile
<1>4. CASE MergeConfig
  BY <1>4 DEF MergeConfig
<1>5. CASE CheckConfig
  <2>1. UNCHANGED <<spec, merged, tables>> /\ tables = <<>>
    BY <1>5 DEF CheckConfig
  <2>2. TabledUpTo(0)
    BY <2>1 DEF TabledUpTo
  <2> QED
    BY <1>0, <1>5, <2>1, <2>2, TablesKept DEF CheckConfig
<1>6. CASE ReadStrings
  <2>1. PICK m \in Nat : m = next - 1
    BY <1>0
  <2>2. m < Len(spec.strings) /\ TabledUpTo(m) /\ next = m + 1
    BY <1>0, <1>6, <2>1 DEF ReadStrings
  <2>3. /\ tables' = Merge([p \in At(m + 1) |-> spec.strings[m + 1].texts], tables)
        /\ UNCHANGED spec
    BY <1>6, <2>2 DEF ReadStrings, At
  <2>4. TabledUpTo(m + 1)'
    BY <2>2, <2>3, TableOne
  <2>5. next' = m + 2 /\ stage' = "strings"
    BY <1>6, <2>2 DEF ReadStrings
  <2>6. TabledUpTo(next - 1)'
    <3>1. next' - 1 = m + 1
      BY <2>5
    <3> QED
      BY <2>4, <3>1
  <2>7. DOMAIN tables' \subseteq DOMAIN Languages
    BY <2>3 DEF Merge, At, Places
  <2> QED
    BY <1>0, <2>2, <2>3, <2>5, <2>6, <2>7
<1>7. CASE StringsRead
  <2>1. UNCHANGED <<spec, merged, tables>> /\ next - 1 = Len(spec.strings)
    BY <1>0, <1>7 DEF StringsRead
  <2>2. TabledUpTo(Len(spec.strings))
    BY <1>7, <2>1 DEF StringsRead
  <2> QED
    BY <1>7, <2>1, <2>2, TablesKept DEF StringsRead
<1>8. CASE UNCHANGED vars
  BY <1>8, TablesKept DEF vars, configVars
<1>9. CASE InitScript
  BY <1>9, <1>2 DEF InitScript
<1>10. CASE SharedResult \/ NoResult \/ OwnResult \/ NamedResult
  <2>1. stage = "operations" /\ NextOperation
    BY <1>10 DEF SharedResult, NoResult, OwnResult, NamedResult, Reading
  <2> QED
    BY <2>1, <1>1 DEF NextOperation
<1>11. CASE OperationsRead \/ MediasRead \/ Finalize
  BY <1>11, <1>2 DEF OperationsRead, MediasRead, Finalize
<1>12. CASE ReadMedia
  BY <1>12, <1>1 DEF ReadMedia
<1>13. CASE Crash /\ stage \in {"operations", "provide", "loaded"}
  BY <1>13, <1>2 DEF Crash
<1> QED
  BY <1>3, <1>4, <1>5, <1>6, <1>7, <1>8, <1>9, <1>10, <1>11, <1>12, <1>13, NextCases

(* Two languages with a place in common are the same.                      *)
LEMMA SameLanguage ==
    ASSUME NEW i, NEW j, NEW p, p \in At(i), p \in At(j)
    PROVE  At(i) = At(j)
BY DEF At, Places

(* The last block of a language is the one that counts.                    *)
LEMMA TablesAreBest ==
    ASSUME Given, DOMAIN tables \subseteq DOMAIN Languages, TabledUpTo(Len(spec.strings))
    PROVE  \A id \in TextIds :
            /\ HaveText(id) = {} <=> Offering(id) = {}
            /\ \A i \in Offering(id) :
                 (\A j \in Offering(id) \ {i} : MoreLocal(i, j)) =>
                    LocatedString(id) = spec.strings[i].texts[id]
<1> DEFINE m == Len(spec.strings)
           texts(i) == spec.strings[i].texts
           at(i) == At(i)
<1>1. m \in Nat /\ DOMAIN spec.strings = 1 .. m
  BY GivenLists
<1>2. /\ \A p : p \in DOMAIN tables <=> \E i \in 1 .. m : p \in at(i)
      /\ \A p \in DOMAIN tables :
           \E i \in 1 .. m : /\ p \in at(i) /\ \A j \in i + 1 .. m : p \notin at(j)
                             /\ tables[p] = texts(i)
  BY DEF TabledUpTo
<1>3. /\ \A i : Counts(i) <=> /\ at(i) # {}
                              /\ \A j \in 1 .. m : j > i => at(j) # at(i)
      /\ \A id : Offering(id) = {i \in 1 .. m : Counts(i) /\ id \in DOMAIN texts(i)}
      /\ \A i, j : MoreLocal(i, j) <=> \A p \in at(i), q \in at(j) : p < q
  BY <1>1 DEF Counts, Offering, MoreLocal, At
<1>4. \A i, j, p : p \in at(i) /\ p \in at(j) => at(i) = at(j)
  BY SameLanguage
<1>5. \A id : HaveText(id) = {p \in DOMAIN tables : id \in DOMAIN tables[p]}
  BY DEF HaveText
<1> HIDE DEF m, texts, at
<1>6. ASSUME NEW p \in DOMAIN tables
      PROVE  \E i \in 1 .. m : p \in at(i) /\ Counts(i) /\ tables[p] = texts(i)
  <2>1. PICK i \in 1 .. m : /\ p \in at(i) /\ \A j \in i + 1 .. m : p \notin at(j)
                            /\ tables[p] = texts(i)
    BY <1>2
  <2>2. \A j \in 1 .. m : j > i => j \in i + 1 .. m
    BY <1>1
  <2> QED
    BY <2>1, <2>2, <1>3
<1>7. ASSUME NEW i \in 1 .. m, Counts(i), NEW p \in at(i)
      PROVE  p \in DOMAIN tables /\ tables[p] = texts(i)
  <2>1. p \in DOMAIN tables
    BY <1>2
  <2>2. PICK j \in 1 .. m : p \in at(j) /\ Counts(j) /\ tables[p] = texts(j)
    BY <1>6, <2>1
  <2>3. at(i) = at(j)
    BY <2>2, <1>4
  <2>4. ~(j > i) /\ ~(i > j)
    BY <2>2, <2>3, <1>3, <1>7
  <2>5. i = j
    BY <2>4, <1>1
  <2> QED
    BY <2>1, <2>2, <2>5
<1>8. ASSUME NEW id
      PROVE  HaveText(id) = {} <=> Offering(id) = {}
  <2>1. ASSUME NEW p \in HaveText(id)
        PROVE  Offering(id) # {}
    BY <1>3, <1>5, <1>6
  <2>2. ASSUME NEW i \in Offering(id)
        PROVE  HaveText(id) # {}
    <3>1. i \in 1 .. m /\ Counts(i) /\ id \in DOMAIN texts(i)
      BY <1>3
    <3>2. PICK p \in at(i) : TRUE
      BY <3>1, <1>3
    <3> QED
      BY <3>1, <3>2, <1>5, <1>7
  <2> QED
    BY <2>1, <2>2
<1>9. ASSUME NEW id, NEW i \in Offering(id), \A j \in Offering(id) \ {i} : MoreLocal(i, j)
      PROVE  LocatedString(id) = texts(i)[id]
  <2>1. i \in 1 .. m /\ Counts(i) /\ id \in DOMAIN texts(i)
    BY <1>3
  <2>2. PICK p \in at(i) : p \in HaveText(id)
    BY <2>1, <1>3, <1>5, <1>7
  <2>3. HaveText(id) \in SUBSET Nat
    BY LanguagesAssumption, <1>5
  <2> DEFINE q == CHOOSE k \in HaveText(id) : \A j \in HaveText(id) : k <= j
  <2>4. q \in HaveText(id) /\ \A j \in HaveText(id) : q <= j
    <3>1. \E k \in HaveText(id) : \A j \in HaveText(id) : k <= j
      BY <2>2, <2>3, Least
    <3> QED
      BY <3>1
  <2>5. LocatedString(id) = tables[q][id]
    BY DEF LocatedString
  <2> HIDE DEF q
  <2>6. PICK j \in 1 .. m : q \in at(j) /\ Counts(j) /\ tables[q] = texts(j)
    BY <2>4, <1>5, <1>6
  <2>7. j \in Offering(id)
    BY <2>4, <2>6, <1>3, <1>5
  <2>8. ~(j # i)
    <3>1. q <= p /\ p \in Nat /\ q \in Nat
      BY <2>2, <2>3, <2>4
    <3>2. j # i => p < q
      BY <2>6, <2>7, <1>3, <1>9
    <3> QED
      BY <3>1, <3>2
  <2> QED
    BY <2>5, <2>6, <2>8
<1> QED
  BY <1>8, <1>9 DEF texts

(* A text that is looked up is the one of the last block of the most       *)
(* specific language that has it, and is there when a block of a language  *)
(* of the user that counts has it.                                         *)
THEOREM BestStrings == Spec => []StringsAreBest
<1>1. LoaderInit => MergeInv /\ TablesInv
  BY InitMerge, InitTables
<1>2. MergeInv /\ TablesInv /\ [Next]_vars => MergeInv' /\ TablesInv'
  BY NextMerge, NextTables
<1>3. MergeInv /\ TablesInv => StringsAreBest
  BY TablesAreBest DEF MergeInv, TablesInv, StringsAreBest, After
<1> QED
  BY <1>1, <1>2, <1>3, PTL DEF Spec

-----------------------------------------------------------------------------
(* The operations and their results.                                       *)

Before == {"read", "config", "strings", "script", "skipped"}

ResultsInv ==
    /\ operations \in [OpKinds -> Seq(Loaded)]
    /\ IsFiniteSet(Loaded) /\ IsFiniteSet(DOMAIN results)
    /\ stage \in Before => Loaded = {} /\ results = <<>> /\ refs = <<>>
    /\ \A op \in Loaded :
         /\ op.of \in DOMAIN spec.operations /\ op.result \in DOMAIN refs
         /\ \A req \in op.requirements : req.key \in Supported
    /\ stage = "operations" => /\ \A op \in Loaded : op.of < next
                               /\ \A r \in DOMAIN refs : r < next
    /\ DOMAIN refs \subseteq DOMAIN spec.operations
    /\ \A id \in DOMAIN results : results[id] \in DOMAIN refs
    /\ refs \in [DOMAIN refs -> Nat]
    /\ ResultRefsAreExact

(* What the last of a list adds to it.                                     *)
New(r) == [of |-> next, requirements |-> Requirements(Op.requires), result |-> r]

(* The operations loaded are the elements of the lists by kind.            *)
LEMMA LoadedElements == \A op : op \in Loaded <=>
                            \E k \in OpKinds : \E i \in DOMAIN operations[k] : operations[k][i] = op
BY DEF Loaded, Range

(* The operation being read is one of the specification.                   *)
LEMMA OpGiven ==
    ASSUME Given, next \in Nat \ {0}, Reading
    PROVE  next \in DOMAIN spec.operations /\ Op.kind \in OpKinds
<1>1. next \in DOMAIN spec.operations
  BY GivenLists DEF Reading
<1> QED
  BY <1>1, GivenLists, OperationsAssumption DEF Op

(* Adding an operation loads exactly one more, at the end of its list.     *)
LEMMA AddedOne ==
    ASSUME Given, next \in Nat \ {0}, Reading, NEW r, AddOperation(r),
           operations \in [OpKinds -> Seq(Loaded)]
    PROVE  /\ Loaded' = Loaded \cup {New(r)}
           /\ operations' \in [OpKinds -> Seq(Loaded')]
           /\ operations'[Op.kind] = Append(operations[Op.kind], New(r))
           /\ \A k \in OpKinds \ {Op.kind} : operations'[k] = operations[k]
<1> DEFINE new == New(r)
           k0 == Op.kind
<1>1. k0 \in OpKinds
  BY OpGiven
<1>2. operations' = [operations EXCEPT ![k0] = Append(@, new)]
  BY DEF AddOperation, New
<1> HIDE DEF new, k0
<1>3. /\ operations'[k0] = Append(operations[k0], new)
      /\ \A k \in OpKinds \ {k0} : operations'[k] = operations[k]
      /\ DOMAIN operations' = OpKinds /\ operations' = [k \in OpKinds |-> operations'[k]]
  BY <1>1, <1>2
<1>4. /\ operations[k0] \in Seq(Loaded) /\ Len(operations[k0]) \in Nat
      /\ DOMAIN operations[k0] = 1 .. Len(operations[k0])
  BY <1>1
<1>5. /\ DOMAIN operations'[k0] = 1 .. Len(operations[k0]) + 1
      /\ \A i \in DOMAIN operations[k0] : operations'[k0][i] = operations[k0][i]
      /\ operations'[k0][Len(operations[k0]) + 1] = new
  BY <1>3, <1>4
<1>6. 1 .. Len(operations[k0]) + 1 = DOMAIN operations[k0] \cup {Len(operations[k0]) + 1}
  BY <1>4
<1>7. \A op : op \in Loaded' <=>
                  \E k \in OpKinds : \E i \in DOMAIN operations'[k] : operations'[k][i] = op
  BY DEF Loaded, Range
<1>8. Loaded' = Loaded \cup {new}
  <2>1. ASSUME NEW op \in Loaded'
        PROVE  op \in Loaded \cup {new}
    <3>1. PICK k \in OpKinds : \E i \in DOMAIN operations'[k] : operations'[k][i] = op
      BY <1>7
    <3>2. CASE k # k0
      BY <3>1, <3>2, <1>3, LoadedElements
    <3>3. CASE k = k0
      BY <3>1, <3>3, <1>1, <1>5, <1>6, LoadedElements
    <3> QED
      BY <3>2, <3>3
  <2>2. new \in Loaded'
    BY <1>1, <1>5, <1>6, <1>7
  <2>3. ASSUME NEW op \in Loaded
        PROVE  op \in Loaded'
    <3>1. PICK k \in OpKinds : \E i \in DOMAIN operations[k] : operations[k][i] = op
      BY LoadedElements
    <3>2. CASE k # k0
      BY <3>1, <3>2, <1>3, <1>7
    <3>3. CASE k = k0
      BY <3>1, <3>3, <1>1, <1>5, <1>6, <1>7
    <3> QED
      BY <3>2, <3>3
  <2> QED
    BY <2>1, <2>2, <2>3
<1> DEFINE L == Loaded
           L2 == Loaded'
<1>9. L \subseteq L2 /\ new \in L2
  BY <1>8
<1>10. \A k \in OpKinds : operations[k] \in Seq(L)
  OBVIOUS
<1> HIDE DEF L, L2
<1>11. ASSUME NEW k \in OpKinds
       PROVE  operations'[k] \in Seq(L2)
  <2>1. operations[k] \in Seq(L2)
    BY <1>9, <1>10, SeqMonotonic
  <2>2. Append(operations[k], new) \in Seq(L2)
    BY <2>1, <1>9, AppendProperties
  <2>3. CASE k = k0
    BY <2>2, <2>3, <1>3
  <2>4. CASE k # k0
    BY <2>1, <2>4, <1>3
  <2> QED
    BY <2>3, <2>4
<1>12. operations' \in [OpKinds -> Seq(L2)]
  BY <1>3, <1>11
<1> QED
  BY <1>3, <1>8, <1>12 DEF L2, new, k0

(* The users of a result and the names of it are finitely many.            *)
LEMMA Holders ==
    ASSUME ResultsInv, NEW r
    PROVE  /\ IsFiniteSet(Users(r)) /\ Cardinality(Users(r)) \in Nat
           /\ IsFiniteSet(Ids(r)) /\ Cardinality(Ids(r)) \in Nat
<1>1. Users(r) \subseteq Loaded /\ Ids(r) \subseteq DOMAIN results
  BY DEF Users, Ids
<1> QED
  BY <1>1, FS_Subset, FS_CardinalityType DEF ResultsInv

(* An operation loaded adds one user to its own result only.               *)
LEMMA UsersOfNew ==
    ASSUME ResultsInv, stage = "operations", next \in Nat, NEW s,
           Loaded' = Loaded \cup {New(s)}, NEW r
    PROVE  Cardinality(Users(r)') = Cardinality(Users(r)) + (IF r = s THEN 1 ELSE 0)
<1>1. New(s) \notin Loaded /\ New(s).result = s
  BY DEF ResultsInv, New
<1>2. Users(r)' = IF r = s THEN Users(r) \cup {New(s)} ELSE Users(r)
  BY <1>1 DEF Users
<1>3. New(s) \notin Users(r)
  BY <1>1 DEF Users
<1>4. IsFiniteSet(Users(r)) /\ Cardinality(Users(r)) \in Nat
  BY Holders
<1>5. Cardinality(Users(r) \cup {New(s)}) = Cardinality(Users(r)) + 1
  BY <1>3, <1>4, FS_AddElement
<1> QED
  BY <1>2, <1>4, <1>5

(* What is common to the operations that are added.                        *)
LEMMA OperationAdded ==
    ASSUME MergeInv, ResultsInv, Reading, NEW s, AddOperation(s), NextOperation,
           s \in DOMAIN refs', DOMAIN refs \subseteq DOMAIN refs',
           DOMAIN refs' \subseteq DOMAIN refs \cup {next}
    PROVE  /\ Loaded' = Loaded \cup {New(s)}
           /\ (/\ operations \in [OpKinds -> Seq(Loaded)]
               /\ IsFiniteSet(Loaded)
               /\ stage = "operations"
               /\ \A op \in Loaded :
                    /\ op.of \in DOMAIN spec.operations /\ op.result \in DOMAIN refs
                    /\ \A req \in op.requirements : req.key \in Supported
               /\ \A op \in Loaded : op.of < next
               /\ \A r \in DOMAIN refs : r < next
               /\ DOMAIN refs \subseteq DOMAIN spec.operations)'
           /\ next \notin DOMAIN refs
           /\ \A r : Cardinality(Users(r)') = Cardinality(Users(r)) + (IF r = s THEN 1 ELSE 0)
<1>1. Given /\ next \in Nat \ {0} /\ stage = "operations" /\ next' = next + 1
      /\ UNCHANGED <<spec, stage>>
  BY DEF MergeInv, Reading, NextOperation
<1>2. Loaded' = Loaded \cup {New(s)} /\ operations' \in [OpKinds -> Seq(Loaded')]
  BY <1>1, AddedOne DEF ResultsInv
<1>3. IsFiniteSet(Loaded')
  BY <1>2, FS_AddElement DEF ResultsInv
<1>4. /\ New(s).of = next /\ New(s).result = s
      /\ \A req \in New(s).requirements : req.key \in Supported
  BY DEF New, Requirements, Kept
<1>5. next \in DOMAIN spec.operations /\ DOMAIN spec.operations \subseteq Nat
  BY <1>1, OpGiven, GivenLists
<1>6. next \notin DOMAIN refs /\ \A op \in Loaded : op.of < next
  BY <1>1 DEF ResultsInv
<1>7. \A op \in Loaded :
        /\ op.of \in DOMAIN spec.operations /\ op.result \in DOMAIN refs
        /\ \A req \in op.requirements : req.key \in Supported
  BY DEF ResultsInv
<1>8. \A op \in Loaded' : /\ op.of \in DOMAIN spec.operations /\ op.result \in DOMAIN refs'
                          /\ \A req \in op.requirements : req.key \in Supported
                          /\ op.of < next + 1
  BY <1>2, <1>4, <1>5, <1>6, <1>7
<1>9. \A r \in DOMAIN refs : r < next /\ r \in DOMAIN spec.operations
  BY <1>1 DEF ResultsInv
<1>10. \A r \in DOMAIN refs' : r < next + 1 /\ r \in DOMAIN spec.operations
  BY <1>1, <1>5, <1>9
<1>11. \A r : Cardinality(Users(r)') = Cardinality(Users(r)) + (IF r = s THEN 1 ELSE 0)
  BY <1>1, <1>2, UsersOfNew
<1> QED
  BY <1>1, <1>2, <1>3, <1>6, <1>8, <1>10, <1>11

(* Sharing the result of another operation keeps ResultsInv.               *)
LEMMA SharedStep ==
    ASSUME MergeInv, ResultsInv, SharedResult
    PROVE  ResultsInv'
<1>1. PICK s : s = results[Op.ref]
  OBVIOUS
<1>2. /\ AddOperation(s) /\ Reading /\ NextOperation /\ results' = results
      /\ refs' = [refs EXCEPT ![s] = @ + 1]
  BY <1>1 DEF SharedResult
<1>3. s \in DOMAIN refs /\ refs \in [DOMAIN refs -> Nat]
  BY <1>1 DEF SharedResult, ResultsInv
<1>4. DOMAIN refs' = DOMAIN refs /\ refs' \in [DOMAIN refs -> Nat]
      /\ \A r \in DOMAIN refs : refs'[r] = refs[r] + (IF r = s THEN 1 ELSE 0)
  BY <1>2, <1>3
<1>5. /\ (/\ operations \in [OpKinds -> Seq(Loaded)]
          /\ IsFiniteSet(Loaded)
          /\ stage = "operations"
          /\ \A op \in Loaded :
               /\ op.of \in DOMAIN spec.operations /\ op.result \in DOMAIN refs
               /\ \A req \in op.requirements : req.key \in Supported
          /\ \A op \in Loaded : op.of < next
          /\ \A r \in DOMAIN refs : r < next
          /\ DOMAIN refs \subseteq DOMAIN spec.operations)'
      /\ \A r : Cardinality(Users(r)') = Cardinality(Users(r)) + (IF r = s THEN 1 ELSE 0)
  BY <1>2, <1>3, <1>4, OperationAdded
<1>6. \A r : Ids(r)' = Ids(r)
  BY <1>2 DEF Ids
<1>7. \A r \in DOMAIN refs : refs[r] = Cardinality(Users(r)) + Cardinality(Ids(r))
  BY <1>2 DEF ResultsInv, ResultRefsAreExact, Reading
<1>8. ResultRefsAreExact'
  <2>1. ASSUME NEW r \in DOMAIN refs'
        PROVE  refs'[r] = Cardinality(Users(r)') + Cardinality(Ids(r)')
    <3>1. Cardinality(Users(r)) \in Nat /\ Cardinality(Ids(r)) \in Nat
      BY Holders
    <3> QED
      BY <3>1, <1>4, <1>5, <1>6, <1>7
  <2> QED
    BY <2>1, <1>5 DEF ResultRefsAreExact
<1>9. IsFiniteSet(DOMAIN results') /\ \A id \in DOMAIN results' : results'[id] \in DOMAIN refs'
  BY <1>2, <1>4 DEF ResultsInv
<1> QED
  BY <1>4, <1>5, <1>8, <1>9 DEF ResultsInv, Before

(* Reading a result without an id keeps ResultsInv.                        *)
LEMMA OwnStep ==
    ASSUME MergeInv, ResultsInv, OwnResult
    PROVE  ResultsInv'
<1>1. PICK s : s = next
  OBVIOUS
<1>2. /\ AddOperation(s) /\ Reading /\ NextOperation /\ results' = results
      /\ refs' = Merge(refs, [r \in {s} |-> 1])
  BY <1>1 DEF OwnResult
<1>3. s \notin DOMAIN refs /\ refs \in [DOMAIN refs -> Nat]
  BY <1>1, <1>2 DEF ResultsInv, Reading, MergeInv
<1>4. /\ DOMAIN refs' = DOMAIN refs \cup {s} /\ refs' \in [DOMAIN refs' -> Nat]
      /\ refs'[s] = 1 /\ \A r \in DOMAIN refs : refs'[r] = refs[r]
  BY <1>2, <1>3 DEF Merge
<1>5. /\ (/\ operations \in [OpKinds -> Seq(Loaded)]
          /\ IsFiniteSet(Loaded)
          /\ stage = "operations"
          /\ \A op \in Loaded :
               /\ op.of \in DOMAIN spec.operations /\ op.result \in DOMAIN refs
               /\ \A req \in op.requirements : req.key \in Supported
          /\ \A op \in Loaded : op.of < next
          /\ \A r \in DOMAIN refs : r < next
          /\ DOMAIN refs \subseteq DOMAIN spec.operations)'
      /\ \A r : Cardinality(Users(r)') = Cardinality(Users(r)) + (IF r = s THEN 1 ELSE 0)
  BY <1>1, <1>2, <1>3, <1>4, OperationAdded
<1>6. \A r : Ids(r)' = Ids(r)
  BY <1>2 DEF Ids
<1>7. \A r \in DOMAIN refs : refs[r] = Cardinality(Users(r)) + Cardinality(Ids(r))
  BY <1>2 DEF ResultsInv, ResultRefsAreExact, Reading
<1>8. Users(s) = {} /\ Ids(s) = {}
  BY <1>3 DEF Users, Ids, ResultsInv
<1>9. ResultRefsAreExact'
  BY <1>3, <1>4, <1>5, <1>6, <1>7, <1>8, Holders, FS_EmptySet DEF ResultRefsAreExact
<1>10. IsFiniteSet(DOMAIN results') /\ \A id \in DOMAIN results' : results'[id] \in DOMAIN refs'
  BY <1>2, <1>4 DEF ResultsInv
<1> QED
  BY <1>4, <1>5, <1>9, <1>10 DEF ResultsInv, Before

(* The id of a new result leads to it and no longer to an earlier one.     *)
LEMMA IdsOfNew ==
    ASSUME ResultsInv, NEW s, NEW id, s \notin DOMAIN refs,
           results' = Merge([i \in {id} |-> s], results), NEW r
    PROVE  Cardinality(Ids(r)') = IF r = s THEN 1
                                  ELSE Cardinality(Ids(r)) - (IF id \in Ids(r) THEN 1 ELSE 0)
<1>1. /\ DOMAIN results' = DOMAIN results \cup {id} /\ results'[id] = s
      /\ \A i \in DOMAIN results \ {id} : results'[i] = results[i]
  BY DEF Merge
<1>2. \A i \in DOMAIN results : results[i] # s
  BY DEF ResultsInv
<1>3. Ids(r)' = IF r = s THEN {id} ELSE Ids(r) \ {id}
  BY <1>1, <1>2 DEF Ids
<1>4. IsFiniteSet(Ids(r)) /\ Cardinality(Ids(r)) \in Nat
  BY Holders
<1>5. Cardinality({id}) = 1
  BY FS_Singleton
<1>6. Cardinality(Ids(r) \ {id}) = Cardinality(Ids(r)) - (IF id \in Ids(r) THEN 1 ELSE 0)
  <2> DEFINE S == Ids(r)
  <2>1. IsFiniteSet(S) /\ Cardinality(S) \in Nat
    BY <1>4
  <2> HIDE DEF S
  <2>2. Cardinality(S \ {id}) = IF id \in S THEN Cardinality(S) - 1 ELSE Cardinality(S)
    BY <2>1, FS_RemoveElement, Zenon
  <2> QED
    BY <2>1, <2>2 DEF S
<1> QED
  BY <1>3, <1>5, <1>6

(* Reading a result with an id keeps ResultsInv.                           *)
LEMMA NamedStep ==
    ASSUME MergeInv, ResultsInv, NamedResult
    PROVE  ResultsInv'
<1>1. PICK s, id : s = next /\ id = Op.id
  OBVIOUS
<1>2. /\ AddOperation(s) /\ Reading /\ NextOperation
      /\ results' = Merge([i \in {id} |-> s], results)
      /\ refs' = Merge(Displace(id), [r \in {s} |-> 2])
  BY <1>1 DEF NamedResult
<1>3. s \notin DOMAIN refs /\ refs \in [DOMAIN refs -> Nat]
  BY <1>1, <1>2 DEF ResultsInv, Reading, MergeInv
<1>4. /\ DOMAIN refs' = DOMAIN refs \cup {s} /\ refs'[s] = 2
      /\ \A r \in DOMAIN refs : refs'[r] = IF id \in Ids(r) THEN refs[r] - 1 ELSE refs[r]
      /\ refs' = [r \in DOMAIN refs' |-> refs'[r]]
  BY <1>2, <1>3 DEF Merge, Displace, Ids
<1>5. /\ (/\ operations \in [OpKinds -> Seq(Loaded)]
          /\ IsFiniteSet(Loaded)
          /\ stage = "operations"
          /\ \A op \in Loaded :
               /\ op.of \in DOMAIN spec.operations /\ op.result \in DOMAIN refs
               /\ \A req \in op.requirements : req.key \in Supported
          /\ \A op \in Loaded : op.of < next
          /\ \A r \in DOMAIN refs : r < next
          /\ DOMAIN refs \subseteq DOMAIN spec.operations)'
      /\ \A r : Cardinality(Users(r)') = Cardinality(Users(r)) + (IF r = s THEN 1 ELSE 0)
  BY <1>1, <1>2, <1>3, <1>4, OperationAdded
<1>6. \A r : Cardinality(Ids(r)') = IF r = s THEN 1
                                   ELSE Cardinality(Ids(r)) - (IF id \in Ids(r) THEN 1 ELSE 0)
  BY <1>2, <1>3, IdsOfNew
<1>7. \A r \in DOMAIN refs : refs[r] = Cardinality(Users(r)) + Cardinality(Ids(r))
  BY <1>2 DEF ResultsInv, ResultRefsAreExact, Reading
<1>8. Users(s) = {}
  BY <1>3 DEF Users, ResultsInv
<1>9. ASSUME NEW r \in DOMAIN refs'
      PROVE  refs'[r] \in Nat /\ refs'[r] = Cardinality(Users(r)') + Cardinality(Ids(r)')
  <2>1. CASE r = s
    <3>1. Cardinality(Users(s)) = 0
      BY <1>8, FS_EmptySet
    <3> QED
      BY <3>1, <2>1, <1>4, <1>5, <1>6
  <2>2. CASE r # s
    <3>1. /\ Cardinality(Users(r)) \in Nat /\ Cardinality(Ids(r)) \in Nat
          /\ IsFiniteSet(Ids(r))
      BY Holders
    <3>2. id \in Ids(r) => Cardinality(Ids(r)) # 0
      BY <3>1, FS_EmptySet
    <3>3. r \in DOMAIN refs /\ refs[r] = Cardinality(Users(r)) + Cardinality(Ids(r))
      BY <2>2, <1>4, <1>7
    <3> QED
      BY <3>1, <3>2, <3>3, <2>2, <1>4, <1>5, <1>6
  <2> QED
    BY <2>1, <2>2
<1>10. ResultRefsAreExact' /\ refs' \in [DOMAIN refs' -> Nat]
  BY <1>4, <1>5, <1>9 DEF ResultRefsAreExact
<1>11. IsFiniteSet(DOMAIN results') /\ \A i \in DOMAIN results' : results'[i] \in DOMAIN refs'
  <2>1. DOMAIN results' = DOMAIN results \cup {id} /\ results'[id] = s
        /\ \A i \in DOMAIN results \ {id} : results'[i] = results[i]
    BY <1>2 DEF Merge
  <2>2. IsFiniteSet(DOMAIN results')
    <3>1. IsFiniteSet(DOMAIN results)
      BY DEF ResultsInv
    <3>2. IsFiniteSet(DOMAIN results \cup {id})
      BY <3>1, FS_AddElement, Zenon
    <3> QED
      BY <3>2, <2>1
  <2>3. \A i \in DOMAIN results : results[i] \in DOMAIN refs
    BY DEF ResultsInv
  <2> QED
    BY <2>1, <2>2, <2>3, <1>4
<1> QED
  BY <1>5, <1>10, <1>11 DEF ResultsInv, Before

(* Freeing the source keeps ResultsInv.                                    *)
LEMMA FinalizeStep ==
    ASSUME MergeInv, ResultsInv, Finalize
    PROVE  ResultsInv'
<1>1. /\ operations' = [k \in OpKinds |-> <<>>] /\ results' = <<>> /\ spec' = spec
      /\ refs' = [r \in DOMAIN refs |-> refs[r] - Cardinality(Users(r)) - Cardinality(Ids(r))]
      /\ stage' = "finalized"
  BY DEF Finalize, GoTo
<1>2. Loaded' = {}
  BY <1>1 DEF Loaded, Range
<1>3. \A r \in DOMAIN refs : refs[r] = Cardinality(Users(r)) + Cardinality(Ids(r))
  BY DEF ResultsInv, ResultRefsAreExact, Finalize
<1>4. ASSUME NEW r \in DOMAIN refs
      PROVE  refs'[r] = 0
  <2>1. Cardinality(Users(r)) \in Nat /\ Cardinality(Ids(r)) \in Nat
    BY Holders
  <2> QED
    BY <2>1, <1>1, <1>3
<1>5. DOMAIN refs' = DOMAIN refs /\ refs' \in [DOMAIN refs' -> Nat]
  BY <1>1, <1>4
<1>6. \A r : Cardinality(Users(r)') = 0 /\ Cardinality(Ids(r)') = 0
  <2>1. \A r : Users(r)' = {} /\ Ids(r)' = {}
    BY <1>1, <1>2 DEF Users, Ids
  <2> QED
    BY <2>1, FS_EmptySet
<1>7. ResultRefsAreExact'
  BY <1>1, <1>4, <1>5, <1>6 DEF ResultRefsAreExact
<1>8. operations' \in [OpKinds -> Seq(Loaded')]
  BY <1>1
<1>9. DOMAIN results' = {}
  BY <1>1
<1> QED
  BY <1>1, <1>2, <1>5, <1>7, <1>8, <1>9, FS_EmptySet DEF ResultsInv, Before

(* ResultsInv holds at the start.                                          *)
LEMMA InitResults == LoaderInit => ResultsInv
<1> SUFFICES ASSUME LoaderInit PROVE ResultsInv
  OBVIOUS
<1>1. Loaded = {} /\ DOMAIN results = {} /\ DOMAIN refs = {}
  BY DEF LoaderInit, Loaded, Range
<1>2. operations \in [OpKinds -> Seq(Loaded)] /\ refs \in [DOMAIN refs -> Nat]
  BY DEF LoaderInit
<1> QED
  BY <1>1, <1>2, FS_EmptySet DEF LoaderInit, Init, ResultsInv, ResultRefsAreExact, Before

(* The stages that leave the operations and their results alone.           *)
LEMMA ResultsKept ==
    ASSUME MergeInv, ResultsInv, UNCHANGED <<spec, operations, results, refs>>,
           stage' # "finalized" \/ stage' = stage, stage = "crashed" => stage' = "crashed",
           stage' \in Before => stage \in Before,
           stage' = "operations" => stage \in Before \/ (stage = "operations" /\ next' = next + 1)
                                    \/ (stage = "operations" /\ next' = next)
    PROVE  ResultsInv'
<1>1. Loaded' = Loaded /\ \A r : Users(r)' = Users(r) /\ Ids(r)' = Ids(r)
  BY DEF Loaded, Users, Ids
<1>2. ResultRefsAreExact'
  BY <1>1 DEF ResultsInv, ResultRefsAreExact
<1>3. stage' = "operations" => /\ \A op \in Loaded : op.of < next'
                               /\ \A r \in DOMAIN refs : r < next'
  <2>1. CASE stage \in Before
    BY <2>1 DEF ResultsInv
  <2>2. CASE stage = "operations"
    <3>1. DOMAIN spec.operations \subseteq Nat /\ next \in Nat
      BY GivenLists DEF MergeInv
    <3>2. /\ \A op \in Loaded : op.of \in Nat /\ op.of < next
          /\ \A r \in DOMAIN refs : r \in Nat /\ r < next
      BY <2>2, <3>1 DEF ResultsInv
    <3>3. stage' = "operations" => next' \in {next, next + 1}
      BY <2>2 DEF Before
    <3> QED
      BY <3>1, <3>2, <3>3
  <2> QED
    BY <2>1, <2>2
<1> QED
  BY <1>1, <1>2, <1>3 DEF ResultsInv

(* Every step keeps ResultsInv.                                            *)
LEMMA NextResults ==
    ASSUME MergeInv, ResultsInv, [Next]_vars
    PROVE  ResultsInv'
<1> USE DEF GoTo, Before, loaderVars
<1>1. CASE ReadFile /\ UNCHANGED loaderVars
  BY <1>1, ResultsKept DEF ReadFile
<1>2. CASE MergeConfig /\ UNCHANGED loaderVars
  BY <1>2, ResultsKept DEF MergeConfig
<1>3. CASE CheckConfig /\ UNCHANGED loaderVars
  BY <1>3, ResultsKept DEF CheckConfig
<1>4. CASE ReadStrings /\ UNCHANGED loaderVars
  BY <1>4, ResultsKept DEF ReadStrings
<1>5. CASE StringsRead /\ UNCHANGED loaderVars
  BY <1>5, ResultsKept DEF StringsRead
<1>6. CASE InitScript /\ UNCHANGED loaderVars
  BY <1>6, ResultsKept DEF InitScript
<1>7. CASE NoResult
  BY <1>7, ResultsKept DEF NoResult, NextOperation, Reading
<1>8. CASE OperationsRead \/ MediasRead
  BY <1>8, ResultsKept DEF OperationsRead, MediasRead
<1>9. CASE ReadMedia
  BY <1>9, ResultsKept DEF ReadMedia
<1>10. CASE Crash /\ stage \in {"operations", "provide", "loaded"}
  BY <1>10, ResultsKept DEF Crash
<1>11. CASE UNCHANGED vars
  <2>1. stage \in Stages
    BY DEF MergeInv
  <2> QED
    BY <1>11, <2>1, ResultsKept DEF vars, configVars, Stages
<1> QED
  BY <1>1, <1>2, <1>3, <1>4, <1>5, <1>6, <1>7, <1>8, <1>9, <1>10, <1>11, NextCases,
     SharedStep, OwnStep, NamedStep, FinalizeStep

(* A ResultData has one reference for each operation and each id that      *)
(* leads to it, whatever operations share, displace or miss; when the      *)
(* source is finalized none is left.                                       *)
THEOREM ExactReferences == Spec => []ResultRefsAreExact
<1>1. LoaderInit => MergeInv /\ ResultsInv
  BY InitMerge, InitResults
<1>2. MergeInv /\ ResultsInv /\ [Next]_vars => MergeInv' /\ ResultsInv'
  BY NextMerge, NextResults
<1>3. ResultsInv => ResultRefsAreExact
  BY DEF ResultsInv
<1> QED
  BY <1>1, <1>2, <1>3, PTL DEF Spec

-----------------------------------------------------------------------------
(* The medias.                                                             *)

MediasInv ==
    /\ templates \in Seq(Range(templates))
    /\ stage = "provide" => next = Len(templates) + 1
    /\ stage \notin {"provide", "loaded", "crashed"} => templates = <<>>
    /\ \A t \in DOMAIN templates : templates[t].mandatory \subseteq Supported
    /\ keys.slow \cup keys.resolve \subseteq keys.supported
    /\ MandatoryAreNeeded

(* MediasInv holds at the start.                                           *)
LEMMA InitMedias == LoaderInit => MediasInv
BY DEF LoaderInit, Init, MediasInv, MandatoryAreNeeded

(* What a list of medias has of a key when one more is read.               *)
LEMMA MediaStep ==
    ASSUME MergeInv, MediasInv, ReadMedia
    PROVE  MediasInv'
<1>1. PICK new : /\ templates' = Append(templates, new)
                 /\ new.mandatory = KeysAt({i \in Usable : Mandatory(Media[i])})
  <2> DEFINE data == [k \in KeysAt(WithData) |-> Media[LastWithData(k)].data]
             needed == KeysAt({i \in Usable : Mandatory(Media[i])})
  <2>1. templates' = Append(templates, [keys |-> data, mandatory |-> needed])
    BY Zenon DEF ReadMedia
  <2> HIDE DEF data, needed
  <2>2. [keys |-> data, mandatory |-> needed].mandatory = needed
    OBVIOUS
  <2> QED
    BY <2>1, <2>2, Zenon DEF needed
<1>2. /\ next = Len(templates) + 1 /\ Len(templates) \in Nat
      /\ DOMAIN templates = 1 .. Len(templates)
      /\ templates \in Seq(Range(templates))
  BY DEF MediasInv, ReadMedia
<1>3. /\ DOMAIN templates' = 1 .. Len(templates) + 1 /\ Len(templates') = Len(templates) + 1
      /\ \A t \in DOMAIN templates : templates'[t] = templates[t]
      /\ templates'[next] = new
  BY <1>1, <1>2
<1>4. templates' \in Seq(Range(templates'))
  <2> DEFINE s == templates'
  <2>1. s \in Seq(Range(templates) \cup {new})
    BY <1>1, <1>2
  <2> HIDE DEF s
  <2>2. s \in [1 .. Len(s) -> Range(s)] /\ Len(s) \in Nat
    BY <2>1 DEF Range
  <2>3. s \in Seq(Range(s))
    BY <2>2, SeqDef
  <2> QED
    BY <2>3 DEF s
<1>5. UNCHANGED <<spec, operations, stage>> /\ stage = "provide" /\ next' = next + 1
  BY DEF ReadMedia
<1>6. Loaded' = Loaded
  BY <1>5 DEF Loaded
<1>7. /\ \A k : k \in new.mandatory <=>
                  \E i \in DOMAIN Media : /\ Media[i].key = k /\ k \in Supported
                                          /\ Mandatory(Media[i])
  BY <1>1 DEF KeysAt, Usable
<1>8. ASSUME NEW t \in DOMAIN templates', NEW k \in Supported
      PROVE  LET declared == {key \in Range(spec.medias[t]) : key.key = k}
                 tested == k \in Forced \/ \E op \in Loaded : \E req \in op.requirements : req.key = k
             IN  k \in templates'[t].mandatory <=>
                     \E key \in declared : key.force \/ (tested /\ ~key.slow)
  <2>1. CASE t \in DOMAIN templates
    BY <2>1, <1>3 DEF MediasInv, MandatoryAreNeeded
  <2>2. CASE t = next
    <3>1. k \in RequiredKeys <=> k \in Forced \/ \E op \in Loaded : \E req \in op.requirements : req.key = k
      BY DEF RequiredKeys
    <3> QED
      BY <2>2, <3>1, <1>3, <1>7 DEF Media, Mandatory, Range
  <2> QED
    BY <2>1, <2>2, <1>2, <1>3
<1>9. MandatoryAreNeeded'
  BY <1>5, <1>6, <1>8 DEF MandatoryAreNeeded
<1>10. \A t \in DOMAIN templates' : templates'[t].mandatory \subseteq Supported
  BY <1>2, <1>3, <1>7 DEF MediasInv
<1>11. (keys.slow \cup keys.resolve \subseteq keys.supported)'
  BY DEF ReadMedia, MediasInv, KeysAt
<1> QED
  BY <1>2, <1>3, <1>4, <1>5, <1>9, <1>10, <1>11 DEF MediasInv

(* What MediasInv says, when neither the medias nor the operations change. *)
LEMMA MediasKept ==
    ASSUME MediasInv, UNCHANGED <<spec, operations, templates, keys>>,
           stage' = "provide" => /\ stage \in {"provide", "operations"}
                                 /\ next' = IF stage = "provide" THEN next ELSE 1,
           stage' \notin {"provide", "loaded", "crashed"} =>
                stage \notin {"provide", "loaded", "crashed"}
    PROVE  MediasInv'
<1>1. MandatoryAreNeeded'
  BY DEF MediasInv, MandatoryAreNeeded, Loaded
<1>2. stage' = "provide" => next' = Len(templates) + 1
  BY DEF MediasInv
<1> QED
  BY <1>1, <1>2 DEF MediasInv

(* Every step keeps MediasInv.                                             *)
LEMMA NextMedias ==
    ASSUME MergeInv, MediasInv, [Next]_vars
    PROVE  MediasInv'
<1> USE DEF GoTo, loaderVars
<1>1. CASE ReadFile /\ UNCHANGED loaderVars
  BY <1>1, MediasKept DEF ReadFile
<1>2. CASE MergeConfig /\ UNCHANGED loaderVars
  BY <1>2, MediasKept DEF MergeConfig
<1>3. CASE CheckConfig /\ UNCHANGED loaderVars
  BY <1>3, MediasKept DEF CheckConfig
<1>4. CASE ReadStrings /\ UNCHANGED loaderVars
  BY <1>4, MediasKept DEF ReadStrings
<1>5. CASE StringsRead /\ UNCHANGED loaderVars
  BY <1>5, MediasKept DEF StringsRead
<1>6. CASE InitScript /\ UNCHANGED loaderVars
  BY <1>6, MediasKept DEF InitScript
<1>7. CASE SharedResult \/ NoResult \/ OwnResult \/ NamedResult
  <2>1. /\ stage = "operations" /\ UNCHANGED <<stage, spec, templates, keys>>
    BY <1>7 DEF SharedResult, NoResult, OwnResult, NamedResult, NextOperation, Reading
  <2>2. templates = <<>> /\ templates' = <<>>
    BY <2>1 DEF MediasInv
  <2> QED
    BY <2>1, <2>2 DEF MediasInv, MandatoryAreNeeded
<1>8. CASE OperationsRead
  BY <1>8, MediasKept DEF OperationsRead
<1>9. CASE MediasRead
  BY <1>9, MediasKept DEF MediasRead
<1>10. CASE Finalize
  <2>1. templates' = <<>> /\ stage' = "finalized" /\ keys' = keys
    BY <1>10 DEF Finalize
  <2> QED
    BY <2>1 DEF MediasInv, MandatoryAreNeeded
<1>11. CASE Crash /\ stage \in {"operations", "provide", "loaded"}
  BY <1>11, MediasKept DEF Crash
<1>12. CASE UNCHANGED vars
  BY <1>12, MediasKept DEF vars, configVars
<1> QED
  BY <1>1, <1>2, <1>3, <1>4, <1>5, <1>6, <1>7, <1>8, <1>9, <1>10, <1>11, <1>12, NextCases,
     MediaStep

(* What is gathered for every media of a list: what its file forces, and   *)
(* what an operation that was not ignored may test and is not slow.        *)
THEOREM MandatoryKeys == Spec => []MandatoryAreNeeded
<1>1. LoaderInit => MergeInv /\ MediasInv
  BY InitMerge, InitMedias
<1>2. MergeInv /\ MediasInv /\ [Next]_vars => MergeInv' /\ MediasInv'
  BY NextMerge, NextMedias
<1>3. MediasInv => MandatoryAreNeeded
  BY DEF MediasInv
<1> QED
  BY <1>1, <1>2, <1>3, PTL DEF Spec

(* The variables stay in their types: places are those of the file, keys   *)
(* are supported, and no reference count goes below 0.                     *)
THEOREM TypesHold == Spec => []TypeOK
<1>1. LoaderInit => MergeInv /\ TablesInv /\ ResultsInv /\ MediasInv
  BY InitMerge, InitTables, InitResults, InitMedias
<1>2. MergeInv /\ TablesInv /\ ResultsInv /\ MediasInv /\ [Next]_vars =>
        MergeInv' /\ TablesInv' /\ ResultsInv' /\ MediasInv'
  BY NextMerge, NextTables, NextResults, NextMedias
<1>3. MergeInv /\ TablesInv /\ ResultsInv /\ MediasInv => TypeOK
  <2> SUFFICES ASSUME MergeInv, TablesInv, ResultsInv, MediasInv
               PROVE  TypeOK
    OBVIOUS
  <2>1. DOMAIN merged \subseteq spec.options
    BY DEF MergeInv
  <2>2. \A k \in OpKinds : \A i \in DOMAIN operations[k] :
          /\ operations[k][i].of \in DOMAIN spec.operations
          /\ operations[k][i].result \in DOMAIN refs
          /\ \A req \in operations[k][i].requirements : req.key \in Supported
    BY LoadedElements DEF ResultsInv
  <2>3. Range(results) \subseteq DOMAIN refs
    BY DEF ResultsInv, Range
  <2> QED
    BY <2>1, <2>2, <2>3 DEF TypeOK, MergeInv, TablesInv, ResultsInv, MediasInv
<1> QED
  BY <1>1, <1>2, <1>3, PTL DEF Spec

-----------------------------------------------------------------------------
(* What the operations are, as the file declares them.                     *)

(* The table has the last result of each id.                               *)
TableIsLast ==
    \A id : /\ id \in DOMAIN results <=> id # "" /\ Declaring(id, next) # {}
            /\ id \in DOMAIN results =>
                 /\ results[id] \in Declaring(id, next)
                 /\ \A j \in Declaring(id, next) : j <= results[id]

DeclaredInv ==
    /\ OperationsAsDeclared
    /\ stage = "operations" => TableIsLast

(* What the declarations read, when it does not change.                    *)
LEMMA DeclaredKept ==
    ASSUME UNCHANGED <<spec, merged>>
    PROVE  /\ Present' = Present
           /\ \A id, i : Declaring(id, i)' = Declaring(id, i)
           /\ \A i, r : HasResultOf(i, r)' = HasResultOf(i, r)
<1>1. Present' = Present
  BY DEF Present, CanUseOauth
<1>2. \A id, i : Declaring(id, i)' = Declaring(id, i)
  BY <1>1 DEF Declaring
<1> QED
  BY <1>1, <1>2 DEF HasResultOf

(* Which operations of those before i declare the result of an id.         *)
LEMMA DeclaringPlaces ==
    ASSUME NEW id, NEW i, NEW j
    PROVE  j \in Declaring(id, i) <=>
               /\ j \in 1 .. i - 1
               /\ spec.operations[j].ref = "" /\ spec.operations[j].id = id
               /\ spec.operations[j].query \in Present
BY DEF Declaring

(* Reading one operation more declares its own result, if it has an id.    *)
LEMMA DeclaringOneMore ==
    ASSUME NEW n \in Nat \ {0}, n = next, NEW m, m = n + 1, NEW id
    PROVE  Declaring(id, m) =
               Declaring(id, n)
               \cup (IF Op.ref = "" /\ Op.id = id /\ Op.query \in Present THEN {n} ELSE {})
<1> DEFINE declares(j) == /\ spec.operations[j].ref = "" /\ spec.operations[j].id = id
                          /\ spec.operations[j].query \in Present
<1>1. (Op.ref = "" /\ Op.id = id /\ Op.query \in Present) <=> declares(n)
  BY DEF Op
<1>2. \A j : j \in Declaring(id, m) <=> j \in 1 .. m - 1 /\ declares(j)
  BY DeclaringPlaces
<1>3. \A j : j \in Declaring(id, n) <=> j \in 1 .. n - 1 /\ declares(j)
  BY DeclaringPlaces
<1>4. 1 .. m - 1 = (1 .. n - 1) \cup {n}
  OBVIOUS
<1> HIDE DEF declares
<1>5. \A j : j \in Declaring(id, m) <=>
               j \in Declaring(id, n) \/ (j = n /\ declares(n))
  BY <1>2, <1>3, <1>4
<1> QED
  BY <1>1, <1>5

(* Requirements without a wrong expression are all kept, but for keys that *)
(* are not supported.                                                      *)
LEMMA KeptRequirements ==
    ASSUME Given, NEW i \in DOMAIN spec.operations,
           \A j \in DOMAIN spec.operations[i].requires :
               spec.operations[i].requires[j].match # "wrong"
    PROVE  Requirements(spec.operations[i].requires) =
               {req \in Range(spec.operations[i].requires) : req.key \in Supported}
<1> DEFINE reqs == spec.operations[i].requires
<1>1. /\ reqs \in Seq(Range(reqs))
      /\ \A j \in DOMAIN reqs : reqs[j].match \in {"none", "right"}
  BY GivenLists, OperationsAssumption
<1> HIDE DEF reqs
<1>2. \A j \in DOMAIN reqs : 1 .. j - 1 \subseteq DOMAIN reqs
  BY <1>1
<1>3. \A j \in DOMAIN reqs : ~ErrorBefore(reqs, j)
  BY <1>1, <1>2 DEF ErrorBefore
<1>4. Kept(reqs) = {j \in DOMAIN reqs : reqs[j].key \in Supported}
  BY <1>1, <1>3 DEF Kept
<1> QED
  BY <1>4 DEF Requirements, Range, reqs

(* Loading an operation with the result it declares or refers to keeps     *)
(* OperationsAsDeclared.                                                   *)
LEMMA AsDeclaredAdded ==
    ASSUME MergeInv, ResultsInv, DeclaredInv, Reading, NEW s, AddOperation(s), NextOperation,
           Loaded' = Loaded \cup {New(s)}, HasResultOf(next, s), s \in 1 .. next
    PROVE  OperationsAsDeclared'
<1>1. /\ Given /\ next \in Nat \ {0} /\ next' = next + 1 /\ UNCHANGED <<spec, stage, merged>>
      /\ stage = "operations" /\ operations \in [OpKinds -> Seq(Loaded)]
  BY DEF MergeInv, NextOperation, Reading, ResultsInv
<1>2. /\ next \in DOMAIN spec.operations /\ Op.kind \in OpKinds /\ Op = spec.operations[next]
      /\ DOMAIN spec.operations \subseteq Nat
  BY <1>1, OpGiven, GivenLists DEF Op
<1>3. \A i, r : HasResultOf(i, r)' = HasResultOf(i, r)
  BY <1>1, DeclaredKept
<1>4. /\ {op.of : op \in Loaded} = {i \in ReadSoFar : \E r \in 1 .. i : HasResultOf(i, r)}
      /\ \A k \in OpKinds : \A p, q \in DOMAIN operations[k] :
           /\ p < q => operations[k][p].of < operations[k][q].of
           /\ spec.operations[operations[k][p].of].kind = k
      /\ \A op \in Loaded :
           LET requires == spec.operations[op.of].requires
           IN  /\ HasResultOf(op.of, op.result)
               /\ (\A i \in DOMAIN requires : requires[i].match # "wrong") =>
                    op.requirements = {req \in Range(requires) : req.key \in Supported}
  BY <1>1 DEF DeclaredInv, OperationsAsDeclared
<1>5. New(s).of = next /\ New(s).result = s /\ New(s).requirements = Requirements(Op.requires)
  BY DEF New
<1>6. ReadSoFar' = ReadSoFar \cup {next} /\ next \notin ReadSoFar
  BY <1>1, <1>2 DEF ReadSoFar
<1>7. {op.of : op \in Loaded'} = {op.of : op \in Loaded} \cup {next}
  BY <1>5
<1>8. {op.of : op \in Loaded'} = {i \in ReadSoFar' : \E r \in 1 .. i : HasResultOf(i, r)'}
  BY <1>3, <1>4, <1>6, <1>7
<1>9. /\ operations'[Op.kind] = Append(operations[Op.kind], New(s))
      /\ \A k \in OpKinds \ {Op.kind} : operations'[k] = operations[k]
  BY <1>1, AddedOne
<1>10. ASSUME NEW k \in OpKinds, NEW p \in DOMAIN operations'[k], NEW q \in DOMAIN operations'[k]
       PROVE  /\ p < q => operations'[k][p].of < operations'[k][q].of
              /\ spec'.operations[operations'[k][p].of].kind = k
  <2>1. CASE k # Op.kind
    BY <2>1, <1>1, <1>4, <1>9
  <2>2. CASE k = Op.kind
    <3> DEFINE old == operations[k]
               new == operations'[k]
               m == Len(old)
    <3>1. old \in Seq(Loaded) /\ m \in Nat /\ DOMAIN old = 1 .. m
      BY <1>1
    <3>2. /\ DOMAIN new = 1 .. m + 1 /\ new[m + 1] = New(s)
          /\ \A i \in 1 .. m : new[i] = old[i]
      BY <3>1, <2>2, <1>9
    <3>3. \A i \in 1 .. m : old[i] \in Loaded /\ old[i].of < next
      <4>1. \A op \in Loaded : op.of < next
        BY <1>1 DEF ResultsInv
      <4> QED
        BY <3>1, <4>1
    <3>4. /\ \A i, j \in 1 .. m : i < j => old[i].of < old[j].of
          /\ \A i \in 1 .. m : spec.operations[old[i].of].kind = k
      BY <3>1, <1>4
    <3> HIDE DEF old, new, m
    <3>5. p \in 1 .. m + 1 /\ q \in 1 .. m + 1
      BY <3>2 DEF new
    <3>6. spec.operations[new[p].of].kind = k
      BY <3>1, <3>2, <3>4, <3>5, <2>2, <1>2, <1>5
    <3>7. p < q => new[p].of < new[q].of
      <4>1. CASE q = m + 1
        BY <4>1, <3>1, <3>2, <3>3, <3>5, <1>5
      <4>2. CASE q # m + 1
        BY <4>2, <3>1, <3>2, <3>4, <3>5
      <4> QED
        BY <4>1, <4>2
    <3> QED
      BY <3>6, <3>7, <1>1 DEF new
  <2> QED
    BY <2>1, <2>2
<1>11. ASSUME NEW op \in Loaded'
       PROVE  LET requires == spec'.operations[op.of].requires
              IN  /\ HasResultOf(op.of, op.result)'
                  /\ (\A i \in DOMAIN requires : requires[i].match # "wrong") =>
                       op.requirements = {req \in Range(requires) : req.key \in Supported}
  <2>1. CASE op \in Loaded
    BY <2>1, <1>1, <1>3, <1>4
  <2>2. CASE op = New(s)
    BY <2>2, <1>1, <1>2, <1>3, <1>5, KeptRequirements
  <2> QED
    BY <2>1, <2>2
<1> QED
  BY <1>8, <1>10, <1>11 DEF OperationsAsDeclared

(* The result found in the table under an id is the one declared under it. *)
LEMMA DeclaredFromTable ==
    ASSUME MergeInv, ResultsInv, DeclaredInv, Reading
    PROVE  /\ Op = spec.operations[next] /\ next \in Nat \ {0} /\ stage = "operations"
           /\ SharedResult => /\ HasResultOf(next, results[Op.ref])
                              /\ results[Op.ref] \in 1 .. next
                              /\ results[Op.ref] \in DOMAIN refs
           /\ OwnResult \/ NamedResult => HasResultOf(next, next)
           /\ NoResult => \A r : ~HasResultOf(next, r)
<1>1. next \in Nat \ {0} /\ stage = "operations" /\ TableIsLast /\ Op = spec.operations[next]
  BY DEF MergeInv, Reading, DeclaredInv, Op
<1>2. SharedResult => /\ HasResultOf(next, results[Op.ref])
                      /\ results[Op.ref] \in 1 .. next
                      /\ results[Op.ref] \in DOMAIN refs
  <2> SUFFICES ASSUME SharedResult
               PROVE  /\ HasResultOf(next, results[Op.ref])
                      /\ results[Op.ref] \in 1 .. next
                      /\ results[Op.ref] \in DOMAIN refs
    OBVIOUS
  <2>1. PICK id : id = Op.ref
    OBVIOUS
  <2>2. id # "" /\ id \in DOMAIN results
    BY <2>1 DEF SharedResult
  <2>3. /\ results[id] \in Declaring(id, next)
        /\ \A j \in Declaring(id, next) : j <= results[id]
    BY <1>1, <2>2 DEF TableIsLast
  <2>4. results[id] \in 1 .. next
    <3>1. PICK n, r : n = next /\ r = results[id]
      OBVIOUS
    <3>2. r \in 1 .. n - 1
      BY <2>3, <3>1, DeclaringPlaces
    <3> QED
      BY <1>1, <3>1, <3>2
  <2>5. results[id] \in DOMAIN refs
    BY <2>2 DEF ResultsInv
  <2> QED
    BY <1>1, <2>1, <2>2, <2>3, <2>4, <2>5 DEF HasResultOf
<1>3. OwnResult \/ NamedResult => HasResultOf(next, next)
  BY <1>1 DEF OwnResult, NamedResult, HasResultOf
<1>4. NoResult => \A r : ~HasResultOf(next, r)
  <2> SUFFICES ASSUME NoResult, NEW r
               PROVE  ~HasResultOf(next, r)
    OBVIOUS
  <2>1. PICK id : id = Op.ref
    OBVIOUS
  <2>2. CASE id # ""
    <3>1. Declaring(id, next) = {}
      BY <1>1, <2>1, <2>2 DEF NoResult, TableIsLast
    <3> QED
      BY <3>1, <1>1, <2>1, <2>2 DEF HasResultOf
  <2>3. CASE id = ""
    BY <1>1, <2>1, <2>3 DEF NoResult, HasResultOf
  <2> QED
    BY <2>2, <2>3
<1> QED
  BY <1>1, <1>2, <1>3, <1>4

(* What an operation does to the table.                                    *)
LEMMA TableStep ==
    ASSUME MergeInv, ResultsInv, DeclaredInv, SharedResult \/ NoResult \/ OwnResult \/ NamedResult
    PROVE  TableIsLast'
<1>1. /\ next \in Nat \ {0} /\ TableIsLast /\ next' = next + 1 /\ UNCHANGED <<spec, merged>>
  BY DEF MergeInv, DeclaredInv, SharedResult, NoResult, OwnResult, NamedResult, Reading,
         NextOperation
<1>n. PICK n \in Nat \ {0} : n = next
  BY <1>1
<1> DEFINE D(id) == Declaring(id, n)
           declares(id) == Op.ref = "" /\ Op.id = id /\ Op.query \in Present
<1>2. ASSUME NEW id
      PROVE  Declaring(id, next)' = D(id) \cup (IF declares(id) THEN {n} ELSE {})
  <2>m. PICK m : m = n + 1
    OBVIOUS
  <2>1. Declaring(id, m)' = Declaring(id, m)
    BY <1>1, DeclaredKept
  <2>2. next' = m
    BY <1>1, <1>n, <2>m
  <2>3. Declaring(id, m) = D(id) \cup (IF declares(id) THEN {n} ELSE {})
    BY <1>n, <2>m, DeclaringOneMore
  <2> QED
    BY <2>1, <2>2, <2>3
<1>3. \A id : /\ id \in DOMAIN results <=> id # "" /\ D(id) # {}
              /\ id \in DOMAIN results => results[id] \in D(id) /\ \A j \in D(id) : j <= results[id]
  BY <1>1, <1>n DEF TableIsLast
<1>D. ASSUME NEW id, NEW j \in D(id)
      PROVE  j \in Nat /\ j < n
  <2>1. j \in 1 .. n - 1
    BY DeclaringPlaces
  <2> QED
    BY <2>1
<1>4. CASE ~NamedResult
  <2>1. results' = results /\ \A id : id # "" => ~declares(id)
    <3>1. CASE SharedResult
      BY <3>1 DEF SharedResult
    <3>2. CASE NoResult
      BY <3>2 DEF NoResult
    <3>3. CASE OwnResult
      BY <3>3 DEF OwnResult
    <3> QED
      BY <3>1, <3>2, <3>3, <1>4
  <2> HIDE DEF D, declares
  <2>2. \A id : id # "" => Declaring(id, next)' = D(id)
    BY <1>2, <2>1
  <2> QED
    BY <1>3, <2>1, <2>2 DEF TableIsLast
<1>5. CASE NamedResult
  <2>1. PICK new : new = Op.id
    OBVIOUS
  <2>2. new # "" /\ declares(new) /\ results' = Merge([i \in {new} |-> n], results)
    BY <1>5, <1>n, <2>1 DEF NamedResult
  <2>3. /\ DOMAIN results' = DOMAIN results \cup {new} /\ results'[new] = n
        /\ \A i \in DOMAIN results \ {new} : results'[i] = results[i]
    BY <2>2 DEF Merge
  <2>4. \A id : declares(id) => id = new
    BY <2>1
  <2> HIDE DEF D, declares
  <2>5. \A id : Declaring(id, next)' = IF id = new THEN D(id) \cup {n} ELSE D(id)
    BY <1>2, <2>1, <2>2, <2>4
  <2>6. \A j \in D(new) \cup {n} : j <= n
    BY <1>D
  <2>7. ASSUME NEW id
        PROVE  /\ id \in DOMAIN results' <=> id # "" /\ Declaring(id, next)' # {}
               /\ id \in DOMAIN results' =>
                    /\ results'[id] \in Declaring(id, next)'
                    /\ \A j \in Declaring(id, next)' : j <= results'[id]
    <3>1. CASE id = new
      BY <3>1, <2>2, <2>3, <2>5, <2>6
    <3>2. CASE id # new
      <4>1. /\ Declaring(id, next)' = D(id)
            /\ id \in DOMAIN results' <=> id \in DOMAIN results
            /\ id \in DOMAIN results => results'[id] = results[id]
        BY <3>2, <2>3, <2>5
      <4>2. /\ id \in DOMAIN results <=> id # "" /\ D(id) # {}
            /\ id \in DOMAIN results =>
                 results[id] \in D(id) /\ \A j \in D(id) : j <= results[id]
        BY <1>3
      <4> QED
        BY <4>1, <4>2
    <3> QED
      BY <3>1, <3>2
  <2> QED
    BY <2>7 DEF TableIsLast
<1> QED
  BY <1>4, <1>5

(* OperationsAsDeclared when neither the operations nor those read change. *)
LEMMA AsDeclaredKept ==
    ASSUME OperationsAsDeclared, UNCHANGED <<spec, merged, operations>>, ReadSoFar' = ReadSoFar,
           stage \in {"operations", "provide", "loaded"}
    PROVE  OperationsAsDeclared'
<1>1. \A i, r : HasResultOf(i, r)' = HasResultOf(i, r)
  BY DeclaredKept
<1>2. Loaded' = Loaded
  BY DEF Loaded
<1>3. /\ {op.of : op \in Loaded} = {i \in ReadSoFar : \E r \in 1 .. i : HasResultOf(i, r)}
      /\ \A k \in OpKinds : \A p, q \in DOMAIN operations[k] :
           /\ p < q => operations[k][p].of < operations[k][q].of
           /\ spec.operations[operations[k][p].of].kind = k
      /\ \A op \in Loaded :
           LET requires == spec.operations[op.of].requires
           IN  /\ HasResultOf(op.of, op.result)
               /\ (\A i \in DOMAIN requires : requires[i].match # "wrong") =>
                    op.requirements = {req \in Range(requires) : req.key \in Supported}
  BY DEF OperationsAsDeclared
<1>4. {op.of : op \in Loaded'} = {i \in ReadSoFar' : \E r \in 1 .. i : HasResultOf(i, r)'}
  BY <1>1, <1>2, <1>3
<1> QED
  BY <1>1, <1>2, <1>3, <1>4 DEF OperationsAsDeclared

(* Every step keeps DeclaredInv.                                           *)
LEMMA NextDeclared ==
    ASSUME MergeInv, ResultsInv, DeclaredInv, [Next]_vars
    PROVE  DeclaredInv'
<1> USE DEF GoTo
<1>0. next \in Nat \ {0} /\ stage \in Stages
  BY DEF MergeInv
<1>1. CASE stage' \notin {"operations", "provide", "loaded"}
  BY <1>1 DEF DeclaredInv, OperationsAsDeclared
<1>2. CASE InitScript /\ UNCHANGED loaderVars
  <2>1. CASE stage' = "operations"
    <3>1. Loaded = {} /\ Loaded' = {} /\ DOMAIN results' = {}
      <4>1. stage = "script" /\ UNCHANGED <<operations, results>>
        BY <1>2 DEF InitScript, loaderVars
      <4>2. Loaded = {} /\ results = <<>>
        BY <4>1 DEF ResultsInv, Before
      <4>3. Loaded' = Loaded
        BY <4>1 DEF Loaded
      <4> QED
        BY <4>1, <4>2, <4>3
    <3>2. next' = 1 /\ stage' = "operations" /\ \A k \in OpKinds : operations'[k] = <<>>
      <4>1. \A k \in OpKinds : operations[k] \in Seq({})
        BY <3>1 DEF ResultsInv
      <4>2. \A k \in OpKinds : operations[k] = <<>>
        BY <4>1
      <4> QED
        BY <1>2, <2>1, <4>2 DEF InitScript, loaderVars
    <3>3. ReadSoFar' = {}
      <4>1. \A i \in DOMAIN spec'.operations : ~(i < 1)
        BY <1>2, GivenLists DEF MergeInv, InitScript
      <4> QED
        BY <3>2, <4>1 DEF ReadSoFar
    <3>4. \A id : Declaring(id, next)' = {}
      <4>1. next' - 1 = 0 /\ 1 .. 0 = {}
        BY <3>2
      <4> QED
        BY <4>1 DEF Declaring
    <3>5. TableIsLast'
      BY <3>1, <3>4 DEF TableIsLast
    <3>6. OperationsAsDeclared'
      <4>1. {op.of : op \in Loaded'} = {i \in ReadSoFar' : \E r \in 1 .. i : HasResultOf(i, r)'}
        BY <3>1, <3>3
      <4>2. \A k \in OpKinds : DOMAIN operations'[k] = {}
        BY <3>2
      <4> QED
        BY <4>1, <4>2, <3>1 DEF OperationsAsDeclared
    <3> QED
      BY <3>5, <3>6 DEF DeclaredInv
  <2>2. CASE stage' # "operations"
    BY <1>1, <1>2, <2>2 DEF InitScript
  <2> QED
    BY <2>1, <2>2
<1>3. CASE SharedResult \/ OwnResult \/ NamedResult
  <2>1. TableIsLast'
    BY <1>3, TableStep
  <2>2. PICK s : /\ AddOperation(s) /\ Reading /\ NextOperation
                 /\ HasResultOf(next, s) /\ s \in 1 .. next
                 /\ (SharedResult /\ s = results[Op.ref]) \/ (~SharedResult /\ s = next)
    <3>1. CASE SharedResult
      BY <3>1, DeclaredFromTable DEF SharedResult
    <3>2. CASE ~SharedResult
      <4>1. AddOperation(next) /\ Reading /\ NextOperation
        BY <1>3, <3>2 DEF OwnResult, NamedResult
      <4>2. HasResultOf(next, next)
        BY <1>3, <3>2, <4>1, DeclaredFromTable
      <4>3. next \in 1 .. next
        BY <1>0
      <4> QED
        BY <4>1, <4>2, <4>3, <3>2
    <3> QED
      BY <3>1, <3>2
  <2>3. Loaded' = Loaded \cup {New(s)}
    BY <2>2, <1>0, AddedOne DEF MergeInv, ResultsInv
  <2>4. OperationsAsDeclared'
    BY <2>2, <2>3, AsDeclaredAdded
  <2> QED
    BY <2>1, <2>4 DEF DeclaredInv
<1>4. CASE NoResult
  <2>1. TableIsLast'
    BY <1>4, TableStep
  <2>2. /\ UNCHANGED <<spec, merged, operations, stage>> /\ stage = "operations"
        /\ next' = next + 1 /\ next \in DOMAIN spec.operations
    BY <1>4, <1>0, OpGiven DEF NoResult, NextOperation, Reading, MergeInv
  <2>3. DOMAIN spec.operations \subseteq Nat
    BY GivenLists DEF MergeInv
  <2>4. ReadSoFar' = ReadSoFar \cup {next}
    BY <1>0, <2>2, <2>3 DEF ReadSoFar
  <2>5. \A r : ~HasResultOf(next, r)
    BY <1>4, DeclaredFromTable DEF NoResult
  <2>6. \A i, r : HasResultOf(i, r)' = HasResultOf(i, r)
    BY <2>2, DeclaredKept
  <2>7. Loaded' = Loaded
    BY <2>2 DEF Loaded
  <2>8. /\ {op.of : op \in Loaded} = {i \in ReadSoFar : \E r \in 1 .. i : HasResultOf(i, r)}
        /\ \A k \in OpKinds : \A p, q \in DOMAIN operations[k] :
             /\ p < q => operations[k][p].of < operations[k][q].of
             /\ spec.operations[operations[k][p].of].kind = k
        /\ \A op \in Loaded :
             LET requires == spec.operations[op.of].requires
             IN  /\ HasResultOf(op.of, op.result)
                 /\ (\A i \in DOMAIN requires : requires[i].match # "wrong") =>
                      op.requirements = {req \in Range(requires) : req.key \in Supported}
    BY <2>2 DEF DeclaredInv, OperationsAsDeclared
  <2>9. {op.of : op \in Loaded'} = {i \in ReadSoFar' : \E r \in 1 .. i : HasResultOf(i, r)'}
    BY <2>4, <2>5, <2>6, <2>7, <2>8
  <2>10. OperationsAsDeclared'
    BY <2>2, <2>6, <2>7, <2>8, <2>9 DEF OperationsAsDeclared
  <2> QED
    BY <2>1, <2>10 DEF DeclaredInv
<1>5. CASE OperationsRead
  <2>1. /\ UNCHANGED <<spec, merged, operations>> /\ stage = "operations" /\ stage' = "provide"
        /\ next > Len(spec.operations)
    BY <1>5 DEF OperationsRead, loaderVars
  <2>2. \A i \in DOMAIN spec.operations : i < next
    BY <2>1, <1>0, GivenLists DEF MergeInv
  <2>3. ReadSoFar' = ReadSoFar
    BY <2>1, <2>2 DEF ReadSoFar
  <2> QED
    BY <2>1, <2>3, AsDeclaredKept DEF DeclaredInv
<1>6. CASE MediasRead \/ ReadMedia
  <2>1. /\ UNCHANGED <<spec, merged, operations>> /\ stage = "provide"
        /\ stage' \in {"provide", "loaded"}
    BY <1>6 DEF MediasRead, ReadMedia, loaderVars
  <2>2. ReadSoFar' = ReadSoFar
    BY <2>1 DEF ReadSoFar
  <2> QED
    BY <2>1, <2>2, AsDeclaredKept DEF DeclaredInv
<1>7. CASE UNCHANGED vars /\ stage \in {"operations", "provide", "loaded"}
  <2>1. UNCHANGED <<spec, merged, operations, results, stage, next>>
    BY <1>7 DEF vars, configVars, loaderVars
  <2>2. ReadSoFar' = ReadSoFar
    BY <2>1 DEF ReadSoFar
  <2>3. TableIsLast' = TableIsLast
    <3>1. PICK n : n = next /\ n = next'
      BY <2>1
    <3>2. \A id : Declaring(id, n)' = Declaring(id, n)
      BY <2>1, DeclaredKept
    <3>3. \A id : Declaring(id, next)' = Declaring(id, next)
      BY <3>1, <3>2
    <3> QED
      BY <2>1, <3>3 DEF TableIsLast
  <2> QED
    BY <1>7, <2>1, <2>2, <2>3, AsDeclaredKept DEF DeclaredInv
<1>8. CASE UNCHANGED vars /\ stage \notin {"operations", "provide", "loaded"}
  BY <1>8, <1>1 DEF vars, configVars
<1> QED
  BY <1>1, <1>2, <1>3, <1>4, <1>5, <1>6, <1>7, <1>8, NextCases
  DEF ReadFile, MergeConfig, CheckConfig, ReadStrings, StringsRead, Finalize, Crash

(* The lists hold the operations of the file in its order, each with its   *)
(* own result or the last one before it that has the id it refers to, and  *)
(* all but those without a result; with their testable requirements.       *)
THEOREM DeclaredOperations == Spec => []OperationsAsDeclared
<1>1. LoaderInit => MergeInv /\ ResultsInv /\ DeclaredInv
  BY InitMerge, InitResults DEF LoaderInit, Init, DeclaredInv, OperationsAsDeclared
<1>2. MergeInv /\ ResultsInv /\ DeclaredInv /\ [Next]_vars =>
        MergeInv' /\ ResultsInv' /\ DeclaredInv'
  BY NextMerge, NextResults, NextDeclared
<1>3. DeclaredInv => OperationsAsDeclared
  BY DEF DeclaredInv
<1> QED
  BY <1>1, <1>2, <1>3, PTL DEF Spec

-----------------------------------------------------------------------------
(* The FetchData of the source.                                            *)

(* What an element needs besides its input.                                *)
Good(n, useOauth) ==
    /\ Kind(n) \in {"raw", "script"} => Elements[n].text
    /\ Kind(n) = "rest" => ~Elements[n].oauth \/ useOauth

(* Which elements become a FetchData.                                      *)
LEMMA PresentElements ==
    ASSUME NEW useOauth \in BOOLEAN
    PROVE  /\ PresentWith[useOauth] \subseteq DOMAIN Elements
           /\ \A n \in DOMAIN Elements :
                n \in PresentWith[useOauth] <=>
                    /\ Good(n, useOauth)
                    /\ Kind(n) \in {"url", "replace"} => Input(n) \in PresentWith[useOauth]
<1> DEFINE D == DOMAIN Elements \cup {NoInput}
           Body(f) ==
               [n \in D |->
                   /\ n # NoInput
                   /\ Kind(n) \in {"raw", "script"} => Elements[n].text
                   /\ Kind(n) = "rest" => ~Elements[n].oauth \/ useOauth
                   /\ Kind(n) \in {"url", "replace"} => f[Input(n)]]
           present == CHOOSE f : f = Body(f)
           Closed(P) == \A n \in P : /\ Good(n, useOauth)
                                     /\ Kind(n) \in {"url", "replace"} => Input(n) \in P
           G == UNION {P \in SUBSET DOMAIN Elements : Closed(P)}
           most == [n \in D |-> n \in G]
<1>1. PresentWith[useOauth] = {n \in DOMAIN Elements : present[n]}
  BY Zenon DEF PresentWith
<1>2. \A n \in DOMAIN Elements : Input(n) \in D /\ n # NoInput
  BY ElementsAssumption, NoElementAssumption DEF Input
<1>3. G \subseteq DOMAIN Elements /\ Closed(G)
  OBVIOUS
<1>4. ASSUME NEW n \in DOMAIN Elements, Good(n, useOauth),
             Kind(n) \in {"url", "replace"} => Input(n) \in G
      PROVE  n \in G
  <2>1. Closed(G \cup {n}) /\ G \cup {n} \in SUBSET DOMAIN Elements
    <3>. HIDE DEF G
    <3>. QED
      BY <1>3, <1>4
  <2>. QED
    BY <2>1
<1>. HIDE DEF G
<1>5. most = Body(most)
  <2>1. ASSUME NEW n \in D
        PROVE  n \in G <=>
                   /\ n # NoInput
                   /\ Kind(n) \in {"raw", "script"} => Elements[n].text
                   /\ Kind(n) = "rest" => ~Elements[n].oauth \/ useOauth
                   /\ Kind(n) \in {"url", "replace"} => most[Input(n)]
    <3>1. CASE n = NoInput
      BY <1>3, <3>1, NoElementAssumption
    <3>2. CASE n # NoInput
      <4>1. n \in DOMAIN Elements /\ Input(n) \in D
        BY <1>2, <3>2
      <4>2. most[Input(n)] = (Input(n) \in G)
        BY <4>1
      <4>3. n \in G <=> Good(n, useOauth) /\ (Kind(n) \in {"url", "replace"} => Input(n) \in G)
        BY <1>3, <1>4, <4>1
      <4>. HIDE DEF most
      <4>. QED
        BY <3>2, <4>2, <4>3 DEF Good
    <3>. QED
      BY <3>1, <3>2
  <2>. HIDE DEF D, most
  <2>2. ASSUME NEW n \in D
        PROVE  (n \in G) = (/\ n # NoInput
                            /\ Kind(n) \in {"raw", "script"} => Elements[n].text
                            /\ Kind(n) = "rest" => ~Elements[n].oauth \/ useOauth
                            /\ Kind(n) \in {"url", "replace"} => most[Input(n)])
    <3>1. CASE n \in G
      <4>1. (n \in G) = TRUE
        BY <3>1, Zenon
      <4>2. (/\ n # NoInput
             /\ Kind(n) \in {"raw", "script"} => Elements[n].text
             /\ Kind(n) = "rest" => ~Elements[n].oauth \/ useOauth
             /\ Kind(n) \in {"url", "replace"} => most[Input(n)]) = TRUE
        BY <2>1, <3>1, Zenon
      <4>. QED
        BY <4>1, <4>2, Zenon
    <3>2. CASE n \notin G
      <4>1. (n \in G) = FALSE
        BY <3>2
      <4>2. (/\ n # NoInput
             /\ Kind(n) \in {"raw", "script"} => Elements[n].text
             /\ Kind(n) = "rest" => ~Elements[n].oauth \/ useOauth
             /\ Kind(n) \in {"url", "replace"} => most[Input(n)]) = FALSE
        BY <2>1, <3>2, Zenon
      <4>. QED
        BY <4>1, <4>2, Zenon
    <3>. QED
      BY <3>1, <3>2, Zenon
  <2>3. [n \in D |-> n \in G] = Body(most)
    BY <2>2, Zenon
  <2>. QED
    BY <2>3 DEF most
<1>6. present = Body(present)
  <2>. HIDE DEF Body, most
  <2>. QED
    BY <1>5, Zenon
<1>7. \A n \in DOMAIN Elements :
          present[n] <=> Good(n, useOauth) /\ (Kind(n) \in {"url", "replace"} => present[Input(n)])
  <2>. HIDE DEF present
  <2>. SUFFICES ASSUME NEW n \in DOMAIN Elements
                PROVE  present[n] <=> Good(n, useOauth) /\ (Kind(n) \in {"url", "replace"} => present[Input(n)])
    OBVIOUS
  <2>1. n \in D /\ n # NoInput
    BY <1>2
  <2>2. present[n] = Body(present)[n]
    <3>. HIDE DEF Body
    <3>. QED
      BY <1>6, Zenon
  <2>3. Body(present)[n] <=>
            /\ n # NoInput
            /\ Kind(n) \in {"raw", "script"} => Elements[n].text
            /\ Kind(n) = "rest" => ~Elements[n].oauth \/ useOauth
            /\ Kind(n) \in {"url", "replace"} => present[Input(n)]
    <3>. HIDE DEF D
    <3>. QED
      BY <2>1
  <2>. HIDE DEF Body
  <2>. QED
    BY <2>1, <2>2, <2>3 DEF Good
<1>8. ~present[NoInput]
  <2>. HIDE DEF present
  <2>1. present[NoInput] = Body(present)[NoInput]
    <3>. HIDE DEF Body
    <3>. QED
      BY <1>6, Zenon
  <2>2. NoInput \in D
    OBVIOUS
  <2>3. ~Body(present)[NoInput]
    <3>. HIDE DEF D
    <3>. QED
      BY <2>2, Zenon
  <2>. HIDE DEF Body
  <2>. QED
    BY <2>1, <2>3, Zenon
<1>9. \A n \in DOMAIN Elements : Input(n) \in PresentWith[useOauth] <=> present[Input(n)]
  <2>. HIDE DEF present
  <2>. QED
    BY <1>1, <1>2, <1>8, Zenon
<1>. HIDE DEF present
<1>. QED
  BY <1>1, <1>7, <1>9, Zenon

(* A set of numbers that has 0 and with each number the next one, up to n. *)
LEMMA UpTo ==
    ASSUME NEW n \in Nat, NEW T \in SUBSET Nat, 0 \in T,
           \A i \in 1 .. n : i - 1 \in T => i \in T
    PROVE  0 .. n \subseteq T
<1>1. SUFFICES ASSUME (0 .. n) \ T # {} PROVE FALSE
  OBVIOUS
<1>2. (0 .. n) \ T \in SUBSET Nat
  OBVIOUS
<1>3. PICK k \in (0 .. n) \ T : \A j \in (0 .. n) \ T : k <= j
  BY <1>1, <1>2, Least
<1>4. k \in 1 .. n /\ k - 1 \in 0 .. n /\ ~(k <= k - 1)
  BY <1>3
<1> QED
  BY <1>3, <1>4

(* The sub-regexps that are kept are regexps with a name.                  *)
LEMMA SubsAreNamed ==
    ASSUME NEW n \in DOMAIN Elements
    PROVE  KeptSubs(n) \in Seq({m \in DOMAIN Elements : Kind(m) = "regexp" /\ Named(m)})
<1> DEFINE S == {m \in DOMAIN Elements : Kind(m) = "regexp" /\ Named(m)}
           s == Subs(n)
           N == Len(s)
           Then(q, i) == IF Named(s[i]) THEN Append(q, s[i]) ELSE q
           Steps(g, k) == g[0] = <<>> /\ \A i \in 1 .. k : g[i] = Then(g[i - 1], i)
           T == {k \in 0 .. N : \E g \in [0 .. k -> Seq(S)] : Steps(g, k)}
           Body(f) ==
               [i \in 0 .. Len(Subs(n)) |->
                   IF i = 0 THEN <<>>
                   ELSE IF Named(Subs(n)[i]) THEN Append(f[i - 1], Subs(n)[i]) ELSE f[i - 1]]
           kept == CHOOSE f : f = Body(f)
<1>1. N \in Nat /\ \A i \in 1 .. N : Named(s[i]) => s[i] \in S
  <2>1. s \in Seq(DOMAIN Elements) /\ \A i \in DOMAIN s : Kind(s[i]) = "regexp"
    BY ElementsAssumption DEF Subs, Kind
  <2>. QED
    BY <2>1
<1>2. \A q \in Seq(S), i \in 1 .. N : Then(q, i) \in Seq(S)
  BY <1>1, AppendProperties
<1>. HIDE DEF N, s, S, Then
<1>3. 0 \in T
  <2> DEFINE g == [i \in 0 .. 0 |-> <<>>]
  <2>1. g \in [0 .. 0 -> Seq(S)]
    BY EmptySeq
  <2>2. g[0] = <<>> /\ 1 .. 0 = {}
    OBVIOUS
  <2>. HIDE DEF g
  <2>3. Steps(g, 0)
    BY <2>2, Zenon
  <2>4. 0 \in 0 .. N
    BY <1>1
  <2>. QED
    BY <2>1, <2>3, <2>4
<1>4. ASSUME NEW i \in 1 .. N, i - 1 \in T PROVE i \in T
  <2>1. PICK g \in [0 .. i - 1 -> Seq(S)] : Steps(g, i - 1)
    BY <1>4
  <2>2. i \in Nat /\ i - 1 \in 0 .. i - 1 /\ i \in 0 .. N /\ i - 1 # i
    BY <1>1
  <2> DEFINE h == [j \in 0 .. i |-> IF j = i THEN Then(g[i - 1], i) ELSE g[j]]
  <2>3. h \in [0 .. i -> Seq(S)]
    <3>1. Then(g[i - 1], i) \in Seq(S)
      BY <1>2, <2>2
    <3>. QED
      BY <3>1
  <2>4. (\A j \in 0 .. i - 1 : h[j] = g[j]) /\ h[i] = Then(g[i - 1], i)
    BY <2>2
  <2>. HIDE DEF h
  <2>5. ASSUME NEW j \in 1 .. i PROVE h[j] = Then(h[j - 1], j)
    <3>1. CASE j = i
      BY <2>2, <2>4, <3>1
    <3>2. CASE j # i
      <4>1. j \in 1 .. i - 1 /\ j \in 0 .. i - 1 /\ j - 1 \in 0 .. i - 1
        BY <2>2, <3>2
      <4>. QED
        BY <2>1, <2>4, <4>1, Zenon
    <3>. QED
      BY <3>1, <3>2
  <2>6. h[0] = <<>>
    BY <2>1, <2>2, <2>4
  <2>. QED
    BY <2>2, <2>3, <2>5, <2>6
<1>5. \E g \in [0 .. N -> Seq(S)] : Steps(g, N)
  <2>1. T \in SUBSET Nat
    BY <1>1
  <2>2. 0 .. N \subseteq T
    <3>. HIDE DEF T
    <3>1. N \in Nat
      BY <1>1
    <3>2. \A i \in 1 .. N : i - 1 \in T => i \in T
      BY <1>4
    <3>. QED
      BY <1>3, <2>1, <3>1, <3>2, UpTo
  <2>3. N \in T
    <3>. HIDE DEF T
    <3>1. N \in 0 .. N
      BY <1>1
    <3>. QED
      BY <2>2, <3>1
  <2>. QED
    BY <2>3
<1>6. PICK g \in [0 .. N -> Seq(S)] : Steps(g, N)
  BY <1>5
<1>7. g = Body(g)
  <2>1. \A i \in 0 .. N :
           g[i] = IF i = 0 THEN <<>> ELSE IF Named(s[i]) THEN Append(g[i - 1], s[i]) ELSE g[i - 1]
    <3>1. ASSUME NEW i \in 0 .. N, i # 0
          PROVE  g[i] = IF Named(s[i]) THEN Append(g[i - 1], s[i]) ELSE g[i - 1]
      <4>1. i \in 1 .. N
        BY <1>1, <3>1
      <4>. QED
        BY <1>6, <4>1, Zenon DEF Then
    <3>. QED
      BY <1>6, <3>1, Zenon
  <2>2. g = [i \in 0 .. N |-> g[i]]
    BY <1>6
  <2>. QED
    BY <2>1, <2>2, Zenon DEF N, s
<1>8. kept = Body(kept)
  <2>. HIDE DEF Body
  <2>. QED
    BY <1>7, Zenon
<1>9. KeptSubs(n) = kept[N]
  BY Zenon DEF KeptSubs, N, s
<1>. HIDE DEF kept
<1>10. \A i \in 0 .. N :
          kept[i] = IF i = 0 THEN <<>> ELSE IF Named(s[i]) THEN Append(kept[i - 1], s[i]) ELSE kept[i - 1]
  <2> DEFINE K == [i \in 0 .. Len(Subs(n)) |->
                   IF i = 0 THEN <<>>
                   ELSE IF Named(Subs(n)[i]) THEN Append(kept[i - 1], Subs(n)[i]) ELSE kept[i - 1]]
  <2>1. \A i \in 0 .. N :
           K[i] = IF i = 0 THEN <<>> ELSE IF Named(s[i]) THEN Append(kept[i - 1], s[i]) ELSE kept[i - 1]
    BY DEF N, s
  <2>2. kept = K
    BY <1>8, Zenon
  <2>. HIDE DEF K
  <2>. QED
    BY <2>1, <2>2, Zenon
<1> DEFINE U == {k \in Nat : k \in 0 .. N => kept[k] \in Seq(S)}
<1>11. 0 \in U
  <2>1. 0 \in 0 .. N
    BY <1>1
  <2>2. kept[0] = <<>>
    BY <1>10, <2>1
  <2>. QED
    BY <2>2, EmptySeq
<1>12. ASSUME NEW i \in 1 .. N, i - 1 \in U PROVE i \in U
  <2>1. i \in 0 .. N /\ i - 1 \in 0 .. N /\ i # 0 /\ i \in Nat
    BY <1>1
  <2>2. kept[i - 1] \in Seq(S)
    BY <1>12, <2>1
  <2>3. kept[i] = Then(kept[i - 1], i)
    BY <1>10, <2>1, Zenon DEF Then
  <2>4. kept[i] \in Seq(S)
    BY <1>2, <2>2, <2>3
  <2>. QED
    BY <2>1, <2>4
<1>13. 0 .. N \subseteq U
  <2>1. U \in SUBSET Nat
    OBVIOUS
  <2>. HIDE DEF U
  <2>. QED
    BY <1>1, <1>11, <1>12, <2>1, UpTo
<1>14. kept[N] \in Seq(S)
  BY <1>1, <1>13
<1>. QED
  BY <1>9, <1>14 DEF S

(* The FetchData of a source can be fetched, whatever is dropped.          *)
LEMMA TreeIsFetchable == Fetchable(Tree)
<1> DEFINE S == {m \in DOMAIN Elements : Kind(m) = "regexp" /\ Named(m)}
<1>1. /\ Present \subseteq DOMAIN Elements
      /\ \A n \in DOMAIN Elements :
           n \in Present <=> /\ Good(n, CanUseOauth)
                             /\ Kind(n) \in {"url", "replace"} => Input(n) \in Present
  <2>1. CanUseOauth \in BOOLEAN
    BY DEF CanUseOauth
  <2>. QED
    BY <2>1, PresentElements DEF Present
<1>2. S \subseteq Present
  BY <1>1 DEF Good
<1>3. DOMAIN Tree = Present
  BY DEF Tree
<1>4. ASSUME NEW n \in Present
      PROVE  /\ Tree[n].kind = Kind(n) /\ Tree[n].id = Elements[n].id
             /\ Tree[n].input = IF Input(n) \in Present THEN Input(n) ELSE NoInput
             /\ Tree[n].subregexps = KeptSubs(n)
  <2> DEFINE e == Elements[n]
             i == IF e.input \in Present THEN e.input ELSE NoInput
             k == KeptSubs(n)
  <2>1. Tree[n] = [e EXCEPT !.input = i, !.subregexps = k]
    BY Zenon DEF Tree
  <2>2. {"kind", "input", "subregexps", "id"} \subseteq DOMAIN e
    BY <1>1, ElementsAssumption
  <2>3. i = IF Input(n) \in Present THEN Input(n) ELSE NoInput
    BY Zenon DEF Input
  <2>4. e.kind = Kind(n)
    BY DEF Kind
  <2>. HIDE DEF e, i, k
  <2>5. /\ [e EXCEPT !.input = i, !.subregexps = k].kind = e.kind
        /\ [e EXCEPT !.input = i, !.subregexps = k].id = e.id
        /\ [e EXCEPT !.input = i, !.subregexps = k].input = i
        /\ [e EXCEPT !.input = i, !.subregexps = k].subregexps = k
    BY <2>2
  <2>. QED
    BY <2>1, <2>3, <2>4, <2>5 DEF e, k
<1>5. \A n \in Present : Kind(n) \in Kinds /\ Input(n) \in DOMAIN Elements \cup {NoInput}
  BY <1>1, ElementsAssumption DEF Kind, Input
<1>6. \A n \in Present : KeptSubs(n) \in Seq(S)
  BY <1>1, SubsAreNamed
<1>. HIDE DEF S
<1>7. ASSUME NEW n \in DOMAIN Tree
      PROVE  /\ Tree[n].kind \in Kinds
             /\ Tree[n].input \in DOMAIN Tree \cup {NoInput}
             /\ Tree[n].kind \in {"url", "replace"} => Tree[n].input # NoInput
             /\ Tree[n].subregexps \in Seq(DOMAIN Tree)
             /\ \A i \in DOMAIN Tree[n].subregexps :
                  LET sub == Tree[Tree[n].subregexps[i]]
                  IN  sub.kind = "regexp" /\ sub.id # ""
  <2>1. n \in Present
    BY <1>3
  <2>2. Tree[n].kind \in Kinds /\ Tree[n].input \in DOMAIN Tree \cup {NoInput}
    BY <1>3, <1>4, <1>5, <2>1
  <2>3. Tree[n].kind \in {"url", "replace"} => Tree[n].input # NoInput
    BY <1>1, <1>4, <2>1, NoElementAssumption
  <2>4. Tree[n].subregexps = KeptSubs(n) /\ KeptSubs(n) \in Seq(S)
    BY <1>4, <1>6, <2>1
  <2>5. Tree[n].subregexps \in Seq(DOMAIN Tree)
    <3>1. KeptSubs(n) \in Seq(Present)
      BY <1>2, <2>4
    <3>. QED
      BY <1>3, <2>4, <3>1
  <2>6. \A i \in DOMAIN Tree[n].subregexps : Tree[n].subregexps[i] \in S
    BY <2>4
  <2>7. \A m \in S : Tree[m].kind = "regexp" /\ Tree[m].id # ""
    BY <1>2, <1>4 DEF S, Named
  <2>. QED
    BY <2>2, <2>3, <2>5, <2>6, <2>7, Zenon
<1>. QED
  BY <1>7, Zenon DEF Fetchable

(* What operations and medias lead to is in the tree.                      *)
FetchInv ==
    /\ stage \in {"operations", "provide", "loaded"} =>
          \A r \in DOMAIN refs : spec.operations[r].query \in Present
    /\ stage \in {"provide", "loaded"} =>
          \A t \in DOMAIN templates : Range(templates[t].keys) \subseteq Present

(* A key that has data has a last one.                                     *)
LEMMA LastData ==
    ASSUME Given, next \in Nat \ {0}, next <= Len(spec.medias), NEW k \in KeysAt(WithData)
    PROVE  Media[LastWithData(k)].data \in Present
<1> DEFINE n == Len(Media)
           Spots == {i \in WithData : Media[i].key = k}
           Back == {n - i : i \in Spots}
<1>1. n \in Nat /\ DOMAIN Media = 1 .. n
  <2>1. spec.medias \in Seq(Range(spec.medias))
    BY GivenLists, OperationsAssumption
  <2>2. next \in DOMAIN spec.medias
    BY <2>1
  <2>3. Media \in Seq(Range(Media))
    BY <2>2, GivenLists, OperationsAssumption DEF Media
  <2>. QED
    BY <2>3
<1>2. Spots \subseteq 1 .. n /\ Spots # {}
  BY <1>1 DEF WithData, Usable, KeysAt
<1>. HIDE DEF n, Spots
<1>3. Back \in SUBSET Nat /\ Back # {}
  <2>1. PICK i \in Spots : TRUE
    BY <1>2
  <2>2. n - i \in Back
    BY <2>1
  <2>3. \A j \in Spots : n - j \in Nat
    BY <1>1, <1>2
  <2>. QED
    BY <2>2, <2>3
<1>4. PICK b \in Back : \A c \in Back : b <= c
  <2>. HIDE DEF Back
  <2>. QED
    BY <1>3, Least
<1>5. PICK i \in Spots : b = n - i
  BY <1>4
<1>6. \A j \in Spots : j <= i
  <2>. SUFFICES ASSUME NEW j \in Spots PROVE j <= i
    OBVIOUS
  <2>1. n - j \in Back
    OBVIOUS
  <2>2. n - i <= n - j
    BY <1>4, <1>5, <2>1
  <2>3. i \in 1 .. n /\ j \in 1 .. n
    BY <1>2
  <2>. QED
    BY <1>1, <2>2, <2>3
<1>7. i \in WithData /\ Media[i].key = k /\ \A j \in WithData : Media[j].key = k => j <= i
  BY <1>5, <1>6 DEF Spots
<1>8. LastWithData(k) \in WithData
  BY <1>7, Zenon DEF LastWithData
<1>. QED
  BY <1>8 DEF WithData

(* At the start nothing is loaded.                                         *)
LEMMA InitFetch == LoaderInit => FetchInv
BY DEF LoaderInit, Init, FetchInv

(* FetchInv says nothing new where no result and no media is added.        *)
LEMMA FetchKept ==
    ASSUME FetchInv, UNCHANGED <<spec, merged, templates>>, DOMAIN refs' = DOMAIN refs,
           stage \in {"operations", "provide", "loaded"},
           stage' \in {"provide", "loaded"} => stage \in {"provide", "loaded"} \/ templates = <<>>
    PROVE  FetchInv'
<1>1. Present' = Present
  BY DeclaredKept
<1>. QED
  BY <1>1 DEF FetchInv

(* A result is added with a query that is there.                           *)
LEMMA ResultFetch ==
    ASSUME MergeInv, FetchInv, OwnResult \/ NamedResult
    PROVE  FetchInv'
<1>1. /\ stage = "operations" /\ Op.query \in Present
      /\ UNCHANGED <<spec, merged, stage>>
  BY DEF OwnResult, NamedResult, NextOperation, Reading
<1>2. DOMAIN refs' = DOMAIN refs \cup {next}
  BY DEF OwnResult, NamedResult, Merge, Displace
<1>3. Present' = Present
  BY <1>1, DeclaredKept
<1>4. spec.operations[next].query \in Present
  BY <1>1 DEF Op
<1>. QED
  BY <1>1, <1>2, <1>3, <1>4 DEF FetchInv

(* A media is added with data that is there.                               *)
LEMMA MediaFetch ==
    ASSUME MergeInv, MediasInv, FetchInv, ReadMedia
    PROVE  FetchInv'
<1> DEFINE data == [k \in KeysAt(WithData) |-> Media[LastWithData(k)].data]
           new == [keys |-> data, mandatory |-> KeysAt({i \in Usable : Mandatory(Media[i])})]
<1>1. /\ stage = "provide" /\ next <= Len(spec.medias) /\ next \in Nat \ {0} /\ Given
      /\ UNCHANGED <<spec, merged, stage, refs>>
  BY DEF ReadMedia, MergeInv
<1>2. templates' = Append(templates, new)
  BY Zenon DEF ReadMedia
<1>3. Range(data) \subseteq Present
  BY <1>1, LastData DEF Range
<1>4. Range(new.keys) \subseteq Present
  <2>. HIDE DEF data
  <2>1. new.keys = data
    OBVIOUS
  <2>. QED
    BY <1>3, <2>1
<1>5. Present' = Present
  BY <1>1, DeclaredKept
<1>. HIDE DEF new
<1>6. \A t \in DOMAIN templates' : templates'[t] = new \/ (t \in DOMAIN templates /\ templates'[t] = templates[t])
  BY <1>2 DEF MediasInv
<1>7. \A t \in DOMAIN templates' : Range(templates'[t].keys) \subseteq Present
  BY <1>1, <1>4, <1>6 DEF FetchInv
<1>. QED
  BY <1>1, <1>5, <1>7 DEF FetchInv

(* Every step keeps FetchInv.                                              *)
LEMMA NextFetch ==
    ASSUME MergeInv, ResultsInv, MediasInv, FetchInv, [Next]_vars
    PROVE  FetchInv'
<1> USE DEF GoTo
<1>1. CASE stage' \notin {"operations", "provide", "loaded"}
  BY <1>1 DEF FetchInv
<1>2. CASE InitScript /\ UNCHANGED loaderVars
  <2>1. stage = "script" /\ UNCHANGED refs /\ stage' \notin {"provide", "loaded"}
    BY <1>2 DEF InitScript, loaderVars
  <2>2. refs = <<>>
    BY <2>1 DEF ResultsInv, Before
  <2>. QED
    BY <2>1, <2>2 DEF FetchInv
<1>3. CASE SharedResult \/ NoResult
  <2>1. DOMAIN refs' = DOMAIN refs
    BY <1>3 DEF SharedResult, NoResult
  <2>. QED
    BY <1>3, <2>1, FetchKept DEF SharedResult, NoResult, NextOperation, Reading
<1>4. CASE OwnResult \/ NamedResult
  BY <1>4, ResultFetch
<1>5. CASE OperationsRead
  <2>1. stage = "operations" /\ UNCHANGED <<spec, merged, templates, refs>>
    BY <1>5 DEF OperationsRead, loaderVars
  <2>2. templates = <<>>
    BY <2>1 DEF MediasInv
  <2>. QED
    BY <2>1, <2>2, FetchKept
<1>6. CASE ReadMedia
  BY <1>6, MediaFetch
<1>7. CASE MediasRead
  BY <1>7, FetchKept DEF MediasRead, loaderVars
<1>8. CASE UNCHANGED vars /\ stage \in {"operations", "provide", "loaded"}
  BY <1>8, FetchKept DEF vars, configVars, loaderVars
<1>9. CASE UNCHANGED vars /\ stage \notin {"operations", "provide", "loaded"}
  BY <1>1, <1>9 DEF vars, configVars
<1>. QED
  BY <1>1, <1>2, <1>3, <1>4, <1>5, <1>6, <1>7, <1>8, <1>9, NextCases
  DEF ReadFile, MergeConfig, CheckConfig, ReadStrings, StringsRead, Finalize, Crash

(* What the loader hands over can be fetched: however many elements, files *)
(* and ways to drop them there are, no FetchData of an operation or of a   *)
(* key is missing, an url and a replace have their input, and sub-regexps  *)
(* have a buffer for their output.                                         *)
THEOREM FetchableTrees == Spec => []LoadedIsFetchable
<1>1. LoaderInit => MergeInv /\ ResultsInv /\ MediasInv /\ FetchInv
  BY InitMerge, InitResults, InitMedias, InitFetch
<1>2. MergeInv /\ ResultsInv /\ MediasInv /\ FetchInv /\ [Next]_vars =>
        MergeInv' /\ ResultsInv' /\ MediasInv' /\ FetchInv'
  BY NextMerge, NextResults, NextMedias, NextFetch
<1>3. FetchInv => LoadedIsFetchable
  <2>1. DOMAIN Tree = Present
    BY DEF Tree
  <2>. QED
    BY <2>1, TreeIsFetchable DEF FetchInv, LoadedIsFetchable
<1> QED
  BY <1>1, <1>2, <1>3, PTL DEF Spec
=============================================================================
