---------------------------- MODULE SourceConfig ----------------------------
(***************************************************************************)
(* The first half of grl_xml_factory_source_new: a source file is read,    *)
(* its options get their values, and the texts of the user's languages are *)
(* found.  Each stage may skip the source.  SourceLoader goes on from here *)
(* with the operations and the medias of the file.                         *)
(*                                                                         *)
(* A set of (key, value) is a function from the keys it has.               *)
(***************************************************************************)
EXTENDS Integers, Sequences, Functions

CONSTANTS
    Inputs,     \* source files, each with the configurations of the application
    Languages   \* g_get_language_names: the most specific first, then "C"

(* Of a file: whether it is one for this plugin; the options it declares   *)
(* and their default values; its blocks of strings; whether it has a       *)
(* script to initialise.                                                   *)
Specs == {input.spec : input \in Inputs}

ASSUME SpecsAssumption ==
    \A s \in Specs :
        /\ s.valid \in BOOLEAN /\ s.script \in BOOLEAN
        /\ DOMAIN s.defaults \subseteq s.options

(* A configuration is for this source, for another, or for any.            *)
ASSUME ConfigsAssumption ==
    \A input \in Inputs :
        /\ input.configs \in Seq(Range(input.configs))
        /\ \A i \in DOMAIN input.configs : input.configs[i].of \in {"this", "any", "other"}

ASSUME StringsAssumption == \A s \in Specs : s.strings \in Seq(Range(s.strings))

ASSUME LanguagesAssumption == Languages \in Seq(Range(Languages))

VARIABLES
    spec,        \* the file
    configs,     \* the configurations given to the plugin
    stage,       \* how far it is read
    next,        \* place in the list that the stage goes through
    merged,      \* merged_config
    tables       \* defined_strings_set, by the place of the language

configVars == <<spec, configs, stage, next, merged, tables>>

Stages == {"read", "config", "strings", "script", "operations", "provide",
           "loaded", "skipped", "crashed", "finalized"}

Init ==
    /\ \E input \in Inputs : spec = input.spec /\ configs = input.configs
    /\ stage = "read" /\ next = 1
    /\ merged = <<>>
    /\ tables = <<>>

(* The next stage starts with the first of its list.                       *)
GoTo(to) == stage' = to /\ next' = 1

-----------------------------------------------------------------------------
(* A file that cannot be read, does not follow the schema or is for        *)
(* another version of the API is skipped.                                  *)
ReadFile ==
    /\ stage = "read"
    /\ GoTo(IF spec.valid THEN "config" ELSE "skipped")
    /\ UNCHANGED <<spec, configs, merged, tables>>

(* Seeded fault: the lists are merged as they were prepended.              *)
PassReversed(of) ==
    [p \in DOMAIN configs |->
        LET i == Len(configs) + 1 - p
        IN  IF configs[i].of = of THEN configs[i].has ELSE <<>>]

(* The values in the configurations of a kind, in their order; those of    *)
(* another kind are not in the list: they give none.                       *)
Pass(of) ==
    [i \in DOMAIN configs |-> IF configs[i].of = of THEN configs[i].has ELSE <<>>]

(* What is merged, in this order: what is given to the source, what is     *)
(* given to any, and the defaults of the file.                             *)
AllConfigs == Pass("this") \o Pass("any") \o <<spec.defaults>>

(* The declared options of a configuration.                                *)
Declared(has) == [o \in DOMAIN has \cap spec.options |-> has[o]]

(* Insert in into all the values in from not already present.              *)
Merge(into, from) ==
    [k \in DOMAIN into \cup DOMAIN from |-> IF k \in DOMAIN into THEN into[k] ELSE from[k]]

(* merge_config: what has a value already keeps it.                        *)
MergeConfig ==
    /\ stage = "config" /\ next <= Len(AllConfigs)
    /\ merged' = Merge(merged, Declared(AllConfigs[next]))
    /\ next' = next + 1
    /\ UNCHANGED <<spec, configs, stage, tables>>

AllOptionsHaveValue == spec.options \subseteq DOMAIN merged

CheckConfig ==
    /\ stage = "config" /\ next > Len(AllConfigs)
    /\ GoTo(IF AllOptionsHaveValue THEN "strings" ELSE "skipped")
    /\ UNCHANGED <<spec, configs, merged, tables>>

-----------------------------------------------------------------------------
(* The places a language has among the user's; no language is "C".         *)
Places(lang) ==
    {i \in DOMAIN Languages : Languages[i] = (IF lang = "" THEN "C" ELSE lang)}

(* Seeded fault: the first block of a language is kept.                    *)
ReadStringsOnce ==
    /\ stage = "strings" /\ next <= Len(spec.strings)
    /\ LET block == spec.strings[next]
       IN  tables' = Merge(tables, [i \in Places(block.lang) |-> block.texts])
    /\ next' = next + 1
    /\ UNCHANGED <<spec, configs, stage, merged>>

(* A block of strings of a language of the user takes the place of an      *)
(* earlier one of that language; the others are passed over.               *)
ReadStrings ==
    /\ stage = "strings" /\ next <= Len(spec.strings)
    /\ LET block == spec.strings[next]
       IN  tables' = Merge([i \in Places(block.lang) |-> block.texts], tables)
    /\ next' = next + 1
    /\ UNCHANGED <<spec, configs, stage, merged>>

StringsRead ==
    /\ stage = "strings" /\ next > Len(spec.strings)
    /\ GoTo("script")
    /\ UNCHANGED <<spec, configs, merged, tables>>

(* A script may stop with an error, or answer false.                       *)
InitScript ==
    /\ stage = "script"
    /\ \/ GoTo("operations")
       \/ spec.script /\ GoTo("skipped")
    /\ UNCHANGED <<spec, configs, merged, tables>>

Configure ==
    \/ ReadFile \/ MergeConfig \/ CheckConfig
    \/ ReadStrings \/ StringsRead \/ InitScript

-----------------------------------------------------------------------------
(* expand_str_cb looks an id up in the tables of located_strings, which    *)
(* has them in the order of the languages.                                 *)
HaveText(id) == {i \in DOMAIN tables : id \in DOMAIN tables[i]}
LocatedString(id) == tables[CHOOSE i \in HaveText(id) : \A j \in HaveText(id) : i <= j][id]

-----------------------------------------------------------------------------
(* Properties.                                                             *)

(* How specific a configuration is for the source: its kind, then its      *)
(* place in the list of its kind.                                          *)
MoreSpecific(i, j) ==
    \/ configs[i].of = "this" /\ configs[j].of = "any"
    \/ configs[i].of = configs[j].of /\ i < j

(* The configurations of the user that give an option to the source.       *)
Givers(o) == {i \in DOMAIN configs : configs[i].of # "other" /\ o \in DOMAIN configs[i].has}

(* Every option of a source that is loaded has the value of the most       *)
(* specific configuration that gives one: "use first the options specific  *)
(* for the source, then the remaining options for any source in the        *)
(* plugin, and finally the options from default config".  A source without *)
(* a value for one is skipped.                                             *)
ConfigIsMostSpecific ==
    /\ stage \notin {"read", "config", "skipped"} =>
         /\ DOMAIN merged = spec.options
         /\ \A o \in spec.options :
              \/ Givers(o) = {} /\ o \in DOMAIN spec.defaults /\ merged[o] = spec.defaults[o]
              \/ \E i \in Givers(o) :
                   /\ \A j \in Givers(o) \ {i} : MoreSpecific(i, j)
                   /\ merged[o] = configs[i].has[o]
    /\ stage = "skipped" /\ spec.valid /\ ~spec.script =>
         \E o \in spec.options : Givers(o) = {} /\ o \notin DOMAIN spec.defaults

(* The blocks of strings that count: the last of each language of the user *)
(* ("use the last one").                                                   *)
Counts(i) ==
    /\ Places(spec.strings[i].lang) # {}
    /\ \A j \in DOMAIN spec.strings :
         j > i => Places(spec.strings[j].lang) # Places(spec.strings[i].lang)

Offering(id) == {i \in DOMAIN spec.strings : Counts(i) /\ id \in DOMAIN spec.strings[i].texts}
TextIds == UNION {DOMAIN spec.strings[i].texts : i \in DOMAIN spec.strings}

MoreLocal(i, j) ==
    \A p \in Places(spec.strings[i].lang), q \in Places(spec.strings[j].lang) : p < q

(* A text is there if a block that counts has it, and is the one of the    *)
(* most specific language that does ("the more specific first").           *)
StringsAreBest ==
    stage \notin {"read", "config", "strings"} /\ spec.valid /\ AllOptionsHaveValue =>
        \A id \in TextIds :
            /\ HaveText(id) = {} <=> Offering(id) = {}
            /\ \A i \in Offering(id) :
                 (\A j \in Offering(id) \ {i} : MoreLocal(i, j)) =>
                    LocatedString(id) = spec.strings[i].texts[id]
=============================================================================
