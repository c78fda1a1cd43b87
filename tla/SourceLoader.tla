---------------------------- MODULE SourceLoader ----------------------------
(***************************************************************************)
(* The second half of grl_xml_factory_source_new: the operations and the   *)
(* medias of a source file become the structures that calls work with, and *)
(* the end of the source frees them.                                       *)
(*                                                                         *)
(* Elements the code cannot use are dropped on the way, and some ways of   *)
(* dropping or freeing them touch memory that is not theirs.  What follows *)
(* then is not defined: the program may go on, or crash.                   *)
(***************************************************************************)
EXTENDS SourceConfig, FiniteSets, FetchTree

CONSTANTS
    Elements,    \* FetchData elements of the source files, by name
    Supported,   \* metadata keys that are registered and of a known type
    Forced       \* GRL_METADATA_KEY_SOURCE and GRL_METADATA_KEY_ID

OpKinds == {"search", "browse", "resolve"}

(* An element is a structure of FetchTree, before anything is dropped; it  *)
(* says too whether it has text and whether a REST call needs OAuth.       *)
ASSUME ElementsAssumption ==
    \A n \in DOMAIN Elements :
        /\ {"kind", "input", "subregexps", "id"} \subseteq DOMAIN Elements[n]
        /\ Elements[n].kind \in Kinds
        /\ Elements[n].input \in DOMAIN Elements \cup {NoInput}
        /\ Elements[n].subregexps \in Seq(DOMAIN Elements)
        /\ \A i \in DOMAIN Elements[n].subregexps :
             Elements[Elements[n].subregexps[i]].kind = "regexp"
ASSUME NoElementAssumption == NoInput \notin DOMAIN Elements

(* An operation of a file: its kind, the keys it requires with their       *)
(* expressions ("none", "right" or "wrong"), and its result, with an id, a *)
(* reference ("" for none of them) and a query.  A media: its keys.        *)
ASSUME OperationsAssumption ==
    \A s \in Specs :
        /\ s.operations \in Seq(Range(s.operations))
        /\ \A i \in DOMAIN s.operations :
             /\ s.operations[i].kind \in OpKinds
             /\ s.operations[i].query \in DOMAIN Elements \cup {NoInput}
             /\ s.operations[i].requires \in Seq(Range(s.operations[i].requires))
             /\ \A j \in DOMAIN s.operations[i].requires :
                  s.operations[i].requires[j].match \in {"none", "right", "wrong"}
        /\ s.medias \in Seq(Range(s.medias))
        /\ \A t \in DOMAIN s.medias :
             /\ s.medias[t] \in Seq(Range(s.medias[t]))
             /\ \A i \in DOMAIN s.medias[t] :
                  s.medias[t][i].data \in DOMAIN Elements \cup {NoInput}

VARIABLES
    operations,  \* lists of operations of the source, by kind
    results,     \* results with an id: the operation that declares each
    refs,        \* refcount of each ResultData, by the operation as well
    templates,   \* media_templates
    keys         \* supported_keys, slow_keys and use_resolve_keys

loaderVars == <<operations, results, refs, templates, keys>>
vars == <<configVars, loaderVars>>

LoaderInit ==
    /\ Init
    /\ operations = [k \in OpKinds |-> <<>>]
    /\ results = <<>> /\ refs = <<>>
    /\ templates = <<>>
    /\ keys = [supported |-> {}, slow |-> {}, resolve |-> {}]

-----------------------------------------------------------------------------
(* xml_spec_get_fetch_data: which elements become a FetchData.             *)

Kind(n) == Elements[n].kind
Input(n) == Elements[n].input
Subs(n) == Elements[n].subregexps

CanUseOauth == {"api-key", "api-secret"} \subseteq DOMAIN merged

(* Text must not be empty, OAuth needs its options, and an url and a       *)
(* replace need their input.  A regexp is always there: it may do without  *)
(* an input, and its sub-regexps are regexps.                              *)
PresentWith ==
    [useOauth \in BOOLEAN |->
        LET present[n \in DOMAIN Elements \cup {NoInput}] ==
            /\ n # NoInput
            /\ Kind(n) \in {"raw", "script"} => Elements[n].text
            /\ Kind(n) = "rest" => ~Elements[n].oauth \/ useOauth
            /\ Kind(n) \in {"url", "replace"} => present[Input(n)]
        IN  {n \in DOMAIN Elements : present[n]}]

Present == PresentWith[CanUseOauth]

(* Seeded fault: they are all kept.                                        *)
NamedOrNot(n) == n \in DOMAIN Elements

(* A sub-regexp whose output no one can refer to is removed.               *)
Named(n) == Elements[n].id # ""

(* Its sub-regexps are gone through, and those with a name are appended.   *)
KeptSubs(n) ==
    LET kept[i \in 0 .. Len(Subs(n))] ==
            IF i = 0 THEN <<>>
            ELSE IF Named(Subs(n)[i]) THEN Append(kept[i - 1], Subs(n)[i]) ELSE kept[i - 1]
    IN  kept[Len(Subs(n))]

(* The FetchData the source has.                                           *)
Tree == [n \in Present |->
    [Elements[n] EXCEPT !.input = IF @ \in Present THEN @ ELSE NoInput,
                        !.subregexps = KeptSubs(n)]]

(* What is not defined to free: the keys of OAuth, which were freed when   *)
(* they were read; and sub-regexps, which are freed as if they were not in *)
(* a FetchData.                                                            *)
BadToFreeWith ==
    [useOauth \in BOOLEAN |->
        LET bad[n \in DOMAIN Elements \cup {NoInput}] ==
            /\ n \in PresentWith[useOauth]
            /\ \/ Kind(n) = "rest" /\ Elements[n].oauth
               \/ Kind(n) \in {"url", "replace", "regexp"} /\ bad[Input(n)]
               \/ \E i \in DOMAIN Subs(n) : Named(Subs(n)[i])
        IN  {n \in DOMAIN Elements : bad[n]}]

BadToFree == BadToFreeWith[CanUseOauth]

(* What is not defined to read: a replace without an input is freed before *)
(* its other members are set; a sub-regexp that is removed is freed as     *)
(* above.                                                                  *)
BadToReadWith ==
    [useOauth \in BOOLEAN |->
        LET bad[n \in DOMAIN Elements \cup {NoInput}] ==
            /\ n # NoInput
            /\ \/ Kind(n) \in {"url", "replace", "regexp"} /\ bad[Input(n)]
               \/ Kind(n) = "replace" /\ Input(n) \notin PresentWith[useOauth]
               \/ \E i \in DOMAIN Subs(n) :
                    \/ bad[Subs(n)[i]]
                    \/ Subs(n)[i] \in BadToFreeWith[useOauth] /\ ~Named(Subs(n)[i])
        IN  {n \in DOMAIN Elements : bad[n]}]

BadToRead == BadToReadWith[CanUseOauth]

Crash ==
    /\ GoTo("crashed")
    /\ UNCHANGED <<spec, configs, merged, tables, loaderVars>>

-----------------------------------------------------------------------------
(* xml_spec_get_operation_requirements.                                    *)

(* A wrong expression is reported in an error that is not reset.           *)
ErrorBefore(reqs, i) ==
    \E j \in 1 .. i - 1 : reqs[j].key \in Supported /\ reqs[j].match = "wrong"

(* Seeded fault: unknown keys are not looked for.                          *)
KeptUntested(reqs) ==
    {i \in DOMAIN reqs :
        reqs[i].match = "none" \/ (reqs[i].match = "right" /\ ~ErrorBefore(reqs, i))}

(* Places of the requirements that are kept: the key is one that can be    *)
(* tested, and the expression compiles without an error.                   *)
Kept(reqs) ==
    {i \in DOMAIN reqs :
        /\ reqs[i].key \in Supported
        /\ reqs[i].match = "none" \/ (reqs[i].match = "right" /\ ~ErrorBefore(reqs, i))}

(* An error that was freed is read and freed again.                        *)
BadRequirements(reqs) ==
    \E i \in DOMAIN reqs :
        reqs[i].key \in Supported /\ reqs[i].match # "none" /\ ErrorBefore(reqs, i)

(* The requirements of an operation.  Their order is no matter here.       *)
Requirements(reqs) == {reqs[i] : i \in Kept(reqs)}

-----------------------------------------------------------------------------
(* xml_spec_get_operation.                                                 *)

Op == spec.operations[next]
Reading == stage = "operations" /\ next <= Len(spec.operations)

(* The operation is the last of its kind, with the result of operation r.  *)
AddOperation(r) ==
    operations' = [operations EXCEPT ![Op.kind] =
        Append(@, [of |-> next, requirements |-> Requirements(Op.requires), result |-> r])]

NextOperation ==
    /\ next' = next + 1
    /\ UNCHANGED <<spec, configs, stage, merged, tables, templates, keys>>

(* The result of an earlier operation, if there is one of that id.         *)
SharedResult ==
    /\ Reading /\ Op.ref # "" /\ Op.ref \in DOMAIN results
    /\ AddOperation(results[Op.ref])
    /\ refs' = [refs EXCEPT ![results[Op.ref]] = @ + 1]
    /\ UNCHANGED results
    /\ NextOperation

(* An operation without a result is not added.                             *)
NoResult ==
    /\ Reading
    /\ IF Op.ref # "" THEN Op.ref \notin DOMAIN results ELSE Op.query \notin Present
    /\ UNCHANGED <<operations, results, refs>>
    /\ NextOperation

OwnResult ==
    /\ Reading /\ Op.ref = "" /\ Op.id = "" /\ Op.query \in Present
    /\ AddOperation(next)
    /\ refs' = Merge(refs, [r \in {next} |-> 1])
    /\ UNCHANGED results
    /\ NextOperation

(* Seeded fault: the result it takes the place of is not unreferenced.     *)
DisplaceKept(id) == [r \in DOMAIN refs |-> refs[r]]

(* References of a result that takes the place of another in the table.    *)
Displace(id) ==
    [r \in DOMAIN refs |->
        IF id \in DOMAIN results /\ results[id] = r THEN refs[r] - 1 ELSE refs[r]]

(* Seeded fault: the first result of an id stays.                          *)
NamedResultOnce ==
    /\ Reading /\ Op.ref = "" /\ Op.id # "" /\ Op.query \in Present
    /\ AddOperation(next)
    /\ results' = Merge(results, [id \in {Op.id} |-> next])
    /\ refs' = Merge(refs, [r \in {next} |-> 1])
    /\ NextOperation

(* A result with an id is in the table too, instead of an earlier one.     *)
NamedResult ==
    /\ Reading /\ Op.ref = "" /\ Op.id # "" /\ Op.query \in Present
    /\ AddOperation(next)
    /\ results' = Merge([id \in {Op.id} |-> next], results)
    /\ refs' = Merge(Displace(Op.id), [r \in {next} |-> 2])
    /\ NextOperation

BadOperation ==
    /\ Reading
    /\ BadRequirements(Op.requires) \/ (Op.ref = "" /\ Op.query \in BadToRead)
    /\ Crash

OperationsRead ==
    /\ stage = "operations" /\ next > Len(spec.operations)
    /\ GoTo("provide")
    /\ UNCHANGED <<spec, configs, merged, tables, loaderVars>>

-----------------------------------------------------------------------------
(* xml_spec_get_provide_media_template.                                    *)

Loaded == UNION {Range(operations[k]) : k \in OpKinds}

(* Seeded fault: the operations of the file, ignored ones too.             *)
RequiredKeysOfFile ==
    Forced \cup UNION {{req.key : req \in Range(spec.operations[i].requires)} :
                            i \in DOMAIN spec.operations}

(* Keys that an operation may have to test.                                *)
RequiredKeys ==
    Forced \cup UNION {{req.key : req \in op.requirements} : op \in Loaded}

Media == spec.medias[next]
Usable == {i \in DOMAIN Media : Media[i].key \in Supported}
WithData == {i \in Usable : Media[i].data \in Present}

(* The last data of a key is the one that counts.                          *)
LastWithData(k) ==
    CHOOSE i \in WithData : Media[i].key = k /\ \A j \in WithData : Media[j].key = k => j <= i

Mandatory(key) == key.force \/ (~key.slow /\ key.key \in RequiredKeys)

KeysAt(places) == {Media[i].key : i \in places}

ReadMedia ==
    /\ stage = "provide" /\ next <= Len(spec.medias)
    /\ templates' = Append(templates,
         [keys |-> [k \in KeysAt(WithData) |-> Media[LastWithData(k)].data],
          mandatory |-> KeysAt({i \in Usable : Mandatory(Media[i])})])
    /\ keys' = [supported |-> keys.supported \cup KeysAt(Usable),
                slow |-> keys.slow \cup KeysAt({i \in Usable : Media[i].slow}),
                resolve |-> keys.resolve \cup KeysAt({i \in Usable : Media[i].resolve})]
    /\ next' = next + 1
    /\ UNCHANGED <<spec, configs, stage, merged, tables, operations, results, refs>>

(* Data of a key that has another one later is freed.                      *)
BadMedia ==
    /\ stage = "provide" /\ next <= Len(spec.medias)
    /\ \E i \in Usable :
         \/ Media[i].data \in BadToRead
         \/ i \in WithData /\ Media[i].data \in BadToFree /\ LastWithData(Media[i].key) # i
    /\ Crash

MediasRead ==
    /\ stage = "provide" /\ next > Len(spec.medias)
    /\ GoTo("loaded")
    /\ UNCHANGED <<spec, configs, merged, tables, loaderVars>>

-----------------------------------------------------------------------------
(* grl_xml_factory_source_finalize: operations and table give up their     *)
(* references.                                                             *)

Users(r) == {op \in Loaded : op.result = r}
Ids(r) == {id \in DOMAIN results : results[id] = r}

Finalize ==
    /\ stage = "loaded"
    /\ operations' = [k \in OpKinds |-> <<>>]
    /\ results' = <<>>
    /\ refs' = [r \in DOMAIN refs |-> refs[r] - Cardinality(Users(r)) - Cardinality(Ids(r))]
    /\ templates' = <<>>
    /\ GoTo("finalized")
    /\ UNCHANGED <<spec, configs, merged, tables, keys>>

BadFinalize ==
    /\ stage = "loaded"
    /\ \/ \E r \in DOMAIN refs : spec.operations[r].query \in BadToFree
       \/ \E t \in DOMAIN templates : Range(templates[t].keys) \cap BadToFree # {}
    /\ Crash

LoadOperation == SharedResult \/ NoResult \/ OwnResult \/ NamedResult \/ BadOperation
LoadMedia == ReadMedia \/ BadMedia

Next ==
    \/ Configure /\ UNCHANGED loaderVars
    \/ LoadOperation \/ OperationsRead
    \/ LoadMedia \/ MediasRead
    \/ Finalize \/ BadFinalize

Spec == LoaderInit /\ [][Next]_vars
-----------------------------------------------------------------------------
(* Properties.                                                             *)

TypeOK ==
    /\ stage \in Stages /\ next \in Nat \ {0}
    /\ DOMAIN merged \subseteq spec.options
    /\ DOMAIN tables \subseteq DOMAIN Languages
    /\ \A k \in OpKinds : \A i \in DOMAIN operations[k] :
         /\ operations[k][i].of \in DOMAIN spec.operations
         /\ operations[k][i].result \in DOMAIN refs
         /\ \A req \in operations[k][i].requirements : req.key \in Supported
    /\ Range(results) \subseteq DOMAIN refs
    /\ refs \in [DOMAIN refs -> Nat] /\ DOMAIN refs \subseteq DOMAIN spec.operations
    /\ \A t \in DOMAIN templates : templates[t].mandatory \subseteq Supported
    /\ keys.slow \cup keys.resolve \subseteq keys.supported

(* The operations of the file that are read.                               *)
ReadSoFar ==
    {i \in DOMAIN spec.operations :
        stage \in {"provide", "loaded"} \/ (stage = "operations" /\ i < next)}

(* The operations of the file before i whose result has this id.           *)
Declaring(id, i) ==
    {j \in 1 .. i - 1 : LET op == spec.operations[j]
                        IN  op.ref = "" /\ op.id = id /\ op.query \in Present}

(* The operation whose result the i-th has: its own, or the last one       *)
(* before it that has the id.                                              *)
HasResultOf(i, r) ==
    LET op == spec.operations[i]
    IN  IF op.ref = "" THEN r = i /\ op.query \in Present
        ELSE r \in Declaring(op.ref, i) /\ \A j \in Declaring(op.ref, i) : j <= r

(* The lists hold the operations in the order of the file, each with its   *)
(* own result or the one it refers to, and all but those without a result  *)
(* ("Operations with no results are ignored").  Their requirements are     *)
(* those of the file that can be tested, unless an expression is wrong.    *)
OperationsAsDeclared ==
    stage \in {"operations", "provide", "loaded"} =>
        /\ {op.of : op \in Loaded} = {i \in ReadSoFar : \E r \in 1 .. i : HasResultOf(i, r)}
        /\ \A k \in OpKinds : \A p, q \in DOMAIN operations[k] :
             /\ p < q => operations[k][p].of < operations[k][q].of
             /\ spec.operations[operations[k][p].of].kind = k
        /\ \A op \in Loaded :
             LET requires == spec.operations[op.of].requires
             IN  /\ HasResultOf(op.of, op.result)
                 /\ (\A i \in DOMAIN requires : requires[i].match # "wrong") =>
                      op.requirements = {req \in Range(requires) : req.key \in Supported}

(* A ResultData has exactly one reference for each operation and each id   *)
(* that leads to it, so none is freed in use and, once the source is       *)
(* finalized, none is left.                                                *)
ResultRefsAreExact ==
    stage # "crashed" =>
        /\ \A r \in DOMAIN refs : refs[r] = Cardinality(Users(r)) + Cardinality(Ids(r))
        /\ stage = "finalized" => \A r \in DOMAIN refs : refs[r] = 0

(* What an operation of the source tests in a media that the source makes  *)
(* is gathered for it whenever a media has the key and it is not slow, and *)
(* nothing is for an operation that was ignored.                           *)
MandatoryAreNeeded ==
    \A t \in DOMAIN templates : \A k \in Supported :
        LET declared == {key \in Range(spec.medias[t]) : key.key = k}
            tested == k \in Forced \/ \E op \in Loaded : \E req \in op.requirements : req.key = k
        IN  k \in templates[t].mandatory <=>
                \E key \in declared : key.force \/ (tested /\ ~key.slow)

(* Every FetchData of the source is one that fetch_data_get can go         *)
(* through: FetchPipeline assumes it.                                      *)
LoadedIsFetchable ==
    stage \in {"provide", "loaded"} =>
        /\ Fetchable(Tree)
        /\ \A r \in DOMAIN refs : spec.operations[r].query \in DOMAIN Tree
        /\ \A t \in DOMAIN templates : Range(templates[t].keys) \subseteq DOMAIN Tree
=============================================================================
