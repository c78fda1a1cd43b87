# A verification of the Grilo XML factory plugin

The plugin turns XML descriptions of web services into Grilo media sources. A source
answers *browse*, *search* and *resolve* calls: it fetches a document (XML or JSON), picks
the media in it with the *templates* of its description, gathers the keys of each media
(each key possibly needing more network requests), and hands the media to the caller one by
one. These TLA+ modules model that machinery; TLC checks them on small instances and the
TLA+ proof system proves every safety property they check for every instance.

Line numbers are those of `src/src/`. G is `grl-xml-factory.c`, F is `fetch.c`.

## 1. Inventory

Everything runs on one GLib main loop, in callbacks that run to their end. What makes it
hard is that the same function may be answered *inside* the call that asked (a raw text, a
cached document, a Lua script) or much later (network), that one call has many fetches under
way, that callbacks free what the functions under them on the C stack still hold, and that a
cancellation may come between any two of them.

| part | state | operations | hard behaviour | what makes it correct |
|---|---|---|---|---|
| operation calls (G 2309-2380, 2621-2985, 3282-3402, 3569-3770, 3821) | `OperationCallData`: results left, `send_list` of `SendItem` with `pending_count`, cancellable | browse, search, resolve, cancel; answers of fetches and of inner resolves; the idle relay | answers in any order, reentrance, inner resolves of the head item, free from inside, cancellation | every answer is counted once; media go out in order, `remaining` counts down to 0 exactly once; nothing points to freed data; the call ends |
| result window (G 2732-2983, 3018-3280) | matching templates, `total_results`, `skip`, `count` | scan of the templates, item loop | carrying `skip` across templates, `guint` arithmetic, no end-of-list check | the items are the slice that was asked for |
| result cache (G 1295, 2228, 3292-3392; `dataref.c`) | `ResultData`: cached document, validity; timers; reference counts | reuse, store, expire; the references of calls, loops and items | overlapping calls on one cache, timers that are never removed | a reused document is not out of date; a document lives exactly as long as it is used |
| fetch pipeline (`fetch.c`) | process data of nested fetches; buffers of sub-regexps | `fetch_data_get` and its callbacks | a chain of callbacks over the network, shared buffers, errors in the middle | one answer per fetch; inputs read after what they depend on |
| operation selection (G 3405-3566, 3775-3819) | operations with requirements; missing keys | select for browse and resolve, `may_resolve` | one matching loop with two contracts (with and without a list of missing keys) | the first that fits is used; the missing keys are those that can decide |
| expandable strings (`expandable-string.c`) | text and whether it has names to expand | expand, free a value | what is remembered of a text after its first use; values are copies or the text itself | an expansion does not depend on earlier ones; each copy is freed, the text never |
| source loader (G 485-777, 1305-2400) | the source that is built: operations, shared results, media templates, FetchData | one pass over the XML tree, `finalize` | error paths in the middle of a declaration; results shared by id | what is left can be fetched through; each result is freed with its last user |
| configuration merge (G 1085-1198) | list of configurations | merge | order of precedence | the most specific value wins |
| located strings (G 1792-1883) | tables of texts, by language | read, look up | blocks in any order, several for a language | the best language that has the text |
| lifetime of shared data (G 1013-1080, 3568-3597; F 71-137; `expandable-string.c` 613-711; `dataref.c`) | reference counts of the cancellable, the source, ExpandData, DataRefs | new, ref, unref of calls, resolves, items and nested fetches | process data frees itself after its callback, when the operation may be gone | each is freed with its last user, not before and not never |
| media merge and private keys (G 2557-2634, `json-ghashtable.c`) | the media of the caller | merge an answer, write and read the table | resolves of one media overlap | the last answer counts, nothing is lost |
| raw values, Lua, logging, plugin initialisation | - | sequential calls of libraries | - | - |

The parts call each other as follows. Grilo calls browse, search, resolve, which *select* an
operation and make an *operation call*. The call reuses the document of the *result cache*
or asks the *fetch pipeline* for it; then computes the *result window*, builds an item for
each node in it and asks the fetch pipeline for each key. An item whose media needs it goes
through an inner resolve, which is an operation call of its own.

The hazards, each at its line, are listed in `PROJECT.json` with the properties that cover
them.

## 2. Modules

| module | models | extends |
|---|---|---|
| `ResultStream` | the abstract specification: what a call promises its caller | - |
| `OperationCall` | one call with its items, fetches, inner resolves and cancellation | - (instantiates `ResultStream`) |
| `OperationCallProofs` | theorems about it | `OperationCall` |
| `ResultWindow`, `MCResultWindow`, `ResultWindowProofs` | which nodes become items | - |
| `ResultCache`, `ResultCacheProofs` | the cache of a result and the references to documents | - |
| `FetchPipeline`, `MCFetchPipeline`, `FetchPipelineProofs` | nested fetches of one operation | - |
| `OperationSelect`, `MCOperationSelect`, `OperationSelectProofs` | selection of an operation, `may_resolve` | - |
| `FetchTree` | the trees of FetchData that can be fetched: what the loader makes and `FetchPipeline` takes | - |
| `ExpandableString` | expansion of the %names% of a text, and what the text remembers | - |
| `MediaTexts`, `MCMediaTexts`, `MediaTextsProofs` | overlapping resolves of one media: they expand a text with its data and merge their answers into it | `ExpandableString` |
| `SourceConfig` | from a source file to its options and its texts | - |
| `SourceLoader`, `MCSourceLoader`, `SourceLoaderProofs` | from there to operations, results and media templates, and the end of the source | `SourceConfig`, `FetchTree` |
| `CallLifetime`, `MCCallLifetime`, `CallLifetimeProofs` | who keeps what alive during a call and its resolves | - |

`MediaTexts` is composed with `ExpandableString`, whose actions are part of its own, and `SourceLoader` goes
on where `SourceConfig` ends. The other modules share no variables: each replaces its neighbours by the set of
things they may do: in `OperationCall` a document or a key may be answered at once or later, with or without
an error; the number of results is any; in `FetchPipeline` the network answers anything. What a neighbour is
allowed to do there is what its own module shows it does: that a fetch answers exactly once
(`AnsweredIsFinished`, `EveryFetchAnswers`) is what `KeyFetch`/`KeyFetched` and the fairness of
`OperationCall` rest on, that a call with results has at least one to send (`NeverDropped`) is why
`SendResults` opens it with n >= 1, and that `FetchPipeline` may assume `Fetchable(FetchData)` is what the
loader shows (`LoadedIsFetchable`).

Definitions named "Seeded fault" are plausible bugs of the code next to the definition
they are a variant of. No behaviour uses them: they show that a property notices.

### OperationCall

`phase[o]` is where the `OperationCallData` of operation *o* is, 0 the caller's and i the
inner resolve of its i-th media. `total`, `pending`, `applies`, are `total_results`,
`pending_count`, `apply_resolve`; `created` and `sent` delimit the `send_list`; `inFlight`
counts the `FetchItemData` of an item; `keysLeft` is where the key loop is; `run` is
`operation_call_send_list_run`. `Top(o)` encodes the C stack: a function that made a call goes on
only when the callee is done, so the interleavings are those of one thread with reentrance. The
application may cancel between two main loop callbacks and in the callback that hands it a
media (`Deliver`).

| action | code |
|---|---|
| `Request`, `NoOperation`, `Cancel` | `grl_xml_factory_source_browse`, `_search`, `_resolve`, `_cancel` |
| `CachedResult`, `Fetch`, `FetchAnswers`, `FetchFailed`, `DataFetched`, `RelayFires` | `operation_call`, `operation_call_data_fetched`, `EXECUTE_CALL` |
| `SendResults`, `NewItem`, `KeySettled`, `KeyUsesResolve`, `KeyFetch` | `operation_call_send_xml_results`, `operation_call_send_json_results` |
| `KeyFetched` | `fetch_data_obtained` |
| `SendHead`, `ResolveHead`, `SendResolved`, `Unlink`, `HeadWaits`, `ListDone` | `operation_call_send_list_run`, `use_resolve_done_cb` |
| `Free` | `operation_call_data_free` of a resolve that was closed |

### ResultWindow

A document is what the queries of the templates find in it, so a template is a record: format, operation,
number of nodes of `query` and of `select` (-1: none, or not valid). `TestTemplate` is one round of the scan,
`BuildItem` and `NextTemplate` the two loops. A `guint` sum (`Plus`) wraps above `Unbounded`, the infinite
count (`G_MAXUINT` in the code). The XML and the JSON function are mapped to the same actions. Two inputs are
what Grilo and the schema guarantee: the caller asks for at least one result, and a resolve has no `skip` or
`count` attribute.

### ResultCache

A document is named after the call that fetched it (a call fetches at most one). `refs` is the
count in its `DataRef`, or in its `JsonParser`; the other variables are who holds a
reference. The module is coarser than `OperationCall` about order: `ItemDone`, `LoopDone` and
`Free` may come in any order, and two calls interleave anywhere, which covers a callback that
makes another call. The references nobody gives back are accounted for as what they are: `Empties`
(XML, no results), `replaced` (a valid cached document that another fetch replaced), `Getters`
(a JSON parser, which no call gives back).

### FetchPipeline

`FetchData` is the declaration in the source file, a tree of names. `phase[f][n]` is where the process data of
node *n* in fetch *f* is; "asked", "subs" and "answering" are on the C stack, "net" waits for the network. A
content is the *set of fetches whose data it is made from*, which is all the properties need; `Null` is NULL.
`Callback` dispatches to the callback of the owner of the FetchData that is answered. What an expression
matches is a free choice (`Made`, `Replaced`). `Part(n, i)` is the FetchData in place *i* of *n*, its input
for 0, else a sub-regexp. `PartsAssumption` says that each has one place: the loader allocates a FetchData for
the element it reads, and points to it from there only.

### OperationSelect

One state machine for the three functions that use `operation_requirements_match`: `request.call` says which.
`at` is the operation, `test` the requirement in turn. `KeyType` gives the keys their types, the four that the
loader takes (G 1341). `Value` is `get_data_as_string`: the text of what the media has, and NULL for a string
or date that it lacks; a number that it lacks is printed as 0 (`Zero`, G 846-852), so it is never NULL and
never missing. A requirement's expression is the set of texts it matches, `""` standing for NULL (G 3452). The
properties are about these texts: a media without a bitrate *fits* an operation that requires one. A comment
promises otherwise (section 3). Without a media nothing is known, numbers neither.

### ExpandableString, MediaTexts

One string, made once (`Init` is `expandable_string_new`) and read by users that hold its values at the
same time. A text is a sequence of pieces, which is how the two patterns of the code see it; the
callbacks are the cases of `FixedValue` and `DataValue`. A held value is the string's own text or a copy, since the
code tells them apart by pointer when they are freed. `ValuesAreCurrent` is the abstract specification, an
expansion without memory.

`MediaTexts` gives each user a call: `Resolve` takes the private keys out of the media (`expand_data_new`),
`Expand` reads or lets go the value with what the call has now, `Answer` merges (`merge_medias`, from
`resolve_send_result_cb` and `use_resolve_done_cb`). `answers` is a history of the merged medias; `LastAnswerCounts`
and `PrivateKeysAreMerged` say what the media must be after them, without the order of the code.
A table of private keys is a function from names to values; `Deserialize` is what the JSON text makes of it: nothing,
when a value is NULL.

### SourceConfig, SourceLoader

`stage` is where `grl_xml_factory_source_new` is, `next` the element in turn. `SourceConfig` merges the
configurations (`MergeConfig`, one at a time in the order of `AllConfigs`: a `Pass` over those for this
source, one over those for any, the defaults of the file; `Merge` adds the keys that have no value yet),
checks that every option has a value, and reads the blocks of strings. `SourceLoader` reads operations and
medias. A ResultData is named after the operation that declares it; an operation has its own (`OwnResult`,
`NamedResult`) or an earlier one (`SharedResult`), or is dropped (`NoResult`). Its requirements are a set
here: their order is `OperationSelect`'s concern. The elements of the file are a tree as in `FetchTree`;
`Present` is which of them become a FetchData and `Tree` what it looks like then.

Several error paths free memory that is not theirs to free, or read what was freed: an error that is
freed but not reset, a `replace` without an input, OAuth keys, and sub-regexps that are freed as what
they are not. `BadToRead`, `BadToFree` and `BadRequirements` are the files that get there. What happens
then is not defined, so the model has both outcomes: it goes on, or ends in the stage `"crashed"`.
A sub-regexp that is dropped leaves no hole: `KeptSubs(n)` is the list of those that are left, in their order.

### CallLifetime

`refs` has the counts, `agenda` the C stack of the main loop callback that runs: the functions still to
be run, innermost first. A callback puts what it calls before what it does afterwards, so that
`Free` of process data comes after all its callback went on to do, as in the code. A
fetch is the list of the process data nested in it. The control of items is coarser than in `OperationCall`
(`RunWaits` may be taken at any time); their number has no bound but that of `Raws`.

The properties do not say that the counts are what they ought to be but that they are exactly what the code
makes them: two are off, the source has one too many for each REST request
(F 374), the cancellable one too few after each inner resolve (G 3586). When the cancellable
has no reference left, code that touches it ends the model (`Crash`);
`CrashOnlyAfterResolve` says that nothing else gets there.

## 3. Runs

| run | instance | checks |
|---|---|---|
| `call_safety` | 3 results, 0-2 keys each | types, `PendingCountIsExact`, `FetchesOfLiveItems`, `ResolveAnswersItsItem`, `FreedIsFinished`, `NothingLeftBehind`, `CancelStopsResults`, `AnswersAsPromised` |
| `call_answers` | 3 results, 1-2 keys | `BoundToEnd`, and `AnswersInTheEnd` under fairness |
| `call_no_keys` | 2 results, 0-1 keys | `ReadyHeadIsSent` is **violated** |
| `window` | 3 templates, `guint` up to 15 | types, `WindowIsSlice`, `TemplatesLastForItems`, `NeverDropped`, no deadlock |
| `window_unbounded` | 2 templates, infinite count | `EmptyMeansNoMore` is **violated** |
| `cache` | 3 calls, 1 item each | `RefsAreAccounted`, `HitsAreFresh` (types are proved) |
| `fetch` | 2 fetches, each of one of 5 trees of FetchData | types, `AnsweredIsFinished`, `InputAfterSubregexps`, `FetchesAreBoundToEnd`, and `EveryFetchAnswers` under fairness |
| `fetch_buffers` | 2 fetches of one regexp | `OwnData` is **violated** |
| `select` | 2 operations of 29 kinds, all media of a string, an int and a float | types, `FirstFitIsSelected`, `YesIsKept`, `MissingKeysDecide`, no deadlock |
| `expand` | 24 texts, 2 calls on a media, 5 answers, 2 merged | types, `CopiesAreFreed`, `ValuesAreCurrent`, `LastAnswerCounts`, `PrivateKeysAreMerged` |
| `loader` | files that vary in one part: configurations, strings, results, requirements, keys, FetchData | types, `ConfigIsMostSpecific`, `StringsAreBest`, `OperationsAsDeclared`, `ResultRefsAreExact`, `MandatoryAreNeeded`, `LoadedIsFetchable` |
| `lifetime` | a call, a resolve, 2 fetches of depth 2, 2 DataRefs | types, `RefsAreExact`, `CrashOnlyAfterResolve` |

*Why these bounds.* `MaxResults`: with three media there is a head, one that overtakes it, and one not built
yet; with two keys an item has one key settled and one in flight. `MaxTemplates`: three let `skip` end inside,
at the end of and past a template with one more to follow. `Unbounded` 15 puts the largest sum of the `window`
run (4 + 3) below, and an infinite count at, the limit. `Calls`: with three, one reuses while two race to
store, with two timers pending. Two `Fetches` are enough for the buffers to be mixed up. `MaxOperations` 2: a
first that fails or is undecided and one behind it. Texts of two pieces: every kind of piece beside a key; two
`Users`: a value held while another read changes the status, and answers that overlap; `MaxAnswers` 2: an
answer over one that has the key and one that has not, over the media as it was. The files of `loader` vary
one part at a time, since the parts meet only in the options (OAuth), in `RequiredKeys` (varied together) and
in FetchData (every element as a query and as a key): three configurations of three kinds, three blocks in
four languages, four operations on two ids, three requirements, two keys of one name. `lifetime`: one resolve
runs at a time, so a second one would only repeat the first; two fetches let one outlive its item or its
operation; depth 2 puts the process data of a regexp around that of a request; with one `MaxKeys` and no bound
on items, fetches of two items still overlap. The rooms of fetches and of DataRefs are interchangeable
(`SYMMETRY`; no temporal property is checked there). Runs without deadlock check end where the call, all
fetches or the source are over.

*Fairness.* Weak fairness of `Run`: code on the C stack goes on (a callback of the main
loop runs to its end). Weak fairness of `Dispatch`: the main loop fires its idle sources, and
the network answers every request with data or an error (libsoup and librest have
timeouts). Nothing is assumed of cancellations or of when a fetch starts. A liveness counterexample
without these would only show a program that stands still.

### What the violated runs show

* `call_no_keys`. `operation_call_send_list_run` is called when a key of an item is settled. An item for
  which no key is asked and none is mandatory has none, so it stays at the head of the list:
  the call is never answered (G 2660).
* `window_unbounded`. `skip + count` (G 2744, 3027) is a `guint` sum. With an infinite count
  and a skip of at least 1 it wraps to `skip - 1`, the scan stops too soon and the call says there are no more
  results.
* `fetch_buffers`. The outputs of sub-regexps go to buffers shared by all fetches of an
  operation (F 299). While one fetch waits for the network, another overwrites them; and when a
  sub-regexp has no output, what was there stays.

### Where the code and its texts differ otherwise

These are in the model as the code has them, and the properties of the passing runs are about what the code does.

* A comment (G 3405) says that `operation_requirements_match` returns the keys it lacks to decide. A number that the
  media lacks is printed as 0 (G 847), so an operation that only requires that number is used, `may_resolve` says
  yes, and Grilo is never asked for it. `expandable-string.c` (line 228) asks `grl_data_has_key` before it prints the
  same values. `MissingKeysDecide` says that only strings and dates are asked for when there is a media.
* A warning (G 2206) says that a wrong expression is ignored. The error it leaves is freed and not reset (G 2208), so
  the right expressions after it are lost too and the error is freed again (`Kept`, `BadRequirements`).
  `OperationsAsDeclared` leaves operations with a wrong expression out.

## 4. Proofs

All theorems hold for every value of the constants under the assumptions that the modules
name.

*OperationCall* (any `MaxResults` > 0, any set of key counts). None of the invariants is inductive
alone: that `pending_count` is exact depends on which item a resolve will settle, and this on the resolve
having the head of the list for itself, which depends on the counts. `IInv` puts them together:

* `Shape(o)`: in every phase, what the counters are (before its items an operation has none;
  while it sends, `sent <= created <= target` and `total` is the rest; when it is freed
  nothing is left), and that some code runs the list when `total` is 0;
* `Exact` and `LiveFetch`, for every listed item;
* `ResolveShape(i)`: a resolve exists only for an item whose keys were all gone through, and
  while it runs its item is the head and waits for it alone;
* `AnswerShape`: the stream is open until the last media or the closing answer.

`StepKinds` groups the actions by what they do to this (move on, close, open, build, hand over), each kind
has its lemma, and `NextIInv` puts them together. From `Invariance` follow `TypeCorrect`,
`PendingCounts`, `NoDanglingFetch`, `ResolveFindsItsItem`, `FreedWhenFinished`, `NoOrphanResolve`.
`CancelIsHeeded` adds that no result is opened after a cancellation. `KeepsThePromise` is the refinement: the initial
state maps to one of `ResultStream`, every step to one of its steps or a stutter. `ReadyHeads`
shows `ReadyHeadIsSent` when every item has a key, the condition that `call_no_keys` shows to be
needed.

*The end of a call, without fairness.* That a call is answered has two halves besides the fairness of the main
loop: it does not stop short (`CallIsNotForgotten`), and it does not go on for ever (`WorkRunsOut`).
`BoundToEnd` is both, and `CallsAreBoundToEnd` its theorem. `NeverForgotten` is the first half: when the
plugin returns to the main loop and the call is not over, a document or key of it or of a resolve is being
fetched, or an idle source waits. What sends waits for the item at its head (`HeadIsWaitedFor`, from `Exact`
and `ReadyHeads`); if that waits for its resolve, the same is said of the resolve. `EndDrawsNearer` is the
second half: `Work` lists what is left (phases to go through, items to build, keys to reach, fetches to be
answered, media to hand over, runs of the lists), and each step of `Run` or `Dispatch` lowers the first of
these that it changes. All of them are bounded below by 0 (`TypeCorrect`, and `created <= target` in `Shape`),
so this order is well-founded. For the proof one lemma says of each component when it falls (`NearerByPhase`,
`NearerByItem`, ...). That the two halves give `AnswersInTheEnd` under weak fairness is a liveness argument,
and stays with TLC.

*ResultCache* (any number of calls and items): `FreshHits`, from `ValidHasTimer`: a valid cache has the timer
of its own document pending, because any timer that fires makes it invalid and storing adds one.
`ReferencesAccounted` counts the holders of a document, one lemma for each action, that say who comes or goes;
`Pointers` is what the counts alone do not say: the document of a call that has not fetched yet is nowhere,
and a call without a document has neither a loop nor items.

*FetchPipeline* (any tree that is `Fetchable`, any number of fetches): `TypesHold`, `AnsweredOnceAndFinished`,
`SubregexpsFirst`, by `WaitingIsAChain`: what waits is one chain, from the root to the node whose turn it is,
and each link waits for the next as the part of it that is in turn. Hence one callback finds the one that
waits for it, and when the root is answered the chain is empty. That a sub-regexp is answered before the input
is read is part of the same invariant (`Progress`: of what is before the part in turn, all is answered).
`WaitsForTheNetwork` and `StepsRunOut` (together `FetchesComeToAnEnd`, which states `FetchesAreBoundToEnd`)
are for `EveryFetchAnswers` what the two theorems above are for `AnswersInTheEnd`: the last of the chain of a
fetch that is not over waits for the network whenever no code of a fetch runs, and `Left(f, n)` counts the
steps that FetchData *n* can still take in fetch *f*: no step raises it anywhere, each lowers it somewhere,
and it is never negative since `current_subregexp` goes one past the list at most (`Within`).

*ResultWindow* (any templates, any `Unbounded`): `EnoughTemplates` and `AlwaysAnItem`. The invariant relates
the counters to the number of nodes in the matching templates up to the one in turn (`Sums`, a sum that the
proof takes apart one template at a time): while the templates are tested (`Scanned`) `total` is at most what
the matching ones have together, and while items are built (`Building`) what is left to send is no more than
what is left in the templates. `SliceOfTheResult` shows `WindowIsSlice`: what is sent is the part of the whole
result that `skip` and `count` ask for. `CutInv` gives each template its place in the whole result (`Offsets`:
how many nodes are before its end) and says of the scan and of the item loop where they are in it: between one
matching template and the next there is no node (`Linked`), `total` is what was passed over, cut to what the
call asks for (`Counted`), and the items are the result from `skip` on, with the next node to build right
behind them (`Built`). That such places exist, for any list of templates, is the recursion of `FlattenSeq`
(`Flatten`), and the least place where it would fail is ruled out by well-foundedness (`UpTo`). The theorem
has the condition `NoWrap`: the nodes that the templates match can be counted in a `guint`. It only keeps
`total_results` itself from overflowing, which takes a document with 2^32 nodes; the sum that a caller can
make overflow, `skip + count`, is left out by `WindowIsSlice` and looked at by `window_unbounded`.

*SourceConfig, SourceLoader* (any file): `MostSpecificValues` from `MergeInv` (after *n* configurations an
option has the value of the first of them that has one); `BestStrings` from `TablesInv` (of each place, the
table is the last block's); `ExactReferences` from `ResultsInv` (a result is counted once for each operation
or name that points to it, and each step changes these sets by one); `MandatoryKeys` from `MediasInv`;
`DeclaredOperations` from `DeclaredInv` (while operations are read, an id stands for the last result declared
under it); `TypesHold`. Where the least or last block is needed, it comes from well-foundedness of the
naturals. `FetchableTrees` shows `LoadedIsFetchable`, which `FetchPipeline` takes as its assumption: whatever
elements are dropped, the queries and keys that are kept lead to trees without a hole. `FetchInv` says that
each query of a result and each key of a media that is kept is of an element that became a FetchData. Which
elements do is a recursive function; the library has no usable theorem that such a function exists, so
`PresentElements` gives one, the largest set of elements that are good and have their input in it.
`SubsAreNamed` and `UpTo` are about the list of sub-regexps that are left (`KeptSubs`), which is made by
passing over those that are not.

*OperationSelect* (any operations, requirements and media): `SelectTypes`, `FirstFit`, `YesKept`,
`MissingDecide`, for keys of any of the four types, from `SelInv`: what is known of the operations before `at`
(none the request may use fits) and of the requirements before `test` (the missing keys are exactly those not
met, none is refuted).

*CallLifetime* (any finite number of resolves, fetches and DataRefs, any bounds): `TypeIsOK`,
`RefsAreAccounted` and `CrashesAreOfResolves`. The counts alone are not inductive: that a step which drops a
reference finds one to drop depends on what may stand behind it on the agenda, and that nothing of an
operation is left when it ends on where its fetches may be. The invariant is in two parts, with one lemma of
each for every action:

* `Shape`: the phase of an operation says whether it may have fetches and which entries of the agenda may be its own;
  behind the first entry stands only what a callback does after its call, and each operation is freed once; a
  fetch whose turn it is waits for nothing, any other waits for the network at its innermost process data; an
  operation that ends has no fetches and no items left; resolves run only while the call sends items;
* `Books`: each count equals the number of its holders (`Exact`), the holders of a DataRef are all of one operation
  (`Owned`), and the DataRef that a fetch is going to read through has a holder (`GetFits`).

Holders are pairs of a fetch and a place in it, and places on the agenda. How their number changes is said
once for each of the few things a step does (a fetch nests one more or one less, the first entry is replaced);
`OneMoreUser`, `FirstUser` and `OneUserLess` say when this makes an operation use a DataRef more or less,
which is when its ExpandData gains or loses a reference. For the crash: while no resolve is over, the
cancellable has a reference of each process data and of the call itself, so whoever touches it has one
(`UsersKeep`).

*MediaTexts* (any medias, any number of answers): `LastAnswer` and `PrivateKeys` are inductive with the fact
that `answers` is a sequence of medias. Every step leaves media and answers alone or merges one more
(`Steps`), and what is merged is the new one's where it has a value and the old one's elsewhere (`Merged`,
`MergedPrivate`); then the last answer that has a name is the new one, or the same as before. `CopiesFreed`
(any finite set of users): a user that takes a copy adds one to those that hold one, and one that frees a
value is told apart by what it holds (`NextCopies`).

`TextTypes` and `CurrentValues` are about the string: `ValuesAreCurrent` says that a value is the expansion of
the source text with the data of the call that holds it, as if the string remembered nothing. `TextInv` adds
to the above `StringInv` (a string marked as unexpandable has itself as its value for every data, now and
later) and `HeldInv` (of each value, what it is and what it was made with). The first is `NothingToExpand`: an
expansion, with whatever data, is made of pieces that no data can expand (a datum is a literal), so a text
that is its own expansion once is so always. The theorem assumes of the constants that texts, configuration
and located strings are sequences of pieces, with any set of `Words` that has `%` (TLC: all strings); that
data are literals (section 5 says what this leaves out); and that `Data` has whatever a call can come to
(`ExpandDataAssumption`), which is how `Data` is meant.

*Only model-checked*: the two liveness properties under fairness, `AnswersInTheEnd` and `EveryFetchAnswers`,
which are out of the prover's reach. Every invariant and every action property that a passing run checks is
stated by a theorem. The findings (the runs that expect a violation) are about instances, and need no proof.

## 5. Not modelled

* What text an expression, XPath, JSONPath or Lua script yields: library calls.
* The wrong error code that `operation_call_data_fetched` passes (NULL, G 3293) is in the model as the
  `"nothing"` answer; no text says the error must arrive.
* A source that is unregistered during a call: timers, idle sources and fetches keep raw pointers to it (G 407).
* What follows a use of freed memory: `CallLifetime` and `SourceLoader` end there, or go on as if nothing happened.
* In `CallLifetime`, which item a fetch belongs to and whether the call was cancelled: both only choose among answers
  that are all possible in it.
* In the loader, attributes that are only copied (debug, dump, autosplit, namespaces, formats, templates' queries), and
  the Lua text of the initial script, which may only skip the source.
* What `may_resolve` should say when an operation does not take a media of another source (G 3800): the
  model does what the code does, and no text says what is meant.
* Overflow of `total_results` itself (a `gint`): it needs two thousand million nodes.
* Two requests that expand to different URLs on one cached result: the cache cannot tell
  them apart; the description of the source decides whether that matters.
* A value that spells out the very text it is put in (a search for `%param:search_text%`), or configuration
  values with half a `%name%` in them: `ExpandableString` assumes that data are literals (`DataAssumption`)
  and that texts are made of whole names.
* The parts of the inventory marked so in `PROJECT.json`, with their reasons.

## 6. Plan

Done, in this order: `OperationCall` with `ResultStream`, as the core; `ResultWindow`; `ResultCache`;
`FetchPipeline`; `OperationSelect`; `ExpandableString`; `FetchTree`, `SourceConfig` and `SourceLoader`;
`MediaTexts`; `CallLifetime`; proofs of `OperationCall`, `ResultCache`, `OperationSelect`, `MediaTexts`,
`FetchPipeline`, `ResultWindow`, `SourceLoader` and `CallLifetime`; proofs of the invariants about sequences
and trees (`WindowIsSlice`, `ValuesAreCurrent`, `LoadedIsFetchable`); the halves of the liveness properties
that are safety.

Left, should the prover come to do it: the step from those halves to `AnswersInTheEnd` and
`EveryFetchAnswers`. In the model, the two wider inputs of section 5 that a source file could have: values
that spell names, and cached results that are asked for with different URLs.
