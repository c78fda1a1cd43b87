---------------------------- MODULE FetchPipeline ----------------------------
(***************************************************************************)
(* fetch_data_get: how the content of a FetchData is obtained, from the    *)
(* content of the FetchData it is built from.  A step of a fetch answers   *)
(* at once or goes to the network; the answer of each is handed to a       *)
(* callback, which goes on with the FetchData around it.                   *)
(*                                                                         *)
(* The fetches here are those of one operation: the keys of its items.     *)
(* They share the cancellable and the ExpandData of the operation, and     *)
(* with it the buffers that sub-regexps leave their output in.             *)
(*                                                                         *)
(* A content is what it was made from: the set of the fetches whose data   *)
(* is in it.  Text of the source file alone is {}.                         *)
(***************************************************************************)
EXTENDS Integers, FetchTree

CONSTANTS
    Fetches,     \* fetches of one operation
    FetchData,   \* the structures the loader made: see FetchDataAssumption
    Roots,       \* which of them is asked for a key
    Nothing      \* what NULL is made from

(* The structures of FetchTree, with the buffers that the expression and   *)
(* the output or replacement mention.  SourceLoader shows that what the    *)
(* loader makes is Fetchable.                                              *)
Data == DOMAIN FetchData

ASSUME FetchDataAssumption == Fetchable(FetchData)
ASSUME RootsAssumption == Roots \subseteq Data
ASSUME NothingAssumption == Nothing \notin Fetches
ASSUME NoInputAssumption == NoInput \notin Data

(* The FetchData a FetchData is built from, by their places in it; 0 is    *)
(* that of its input.                                                      *)
Places(n) == {0} \cup DOMAIN FetchData[n].subregexps
Part(n, i) == IF i = 0 THEN FetchData[n].input ELSE FetchData[n].subregexps[i]

(* Each was read for one place in one other, or for a query or a key.      *)
ASSUME PartsAssumption ==
    \A m \in Data : \A i \in Places(m) :
        /\ Part(m, i) \notin Roots
        /\ \A n \in Data : \A j \in Places(n) :
             Part(m, i) = Part(n, j) /\ Part(m, i) # NoInput => m = n /\ i = j

Null == {Nothing}

VARIABLES
    root,        \* the FetchData each fetch is about
    phase,       \* where the process data of each FetchData of a fetch is
    current,     \* current_subregexp of a regexp, by its place
    result,      \* content and error on their way to a callback
    buffers,     \* regexp_buffers of the ExpandData
    cancelled,   \* g_cancellable_is_cancelled (cancellable)
    answers,     \* how often the callback of the fetch was called
    got          \* the content it was called with

vars == <<root, phase, current, result, buffers, cancelled, answers, got>>

(* "idle":      not reached yet                                            *)
(* "asked":     fetch_data_get or fetch_regexp is called on it             *)
(* "subs":      fetch_subregexp is called on it                            *)
(* "sub":       it waits for the output of a sub-regexp                    *)
(* "input":     it waits for its input                                     *)
(* "net":       it waits for the network                                   *)
(* "answering": its callback is called                                     *)
(* "done":      its callback was called, and frees are all that is left    *)
Phases == {"idle", "asked", "subs", "sub", "input", "net", "answering", "done"}

Contents == (SUBSET Fetches) \cup {Null}
Ids == {FetchData[n].id : n \in Data}

TypeOK ==
    /\ root \in [Fetches -> Roots]
    /\ phase \in [Fetches -> [Data -> Phases]]
    /\ current \in [Fetches -> [Data -> Nat]]
    /\ result \in [Fetches -> [content : Contents, error : BOOLEAN]]
    /\ buffers \in [Ids -> Contents]
    /\ cancelled \in BOOLEAN
    /\ answers \in [Fetches -> Nat]
    /\ got \in [Fetches -> Contents]

Init ==
    /\ root \in [Fetches -> Roots]
    /\ phase = [f \in Fetches |-> [n \in Data |-> "idle"]]
    /\ current = [f \in Fetches |-> [n \in Data |-> 1]]
    /\ result = [f \in Fetches |-> [content |-> Null, error |-> FALSE]]
    /\ buffers = [b \in Ids |-> Null]
    /\ cancelled = FALSE
    /\ answers = [f \in Fetches |-> 0]
    /\ got = [f \in Fetches |-> Null]

-----------------------------------------------------------------------------
Kind(n) == FetchData[n].kind
Input(n) == FetchData[n].input
Subregexps(n) == FetchData[n].subregexps

IsSubregexp(n, of) == \E i \in DOMAIN Subregexps(of) : Subregexps(of)[i] = n

(* The FetchData whose callback gets the answer of n.                      *)
Owner(n) == CHOOSE m \in Data : Input(m) = n \/ IsSubregexp(n, m)

(* A fetch runs on the C stack until it has to wait; then the main loop    *)
(* goes on with another.                                                   *)
Quiet == \A f \in Fetches, n \in Data : phase[f][n] \notin {"asked", "subs", "answering"}

Go(f, n, to) == phase' = [phase EXCEPT ![f][n] = to]

(* n is done waiting or deciding: its callback is called next.             *)
Answer(f, n, content, error) ==
    /\ Go(f, n, "answering")
    /\ result' = [result EXCEPT ![f] = [content |-> content, error |-> error]]

(* n now waits for its input.                                              *)
AskInput(f, n) ==
    /\ phase' = [phase EXCEPT ![f][n] = "input", ![f][Input(n)] = "asked"]
    /\ UNCHANGED result

Outside == <<root, cancelled, answers, got>>

-----------------------------------------------------------------------------
(* fetch_data_get.                                                         *)

Start(f) ==
    /\ phase[f][root[f]] = "idle" /\ Quiet
    /\ Go(f, root[f], "asked")
    /\ UNCHANGED <<current, result, buffers, Outside>>

(* Content of the document itself, or of a script.                         *)
GetHere(f, n) ==
    /\ phase[f][n] = "asked" /\ Kind(n) \in {"raw", "script"}
    /\ \/ \E content \in {Null, {f}} : Answer(f, n, content, FALSE)
       \/ Kind(n) = "script" /\ Answer(f, n, Null, TRUE)
    /\ UNCHANGED <<current, buffers, Outside>>

(* The URL, or the text to replace in.                                     *)
GetInput(f, n) ==
    /\ phase[f][n] = "asked" /\ Kind(n) \in {"url", "replace"}
    /\ AskInput(f, n)
    /\ UNCHANGED <<current, buffers, Outside>>

(* Seeded fault: a parameter that cannot be obtained ends it silently.     *)
GetRestSilently(f, n) ==
    /\ phase[f][n] = "asked" /\ Kind(n) = "rest"
    /\ \/ \E to \in {"net", "done"} : Go(f, n, to) /\ UNCHANGED result
       \/ Answer(f, n, Null, TRUE)
    /\ UNCHANGED <<current, buffers, Outside>>

(* fetch_rest: a function or parameter that cannot be obtained, or a call  *)
(* that cannot be made, is answered at once.                               *)
GetRest(f, n) ==
    /\ phase[f][n] = "asked" /\ Kind(n) = "rest"
    /\ \/ Go(f, n, "net") /\ UNCHANGED result
       \/ \E error \in BOOLEAN : Answer(f, n, Null, error)
    /\ UNCHANGED <<current, buffers, Outside>>

GetRegexp(f, n) ==
    /\ phase[f][n] = "asked" /\ Kind(n) = "regexp"
    /\ Go(f, n, "subs")
    /\ UNCHANGED <<current, result, buffers, Outside>>

-----------------------------------------------------------------------------
(* fetch_subregexp.                                                        *)

(* Seeded fault: the sub-regexps are all started before they answer.       *)
SubregexpsAtOnce(f, n) ==
    /\ phase[f][n] = "subs" /\ current[f][n] <= Len(Subregexps(n))
    /\ phase' = [phase EXCEPT ![f][Subregexps(n)[current[f][n]]] = "asked"]
    /\ current' = [current EXCEPT ![f][n] = @ + 1]
    /\ UNCHANGED <<result, buffers, Outside>>

Subregexp(f, n) ==
    /\ phase[f][n] = "subs" /\ current[f][n] <= Len(Subregexps(n))
    /\ phase' = [phase EXCEPT ![f][n] = "sub",
                              ![f][Subregexps(n)[current[f][n]]] = "asked"]
    /\ UNCHANGED <<current, result, buffers, Outside>>

(* Nothing, for a buffer that no output goes to.                           *)
Buffer(b) == IF b \in Ids THEN buffers[b] ELSE Null

(* Seeded fault: a NULL input or buffer goes into the output.              *)
MadeOfNull(n, input) == {Null, input \cup UNION {Buffer(b) : b \in FetchData[n].mentions}}

(* The buffers it mentions that have content.                              *)
Mentioned(n) == {Buffer(b) : b \in FetchData[n].mentions} \ {Null}

(* What fetch_regexp_input_obtained can make of an input: nothing, if it   *)
(* does not match or the expression is not valid; else its output, made    *)
(* from the buffers that output and expression mention and, where it has   *)
(* references, from the input.                                             *)
Made(n, input) ==
    {Null, UNION Mentioned(n), UNION (Mentioned(n) \cup ({input} \ {Null}))}

(* Seeded fault: the input is taken while sub-regexps are left.            *)
AllSubregexpsButOne(f, n) == current[f][n] >= Len(Subregexps(n))

AllSubregexps(f, n) == current[f][n] > Len(Subregexps(n))

RegexpInput(f, n) ==
    /\ phase[f][n] = "subs" /\ AllSubregexps(f, n)
    /\ CASE FetchData[n].ref # "" ->
               \E content \in Made(n, Buffer(FetchData[n].ref)) : Answer(f, n, content, FALSE)
         [] FetchData[n].ref = "" /\ Input(n) = NoInput ->
               \E content \in Made(n, Null) : Answer(f, n, content, FALSE)
         [] OTHER -> AskInput(f, n)
    /\ UNCHANGED <<current, buffers, Outside>>

-----------------------------------------------------------------------------
(* The callbacks a step of the fetch is answered to.                       *)

Content(f) == result[f].content

(* n is done, and its callback has moved its owner on.                     *)
Pass(f, n, owner, to) == phase' = [phase EXCEPT ![f][n] = "done", ![f][owner] = to]

(* fetch_data_url_obtained: the URL is asked for, if there is one.         *)
UrlObtained(f, n, url) ==
    /\ Pass(f, n, url, IF result[f].error \/ Content(f) = Null THEN "answering" ELSE "net")
    /\ result' = [result EXCEPT ![f].content = Null]
    /\ UNCHANGED <<current, buffers>>

(* What fetch_replace_input_obtained can make of an input: the same text   *)
(* without an expression, NULL with one that is not valid, or a text with  *)
(* all or part of it replaced.                                             *)
Replaced(n, input) ==
    IF input = Null THEN {Null}
    ELSE {Null, input, UNION Mentioned(n), input \cup UNION Mentioned(n)}

ReplaceInputObtained(f, n, replace) ==
    /\ Pass(f, n, replace, "answering")
    /\ \E content \in Replaced(replace, Content(f)) :
         result' = [result EXCEPT ![f].content = content]
    /\ UNCHANGED <<current, buffers>>

(* Seeded fault: a sub-regexp without output is fetched again.             *)
SubregexpUntilOutput(f, n, regexp) ==
    /\ Pass(f, n, regexp, "subs")
    /\ IF Content(f) = Null
       THEN UNCHANGED <<buffers, current>>
       ELSE /\ buffers' = [buffers EXCEPT ![FetchData[n].id] = Content(f)]
            /\ current' = [current EXCEPT ![f][regexp] = @ + 1]
    /\ UNCHANGED result

(* fetch_regexp_subregexp_obtained: the output is left in its buffer, and  *)
(* without output what is there stays.                                     *)
SubregexpObtained(f, n, regexp) ==
    /\ Pass(f, n, regexp, "subs")
    /\ buffers' = IF Content(f) = Null THEN buffers
                  ELSE [buffers EXCEPT ![FetchData[n].id] = Content(f)]
    /\ current' = [current EXCEPT ![f][regexp] = @ + 1]
    /\ UNCHANGED result

(* fetch_regexp_input_obtained: an error of the input is not looked at.    *)
RegexpInputObtained(f, n, regexp) ==
    /\ Pass(f, n, regexp, "answering")
    /\ \E content \in Made(regexp, Content(f)) :
         result' = [result EXCEPT ![f] = [content |-> content, error |-> FALSE]]
    /\ UNCHANGED <<current, buffers>>

Callback(f, n) ==
    /\ phase[f][n] = "answering" /\ n # root[f]
    /\ LET owner == Owner(n) IN
         \/ Kind(owner) = "url" /\ UrlObtained(f, n, owner)
         \/ Kind(owner) = "replace" /\ ReplaceInputObtained(f, n, owner)
         \/ IsSubregexp(n, owner) /\ SubregexpObtained(f, n, owner)
         \/ Kind(owner) = "regexp" /\ Input(owner) = n /\ RegexpInputObtained(f, n, owner)
    /\ UNCHANGED Outside

(* The callback of the operation: fetch_data_obtained and its like.        *)
Answered(f) ==
    /\ phase[f][root[f]] = "answering"
    /\ Go(f, root[f], "done")
    /\ answers' = [answers EXCEPT ![f] = @ + 1]
    /\ got' = [got EXCEPT ![f] = Content(f)]
    /\ UNCHANGED <<root, current, result, buffers, cancelled>>

(* fetch_data_url_content_obtained, fetch_rest_fetched.                    *)
NetAnswers(f, n) ==
    /\ phase[f][n] = "net" /\ Quiet
    /\ \/ Answer(f, n, Null, TRUE)
       \/ ~cancelled /\ Answer(f, n, {f}, FALSE)
    /\ UNCHANGED <<current, buffers, Outside>>

Cancel ==
    /\ Quiet /\ ~cancelled
    /\ cancelled' = TRUE
    /\ UNCHANGED <<root, phase, current, result, buffers, answers, got>>

Run == \E f \in Fetches :
    \/ Answered(f)
    \/ \E n \in Data :
         \/ GetHere(f, n) \/ GetInput(f, n) \/ GetRest(f, n) \/ GetRegexp(f, n)
         \/ Subregexp(f, n) \/ RegexpInput(f, n) \/ Callback(f, n)

Dispatch == \E f \in Fetches, n \in Data : NetAnswers(f, n)

Next == Run \/ Dispatch \/ Cancel \/ \E f \in Fetches : Start(f)

Safety == Init /\ [][Next]_vars

(* Code on the stack goes on; the network answers, with data or an error.  *)
Spec == Safety /\ WF_vars(Run) /\ WF_vars(Dispatch)
-----------------------------------------------------------------------------
(* Properties.                                                             *)

(* The callback is called once at most, and when it is nothing of the      *)
(* fetch is left that could call it again or point to what it freed.       *)
AnsweredIsFinished ==
    \A f \in Fetches :
        /\ answers[f] <= 1
        /\ answers[f] = 1 => \A n \in Data : phase[f][n] \in {"idle", "done"}

(* A regexp takes its input when all its sub-regexps have left theirs.     *)
InputAfterSubregexps ==
    \A f \in Fetches, n \in Data :
        phase[f][n] \in {"input", "answering"} /\ Kind(n) = "regexp" =>
            \A i \in DOMAIN Subregexps(n) : phase[f][Subregexps(n)[i]] = "done"

(* A fetch that is not over and has no code on the stack has asked the     *)
(* network for something: the main loop comes back to it.                  *)
FetchIsNotForgotten ==
    Quiet => \A f \in Fetches :
        phase[f][root[f]] \notin {"idle", "done"} => \E n \in Data : phase[f][n] = "net"

(* How many steps a FetchData can still take in a fetch: two for each of   *)
(* its sub-regexps that has not answered, and those of its own.            *)
PhaseRank == [idle |-> 7, asked |-> 6, subs |-> 5, sub |-> 4, input |-> 3, net |-> 2,
              answering |-> 1, done |-> 0]
Left(f, n) == PhaseRank[phase[f][n]] + 2 * (Len(Subregexps(n)) + 1 - current[f][n])

(* Each step of a fetch brings the end of one of its FetchData nearer, and *)
(* takes none back: nothing is asked for, waited for or answered twice.    *)
FetchesRunOut ==
    [][Run \/ Dispatch =>
          /\ \A f \in Fetches, n \in Data : Left(f, n)' \in 0..Left(f, n)
          /\ \E f \in Fetches, n \in Data : Left(f, n)' # Left(f, n)]_vars

(* Fetches are bound to end, if only the network answers.                  *)
FetchesAreBoundToEnd == []FetchIsNotForgotten /\ FetchesRunOut

(* Every fetch is answered, whatever its inputs, the network and a         *)
(* cancellation do.                                                        *)
EveryFetchAnswers ==
    \A f \in Fetches : phase[f][root[f]] # "idle" ~> answers[f] = 1

(* An output without an id is irrelevant, "as it can't be referenced by    *)
(* any other subregexp or this same regexp": it is for the regexp around   *)
(* it.  The content of a fetch is then made from data of that fetch only.  *)
OwnData ==
    \A f \in Fetches : got[f] # Null => got[f] \subseteq {f}
=============================================================================
