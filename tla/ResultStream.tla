---------------------------- MODULE ResultStream ----------------------------
(***************************************************************************)
(* What a browse, search or resolve call promises to its caller: the       *)
(* caller's callback gets either one closing answer without media          *)
(* (callback (NULL, 0, ...)), or a run of media whose `remaining` argument *)
(* counts down by one at a time and reaches 0 with the last of them.       *)
(* Nothing follows the answer whose `remaining` is 0.                      *)
(***************************************************************************)
EXTENDS Integers

CONSTANT MaxResults    \* most media one operation hands over

VARIABLES
    media,             \* how many media the caller has got
    remaining,         \* `remaining` of the last answer; -1 before the first
    answer             \* "open", or how the stream was closed

vars == <<media, remaining, answer>>

(* Closing answers without media: no result, an error, or a cancellation.  *)
Closings == {"nothing", "error", "cancelled"}

TypeOK ==
    /\ media \in 0..MaxResults
    /\ remaining \in -1..MaxResults
    /\ answer \in {"open", "complete"} \cup Closings

Init ==
    /\ media = 0
    /\ remaining = -1
    /\ answer = "open"

(* callback (NULL, 0, user_data, error): only as the first and last answer. *)
Close ==
    /\ answer = "open"
    /\ media = 0
    /\ answer' \in Closings
    /\ remaining' = 0
    /\ media' = media

(* callback (media, remaining, user_data, NULL). *)
Deliver ==
    /\ answer = "open"
    /\ media' = media + 1
    /\ remaining' \in IF media = 0 THEN 0..(MaxResults - 1) ELSE {remaining - 1}
    /\ answer' = IF remaining' = 0 THEN "complete" ELSE "open"

Next == Close \/ Deliver

Safety == Init /\ [][Next]_vars

(* A call is always answered to the end.                                   *)
Spec == Safety /\ WF_vars(Next)
=============================================================================
