----------------------------- MODULE FetchTree ------------------------------
(***************************************************************************)
(* The FetchData structures of a source: what the loader makes of the      *)
(* elements of the source file and what a fetch goes through.  Each has a  *)
(* name; a tree of them is a function from names to structures.            *)
(***************************************************************************)
EXTENDS Sequences

CONSTANT NoInput     \* a FetchData that is NULL

Kinds == {"raw", "script", "url", "rest", "replace", "regexp"}

(* A tree that can be fetched.  A structure is a record: what it is, what  *)
(* it takes its input from and, for a regexp, its sub-regexps, the buffer  *)
(* it reads instead of an input ("" for none), and the buffer its output   *)
(* goes to.  Only a regexp may have no input, and a sub-regexp is a regexp *)
(* whose output goes to a buffer.                                          *)
Fetchable(tree) ==
    \A n \in DOMAIN tree :
        /\ tree[n].kind \in Kinds
        /\ tree[n].input \in DOMAIN tree \cup {NoInput}
        /\ tree[n].kind \in {"url", "replace"} => tree[n].input # NoInput
        /\ tree[n].subregexps \in Seq(DOMAIN tree)
        /\ \A i \in DOMAIN tree[n].subregexps :
             LET sub == tree[tree[n].subregexps[i]]
             IN  sub.kind = "regexp" /\ sub.id # ""
=============================================================================
