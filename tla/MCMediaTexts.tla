---------------------------- MODULE MCMediaTexts ----------------------------
(* Instances of MediaTexts for TLC. *)
EXTENDS MediaTexts

MCWords == STRING

Literal(text) == Piece("literal", text)

(* Texts of every kind of piece, alone and beside others: no name, only    *)
(* names of the configuration, names that the configuration and the        *)
(* located strings bring in, unknown names, and no text.                   *)
MCTexts ==
    LET title == Piece("key", "title")
        private == Piece("priv", "p")
        pieces == {Literal("a"), title, Piece("param", "search_text"), Piece("buf", "b"),
                   private, Piece("conf", "api_key"), Piece("conf", "unset"),
                   Piece("str", "best"), Piece("str", "second"), Piece("percent", ""),
                   Piece("other", "o")}
    IN  {<<>>, NoText} \cup {<<p>> : p \in pieces} \cup {<<title, p>> : p \in pieces \ {title}}
        \cup {<<private, Piece("buf", "b")>>}

MCConfig == [api_key |-> <<Literal("k")>>]

(* A located string may have names in it, and a language lack a string.    *)
MCLocated ==
    <<[best |-> <<Literal("s")>>],
      [best |-> <<Literal("t")>>, second |-> <<Literal("u"), Piece("key", "title")>>]>>

(* The values a name may have, among those of the medias and of the calls. *)
Values(p) ==
    CASE p.kind = "param" -> {<<Literal("w")>>}
      [] p.kind = "buf"   -> {<<Literal("x")>>}
      [] OTHER            -> {<<Literal("v")>>, <<Literal("z")>>}
MCNames == {Piece("key", "title"), Piece("priv", "p"), Piece("priv", "q"),
              Piece("param", "search_text"), Piece("buf", "b")}
Functions(S) == {d \in [S -> UNION {Values(p) : p \in S}] : \A p \in S : d[p] \in Values(p)}
MCData == {NoData} \cup UNION {Functions(S) : S \in SUBSET MCNames}

MCOwnData ==
    {[p \in {} |-> <<>>], [p \in {Piece("param", "search_text")} |-> <<Literal("w")>>],
     [p \in {Piece("buf", "b")} |-> <<Literal("x")>>]}

(* Medias without private keys, with one, with another, with both, and     *)
(* with one that is NULL.                                                  *)
V == <<Literal("v")>>
Z == <<Literal("z")>>
MCMedias ==
    {[keys |-> <<>>, private |-> NoPrivate],
     [keys |-> [title |-> V], private |-> [p |-> V]],
     [keys |-> [title |-> Z], private |-> [p |-> Z, q |-> V]],
     [keys |-> <<>>, private |-> [q |-> Z]],
     [keys |-> [title |-> V], private |-> [p |-> NoValue, q |-> Z]]}
=============================================================================
