--------------------------- MODULE MCSourceLoader ---------------------------
(* Instances of SourceLoader for TLC: files that differ in one part from a *)
(* small one.                                                              *)
EXTENDS SourceLoader

Leaf(kind) == [kind |-> kind, input |-> NoInput, subregexps |-> <<>>, ref |-> "", id |-> "",
               text |-> TRUE, oauth |-> FALSE]
Of(kind, input) == [Leaf(kind) EXCEPT !.input = input]

MCElements ==
    [text    |-> Leaf("raw"),
     blank   |-> [Leaf("raw") EXCEPT !.text = FALSE],
     script  |-> Leaf("script"),
     noLua   |-> [Leaf("script") EXCEPT !.text = FALSE],
     page    |-> Of("url", "text"),
     noPage  |-> Of("url", "blank"),
     call    |-> Leaf("rest"),
     oauth   |-> [Leaf("rest") EXCEPT !.oauth = TRUE],
     signed  |-> Of("url", "oauth"),
     swap    |-> Of("replace", "page"),
     noSwap  |-> Of("replace", "oauth"),
     plain   |-> Of("regexp", "text"),
     named   |-> [Of("regexp", "oauth") EXCEPT !.id = "a"],
     both    |-> [Leaf("regexp") EXCEPT !.subregexps = <<"named", "plain">>, !.ref = "a"],
     nested  |-> [Of("regexp", "page") EXCEPT !.subregexps = <<"both">>]]

MCSupported == {"id", "source", "title", "artist"}
MCForced == {"id", "source"}
MCLanguages == <<"ca_ES", "ca", "C">>

(* Functions from some of S to values.                                     *)
Partial(S, values) == UNION {[D -> values] : D \in SUBSET S}

Options == {"api-key", "api-secret"}
Small == [valid |-> TRUE, script |-> FALSE, options |-> {}, defaults |-> <<>>, strings |-> <<>>,
          operations |-> <<>>, medias |-> <<>>]

With(specs) == {[spec |-> s, configs |-> <<>>] : s \in specs}

(* Every way to give two options a value in up to three configurations of  *)
(* every kind, and in the file; each value says where it comes from.       *)
ConfigAt(i) == {[of |-> of, has |-> has] : of \in {"this", "any", "other"},
                                           has \in Partial(Options, {i})}
Configs ==
    {<<>>} \cup {<<a>> : a \in ConfigAt(1)} \cup {<<a, b>> : a \in ConfigAt(1), b \in ConfigAt(2)}
    \cup {<<a, b, c>> : a \in ConfigAt(1), b \in ConfigAt(2), c \in ConfigAt(3)}
ConfigInputs ==
    [spec : {[Small EXCEPT !.options = Options, !.defaults = d] : d \in Partial(Options, {0})},
     configs : Configs]

(* Files that are skipped or may be.                                       *)
SkippedInputs == With({[Small EXCEPT !.valid = FALSE], [Small EXCEPT !.script = TRUE]})

(* Up to three blocks of strings in languages of the user and another.     *)
BlockAt(i) == {[lang |-> lang, texts |-> texts] : lang \in {"", "ca", "ca_ES", "fr"},
                                                 texts \in Partial({"hi", "bye"}, {i})}
Strings == {<<a>> : a \in BlockAt(1)} \cup {<<a, b>> : a \in BlockAt(1), b \in BlockAt(2)}
           \cup {<<a, b, c>> : a \in BlockAt(1), b \in BlockAt(2), c \in BlockAt(3)}
StringInputs == With({[Small EXCEPT !.strings = s] : s \in Strings})

(* A search and three browses and resolves that declare results, refer to  *)
(* them, or have none.                                                     *)
Op0(kind) == [kind |-> kind, requires |-> <<>>, ref |-> "", id |-> "", query |-> "text"]
Results(kind) ==
    {[Op0(kind) EXCEPT !.id = id, !.query = query] : id \in {"", "x", "y"}, query \in {"text", "blank"}}
    \cup {[Op0(kind) EXCEPT !.ref = ref] : ref \in {"x", "y"}}
Lists ==
    {<<a, b, c, d>> : a \in Results("search"), b \in Results("browse"),
                      c \in Results("browse") \cup Results("resolve"), d \in Results("resolve")}
OperationInputs == With({[Small EXCEPT !.operations = ops] : ops \in Lists})

(* Up to three requirements of an operation with a result or without, and  *)
(* a media with keys of every kind.                                        *)
Require == [key : {"title", "artist", "unknown"}, match : {"none", "right", "wrong"}]
Requires == {<<>>} \cup {<<a>> : a \in Require} \cup {<<a, b>> : a, b \in Require}
            \cup {<<a, b, c>> : a, b, c \in Require}
Key(k) == [key |-> k, force |-> FALSE, slow |-> FALSE, resolve |-> FALSE, data |-> "text"]
Keys == {[Key(k) EXCEPT !.force = f, !.slow = s, !.data = d] :
            k \in {"title", "unknown"}, f, s \in BOOLEAN, d \in {"text", "blank", NoInput}}
ManyKeys == <<Key("id"), [Key("artist") EXCEPT !.resolve = TRUE], [Key("title") EXCEPT !.slow = TRUE]>>
Browse(requires, query) == [Op0("browse") EXCEPT !.requires = requires, !.query = query]
RequireInputs ==
    With({[Small EXCEPT !.operations = <<Browse(r, q)>>, !.medias = <<ManyKeys>>] :
            r \in Requires, q \in {"text", "blank"}})
MediaInputs ==
    With({[Small EXCEPT !.operations = <<Browse(<<[key |-> "title", match |-> "none"]>>, q)>>,
                        !.medias = <<ManyKeys, <<a, b>>>>] :
            a, b \in Keys, q \in {"text", "blank"}})

(* Every element as a query and as the data of a key that has another.     *)
ElementInputs ==
    [spec : {[Small EXCEPT !.options = options, !.operations = <<Browse(<<>>, n)>>,
                           !.medias = <<<<[Key("title") EXCEPT !.data = m], Key("title")>>>>] :
               options \in {{}, Options}, n \in DOMAIN MCElements, m \in DOMAIN MCElements},
     configs : {<<[of |-> "any", has |-> [o \in Options |-> 1]]>>}]

MCInputs == ConfigInputs \cup SkippedInputs \cup StringInputs \cup OperationInputs
            \cup RequireInputs \cup MediaInputs \cup ElementInputs
=============================================================================
