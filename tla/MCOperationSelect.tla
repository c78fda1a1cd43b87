-------------------------- MODULE MCOperationSelect --------------------------
(* Instances of OperationSelect for TLC. *)
EXTENDS OperationSelect

MCKeyType == [artist |-> "string", bitrate |-> "int", rating |-> "float"]

Needs(key) == [key |-> key, regexp |-> FALSE, texts |-> {}]
Like(key, texts) == [key |-> key, regexp |-> TRUE, texts |-> texts]

MCOperations ==
    [key : {NoKey, "title"}, any : {FALSE, TRUE}, types : {{"audio"}},
     requirements : {<<>>, <<Needs("artist")>>, <<Needs("bitrate")>>,
                     <<Like("artist", {""})>>, <<Like("bitrate", {"0"})>>,
                     <<Needs("artist"), Like("bitrate", {"256"})>>,
                     <<Like("bitrate", {"256"}), Needs("artist")>>}]
    \cup {[key |-> "date", any |-> TRUE, types |-> {"audio", "video"},
           requirements |-> <<Like("rating", {"0.000000"}), Needs("artist")>>]}

MCMedia ==
    [type : {"audio", "video"}, own : BOOLEAN,
     values : [artist : {NoValue, "Bach"}, bitrate : {NoValue, "256"},
               rating : {NoValue, "4.500000"}]]

MCRequests ==
    [call : {"browse", "resolve"}, media : MCMedia, key : {NoKey}, supported : {TRUE}]
    \cup [call : {"may_resolve"}, media : MCMedia \cup {NoMedia}, key : {"title"},
          supported : BOOLEAN]
=============================================================================
