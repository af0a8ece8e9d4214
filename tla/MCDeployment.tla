---------------------------- MODULE MCDeployment ----------------------------
(***************************************************************************)
(* The environments are a plain one and those that differ from it in one   *)
(* variable.                                                               *)
(***************************************************************************)
EXTENDS Deployment

\* Nothing, white space, and short and longer texts of each class.
MCTexts ==
    {Unset, Text("none", {}, TRUE)}
    \cup [first : {"word", "slash"}, rest : {{}, {"word"}, {"word", "slash"}, {"other"}},
          padded : {FALSE}]
    \cup {Text("other", {"word"}, FALSE), Text("word", {"word"}, TRUE),
          Text("slash", {"word"}, TRUE)}

MCPermissions ==
    {Blank, Malformed, {}, {<<"contents", "read">>}, {<<"contents", "">>}, {<<"", "read">>},
     {<<"contents", "read">>, <<"issues", "write">>}, {<<"white space", "read">>},
     {<<"contents", "read">>, <<"issues", "white space">>}}

MCURLs ==
    {Blank, Malformed}
    \cup [scheme : {"https", "http", ""}, host : {"remote", "loopback", ""}]

Plain == [region |-> Text("word", {"word"}, FALSE),
          params |-> [p \in Parameters |-> DefaultPath],
          names |-> [n \in Names |-> Text("word", {"word"}, FALSE)],
          url |-> Blank,
          permissions |-> {<<"contents", "read">>}]

MCEnvironments ==
    {[Plain EXCEPT !.region = Unset]}
    \cup {[Plain EXCEPT !.params[p] = text] : p \in Parameters, text \in MCTexts}
    \cup {[Plain EXCEPT !.names[n] = text] : n \in Names, text \in MCTexts}
    \cup {[Plain EXCEPT !.url = url] : url \in MCURLs}
    \cup {[Plain EXCEPT !.permissions = permissions] : permissions \in MCPermissions}
=============================================================================
