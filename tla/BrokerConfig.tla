---------------------------- MODULE BrokerConfig ----------------------------
(***************************************************************************)
(* The start of the broker: main reads its environment (config.Load),      *)
(* builds the AWS configuration and the GitHub client (NewClient), and     *)
(* serves or exits.  Nothing of it happens twice or by turns: the start is *)
(* a function of the environment.  Deployed are the environments that      *)
(* terraform/ makes of variables that passed their validation.             *)
(*                                                                         *)
(* A text is what the patterns tell apart: the class of its first character *)
(* ("word" for letters, digits and _.-), the classes of the others, and     *)
(* whether there is white space around it.                                 *)
(***************************************************************************)
EXTENDS Naturals, FiniteSets

CONSTANTS
    Environments,   \* the environments considered
    Blank,          \* a variable that is not set or white space
    Malformed,      \* one that does not parse
    Refused         \* what Load returns with an error

Text(first, rest, padded) == [first |-> first, rest |-> rest, padded |-> padded]
Unset == Text("none", {}, FALSE)

Parameters == {"client_id", "installation_id", "private_key"}
Names == {"owner", "name"}

----------------------------------------------------------------------------
(* config.Load                                                             *)

TrimSpace(text) == Text(text.first, text.rest, FALSE)

\* ^[A-Za-z0-9_.-]+$
githubLiteralNamePattern(text) ==
    text.first = "word" /\ text.rest \subseteq {"word"} /\ ~text.padded

\* Mutant of ssmParameterPathPattern: one segment and no more.
OneSegmentPattern(text) ==
    text.first = "slash" /\ text.rest = {"word"} /\ ~text.padded

\* ^/[A-Za-z0-9_.\-/]+$
ssmParameterPathPattern(text) ==
    /\ text.first = "slash"
    /\ text.rest # {} /\ text.rest \subseteq {"word", "slash"}
    /\ ~text.padded

\* All parameters have a path by default; a URL that is not set is the public API.
DefaultPath == Text("slash", {"word", "slash"}, FALSE)
DefaultURL == [scheme |-> "https", host |-> "remote"]
envOrDefault(text) == IF TrimSpace(text) = Unset THEN DefaultPath ELSE TrimSpace(text)
BaseURL(url) == IF url = Blank THEN DefaultURL ELSE url

DefaultPermissions == {<<"contents", "read">>}
loadPermissions(raw) == IF raw = Blank THEN DefaultPermissions ELSE raw

\* A JSON null for an object or a level decodes to an empty one.
PermissionsUsable(permissions) ==
    /\ permissions # Malformed
    /\ permissions # {}
    /\ \A p \in permissions : p[1] # "" /\ p[2] # ""

Loaded(e) ==
    [params |-> [p \in Parameters |-> envOrDefault(e.params[p])],
     names |-> [n \in Names |-> TrimSpace(e.names[n])],
     url |-> BaseURL(e.url),
     permissions |-> loadPermissions(e.permissions)]

Valid(c) ==
    /\ \A p \in Parameters : ssmParameterPathPattern(c.params[p])
    /\ \A n \in Names : githubLiteralNamePattern(c.names[n])
    /\ PermissionsUsable(c.permissions)

Load(e) == IF e.region # Unset /\ Valid(Loaded(e)) THEN Loaded(e) ELSE Refused

----------------------------------------------------------------------------
(* main                                                                    *)

Secure(url) ==
    /\ url # Malformed
    /\ url.scheme # "" /\ url.host # ""
    /\ url.scheme = "https" \/ (url.scheme = "http" /\ url.host = "loopback")

\* main serves unless Load, the AWS configuration or NewClient has an error.
Serves(e) == Load(e) # Refused /\ Secure(Load(e).url)

----------------------------------------------------------------------------
(* terraform/variables.tf and locals.tf                                    *)

\* The conditions of repository_owner and repository_name: these are not trimmed.
NameIsLiteral(text) ==
    text.first = "word" /\ text.rest \subseteq {"word"} /\ ~text.padded

\* The condition of ssm_parameter_paths, neither.
PathIsLiteral(text) ==
    /\ text.first = "slash"
    /\ text.rest # {} /\ text.rest \subseteq {"word", "slash"}
    /\ ~text.padded

\* The conditions of permissions: these are trimmed before they are compared.
PermissionsNamed(permissions) ==
    /\ permissions # {}
    /\ \A p \in permissions : {p[1], p[2]} \cap {"", "white space"} = {}

\* What a validated deployment puts into the environment: the base URL is not
\* validated, a map is always JSON, and Lambda sets the region.
Deployed(e) ==
    /\ e.region # Unset
    /\ \A p \in Parameters : PathIsLiteral(e.params[p])
    /\ \A n \in Names : NameIsLiteral(e.names[n])
    /\ e.permissions \notin {Blank, Malformed} /\ PermissionsNamed(e.permissions)
=============================================================================
