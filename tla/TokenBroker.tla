---------------------------- MODULE TokenBroker ----------------------------
(***************************************************************************)
(* The Lambda token broker (internal/handler, internal/broker,             *)
(* internal/params, internal/githubapp), with concurrent invocations, the  *)
(* two services it calls, and the operators who change both under it.      *)
(*                                                                         *)
(* One invocation is one run of Handler.Handle.  It reads the three SSM    *)
(* parameters, signs a JWT, asks GitHub which installation covers the      *)
(* target repository, and only then asks that installation for a token.    *)
(* Each of these is a step of its own: parameters, keys, repository        *)
(* selections and the deployed target may change between any two of them.  *)
(***************************************************************************)
EXTENDS Naturals, Sequences

CONSTANTS
    Invocations,    \* Lambda invocations (the bound on how many there are)
    Texts,          \* values an SSM parameter may hold
    Absent,         \* marks a parameter that does not exist
    NoConfig,       \* the Go zero value githubapp.AppConfig{}
    NoResponse,     \* the Go zero value broker.Response{}
    Writable,       \* parameter -> texts an operator may store in it
    RsaKey,         \* PEM texts that parse -> the RSA key they hold
    Keys,           \* RSA keys
    ClientIDs,      \* client IDs of the GitHub Apps that exist
    Installations,  \* installation IDs on GitHub
    Installation,   \* installation -> its App, account and permissions
    FormatInt,      \* installation -> its ID in decimal
    Names,          \* repository names
    Targets,        \* targets the broker may be deployed with
    LogLevel,       \* GITHUB_TOKEN_BROKER_LOG_LEVEL
    Faults,         \* which of "ssm", "network", "timeout" may happen
    MaxChanges      \* bound on operator changes

Parameters == {"ClientID", "InstallationID", "PrivateKey"}
ParameterStates == [Parameters -> Texts \cup {Absent}]
Owners == {Installation[n].owner : n \in Installations}
Permissions == UNION {t.Permissions : t \in Targets}

\* FormatInt is strconv.FormatInt: two IDs never share a text.  An App has at
\* most one installation on an account.
ASSUME WorldAssumption ==
    /\ Absent \notin Texts
    /\ NoConfig \notin ParameterStates
    /\ ClientIDs \subseteq Texts
    /\ Writable \in [Parameters -> SUBSET Texts]
    /\ DOMAIN RsaKey \subseteq Texts
    /\ \A pem \in DOMAIN RsaKey : RsaKey[pem] \in Keys
    /\ FormatInt \in [Installations -> Texts]
    /\ \A m, n \in Installations : FormatInt[m] = FormatInt[n] => m = n
    /\ \A m, n \in Installations :
          /\ Installation[m].client = Installation[n].client
          /\ Installation[m].owner = Installation[n].owner
          => m = n
    /\ \A t \in Targets : /\ t.Repository \in Names
                          /\ t.Permissions # {}
    /\ MaxChanges \in Nat
    /\ Faults \subseteq {"ssm", "network", "timeout"}

VARIABLES
    ssm,        \* versions of the parameter store, the latest last
    appKeys,    \* App -> keys GitHub accepts for it
    selected,   \* installation -> repositories it covers
    deployed,   \* target in the Lambda's environment
    changes,    \* operator changes so far
    issued,     \* tokens GitHub has issued, in order
    posted,     \* invocations whose token request is on the wire
    pc,         \* where each invocation is
    target,     \* Service.target of the instance that runs the invocation
    app,        \* AppConfig the invocation read
    token,      \* index in issued of the token it received, or 0
    answer,     \* how it ended
    response,   \* what the caller received
    logs,       \* levels of the lines it logged
    since,      \* history: version of ssm when it began
    steady      \* history: it began in a healthy world, untouched since

world == <<ssm, appKeys, selected, deployed, changes>>
github == <<issued, posted>>
local == <<target, app, token, response, since>>
vars == <<world, github, pc, local, answer, logs, steady>>

InFlight == {"load", "sign", "validate", "exchange", "decode", "respond"}

Failures == {"input", "ssm", "key", "preflight", "mismatch", "refused",
             "transport", "timeout"}

Repository(t) == <<t.Owner, t.Repository>>

----------------------------------------------------------------------------
(* GitHub and SSM as the broker uses them                                  *)

Parameter == ssm[Len(ssm)]

\* The JWT names the App by client ID and is signed with the key the PEM holds.
Authenticated(config) ==
    /\ config.ClientID \in ClientIDs
    /\ config.PrivateKey \in DOMAIN RsaKey
    /\ RsaKey[config.PrivateKey] \in appKeys[config.ClientID]

\* GET /repos/{owner}/{repo}/installation: the App's installation, if any.
RepositoryInstallation(client, t) ==
    {n \in Installations : /\ Installation[n].client = client
                           /\ Installation[n].owner = t.Owner
                           /\ t.Repository \in selected[n]}

\* POST /app/installations/{id}/access_tokens names repositories without
\* their owner: the installation's account supplies it.
TokenGrantedBy(n, config, t) ==
    /\ Authenticated(config)
    /\ Installation[n].client = config.ClientID
    /\ FormatInt[n] = config.InstallationID
    /\ t.Repository \in selected[n]
    /\ t.Permissions \subseteq Installation[n].granted

\* Nothing an invocation for t relies on is out of order.
Healthy(t) ==
    /\ \A p \in Parameters : Parameter[p] # Absent
    /\ \E n \in Installations : /\ TokenGrantedBy(n, Parameter, t)
                                /\ Installation[n].owner = t.Owner

----------------------------------------------------------------------------
(* Logging                                                                 *)

Severity == [debug |-> 0, info |-> 1, warn |-> 2, error |-> 3]

\* newLogger: an unknown level counts as info.
Threshold == Severity[IF LogLevel \in DOMAIN Severity THEN LogLevel ELSE "info"]

LogLine(i, level) ==
    logs' = [logs EXCEPT ![i] =
                @ \cup (IF Severity[level] >= Threshold THEN {level} ELSE {})]

\* Mutant of Fail: Handle does not return after an error, and logs the mint.
FailWithMintLine(i, reason) ==
    /\ pc' = [pc EXCEPT ![i] = "done"]
    /\ answer' = [answer EXCEPT ![i] = reason]
    /\ LogLine(i, "info")
    /\ UNCHANGED local

\* CreateInstallationToken or LoadAppConfig returned an error, so Handle logs
\* it and returns it.
Fail(i, reason) ==
    /\ pc' = [pc EXCEPT ![i] = "done"]
    /\ answer' = [answer EXCEPT ![i] = reason]
    /\ LogLine(i, "error")
    /\ UNCHANGED local

\* A fault of the world ends the invocation's claim on a healthy one.
Disturbed(i) == steady' = [steady EXCEPT ![i] = FALSE]

Advance(i, next) == pc' = [pc EXCEPT ![i] = next]

----------------------------------------------------------------------------
(* One invocation                                                          *)

\* validateEmptyPayload.
Empty(payload) == payload \in {"blank", "null"}

\* Lambda starts Handle in an instance deployed with the current target.
Handle(i, payload) ==
    /\ pc[i] = "idle"
    /\ target' = [target EXCEPT ![i] = deployed]
    /\ since' = [since EXCEPT ![i] = Len(ssm)]
    /\ \/ /\ Empty(payload)
          /\ Advance(i, "load")
          /\ steady' = [steady EXCEPT ![i] = Healthy(deployed)]
          /\ UNCHANGED <<answer, logs>>
       \/ /\ ~Empty(payload)
          /\ Advance(i, "done")
          /\ answer' = [answer EXCEPT ![i] = "input"]
          /\ LogLine(i, "warn")
          /\ UNCHANGED steady
    /\ UNCHANGED <<world, github, app, token, response>>

\* Mutants of ReadParameters: parameters cached by the first cold start; the
\* names of two parameters swapped.
CachedParameters(i) == ssm[1]

SwappedParameters(i) ==
    [Parameter EXCEPT !.ClientID = Parameter.InstallationID,
                      !.InstallationID = Parameter.ClientID]

\* What LoadAppConfig reads: every parameter, in one GetParameters call.
ReadParameters(i) == Parameter

\* Mutant of LoadAppConfig: no requiredValue.
LoadWhateverIsThere(i) ==
    /\ pc[i] = "load"
    /\ app' = [app EXCEPT ![i] = ReadParameters(i)]
    /\ Advance(i, "sign")
    /\ UNCHANGED <<world, github, target, token, response, since, answer, logs, steady>>

LoadAppConfig(i) ==
    /\ pc[i] = "load"
    /\ LET config == ReadParameters(i) IN
       \/ /\ \A p \in Parameters : config[p] # Absent
          /\ app' = [app EXCEPT ![i] = config]
          /\ Advance(i, "sign")
          /\ UNCHANGED <<target, token, response, since, answer, logs>>
       \/ /\ \E p \in Parameters : config[p] = Absent
          /\ Fail(i, "ssm")
    /\ UNCHANGED <<world, github, steady>>

LoadAppConfigFails(i) ==
    /\ "ssm" \in Faults
    /\ pc[i] = "load"
    /\ Fail(i, "ssm")
    /\ Disturbed(i)
    /\ UNCHANGED <<world, github>>

\* signJWT: the clock and the claims are left to the JwtClock module.
SignJWT(i) ==
    /\ pc[i] = "sign"
    /\ \/ /\ app[i].PrivateKey \in DOMAIN RsaKey
          /\ Advance(i, "validate")
          /\ UNCHANGED <<local, answer, logs>>
       \/ /\ app[i].PrivateKey \notin DOMAIN RsaKey
          /\ Fail(i, "key")
    /\ UNCHANGED <<world, github, steady>>

\* Mutant of Matches: any installation will do.
AnyInstallation(i, n) == TRUE

\* The installation GitHub reports for the target is the configured one.
Matches(i, n) == FormatInt[n] = app[i].InstallationID

\* Mutant of ValidateRepositoryInstallation: the token request does not wait
\* for the outcome.
ValidateWhilePosting(i) ==
    /\ pc[i] = "validate"
    /\ posted' = posted \cup {i}
    /\ \/ /\ \E n \in RepositoryInstallation(app[i].ClientID, target[i]) : Matches(i, n)
          /\ Advance(i, "exchange")
          /\ UNCHANGED <<local, answer, logs>>
       \/ /\ \A n \in RepositoryInstallation(app[i].ClientID, target[i]) : ~Matches(i, n)
          /\ Fail(i, "mismatch")
    /\ UNCHANGED <<world, issued, steady>>

\* validateRepositoryInstallation, and on success the token request goes out.
ValidateRepositoryInstallation(i) ==
    /\ pc[i] = "validate"
    /\ LET found == IF Authenticated(app[i])
                    THEN RepositoryInstallation(app[i].ClientID, target[i])
                    ELSE {} IN
       \/ /\ \E n \in found : Matches(i, n)
          /\ Advance(i, "exchange")
          /\ posted' = posted \cup {i}
          /\ UNCHANGED <<local, answer, logs>>
       \/ /\ \E n \in found : ~Matches(i, n)
          /\ Fail(i, "mismatch")
          /\ UNCHANGED posted
       \/ /\ found = {}
          /\ Fail(i, "preflight")
          /\ UNCHANGED posted
    /\ UNCHANGED <<world, issued, steady>>

\* No usable answer to the preflight: connection, read or decoding error.
ValidateFails(i) ==
    /\ "network" \in Faults
    /\ pc[i] = "validate"
    /\ Fail(i, "transport")
    /\ Disturbed(i)
    /\ UNCHANGED <<world, github>>

\* Mutant of GrantToken: a late answer is taken like any other.
GrantWithoutAsking(i) ==
    /\ i \in posted
    /\ posted' = posted \ {i}
    /\ \E n \in Installations :
          /\ TokenGrantedBy(n, app[i], target[i])
          /\ issued' = Append(issued,
                [by |-> i,
                 repository |-> <<Installation[n].owner, target[i].Repository>>,
                 permissions |-> target[i].Permissions])
    /\ Advance(i, "decode")
    /\ token' = [token EXCEPT ![i] = Len(issued')]
    /\ UNCHANGED <<world, target, app, response, since, answer, logs, steady>>

\* GitHub serves the token request, whether or not anyone still waits for it.
GrantToken(i) ==
    /\ i \in posted
    /\ posted' = posted \ {i}
    /\ \E n \in Installations :
          /\ TokenGrantedBy(n, app[i], target[i])
          /\ issued' = Append(issued,
                [by |-> i,
                 repository |-> <<Installation[n].owner, target[i].Repository>>,
                 permissions |-> target[i].Permissions])
    /\ \/ /\ pc[i] = "exchange"
          /\ Advance(i, "decode")
          /\ token' = [token EXCEPT ![i] = Len(issued')]
       \/ /\ pc[i] # "exchange"
          /\ UNCHANGED <<pc, token>>
    /\ UNCHANGED <<world, target, app, response, since, answer, logs, steady>>

RefuseToken(i) ==
    /\ i \in posted
    /\ posted' = posted \ {i}
    /\ \A n \in Installations : ~TokenGrantedBy(n, app[i], target[i])
    /\ \/ /\ pc[i] = "exchange"
          /\ Fail(i, "refused")
       \/ /\ pc[i] # "exchange"
          /\ UNCHANGED <<pc, local, answer, logs>>
    /\ UNCHANGED <<world, issued, steady>>

\* Mutant of ExchangeFails: the client tries again.
RetryExchange(i) ==
    /\ "network" \in Faults
    /\ pc[i] \in {"exchange", "decode"}
    /\ posted' = posted \cup {i}
    /\ Advance(i, "exchange")
    /\ Disturbed(i)
    /\ UNCHANGED <<world, issued, local, answer, logs>>

\* The exchange breaks before its answer is read and decoded.  The request
\* may be lost, or may still be on its way to GitHub.
ExchangeFails(i) ==
    /\ "network" \in Faults
    /\ pc[i] \in {"exchange", "decode"}
    /\ posted' \in {posted, posted \ {i}}
    /\ Fail(i, "transport")
    /\ Disturbed(i)
    /\ UNCHANGED <<world, issued>>

\* The reply decodes, Mint builds its Response, Handle logs the mint.
DecodeToken(i) ==
    /\ pc[i] = "decode"
    /\ Advance(i, "respond")
    /\ LogLine(i, "info")
    /\ UNCHANGED <<world, github, local, answer, steady>>

\* Mutants of MintResponse: the target is read again from the environment; the
\* token is the one that arrived last, whoever asked for it.
RespondWithDeployed(i) ==
    [token |-> token[i],
     repository |-> Repository(deployed),
     permissions |-> deployed.Permissions]

RespondWithLatest(i) ==
    [token |-> Len(issued),
     repository |-> Repository(target[i]),
     permissions |-> target[i].Permissions]

\* Mint: the Response repeats the target, not what GitHub said.
MintResponse(i) ==
    [token |-> token[i],
     repository |-> Repository(target[i]),
     permissions |-> target[i].Permissions]

Respond(i) ==
    /\ pc[i] = "respond"
    /\ Advance(i, "done")
    /\ response' = [response EXCEPT ![i] = MintResponse(i)]
    /\ answer' = [answer EXCEPT ![i] = "ok"]
    /\ UNCHANGED <<world, github, target, app, token, since, logs, steady>>

\* Mutant of Timeout: only requests to GitHub time out.
RequestTimeout(i) ==
    /\ "timeout" \in Faults
    /\ pc[i] \in {"validate", "exchange"}
    /\ Advance(i, "done")
    /\ answer' = [answer EXCEPT ![i] = "timeout"]
    /\ Disturbed(i)
    /\ UNCHANGED <<world, github, local, logs>>

\* Lambda kills the invocation at its timeout: nothing of it runs any more,
\* the log line of a failure included.
Timeout(i) ==
    /\ "timeout" \in Faults
    /\ pc[i] \in InFlight
    /\ Advance(i, "done")
    /\ answer' = [answer EXCEPT ![i] = "timeout"]
    /\ Disturbed(i)
    /\ UNCHANGED <<world, github, local, logs>>

----------------------------------------------------------------------------
(* Operators                                                               *)

\* An operator changes the world under whoever is in flight.
Change ==
    /\ changes < MaxChanges
    /\ changes' = changes + 1
    /\ steady' = [i \in Invocations |-> steady[i] /\ pc[i] = "done"]
    /\ UNCHANGED <<github, pc, local, answer, logs>>

WriteParameter(p, value) ==
    /\ Parameter[p] # value
    /\ ssm' = Append(ssm, [Parameter EXCEPT ![p] = value])
    /\ Change
    /\ UNCHANGED <<appKeys, selected, deployed>>

PutParameter(p) == \E value \in Writable[p] : WriteParameter(p, value)

DeleteParameter(p) == WriteParameter(p, Absent)

GenerateKey(c, k) ==
    /\ k \notin appKeys[c]
    /\ appKeys' = [appKeys EXCEPT ![c] = @ \cup {k}]
    /\ Change
    /\ UNCHANGED <<ssm, selected, deployed>>

DeleteKey(c, k) ==
    /\ k \in appKeys[c]
    /\ appKeys' = [appKeys EXCEPT ![c] = @ \ {k}]
    /\ Change
    /\ UNCHANGED <<ssm, selected, deployed>>

SelectRepositories(n, names) ==
    /\ names # selected[n]
    /\ selected' = [selected EXCEPT ![n] = names]
    /\ Change
    /\ UNCHANGED <<ssm, appKeys, deployed>>

Redeploy(t) ==
    /\ t # deployed
    /\ deployed' = t
    /\ Change
    /\ UNCHANGED <<ssm, appKeys, selected>>

----------------------------------------------------------------------------
(* The specification                                                       *)

Init ==
    /\ ssm \in {<<s>> : s \in ParameterStates}
    /\ appKeys \in [ClientIDs -> SUBSET Keys]
    /\ selected \in [Installations -> SUBSET Names]
    /\ deployed \in Targets
    /\ changes = 0
    /\ issued = <<>>
    /\ posted = {}
    /\ pc = [i \in Invocations |-> "idle"]
    /\ target = [i \in Invocations |-> deployed]
    /\ app = [i \in Invocations |-> NoConfig]
    /\ token = [i \in Invocations |-> 0]
    /\ answer = [i \in Invocations |-> "none"]
    /\ response = [i \in Invocations |-> NoResponse]
    /\ logs = [i \in Invocations |-> {}]
    /\ since = [i \in Invocations |-> 1]
    /\ steady = [i \in Invocations |-> FALSE]

\* What an invocation and the services do when nothing breaks.
Serve(i) ==
    \/ LoadAppConfig(i)
    \/ SignJWT(i)
    \/ ValidateRepositoryInstallation(i)
    \/ GrantToken(i)
    \/ RefuseToken(i)
    \/ DecodeToken(i)
    \/ Respond(i)

Break(i) ==
    \/ LoadAppConfigFails(i)
    \/ ValidateFails(i)
    \/ ExchangeFails(i)
    \/ Timeout(i)

Operate ==
    \/ \E p \in Parameters : PutParameter(p) \/ DeleteParameter(p)
    \/ \E c \in ClientIDs, k \in Keys : GenerateKey(c, k) \/ DeleteKey(c, k)
    \/ \E n \in Installations, names \in SUBSET Names : SelectRepositories(n, names)
    \/ \E t \in Targets : Redeploy(t)

\* Every invocation of the instance has been answered.
Finished ==
    /\ \A i \in Invocations : pc[i] = "done"
    /\ UNCHANGED vars

Next ==
    \/ \E i \in Invocations :
          \/ \E payload \in {"blank", "null", "input"} : Handle(i, payload)
          \/ Serve(i)
          \/ Break(i)
    \/ Operate
    \/ Finished

Spec == Init /\ [][Next]_vars

\* Lambda enforces the function's timeout; it owes nothing else.
TimeoutFairness == \A i \in Invocations : WF_vars(Timeout(i))

\* The broker keeps running and SSM and GitHub answer what they are asked.
ServeFairness == \A i \in Invocations : WF_vars(Serve(i))

\* Each is enough for what follows; neither is needed when the other holds.
LiveSpec == Spec /\ (TimeoutFairness \/ ServeFairness)

----------------------------------------------------------------------------
(* Properties                                                              *)

Token == [by : Invocations,
          repository : Owners \X Names,
          permissions : SUBSET Permissions]

Response == [token : Nat,
             repository : {Repository(t) : t \in Targets},
             permissions : SUBSET Permissions]

\* Every variable has its type.
TypeOK ==
    /\ ssm \in Seq(ParameterStates) /\ ssm # <<>>
    /\ appKeys \in [ClientIDs -> SUBSET Keys]
    /\ selected \in [Installations -> SUBSET Names]
    /\ deployed \in Targets
    /\ changes \in 0..MaxChanges
    /\ issued \in Seq(Token)
    /\ posted \subseteq Invocations
    /\ pc \in [Invocations -> {"idle", "done"} \cup InFlight]
    /\ target \in [Invocations -> Targets]
    /\ app \in [Invocations -> [Parameters -> Texts] \cup {NoConfig}]
    /\ token \in [Invocations -> Nat]
    /\ answer \in [Invocations -> {"none", "ok"} \cup Failures]
    /\ response \in [Invocations -> Response \cup {NoResponse}]
    /\ logs \in [Invocations -> SUBSET DOMAIN Severity]
    /\ since \in [Invocations -> Nat \ {0}]
    /\ steady \in [Invocations -> BOOLEAN]

\* A token GitHub issued covers exactly the repository and the permissions of
\* the target its invocation ran with, although the token request names the
\* repository without its owner and the world changed between the requests.
TokenScope ==
    \A k \in DOMAIN issued :
        /\ issued[k].repository = Repository(target[issued[k].by])
        /\ issued[k].permissions = target[issued[k].by].Permissions

\* A caller receives a token minted for its own invocation, and what the
\* response says of it is what GitHub granted.
ResponseTruthful ==
    \A i \in Invocations : answer[i] = "ok" =>
        /\ response[i].token \in DOMAIN issued
        /\ issued[response[i].token] = [by |-> i,
                                        repository |-> response[i].repository,
                                        permissions |-> response[i].permissions]

\* The broker never asks twice: one invocation costs at most one token, lost
\* replies and invocations that were given up included.
OneTokenPerInvocation ==
    \A j, k \in DOMAIN issued : issued[j].by = issued[k].by => j = k

\* The broker keeps nothing of the parameters between invocations: what one
\* uses was the content of SSM at some time after it began, all three from the
\* same time.
ConfigIsFresh ==
    \A i \in Invocations : app[i] # NoConfig =>
        \E v \in since[i]..Len(ssm) : app[i] = ssm[v]

\* An error the broker reports for a reason of its own (input, parameters, key,
\* preflight, mismatch, refusal) leaves no token behind: only a broken exchange
\* or a timeout can orphan one.
OrphansOnlyByTransport ==
    \A k \in DOMAIN issued :
        answer[issued[k].by] \in {"none", "ok", "transport", "timeout"}

\* With correct parameters, key, installation and target when it began, and
\* nothing changed or broken since, an invocation that ends gives a token: the
\* broker's checks refuse nothing that GitHub would grant.
SteadyInvocationSucceeds ==
    \A i \in Invocations : steady[i] /\ pc[i] = "done" => answer[i] = "ok"

\* "minted GitHub installation token" in the log means that GitHub accepted the
\* JWT and issued a token for that very invocation, even if Lambda killed it
\* before it could answer; and a caller has a token only if the line was due.
MintLineMeansToken ==
    \A i \in Invocations :
        /\ "info" \in logs[i] => \E k \in DOMAIN issued : issued[k].by = i
        /\ answer[i] = "ok" /\ Threshold <= Severity.info => logs[i] = {"info"}

\* An invocation that was answered stays as it was answered, although GitHub
\* may serve its token request only afterwards.
AnswersAreFinal ==
    [][\A i \in Invocations : pc[i] = "done" =>
          UNCHANGED <<pc[i], answer[i], response[i], token[i], logs[i]>>]_vars

\* Every invocation that began is answered: under Lambda's timeout alone,
\* whatever SSM and GitHub do, and without it if SSM and GitHub answer.
EveryInvocationAnswered ==
    \A i \in Invocations : pc[i] # "idle" ~> pc[i] = "done"

\* A steady invocation gets its token, or the world changes or breaks before it
\* does: if SSM and GitHub answer, it never waits for ever or fails by itself.
SteadyInvocationMints ==
    \A i \in Invocations : steady[i] ~> (answer[i] = "ok" \/ ~steady[i])

----------------------------------------------------------------------------
(* The broker implements MintService                                       *)

Scope(i) == [repository |-> Repository(target[i]),
             permissions |-> target[i].Permissions]

Status(i) ==
    IF pc[i] = "idle" THEN "idle"
    ELSE IF pc[i] \in InFlight THEN "waiting"
    ELSE IF answer[i] = "ok" THEN "given"
    ELSE IF answer[i] = "input" THEN "rejected"
    ELSE "refused"

Bound(i) == Status(i) \in {"waiting", "given", "refused"}

Abstract == INSTANCE MintService WITH
    Scopes <- {[repository |-> Repository(t), permissions |-> t.Permissions] : t \in Targets},
    NoScope <- NoConfig,
    status <- [i \in Invocations |-> Status(i)],
    scope <- [i \in Invocations |-> IF Bound(i) THEN Scope(i) ELSE NoConfig],
    issued <- [k \in DOMAIN issued |->
                  [by |-> issued[k].by,
                   scope |-> [repository |-> issued[k].repository,
                              permissions |-> issued[k].permissions]]],
    given <- [i \in Invocations |->
                 IF answer[i] = "ok" THEN response[i].token ELSE 0]

\* Every behaviour of the broker is one that MintService allows: scope fixed
\* when the invocation begins, one token in that scope, one answer.
ImplementsMintService == Abstract!Spec
=============================================================================
