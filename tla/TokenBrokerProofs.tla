------------------------- MODULE TokenBrokerProofs -------------------------
(***************************************************************************)
(* Theorems about TokenBroker for every number of invocations, parameters, *)
(* keys, installations, targets and operator changes.                      *)
(***************************************************************************)
EXTENDS TokenBrokerInvariant, TLAPS

\* Appending to a sequence keeps what it holds and adds one element.
LEMMA AppendFacts ==
    ASSUME NEW S, NEW q \in Seq(S), NEW e \in S
    PROVE  /\ Append(q, e) \in Seq(S)
           /\ Append(q, e) # <<>>
           /\ Len(Append(q, e)) = Len(q) + 1
           /\ DOMAIN Append(q, e) = DOMAIN q \cup {Len(q) + 1}
           /\ \A k \in DOMAIN q : Append(q, e)[k] = q[k]
           /\ Append(q, e)[Len(q) + 1] = e
<1>1. /\ Append(q, e) \in Seq(S)
      /\ Len(Append(q, e)) = Len(q) + 1
      /\ DOMAIN q = 1..Len(q)
      /\ DOMAIN Append(q, e) = 1..(Len(q) + 1)
      /\ Len(q) \in Nat
  OBVIOUS
<1>2. 1..(Len(q) + 1) = 1..Len(q) \cup {Len(q) + 1}
  BY <1>1
<1>3. /\ \A k \in 1..Len(q) : Append(q, e)[k] = q[k]
      /\ Append(q, e)[Len(q) + 1] = e
  OBVIOUS
<1>4. Append(q, e) # <<>>
  BY <1>1
<1>5. QED
  BY <1>1, <1>2, <1>3, <1>4

----------------------------------------------------------------------------
(* Type correctness                                                        *)

\* Logging adds one of the levels newLogger knows, or nothing.
LEMMA LogLineType ==
    ASSUME TypeOK, NEW i \in Invocations,
           NEW level \in {"info", "warn", "error"}, LogLine(i, level)
    PROVE  logs' \in [Invocations -> SUBSET DOMAIN Severity]
BY DEF TypeOK, LogLine, Severity

\* An invocation that fails keeps what it holds and ends with a reason.
LEMMA FailType ==
    ASSUME TypeOK, NEW i \in Invocations, NEW reason \in Failures,
           Fail(i, reason)
    PROVE  /\ pc' \in [Invocations -> {"idle", "done"} \cup InFlight]
           /\ answer' \in [Invocations -> {"none", "ok"} \cup Failures]
           /\ logs' \in [Invocations -> SUBSET DOMAIN Severity]
           /\ UNCHANGED local
<1>1. logs' \in [Invocations -> SUBSET DOMAIN Severity]
  BY LogLineType DEF Fail
<1>2. QED
  BY <1>1 DEF TypeOK, Fail

\* What the latest version of the parameter store may hold.
LEMMA ParameterType ==
    ASSUME TypeOK
    PROVE  /\ Len(ssm) \in Nat \ {0}
           /\ Parameter \in [Parameters -> Texts \cup {Absent}]
<1>1. Len(ssm) \in Nat /\ Len(ssm) # 0
  BY DEF TypeOK
<1>2. QED
  BY <1>1 DEF TypeOK, Parameter, ParameterStates

\* Operators never touch what an invocation holds.
LEMMA ChangeType ==
    ASSUME TypeOK, Change
    PROVE  /\ changes' \in 0..MaxChanges
           /\ steady' \in [Invocations -> BOOLEAN]
           /\ UNCHANGED <<github, pc, local, answer, logs>>
<1>1. changes' \in 0..MaxChanges
  BY WorldAssumption DEF TypeOK, Change
<1>2. steady' \in [Invocations -> BOOLEAN]
  BY DEF TypeOK, Change
<1>3. QED
  BY <1>1, <1>2 DEF Change

\* The initial states have their types.
LEMMA InitType == Init => TypeOK
<1>1. SUFFICES ASSUME Init PROVE TypeOK
  OBVIOUS
<1>2. ssm \in Seq(ParameterStates) /\ ssm # <<>>
  <2>1. PICK s \in ParameterStates : ssm = <<s>>
    BY <1>1 DEF Init
  <2>2. QED
    BY <2>1
<1>3. changes \in 0..MaxChanges
  BY <1>1, WorldAssumption DEF Init
<1>4. QED
  BY <1>1, <1>2, <1>3 DEF Init, TypeOK

\* A start preserves the types.
LEMMA HandleType ==
    ASSUME TypeOK, NEW i \in Invocations, NEW payload, Handle(i, payload)
    PROVE  TypeOK'
<1>1. Len(ssm) \in Nat \ {0}
  BY ParameterType
<1>2. logs' \in [Invocations -> SUBSET DOMAIN Severity]
  BY LogLineType DEF Handle, TypeOK
<1>3. /\ pc' \in [Invocations -> {"idle", "done"} \cup InFlight]
      /\ answer' \in [Invocations -> {"none", "ok"} \cup Failures]
  BY DEF Handle, TypeOK, Advance, InFlight, Failures
<1>4. Healthy(deployed) \in BOOLEAN
  BY DEF Healthy
<1>5. steady' \in [Invocations -> BOOLEAN]
  BY <1>4 DEF Handle, TypeOK
<1>6. QED
  BY <1>1, <1>2, <1>3, <1>5 DEF Handle, TypeOK, world, github

\* Reading the parameters does: nothing absent gets past it.
LEMMA LoadAppConfigType ==
    ASSUME TypeOK, NEW i \in Invocations,
           LoadAppConfig(i) \/ LoadAppConfigFails(i)
    PROVE  TypeOK'
<1>1. CASE LoadAppConfigFails(i)
  <2>1. Fail(i, "ssm")
    BY <1>1 DEF LoadAppConfigFails
  <2>2. QED
    BY <1>1, <2>1, FailType
    DEF LoadAppConfigFails, Failures, Disturbed, TypeOK, world, github, local
<1>2. CASE LoadAppConfig(i) /\ Fail(i, "ssm")
  BY <1>2, FailType
  DEF LoadAppConfig, Failures, TypeOK, world, github, local
<1>3. CASE LoadAppConfig(i) /\ ~Fail(i, "ssm")
  <2>1. /\ \A p \in Parameters : Parameter[p] # Absent
        /\ app' = [app EXCEPT ![i] = Parameter]
        /\ pc' = [pc EXCEPT ![i] = "sign"]
        /\ UNCHANGED <<world, github, steady, target, token, response, since, answer, logs>>
    BY <1>3 DEF LoadAppConfig, ReadParameters, Advance
  <2>2. Parameter \in [Parameters -> Texts]
    BY <2>1, ParameterType
  <2>3. pc' \in [Invocations -> {"idle", "done"} \cup InFlight]
    BY <2>1 DEF TypeOK, InFlight
  <2>4. QED
    BY <2>1, <2>2, <2>3 DEF TypeOK, world, github
<1>4. QED
  BY <1>1, <1>2, <1>3

\* Signing does.
LEMMA SignJWTType ==
    ASSUME TypeOK, NEW i \in Invocations, SignJWT(i)
    PROVE  TypeOK'
<1>1. CASE Fail(i, "key")
  BY <1>1, FailType
  DEF SignJWT, Failures, TypeOK, world, github, local
<1>2. CASE ~Fail(i, "key")
  BY <1>2 DEF SignJWT, Advance, InFlight, TypeOK, world, github, local
<1>3. QED
  BY <1>1, <1>2

\* The preflight does.
LEMMA ValidateType ==
    ASSUME TypeOK, NEW i \in Invocations,
           ValidateRepositoryInstallation(i) \/ ValidateFails(i)
    PROVE  TypeOK'
<1>1. CASE ValidateFails(i)
  BY <1>1, FailType
  DEF ValidateFails, Failures, Disturbed, TypeOK, world, github, local
<1>2. CASE ValidateRepositoryInstallation(i)
  <2>1. posted' \subseteq Invocations
    BY <1>2 DEF ValidateRepositoryInstallation, TypeOK
  <2>2. CASE \E reason \in {"mismatch", "preflight"} : Fail(i, reason)
    BY <1>2, <2>1, <2>2, FailType
    DEF ValidateRepositoryInstallation, Failures, TypeOK, world, local
  <2>3. CASE ~\E reason \in {"mismatch", "preflight"} : Fail(i, reason)
    BY <1>2, <2>1, <2>3
    DEF ValidateRepositoryInstallation, Advance, InFlight, TypeOK, world, local
  <2>4. QED
    BY <2>2, <2>3
<1>3. QED
  BY <1>1, <1>2

\* A token covers a repository of the granting installation's account.
LEMMA GrantTokenType ==
    ASSUME TypeOK, NEW i \in Invocations, GrantToken(i)
    PROVE  TypeOK'
<1>1. target[i] \in Targets
  BY DEF TypeOK
<1>2. target[i].Repository \in Names /\ target[i].Permissions \subseteq Permissions
  BY <1>1, WorldAssumption DEF Permissions
<1>3. issued' \in Seq(Token)
  <2>1. PICK n \in Installations :
          issued' = Append(issued,
                [by |-> i,
                 repository |-> <<Installation[n].owner, target[i].Repository>>,
                 permissions |-> target[i].Permissions])
    BY DEF GrantToken
  <2>2. Installation[n].owner \in Owners
    BY DEF Owners
  <2>3. [by |-> i,
         repository |-> <<Installation[n].owner, target[i].Repository>>,
         permissions |-> target[i].Permissions] \in Token
    BY <1>2, <2>2 DEF Token
  <2>4. QED
    BY <2>1, <2>3 DEF TypeOK
<1>4. posted' \subseteq Invocations
  BY DEF GrantToken, TypeOK
<1>5. /\ pc' \in [Invocations -> {"idle", "done"} \cup InFlight]
      /\ token' \in [Invocations -> Nat]
  <2>1. Len(issued') \in Nat
    BY <1>3
  <2>2. QED
    BY <2>1 DEF GrantToken, Advance, InFlight, TypeOK
<1>6. QED
  BY <1>3, <1>4, <1>5 DEF GrantToken, TypeOK, world

\* A refusal does.
LEMMA RefuseTokenType ==
    ASSUME TypeOK, NEW i \in Invocations, RefuseToken(i)
    PROVE  TypeOK'
<1>1. posted' \subseteq Invocations
  BY DEF RefuseToken, TypeOK
<1>2. CASE Fail(i, "refused")
  BY <1>1, <1>2, FailType DEF RefuseToken, Failures, TypeOK, world, local
<1>3. CASE ~Fail(i, "refused")
  BY <1>1, <1>3 DEF RefuseToken, TypeOK, world, local
<1>4. QED
  BY <1>2, <1>3

\* A broken exchange does.
LEMMA ExchangeFailsType ==
    ASSUME TypeOK, NEW i \in Invocations, ExchangeFails(i)
    PROVE  TypeOK'
<1>1. posted' \subseteq Invocations
  BY DEF ExchangeFails, TypeOK
<1>2. steady' \in [Invocations -> BOOLEAN]
  BY DEF ExchangeFails, Disturbed, TypeOK
<1>3. Fail(i, "transport") /\ UNCHANGED <<world, issued>>
  BY DEF ExchangeFails
<1>4. QED
  BY <1>1, <1>2, <1>3, FailType DEF Failures, TypeOK, world, local

\* A decoded reply does.
LEMMA DecodeTokenType ==
    ASSUME TypeOK, NEW i \in Invocations, DecodeToken(i)
    PROVE  TypeOK'
<1>1. logs' \in [Invocations -> SUBSET DOMAIN Severity]
  BY LogLineType DEF DecodeToken
<1>2. QED
  BY <1>1 DEF DecodeToken, Advance, InFlight, TypeOK, world, github, local

\* The answer to the caller does: what it repeats is a target.
LEMMA RespondType ==
    ASSUME TypeOK, NEW i \in Invocations, Respond(i)
    PROVE  TypeOK'
<1>1. target[i] \in Targets /\ token[i] \in Nat
  BY DEF TypeOK
<1>2. MintResponse(i) \in Response
  BY <1>1 DEF MintResponse, Response, Permissions
<1>3. response' \in [Invocations -> Response \cup {NoResponse}]
  BY <1>2 DEF Respond, TypeOK
<1>4. QED
  BY <1>3 DEF Respond, Advance, TypeOK, world, github

\* A timeout does.
LEMMA TimeoutType ==
    ASSUME TypeOK, NEW i \in Invocations, Timeout(i)
    PROVE  TypeOK'
BY DEF Timeout, Advance, Disturbed, Failures, TypeOK, world, github, local

\* A new version of the parameters does.
LEMMA WriteParameterType ==
    ASSUME TypeOK, NEW p \in Parameters, NEW value \in Texts \cup {Absent},
           WriteParameter(p, value)
    PROVE  TypeOK'
<1>1. [Parameter EXCEPT ![p] = value] \in ParameterStates
  BY ParameterType DEF ParameterStates
<1>2. ssm' \in Seq(ParameterStates) /\ ssm' # <<>>
  BY <1>1, AppendFacts DEF WriteParameter, TypeOK
<1>3. QED
  BY <1>2, ChangeType DEF WriteParameter, TypeOK, github, local

\* Every operator change does.
LEMMA OperateType ==
    ASSUME TypeOK, Operate
    PROVE  TypeOK'
<1>1. CASE \E p \in Parameters : PutParameter(p) \/ DeleteParameter(p)
  BY <1>1, WriteParameterType, WorldAssumption DEF PutParameter, DeleteParameter
<1>2. CASE \E c \in ClientIDs, k \in Keys : GenerateKey(c, k) \/ DeleteKey(c, k)
  <2>1. PICK c \in ClientIDs, k \in Keys : GenerateKey(c, k) \/ DeleteKey(c, k)
    BY <1>2
  <2>2. Change /\ UNCHANGED <<ssm, selected, deployed>>
    BY <2>1 DEF GenerateKey, DeleteKey
  <2>3. appKeys' \in [ClientIDs -> SUBSET Keys]
    <3>1. CASE GenerateKey(c, k)
      BY <3>1 DEF GenerateKey, TypeOK
    <3>2. CASE DeleteKey(c, k)
      <4>1. appKeys[c] \ {k} \in SUBSET Keys
        BY DEF TypeOK
      <4>2. QED
        BY <3>2, <4>1 DEF DeleteKey, TypeOK
    <3>3. QED
      BY <2>1, <3>1, <3>2
  <2>4. QED
    BY <2>2, <2>3, ChangeType DEF TypeOK, github, local
<1>3. CASE \E n \in Installations, names \in SUBSET Names : SelectRepositories(n, names)
  <2>1. /\ Change
        /\ UNCHANGED <<ssm, appKeys, deployed>>
        /\ selected' \in [Installations -> SUBSET Names]
    BY <1>3 DEF SelectRepositories, TypeOK
  <2>2. QED
    BY <2>1, ChangeType DEF TypeOK, github, local
<1>4. CASE \E t \in Targets : Redeploy(t)
  <2>1. /\ Change
        /\ UNCHANGED <<ssm, appKeys, selected>>
        /\ deployed' \in Targets
    BY <1>4 DEF Redeploy
  <2>2. QED
    BY <2>1, ChangeType DEF TypeOK, github, local
<1>5. QED
  BY <1>1, <1>2, <1>3, <1>4 DEF Operate

\* A step that changes nothing does.
LEMMA StutterType == TypeOK /\ UNCHANGED vars => TypeOK'
BY DEF TypeOK, vars, world, github, local

\* Every step preserves the types.
LEMMA NextType == TypeOK /\ [Next]_vars => TypeOK'
<1>1. SUFFICES ASSUME TypeOK, [Next]_vars PROVE TypeOK'
  OBVIOUS
<1>2. ASSUME NEW i \in Invocations, NEW payload, Handle(i, payload) PROVE TypeOK'
  BY <1>1, <1>2, HandleType
<1>3. ASSUME NEW i \in Invocations, Serve(i) PROVE TypeOK'
  BY <1>1, <1>3, LoadAppConfigType, SignJWTType, ValidateType, GrantTokenType,
     RefuseTokenType, DecodeTokenType, RespondType
  DEF Serve
<1>4. ASSUME NEW i \in Invocations, Break(i) PROVE TypeOK'
  BY <1>1, <1>4, LoadAppConfigType, ValidateType, ExchangeFailsType, TimeoutType
  DEF Break
<1>5. CASE Operate
  BY <1>1, <1>5, OperateType
<1>6. CASE Finished \/ UNCHANGED vars
  BY <1>1, <1>6, StutterType DEF Finished
<1>7. QED
  BY <1>1, <1>2, <1>3, <1>4, <1>5, <1>6 DEF Next

\* Every variable of the broker keeps its type, in every world the assumptions
\* allow and with any number of concurrent invocations.
THEOREM TypeCorrect == Spec => []TypeOK
BY InitType, NextType, PTL DEF Spec

----------------------------------------------------------------------------
(* The inductive invariant                                                 *)

\* Every token was issued for an invocation.
LEMMA IssuedType ==
    ASSUME TypeOK
    PROVE  \A k \in DOMAIN issued : issued[k] \in Token /\ issued[k].by \in Invocations
<1>1. \A k \in DOMAIN issued : issued[k] \in Token
  BY DEF TypeOK
<1>2. QED
  BY <1>1 DEF Token

\* The initial states are safe: nothing is sent, issued or answered.
LEMMA InitSafe == Init => Safe
<1>1. SUFFICES ASSUME Init PROVE Safe
  OBVIOUS
<1>2. Len(ssm) = 1
  BY <1>1 DEF Init
<1>3. DOMAIN issued = {}
  BY <1>1 DEF Init
<1>4. NothingSent /\ Preflighted /\ IssuedInScope /\ OneTokenPerInvocation
  BY <1>1, <1>3
  DEF Init, NothingSent, NoTokenYet, Preflighted, IssuedInScope, OneTokenPerInvocation
<1>5. ConfigHeld
  <2>1. \A i \in Invocations : since[i] = 1 /\ app[i] = NoConfig /\ pc[i] = "idle"
    BY <1>1 DEF Init
  <2>2. posted = {} /\ 1 \in 1..Len(ssm)
    BY <1>1, <1>2 DEF Init
  <2>3. QED
    BY <2>1, <2>2 DEF ConfigHeld
<1>6. TokenHeld /\ AnsweredWhenDone
  BY <1>1 DEF Init, TokenHeld, AnsweredWhenDone
<1>7. OrphansOnlyByTransport /\ ConfigIsFresh
  BY <1>1, <1>3 DEF Init, OrphansOnlyByTransport, ConfigIsFresh
<1>8. QED
  BY <1>4, <1>5, <1>6, <1>7 DEF Safe

\* An invocation that ends without a token: only one that leaves no token and no
\* request behind may give a reason other than a broken exchange or a timeout.
LEMMA EndSafe ==
    ASSUME IInv, NEW i \in Invocations, NEW reason \in Failures,
           pc[i] \in InFlight,
           pc' = [pc EXCEPT ![i] = "done"],
           answer' = [answer EXCEPT ![i] = reason],
           UNCHANGED <<ssm, issued, local>>,
           posted' \in {posted, posted \ {i}},
           \/ reason \in {"transport", "timeout"}
           \/ i \notin posted' /\ NoTokenYet(i)
    PROVE  Safe'
<1>1. /\ \A j \in Invocations \ {i} : pc'[j] = pc[j] /\ answer'[j] = answer[j]
      /\ pc'[i] = "done" /\ answer'[i] = reason
      /\ reason # "none" /\ reason # "ok"
  BY DEF IInv, TypeOK, Failures
<1>2. NothingSent'
  BY <1>1 DEF IInv, Safe, NothingSent, NoTokenYet
<1>3. ConfigHeld'
  BY <1>1 DEF IInv, Safe, ConfigHeld, local
<1>4. Preflighted'
  <2>1. \A j \in posted' : j \in posted /\ j \in Invocations
    BY DEF IInv, TypeOK
  <2>2. UNCHANGED <<issued, app, target>>
    BY DEF local
  <2>3. QED
    BY <1>1, <2>1, <2>2 DEF IInv, Safe, Preflighted, NoTokenYet
<1>5. IssuedInScope' /\ OneTokenPerInvocation' /\ ConfigIsFresh'
  BY DEF IInv, Safe, IssuedInScope, TokenFor, OneTokenPerInvocation, ConfigIsFresh, local
<1>6. TokenHeld'
  BY <1>1 DEF IInv, Safe, TokenHeld, MintResponse, local
<1>7. AnsweredWhenDone'
  BY <1>1 DEF IInv, Safe, AnsweredWhenDone
<1>8. OrphansOnlyByTransport'
  <2>1. SUFFICES ASSUME NEW k \in DOMAIN issued
                 PROVE  answer'[issued[k].by] \in {"none", "ok", "transport", "timeout"}
    BY DEF OrphansOnlyByTransport
  <2>2. issued[k].by \in Invocations
    BY IssuedType DEF IInv
  <2>3. QED
    BY <1>1, <2>2 DEF IInv, Safe, OrphansOnlyByTransport, NoTokenYet
<1>9. QED
  BY <1>2, <1>3, <1>4, <1>5, <1>6, <1>7, <1>8 DEF Safe

\* An invocation that goes on without anything of it leaving for GitHub.
LEMMA AdvanceSafe ==
    ASSUME IInv, NEW i \in Invocations,
           \/ pc[i] = "sign" /\ pc' = [pc EXCEPT ![i] = "validate"]
           \/ pc[i] = "decode" /\ pc' = [pc EXCEPT ![i] = "respond"],
           UNCHANGED <<ssm, github, local, answer>>
    PROVE  Safe'
<1>1. \A j \in Invocations \ {i} : pc'[j] = pc[j]
  BY DEF IInv, TypeOK
<1>2. \/ pc[i] = "sign" /\ pc'[i] = "validate"
      \/ pc[i] = "decode" /\ pc'[i] = "respond"
  BY DEF IInv, TypeOK
<1>3. NothingSent' /\ ConfigHeld' /\ TokenHeld' /\ AnsweredWhenDone'
  BY <1>1, <1>2
  DEF IInv, Safe, NothingSent, NoTokenYet, ConfigHeld, TokenHeld, AnsweredWhenDone,
      MintResponse, local, github
<1>4. Preflighted'
  <2>1. \A j \in posted : j \in Invocations /\ pc[j] \in {"exchange", "done"}
    BY DEF IInv, TypeOK, Safe, Preflighted
  <2>2. i \notin posted
    BY <1>2, <2>1
  <2>3. QED
    BY <1>1, <2>1, <2>2 DEF IInv, Safe, Preflighted, NoTokenYet, local, github
<1>5. IssuedInScope' /\ OneTokenPerInvocation' /\ ConfigIsFresh' /\ OrphansOnlyByTransport'
  BY DEF IInv, Safe, IssuedInScope, TokenFor, OneTokenPerInvocation, ConfigIsFresh,
         OrphansOnlyByTransport, local, github
<1>6. QED
  BY <1>3, <1>4, <1>5 DEF Safe

\* A start is safe: it holds no configuration and has sent nothing.
LEMMA HandleSafe ==
    ASSUME IInv, NEW i \in Invocations, NEW payload, Handle(i, payload)
    PROVE  Safe'
<1>1. /\ pc[i] = "idle" /\ i \notin posted /\ NoTokenYet(i) /\ answer[i] = "none"
      /\ app[i] = NoConfig
  BY DEF IInv, Safe, NothingSent, AnsweredWhenDone, ConfigHeld, Handle
<1>2. /\ \A j \in Invocations \ {i} :
            /\ pc'[j] = pc[j] /\ answer'[j] = answer[j]
            /\ target'[j] = target[j] /\ since'[j] = since[j]
      /\ \/ pc'[i] = "load" /\ answer'[i] = "none"
         \/ pc'[i] = "done" /\ answer'[i] = "input"
      /\ since'[i] = Len(ssm)
      /\ UNCHANGED <<ssm, issued, posted, app, token, response>>
  <2>1. /\ \A j \in Invocations \ {i} : target'[j] = target[j] /\ since'[j] = since[j]
        /\ since'[i] = Len(ssm)
        /\ UNCHANGED <<ssm, issued, posted, app, token, response>>
    BY DEF IInv, TypeOK, Handle, world, github
  <2>2. CASE Empty(payload)
    BY <1>1, <2>1, <2>2 DEF IInv, TypeOK, Handle, Advance
  <2>3. CASE ~Empty(payload)
    BY <1>1, <2>1, <2>3 DEF IInv, TypeOK, Handle, Advance
  <2>4. QED
    BY <2>2, <2>3
<1>3. NothingSent' /\ AnsweredWhenDone'
  BY <1>1, <1>2 DEF IInv, Safe, NothingSent, NoTokenYet, AnsweredWhenDone
<1>4. ConfigHeld' /\ ConfigIsFresh'
  <2>1. Len(ssm) \in Nat \ {0}
    BY ParameterType DEF IInv
  <2>2. QED
    BY <1>1, <1>2, <2>1 DEF IInv, Safe, ConfigHeld, ConfigIsFresh
<1>5. Preflighted'
  <2>1. \A j \in posted : j \in Invocations \ {i}
    BY <1>1 DEF IInv, TypeOK
  <2>2. QED
    BY <1>2, <2>1 DEF IInv, Safe, Preflighted, NoTokenYet
<1>6. IssuedInScope' /\ OneTokenPerInvocation' /\ OrphansOnlyByTransport'
  <2>1. \A k \in DOMAIN issued : issued[k].by \in Invocations \ {i}
    BY <1>1, IssuedType DEF IInv, NoTokenYet
  <2>2. QED
    BY <1>2, <2>1 DEF IInv, Safe, IssuedInScope, TokenFor, OneTokenPerInvocation,
                      OrphansOnlyByTransport
<1>7. TokenHeld'
  BY <1>1, <1>2 DEF IInv, Safe, TokenHeld, MintResponse
<1>8. QED
  BY <1>3, <1>4, <1>5, <1>6, <1>7 DEF Safe

\* Reading the parameters is safe: they are a version no older than the start.
LEMMA LoadAppConfigSafe ==
    ASSUME IInv, NEW i \in Invocations,
           LoadAppConfig(i) \/ LoadAppConfigFails(i)
    PROVE  Safe'
<1>1. /\ pc[i] = "load" /\ i \notin posted /\ NoTokenYet(i) /\ answer[i] = "none"
  BY DEF IInv, Safe, NothingSent, AnsweredWhenDone, LoadAppConfig, LoadAppConfigFails
<1>2. CASE Fail(i, "ssm")
  BY <1>1, <1>2, EndSafe
  DEF LoadAppConfig, LoadAppConfigFails, Fail, InFlight, Failures, world, github
<1>3. CASE ~Fail(i, "ssm")
  <2>1. /\ app' = [app EXCEPT ![i] = Parameter]
        /\ pc' = [pc EXCEPT ![i] = "sign"]
        /\ \A p \in Parameters : Parameter[p] # Absent
        /\ UNCHANGED <<ssm, issued, posted, target, token, response, since, answer>>
    BY <1>3 DEF LoadAppConfig, LoadAppConfigFails, ReadParameters, Advance, world, github
  <2>2. /\ \A j \in Invocations \ {i} : pc'[j] = pc[j] /\ app'[j] = app[j]
        /\ pc'[i] = "sign" /\ app'[i] = Parameter
    BY <2>1 DEF IInv, TypeOK
  <2>3. Len(ssm) \in Nat \ {0} /\ Parameter \in ParameterStates
    BY ParameterType DEF IInv, ParameterStates
  <2>4. Parameter # NoConfig
    BY <2>3, WorldAssumption
  <2>5. NothingSent' /\ AnsweredWhenDone' /\ TokenHeld'
    BY <1>1, <2>1, <2>2
    DEF IInv, Safe, NothingSent, NoTokenYet, AnsweredWhenDone, TokenHeld, MintResponse
  <2>6. ConfigHeld'
    BY <1>1, <2>1, <2>2, <2>4 DEF IInv, Safe, ConfigHeld
  <2>7. ConfigIsFresh'
    BY <2>1, <2>2, <2>3 DEF IInv, Safe, ConfigHeld, ConfigIsFresh, Parameter
  <2>8. Preflighted'
    BY <1>1, <2>1, <2>2 DEF IInv, Safe, Preflighted, NoTokenYet, TypeOK
  <2>9. IssuedInScope' /\ OneTokenPerInvocation' /\ OrphansOnlyByTransport'
    BY <2>1 DEF IInv, Safe, IssuedInScope, TokenFor, OneTokenPerInvocation,
                OrphansOnlyByTransport
  <2>10. QED
    BY <2>5, <2>6, <2>7, <2>8, <2>9 DEF Safe
<1>4. QED
  BY <1>2, <1>3

\* Signing is safe: still nothing is sent.
LEMMA SignJWTSafe ==
    ASSUME IInv, NEW i \in Invocations, SignJWT(i)
    PROVE  Safe'
<1>1. pc[i] = "sign" /\ i \notin posted /\ NoTokenYet(i)
  BY DEF IInv, Safe, NothingSent, SignJWT
<1>2. CASE Fail(i, "key")
  BY <1>1, <1>2, EndSafe DEF SignJWT, Fail, InFlight, Failures, world, github
<1>3. CASE ~Fail(i, "key")
  BY <1>1, <1>3, AdvanceSafe DEF SignJWT, Advance, world
<1>4. QED
  BY <1>2, <1>3

\* The preflight is what establishes Preflighted.
LEMMA ValidateSafe ==
    ASSUME IInv, NEW i \in Invocations,
           ValidateRepositoryInstallation(i) \/ ValidateFails(i)
    PROVE  Safe'
<1>1. /\ pc[i] = "validate" /\ i \notin posted /\ NoTokenYet(i)
      /\ answer[i] = "none" /\ app[i] # NoConfig
      /\ UNCHANGED <<ssm, issued>>
  BY DEF IInv, Safe, NothingSent, AnsweredWhenDone, ConfigHeld,
         ValidateRepositoryInstallation, ValidateFails, world, github
<1>2. CASE \E reason \in Failures : Fail(i, reason)
  <2>1. posted' = posted
    BY <1>1, <1>2
    DEF ValidateRepositoryInstallation, ValidateFails, Fail, Advance, IInv, TypeOK, github
  <2>2. QED
    BY <1>1, <1>2, <2>1, EndSafe DEF Fail, InFlight
<1>3. CASE ~\E reason \in Failures : Fail(i, reason)
  <2>1. /\ \E n \in RepositoryInstallation(app[i].ClientID, target[i]) : Matches(i, n)
        /\ pc' = [pc EXCEPT ![i] = "exchange"]
        /\ posted' = posted \cup {i}
        /\ UNCHANGED <<local, answer>>
    BY <1>3 DEF ValidateRepositoryInstallation, ValidateFails, Failures, Advance
  <2>2. \E n \in Installations : /\ FormatInt[n] = app[i].InstallationID
                                 /\ Installation[n].owner = target[i].Owner
    BY <2>1 DEF RepositoryInstallation, Matches
  <2>3. /\ \A j \in Invocations \ {i} : pc'[j] = pc[j]
        /\ pc'[i] = "exchange"
    BY <2>1 DEF IInv, TypeOK
  <2>4. NothingSent' /\ AnsweredWhenDone' /\ TokenHeld' /\ ConfigHeld'
    BY <1>1, <2>1, <2>3
    DEF IInv, Safe, NothingSent, NoTokenYet, AnsweredWhenDone, TokenHeld, MintResponse,
        ConfigHeld, local
  <2>5. Preflighted'
    <3>1. \A j \in posted : j \in Invocations \ {i}
      BY <1>1 DEF IInv, TypeOK
    <3>2. QED
      BY <1>1, <2>1, <2>2, <2>3, <3>1 DEF IInv, Safe, Preflighted, NoTokenYet, local
  <2>6. IssuedInScope' /\ OneTokenPerInvocation' /\ OrphansOnlyByTransport' /\ ConfigIsFresh'
    BY <1>1, <2>1
    DEF IInv, Safe, IssuedInScope, TokenFor, OneTokenPerInvocation, OrphansOnlyByTransport,
        ConfigIsFresh, local
  <2>7. QED
    BY <2>4, <2>5, <2>6 DEF Safe
<1>4. QED
  BY <1>2, <1>3

\* The token request names the repository only; Preflighted says that the
\* installation that supplies the owner is on the target's account, and
\* FormatInt that there is no other installation with that ID.
LEMMA GrantTokenAppends ==
    ASSUME IInv, NEW i \in Invocations, GrantToken(i)
    PROVE  issued' = Append(issued, TokenFor(i))
<1>1. i \in posted
  BY DEF GrantToken
<1>2. PICK n \in Installations :
        /\ FormatInt[n] = app[i].InstallationID
        /\ issued' = Append(issued,
              [by |-> i,
               repository |-> <<Installation[n].owner, target[i].Repository>>,
               permissions |-> target[i].Permissions])
  BY DEF GrantToken, TokenGrantedBy
<1>3. PICK m \in Installations : /\ FormatInt[m] = app[i].InstallationID
                                 /\ Installation[m].owner = target[i].Owner
  BY <1>1 DEF IInv, Safe, Preflighted
<1>4. m = n
  BY <1>2, <1>3, WorldAssumption
<1>5. QED
  BY <1>2, <1>3, <1>4 DEF TokenFor, Repository

\* A token granted is in scope and the first of its invocation, by Preflighted.
LEMMA GrantTokenSafe ==
    ASSUME IInv, NEW i \in Invocations, GrantToken(i)
    PROVE  Safe'
<1>1. /\ i \in posted /\ NoTokenYet(i) /\ pc[i] \in {"exchange", "done"}
      /\ answer[i] \in {"none", "transport", "timeout"}
      /\ UNCHANGED <<ssm, target, app, response, since, answer>>
      /\ posted' = posted \ {i}
  BY DEF GrantToken, IInv, Safe, Preflighted, world
<1>2. issued' = Append(issued, TokenFor(i))
  BY GrantTokenAppends
<1>4. /\ DOMAIN issued' = DOMAIN issued \cup {Len(issued) + 1}
      /\ Len(issued') = Len(issued) + 1
      /\ \A k \in DOMAIN issued : issued'[k] = issued[k]
      /\ issued'[Len(issued) + 1] = TokenFor(i)
  <2> DEFINE S == Token \cup {TokenFor(i)}
  <2>1. issued \in Seq(S) /\ TokenFor(i) \in S
    BY DEF IInv, TypeOK
  <2> HIDE DEF S
  <2>2. QED
    BY <1>2, <2>1, AppendFacts
<1>5. /\ issued'[Len(issued) + 1].by = i
      /\ \A k \in DOMAIN issued : issued[k].by \in Invocations \ {i}
  BY <1>1, <1>4, IssuedType DEF TokenFor, NoTokenYet, IInv
<1>6. /\ \A j \in Invocations \ {i} : pc'[j] = pc[j] /\ token'[j] = token[j]
      /\ \/ pc[i] = "exchange" /\ pc'[i] = "decode" /\ token'[i] = Len(issued) + 1
         \/ pc[i] = "done" /\ pc'[i] = "done" /\ token'[i] = token[i]
  BY <1>1, <1>4 DEF GrantToken, Advance, IInv, TypeOK
<1>7. \A j \in Invocations \ {i} : NoTokenYet(j) => NoTokenYet(j)'
  BY <1>4, <1>5 DEF NoTokenYet
<1>8. NothingSent'
  BY <1>1, <1>6, <1>7 DEF IInv, Safe, NothingSent
<1>9. ConfigHeld' /\ ConfigIsFresh'
  BY <1>1, <1>6 DEF IInv, Safe, ConfigHeld, ConfigIsFresh
<1>10. Preflighted'
  <2>1. \A j \in posted' : j \in posted /\ j \in Invocations \ {i}
    BY <1>1 DEF IInv, TypeOK
  <2>2. QED
    BY <1>1, <1>6, <1>7, <2>1 DEF IInv, Safe, Preflighted
<1>11. IssuedInScope'
  BY <1>1, <1>4, <1>5 DEF IInv, Safe, IssuedInScope, TokenFor
<1>12. OneTokenPerInvocation'
  BY <1>4, <1>5 DEF IInv, Safe, OneTokenPerInvocation
<1>13. TokenHeld'
  BY <1>1, <1>4, <1>5, <1>6 DEF IInv, Safe, TokenHeld, MintResponse
<1>14. AnsweredWhenDone'
  BY <1>1, <1>6 DEF IInv, Safe, AnsweredWhenDone
<1>15. OrphansOnlyByTransport'
  BY <1>1, <1>4, <1>5 DEF IInv, Safe, OrphansOnlyByTransport
<1>16. QED
  BY <1>8, <1>9, <1>10, <1>11, <1>12, <1>13, <1>14, <1>15 DEF Safe

\* A refusal is safe: the request is gone and there is no token.
LEMMA RefuseTokenSafe ==
    ASSUME IInv, NEW i \in Invocations, RefuseToken(i)
    PROVE  Safe'
<1>1. /\ i \in posted /\ NoTokenYet(i) /\ pc[i] \in {"exchange", "done"}
      /\ UNCHANGED <<ssm, issued>>
      /\ posted' = posted \ {i}
  BY DEF RefuseToken, IInv, Safe, Preflighted, world
<1>2. CASE pc[i] = "exchange"
  BY <1>1, <1>2, EndSafe DEF RefuseToken, Fail, InFlight, Failures
<1>3. CASE pc[i] = "done"
  <2>1. UNCHANGED <<ssm, issued, pc, local, answer>>
    BY <1>1, <1>3 DEF RefuseToken
  <2>2. /\ NothingSent' /\ ConfigHeld' /\ Preflighted' /\ IssuedInScope'
        /\ OneTokenPerInvocation' /\ TokenHeld' /\ OrphansOnlyByTransport'
        /\ ConfigIsFresh'
    BY <1>1, <2>1
    DEF IInv, Safe, NothingSent, NoTokenYet, ConfigHeld, Preflighted, IssuedInScope, TokenFor,
        OneTokenPerInvocation, TokenHeld, MintResponse, OrphansOnlyByTransport, ConfigIsFresh, local
  <2>3. AnsweredWhenDone'
    BY <1>1, <1>3, <2>1 DEF IInv, Safe, AnsweredWhenDone
  <2>4. QED
    BY <2>2, <2>3 DEF Safe
<1>4. QED
  BY <1>1, <1>2, <1>3

\* A broken exchange is safe: it ends as a transport error, sent or not.
LEMMA ExchangeFailsSafe ==
    ASSUME IInv, NEW i \in Invocations, ExchangeFails(i)
    PROVE  Safe'
BY EndSafe DEF ExchangeFails, Fail, InFlight, Failures, world

\* A timeout is safe: it may leave a request or a token, and says so.
LEMMA TimeoutSafe ==
    ASSUME IInv, NEW i \in Invocations, Timeout(i)
    PROVE  Safe'
BY EndSafe DEF Timeout, Advance, Failures, world, github

\* Decoding is safe: the token stays the invocation's own.
LEMMA DecodeTokenSafe ==
    ASSUME IInv, NEW i \in Invocations, DecodeToken(i)
    PROVE  Safe'
BY AdvanceSafe DEF DecodeToken, Advance, world

\* The answer is safe: it is MintResponse of the token in hand.
LEMMA RespondSafe ==
    ASSUME IInv, NEW i \in Invocations, Respond(i)
    PROVE  Safe'
<1>1. /\ pc[i] = "respond"
      /\ token[i] \in DOMAIN issued /\ issued[token[i]].by = i
      /\ UNCHANGED <<ssm, issued, posted, target, app, token, since>>
  BY DEF Respond, IInv, Safe, TokenHeld, world, github
<1>2. /\ \A j \in Invocations \ {i} :
            pc'[j] = pc[j] /\ response'[j] = response[j] /\ answer'[j] = answer[j]
      /\ pc'[i] = "done" /\ response'[i] = MintResponse(i) /\ answer'[i] = "ok"
  BY DEF Respond, Advance, IInv, TypeOK
<1>3. NothingSent' /\ ConfigHeld' /\ ConfigIsFresh' /\ AnsweredWhenDone'
  BY <1>1, <1>2
  DEF IInv, Safe, NothingSent, NoTokenYet, ConfigHeld, ConfigIsFresh, AnsweredWhenDone
<1>4. Preflighted'
  <2>1. \A j \in posted : j \in Invocations \ {i}
    BY <1>1 DEF IInv, TypeOK, Safe, Preflighted
  <2>2. QED
    BY <1>1, <1>2, <2>1 DEF IInv, Safe, Preflighted, NoTokenYet
<1>5. IssuedInScope' /\ OneTokenPerInvocation'
  BY <1>1 DEF IInv, Safe, IssuedInScope, TokenFor, OneTokenPerInvocation
<1>6. TokenHeld'
  BY <1>1, <1>2 DEF IInv, Safe, TokenHeld, MintResponse
<1>7. OrphansOnlyByTransport'
  BY <1>1, <1>2, IssuedType DEF IInv, Safe, OrphansOnlyByTransport
<1>8. QED
  BY <1>3, <1>4, <1>5, <1>6, <1>7 DEF Safe

\* Operators add versions to the parameter store and touch no invocation.
LEMMA ChangeSafe ==
    ASSUME IInv, Change,
           \/ UNCHANGED ssm
           \/ \E p \in Parameters, value \in Texts \cup {Absent} : WriteParameter(p, value)
    PROVE  Safe'
<1>1. UNCHANGED <<issued, posted, pc, local, answer>>
  BY DEF Change, github
<1>2. /\ Len(ssm) \in Nat /\ Len(ssm') \in Nat /\ Len(ssm) <= Len(ssm')
      /\ \A v \in 1..Len(ssm) : ssm'[v] = ssm[v]
  <2>1. CASE UNCHANGED ssm
    BY <2>1, ParameterType DEF IInv
  <2>2. CASE ~UNCHANGED ssm
    <3>1. PICK p \in Parameters, value \in Texts \cup {Absent} : WriteParameter(p, value)
      BY <2>2
    <3>2. [Parameter EXCEPT ![p] = value] \in ParameterStates
      BY ParameterType DEF IInv, ParameterStates
    <3>3. ssm \in Seq(ParameterStates)
      BY DEF IInv, TypeOK
    <3>4. QED
      BY <3>1, <3>2, <3>3, AppendFacts DEF WriteParameter
  <2>3. QED
    BY <2>1, <2>2
<1>3. ConfigHeld' /\ ConfigIsFresh'
  <2>1. \A i \in Invocations : since[i] \in Nat
    BY DEF IInv, TypeOK
  <2>2. QED
    BY <1>1, <1>2, <2>1 DEF IInv, Safe, ConfigHeld, ConfigIsFresh, local
<1>4. QED
  BY <1>1, <1>3
  DEF IInv, Safe, NothingSent, NoTokenYet, Preflighted, IssuedInScope, TokenFor,
      OneTokenPerInvocation, TokenHeld, MintResponse, AnsweredWhenDone,
      OrphansOnlyByTransport, local

\* What operators do is one change, of the parameters or of something else.
LEMMA OperateChanges ==
    ASSUME Operate
    PROVE  /\ Change
           /\ \/ UNCHANGED ssm
              \/ \E p \in Parameters, value \in Texts \cup {Absent} : WriteParameter(p, value)
BY WorldAssumption
DEF Operate, PutParameter, DeleteParameter, WriteParameter, GenerateKey, DeleteKey,
    SelectRepositories, Redeploy

\* A step that changes nothing is safe.
LEMMA StutterSafe == IInv /\ UNCHANGED vars => Safe'
BY DEF IInv, Safe, NothingSent, NoTokenYet, ConfigHeld, Preflighted, IssuedInScope, TokenFor,
       OneTokenPerInvocation, TokenHeld, MintResponse, AnsweredWhenDone,
       OrphansOnlyByTransport, ConfigIsFresh, vars, world, github, local

\* Every step is safe.
LEMMA NextSafe == IInv /\ [Next]_vars => Safe'
<1>1. SUFFICES ASSUME IInv, [Next]_vars PROVE Safe'
  OBVIOUS
<1>2. ASSUME NEW i \in Invocations, NEW payload, Handle(i, payload) PROVE Safe'
  BY <1>1, <1>2, HandleSafe
<1>3. ASSUME NEW i \in Invocations, Serve(i) PROVE Safe'
  BY <1>1, <1>3, LoadAppConfigSafe, SignJWTSafe, ValidateSafe, GrantTokenSafe,
     RefuseTokenSafe, DecodeTokenSafe, RespondSafe
  DEF Serve
<1>4. ASSUME NEW i \in Invocations, Break(i) PROVE Safe'
  BY <1>1, <1>4, LoadAppConfigSafe, ValidateSafe, ExchangeFailsSafe, TimeoutSafe
  DEF Break
<1>5. CASE Operate
  BY <1>1, <1>5, OperateChanges, ChangeSafe
<1>6. CASE Finished \/ UNCHANGED vars
  BY <1>1, <1>6, StutterSafe DEF Finished
<1>7. QED
  BY <1>1, <1>2, <1>3, <1>4, <1>5, <1>6 DEF Next

----------------------------------------------------------------------------
(* What a steady invocation finds, and what it logs                        *)

\* A world that stays the same stays healthy.
LEMMA HealthyKept ==
    ASSUME UNCHANGED <<ssm, appKeys, selected>>, NEW t
    PROVE  Healthy(t)' = Healthy(t)
BY DEF Healthy, TokenGrantedBy, Authenticated, Parameter

\* A step of one invocation leaves the others as they were.
LEMMA OthersServed ==
    ASSUME IInv, NEW i \in Invocations,
           UNCHANGED <<ssm, appKeys, selected>>,
           \A j \in Invocations \ {i} :
               UNCHANGED <<pc[j], target[j], app[j], answer[j], steady[j], logs[j]>>,
           \A j \in Invocations : NoTokenYet(j)' => NoTokenYet(j),
           SteadyServed(i)', LinesFollow(i)'
    PROVE  Served'
<1>1. SUFFICES ASSUME NEW j \in Invocations \ {i}
               PROVE  SteadyServed(j)' /\ LinesFollow(j)'
  BY DEF Served
<1>2. SteadyServed(j) /\ LinesFollow(j)
  BY DEF IInv, Served
<1>3. Healthy(target[j])' = Healthy(target[j]) /\ Parameter' = Parameter
  BY HealthyKept DEF Parameter
<1>4. SteadyServed(j)'
  BY <1>2, <1>3 DEF SteadyServed
<1>5. LinesFollow(j)'
  BY <1>2 DEF LinesFollow, MintLines
<1>6. QED
  BY <1>4, <1>5

\* Tokens are never taken back.
LEMMA IssuedKept ==
    ASSUME UNCHANGED issued
    PROVE  \A j \in Invocations : NoTokenYet(j)' => NoTokenYet(j)
BY DEF NoTokenYet

\* Whoever fails was not steady, or stops being so.
LEMMA FailServed ==
    ASSUME IInv, NEW i \in Invocations, NEW reason \in Failures \ {"timeout"},
           Fail(i, reason), UNCHANGED <<ssm, appKeys, selected, issued>>,
           Disturbed(i) \/ (UNCHANGED steady /\ ~steady[i])
    PROVE  Served'
<1>1. /\ pc'[i] = "done" /\ answer'[i] = reason /\ ~steady'[i]
      /\ \A j \in Invocations \ {i} : UNCHANGED <<pc[j], answer[j], steady[j]>>
  BY DEF Fail, Disturbed, IInv, TypeOK
<1>2. /\ \A j \in Invocations \ {i} : UNCHANGED logs[j]
      /\ "info" \in logs'[i] => "info" \in logs[i]
  BY DEF Fail, LogLine, IInv, TypeOK
<1>3. UNCHANGED <<target, app>>
  BY DEF Fail, local
<1>4. LinesFollow(i)'
  <2>1. LinesFollow(i)
    BY DEF IInv, Served
  <2>2. QED
    BY <1>1, <1>2, <2>1 DEF LinesFollow, NoTokenYet, Failures, InFlight
<1>5. SteadyServed(i)'
  BY <1>1 DEF SteadyServed
<1>6. QED
  BY <1>1, <1>2, <1>3, <1>4, <1>5, IssuedKept, OthersServed

\* An invocation goes on without logging anything.
LEMMA AdvanceServed ==
    ASSUME IInv, NEW i \in Invocations, NEW next \in InFlight \ {"respond"},
           pc[i] \in ({"idle"} \cup InFlight) \ {"respond"}, Advance(i, next),
           UNCHANGED <<ssm, appKeys, selected, answer, logs>>,
           \A j \in Invocations \ {i} : UNCHANGED <<target[j], app[j], steady[j]>>,
           \A j \in Invocations : NoTokenYet(j)' => NoTokenYet(j),
           steady'[i] => Healthy(target[i])' /\ (next # "load" => app'[i] = Parameter)
    PROVE  Served'
<1>1. /\ pc'[i] = next
      /\ \A j \in Invocations \ {i} : UNCHANGED pc[j]
  BY DEF Advance, IInv, TypeOK
<1>2. Parameter' = Parameter
  BY DEF Parameter
<1>3. SteadyServed(i)'
  BY <1>1, <1>2 DEF SteadyServed, InFlight
<1>4. LinesFollow(i)'
  BY <1>1 DEF IInv, Served, LinesFollow, Safe, AnsweredWhenDone, InFlight
<1>5. QED
  BY <1>1, <1>3, <1>4, OthersServed

\* An invocation that starts is steady in a healthy world only.
LEMMA HandleServed ==
    ASSUME IInv, NEW i \in Invocations, NEW payload, Handle(i, payload)
    PROVE  Served'
<1>1. /\ pc[i] = "idle" /\ ~steady[i]
      /\ UNCHANGED <<ssm, appKeys, selected, deployed, issued, app>>
      /\ target'[i] = deployed
      /\ \A j \in Invocations \ {i} : UNCHANGED target[j]
  BY DEF Handle, IInv, Served, SteadyServed, TypeOK, world, github
<1>2. CASE Empty(payload)
  <2>1. /\ Advance(i, "load") /\ UNCHANGED <<answer, logs>>
        /\ steady'[i] = Healthy(deployed)
        /\ \A j \in Invocations \ {i} : UNCHANGED steady[j]
    BY <1>2 DEF Handle, IInv, TypeOK
  <2>2. Healthy(target[i])' = Healthy(deployed)
    BY <1>1, HealthyKept
  <2>3. QED
    BY <1>1, <2>1, <2>2, IssuedKept, AdvanceServed DEF InFlight
<1>3. CASE ~Empty(payload)
  <2>1. /\ pc'[i] = "done" /\ answer'[i] = "input" /\ UNCHANGED steady
        /\ LogLine(i, "warn")
        /\ \A j \in Invocations \ {i} : UNCHANGED <<pc[j], answer[j]>>
    BY <1>3 DEF Handle, Advance, IInv, TypeOK
  <2>2. /\ "info" \notin logs'[i]
        /\ \A j \in Invocations \ {i} : UNCHANGED logs[j]
    BY <1>1, <2>1 DEF LogLine, IInv, TypeOK, Served, LinesFollow
  <2>3. SteadyServed(i)' /\ LinesFollow(i)'
    BY <1>1, <2>1, <2>2 DEF SteadyServed, LinesFollow, InFlight
  <2>4. QED
    BY <1>1, <2>1, <2>2, <2>3, IssuedKept, OthersServed
<1>4. QED
  BY <1>2, <1>3

\* A steady invocation finds every parameter.
LEMMA LoadAppConfigServed ==
    ASSUME IInv, NEW i \in Invocations,
           LoadAppConfig(i) \/ LoadAppConfigFails(i)
    PROVE  Served'
<1>1. /\ pc[i] = "load" /\ SteadyServed(i)
      /\ UNCHANGED <<ssm, appKeys, selected, issued, target>>
  BY DEF LoadAppConfig, LoadAppConfigFails, Fail, local, IInv, Served, world, github
<1>2. CASE LoadAppConfigFails(i)
  BY <1>1, <1>2, FailServed DEF LoadAppConfigFails, Failures
<1>3. CASE LoadAppConfig(i) /\ \E p \in Parameters : Parameter[p] = Absent
  <2>1. ~steady[i]
    BY <1>1, <1>3 DEF SteadyServed, Healthy, InFlight
  <2>2. QED
    BY <1>1, <1>3, <2>1, FailServed DEF LoadAppConfig, ReadParameters, Failures
<1>4. CASE LoadAppConfig(i) /\ \A p \in Parameters : Parameter[p] # Absent
  <2>1. /\ Advance(i, "sign") /\ UNCHANGED <<answer, logs, steady>>
        /\ app'[i] = Parameter
        /\ \A j \in Invocations \ {i} : UNCHANGED app[j]
    BY <1>4 DEF LoadAppConfig, ReadParameters, IInv, TypeOK
  <2>2. steady[i] => Healthy(target[i])'
    BY <1>1, HealthyKept DEF SteadyServed, InFlight
  <2>3. QED
    BY <1>1, <2>1, <2>2, IssuedKept, AdvanceServed DEF InFlight
<1>5. QED
  BY <1>2, <1>3, <1>4

\* What a steady invocation that has read the parameters relies on.
LEMMA SteadyFinds ==
    ASSUME IInv, NEW i \in Invocations, steady[i], pc[i] \in InFlight \ {"load"}
    PROVE  /\ app[i] = Parameter
           /\ Healthy(target[i])
           /\ Authenticated(app[i])
           /\ \E n \in Installations : /\ TokenGrantedBy(n, app[i], target[i])
                                       /\ Installation[n].owner = target[i].Owner
<1>1. app[i] = Parameter /\ Healthy(target[i])
  BY DEF IInv, Served, SteadyServed
<1>2. QED
  BY <1>1 DEF Healthy, TokenGrantedBy

\* A steady invocation's PEM parses.
LEMMA SignJWTServed ==
    ASSUME IInv, NEW i \in Invocations, SignJWT(i)
    PROVE  Served'
<1>1. /\ pc[i] = "sign"
      /\ UNCHANGED <<ssm, appKeys, selected, issued, steady, target, app>>
  BY DEF SignJWT, Fail, local, world, github
<1>2. CASE app[i].PrivateKey \notin DOMAIN RsaKey
  <2>1. ~steady[i]
    BY <1>1, <1>2, SteadyFinds DEF Authenticated, InFlight
  <2>2. QED
    BY <1>1, <1>2, <2>1, FailServed DEF SignJWT, Failures
<1>3. CASE app[i].PrivateKey \in DOMAIN RsaKey
  <2>1. Advance(i, "validate") /\ UNCHANGED <<answer, logs>>
    BY <1>3 DEF SignJWT
  <2>2. steady[i] => Healthy(target[i])' /\ app[i] = Parameter
    BY <1>1, SteadyFinds, HealthyKept DEF InFlight
  <2>3. QED
    BY <1>1, <2>1, <2>2, IssuedKept, AdvanceServed DEF InFlight
<1>4. QED
  BY <1>2, <1>3

\* An App has one installation on an account, so that what the preflight finds
\* for a steady invocation is the installation that is configured.
LEMMA ValidateServed ==
    ASSUME IInv, NEW i \in Invocations,
           ValidateRepositoryInstallation(i) \/ ValidateFails(i)
    PROVE  Served'
<1>1. /\ pc[i] = "validate"
      /\ UNCHANGED <<ssm, appKeys, selected, issued, target, app>>
  BY DEF ValidateRepositoryInstallation, ValidateFails, Fail, local, world, github
<1>2. CASE ValidateFails(i)
  BY <1>1, <1>2, FailServed DEF ValidateFails, Failures
<1>3. CASE ValidateRepositoryInstallation(i)
  <2> DEFINE found == IF Authenticated(app[i])
                      THEN RepositoryInstallation(app[i].ClientID, target[i])
                      ELSE {}
  <2>1. UNCHANGED steady
    BY <1>3 DEF ValidateRepositoryInstallation
  <2>2. ASSUME steady[i]
        PROVE  found # {} /\ \A n \in found : Matches(i, n)
    <3>1. PICK m \in Installations : /\ TokenGrantedBy(m, app[i], target[i])
                                     /\ Installation[m].owner = target[i].Owner
      BY <1>1, <2>2, SteadyFinds DEF InFlight
    <3>2. found = RepositoryInstallation(app[i].ClientID, target[i])
      BY <3>1 DEF TokenGrantedBy
    <3>3. m \in found /\ Matches(i, m)
      BY <3>1, <3>2 DEF TokenGrantedBy, RepositoryInstallation, Matches
    <3>4. ASSUME NEW n \in found PROVE n = m
      BY <3>1, <3>2, <3>4, WorldAssumption DEF TokenGrantedBy, RepositoryInstallation
    <3>5. QED
      BY <3>3, <3>4
  <2>3. CASE \E reason \in {"mismatch", "preflight"} : Fail(i, reason)
    <3>1. ~steady[i]
      <4>1. pc'[i] = "done"
        BY <2>3 DEF Fail, IInv, TypeOK
      <4>2. ~Advance(i, "exchange")
        BY <4>1 DEF Advance, IInv, TypeOK
      <4>3. found = {} \/ \E n \in found : ~Matches(i, n)
        BY <1>3, <4>2 DEF ValidateRepositoryInstallation
      <4>4. QED
        BY <2>2, <4>3
    <3>2. QED
      BY <1>1, <2>1, <2>3, <3>1, FailServed DEF Failures
  <2>4. CASE ~\E reason \in {"mismatch", "preflight"} : Fail(i, reason)
    <3>1. Advance(i, "exchange") /\ UNCHANGED <<answer, logs>>
      BY <1>3, <2>4 DEF ValidateRepositoryInstallation
    <3>2. steady[i] => Healthy(target[i])' /\ app[i] = Parameter
      BY <1>1, SteadyFinds, HealthyKept DEF InFlight
    <3>3. QED
      BY <1>1, <2>1, <3>1, <3>2, IssuedKept, AdvanceServed DEF InFlight
  <2>5. QED
    BY <2>3, <2>4
<1>4. QED
  BY <1>2, <1>3

\* A token adds to what was issued.
LEMMA GrantTokenServed ==
    ASSUME IInv, NEW i \in Invocations, GrantToken(i)
    PROVE  Served'
<1>1. UNCHANGED <<ssm, appKeys, selected, target, app, answer, logs, steady>>
  BY DEF GrantToken, world
<1>2. \A j \in Invocations : NoTokenYet(j)' => NoTokenYet(j)
  <2>1. \A k \in DOMAIN issued : k \in DOMAIN issued' /\ issued'[k] = issued[k]
    <3> DEFINE S == Token \cup {TokenFor(i)}
    <3>1. issued \in Seq(S) /\ TokenFor(i) \in S
      BY DEF IInv, TypeOK
    <3> HIDE DEF S
    <3>2. QED
      BY <3>1, GrantTokenAppends, AppendFacts
  <2>2. QED
    BY <2>1 DEF NoTokenYet
<1>3. CASE pc[i] = "exchange"
  <2>1. Advance(i, "decode")
    BY <1>3 DEF GrantToken
  <2>2. steady[i] => Healthy(target[i])' /\ app[i] = Parameter
    BY <1>1, <1>3, SteadyFinds, HealthyKept DEF InFlight
  <2>3. QED
    BY <1>1, <1>2, <1>3, <2>1, <2>2, AdvanceServed DEF InFlight
<1>4. CASE pc[i] # "exchange"
  <2>1. UNCHANGED pc
    BY <1>4 DEF GrantToken
  <2>2. SteadyServed(i)' /\ LinesFollow(i)'
    <3>1. SteadyServed(i) /\ LinesFollow(i)
      BY DEF IInv, Served
    <3>2. Healthy(target[i])' = Healthy(target[i]) /\ Parameter' = Parameter
      BY <1>1, HealthyKept DEF Parameter
    <3>3. QED
      BY <1>1, <1>2, <2>1, <3>1, <3>2 DEF SteadyServed, LinesFollow
  <2>3. QED
    BY <1>1, <1>2, <2>1, <2>2, OthersServed
<1>5. QED
  BY <1>3, <1>4

\* GitHub refuses a steady invocation nothing.
LEMMA RefuseTokenServed ==
    ASSUME IInv, NEW i \in Invocations, RefuseToken(i)
    PROVE  Served'
<1>1. UNCHANGED <<ssm, appKeys, selected, issued, steady>>
  BY DEF RefuseToken, world
<1>2. CASE pc[i] = "exchange"
  <2>1. ~steady[i]
    BY <1>2, SteadyFinds DEF RefuseToken, InFlight
  <2>2. Fail(i, "refused")
    BY <1>2 DEF RefuseToken
  <2>3. QED
    BY <1>1, <2>1, <2>2, FailServed DEF Failures
<1>3. CASE pc[i] # "exchange"
  <2>1. UNCHANGED <<pc, target, app, answer, logs>>
    BY <1>3 DEF RefuseToken, local
  <2>2. SteadyServed(i)' /\ LinesFollow(i)'
    <3>1. SteadyServed(i) /\ LinesFollow(i)
      BY DEF IInv, Served
    <3>2. Healthy(target[i])' = Healthy(target[i]) /\ Parameter' = Parameter
      BY <1>1, <2>1, HealthyKept DEF Parameter
    <3>3. QED
      BY <1>1, <2>1, <3>1, <3>2 DEF SteadyServed, LinesFollow, NoTokenYet
  <2>3. QED
    BY <1>1, <2>1, <2>2, IssuedKept, OthersServed
<1>4. QED
  BY <1>2, <1>3

\* The mint line is due when there is a token.
LEMMA DecodeTokenServed ==
    ASSUME IInv, NEW i \in Invocations, DecodeToken(i)
    PROVE  Served'
<1>1. /\ pc[i] = "decode" /\ SteadyServed(i) /\ logs[i] = {} /\ answer[i] = "none"
      /\ UNCHANGED <<ssm, appKeys, selected, issued, steady, target, app, answer>>
  BY DEF DecodeToken, local, world, github, IInv, Served, LinesFollow, InFlight, Safe,
         AnsweredWhenDone
<1>2. /\ pc'[i] = "respond"
      /\ \A j \in Invocations \ {i} : UNCHANGED pc[j]
  BY DEF DecodeToken, Advance, IInv, TypeOK
<1>3. /\ logs'[i] = MintLines
      /\ \A j \in Invocations \ {i} : UNCHANGED logs[j]
  <2>1. logs' = [logs EXCEPT ![i] = @ \cup (IF Severity["info"] >= Threshold THEN {"info"} ELSE {})]
    BY DEF DecodeToken, LogLine
  <2>2. Threshold \in Nat /\ Severity["info"] = Severity.info /\ Severity.info \in Nat
    BY DEF Threshold, Severity
  <2>3. QED
    BY <1>1, <2>1, <2>2 DEF MintLines, IInv, TypeOK
<1>4. ~NoTokenYet(i)'
  BY <1>1 DEF IInv, Safe, TokenHeld, NoTokenYet
<1>5. LinesFollow(i)'
  <2>1. MintLines' = MintLines
    BY DEF MintLines
  <2>2. QED
    BY <1>1, <1>2, <1>3, <1>4, <2>1 DEF LinesFollow, InFlight
<1>6. SteadyServed(i)'
  <2>1. Healthy(target[i])' = Healthy(target[i]) /\ Parameter' = Parameter
    BY <1>1, HealthyKept DEF Parameter
  <2>2. QED
    BY <1>1, <1>2, <2>1 DEF SteadyServed, InFlight
<1>7. QED
  BY <1>1, <1>2, <1>3, <1>5, <1>6, IssuedKept, OthersServed

\* An answer is the end of it.
LEMMA RespondServed ==
    ASSUME IInv, NEW i \in Invocations, Respond(i)
    PROVE  Served'
<1>1. /\ pc[i] = "respond"
      /\ UNCHANGED <<ssm, appKeys, selected, issued, steady, target, app, logs>>
  BY DEF Respond, world, github
<1>2. /\ pc'[i] = "done" /\ answer'[i] = "ok"
      /\ \A j \in Invocations \ {i} : UNCHANGED <<pc[j], answer[j]>>
  BY DEF Respond, Advance, IInv, TypeOK
<1>3. SteadyServed(i)' /\ LinesFollow(i)'
  BY <1>1, <1>2
  DEF IInv, Served, SteadyServed, LinesFollow, MintLines, NoTokenYet, InFlight
<1>4. QED
  BY <1>1, <1>2, <1>3, IssuedKept, OthersServed

\* A timeout ends steadiness, and logs nothing.
LEMMA TimeoutServed ==
    ASSUME IInv, NEW i \in Invocations, Timeout(i)
    PROVE  Served'
<1>1. UNCHANGED <<ssm, appKeys, selected, issued, target, app, logs>>
  BY DEF Timeout, local, world, github
<1>2. /\ pc'[i] = "done" /\ answer'[i] = "timeout" /\ ~steady'[i]
      /\ \A j \in Invocations \ {i} : UNCHANGED <<pc[j], answer[j], steady[j]>>
  BY DEF Timeout, Advance, Disturbed, IInv, TypeOK
<1>3. SteadyServed(i)' /\ LinesFollow(i)'
  BY <1>1, <1>2 DEF IInv, Served, SteadyServed, LinesFollow, NoTokenYet, InFlight
<1>4. QED
  BY <1>1, <1>2, <1>3, IssuedKept, OthersServed

\* After a change nobody in flight is steady.
LEMMA ChangeServed ==
    ASSUME IInv, Change
    PROVE  Served'
<1>1. SUFFICES ASSUME NEW i \in Invocations
               PROVE  SteadyServed(i)' /\ LinesFollow(i)'
  BY DEF Served
<1>2. UNCHANGED <<pc, target, app, answer, logs, issued>>
  BY DEF Change, github, local
<1>3. steady'[i] => steady[i] /\ pc[i] = "done"
  BY DEF Change
<1>4. SteadyServed(i) /\ LinesFollow(i)
  BY DEF IInv, Served
<1>5. QED
  BY <1>2, <1>3, <1>4 DEF SteadyServed, LinesFollow, MintLines, NoTokenYet, InFlight

\* A step that changes nothing serves.
LEMMA StutterServed == IInv /\ UNCHANGED vars => Served'
BY HealthyKept
DEF IInv, Served, SteadyServed, LinesFollow, MintLines, NoTokenYet, Parameter,
    vars, world, github, local

\* Every step keeps steady invocations served.
LEMMA NextServed == IInv /\ [Next]_vars => Served'
<1>1. SUFFICES ASSUME IInv, [Next]_vars PROVE Served'
  OBVIOUS
<1>2. ASSUME NEW i \in Invocations, NEW payload, Handle(i, payload) PROVE Served'
  BY <1>1, <1>2, HandleServed
<1>3. ASSUME NEW i \in Invocations, Serve(i) PROVE Served'
  BY <1>1, <1>3, LoadAppConfigServed, SignJWTServed, ValidateServed, GrantTokenServed,
     RefuseTokenServed, DecodeTokenServed, RespondServed
  DEF Serve
<1>4. ASSUME NEW i \in Invocations, Break(i) PROVE Served'
  <2>1. CASE ExchangeFails(i)
    BY <1>1, <2>1, FailServed DEF ExchangeFails, Failures, world
  <2>2. QED
    BY <1>1, <1>4, <2>1, LoadAppConfigServed, ValidateServed, TimeoutServed DEF Break
<1>5. CASE Operate
  BY <1>1, <1>5, OperateChanges, ChangeServed
<1>6. CASE Finished \/ UNCHANGED vars
  BY <1>1, <1>6, StutterServed DEF Finished
<1>7. QED
  BY <1>1, <1>2, <1>3, <1>4, <1>5, <1>6 DEF Next

\* The invariant is inductive.
LEMMA NextInv == IInv /\ [Next]_vars => IInv'
BY NextType, NextSafe, NextServed DEF IInv

\* Nobody has begun.
LEMMA InitInv == Init => IInv
<1>1. Init => Served
  BY DEF Init, Served, SteadyServed, LinesFollow, InFlight
<1>2. QED
  BY <1>1, InitType, InitSafe DEF IInv

\* The inductive invariant holds in every reachable state.
THEOREM Inductive == Spec => []IInv
BY InitInv, NextInv, PTL DEF Spec

----------------------------------------------------------------------------
(* What follows from it                                                    *)

\* However operators and faults interleave with the two GitHub requests, every
\* token covers exactly the target of the invocation that asked for it.
THEOREM TokensStayInScope == Spec => []TokenScope
<1>1. IInv => TokenScope
  BY IssuedType DEF IInv, Safe, IssuedInScope, TokenFor, TokenScope
<1>2. QED
  BY <1>1, Inductive, PTL

\* No invocation is ever issued a second token.
THEOREM NoSecondToken == Spec => []OneTokenPerInvocation
<1>1. IInv => OneTokenPerInvocation
  BY DEF IInv, Safe
<1>2. QED
  BY <1>1, Inductive, PTL

\* What a caller is told about its token is what GitHub granted.
THEOREM ResponsesAreTruthful == Spec => []ResponseTruthful
<1>1. IInv => ResponseTruthful
  <2>1. SUFFICES ASSUME IInv, NEW i \in Invocations, answer[i] = "ok"
                 PROVE  /\ response[i].token \in DOMAIN issued
                        /\ issued[response[i].token] =
                              [by |-> i,
                               repository |-> response[i].repository,
                               permissions |-> response[i].permissions]
    BY DEF ResponseTruthful
  <2>2. /\ response[i] = MintResponse(i)
        /\ token[i] \in DOMAIN issued /\ issued[token[i]].by = i
    BY <2>1 DEF IInv, Safe, TokenHeld
  <2>3. issued[token[i]] = TokenFor(i)
    BY <2>1, <2>2 DEF IInv, Safe, IssuedInScope
  <2>4. /\ response[i].token = token[i]
        /\ response[i].repository = Repository(target[i])
        /\ response[i].permissions = target[i].Permissions
    BY <2>2 DEF MintResponse
  <2>5. QED
    BY <2>2, <2>3, <2>4 DEF TokenFor
<1>2. QED
  BY <1>1, Inductive, PTL

\* Errors the broker reports for reasons of its own leave no token behind.
THEOREM OnlyTransportOrphans == Spec => []OrphansOnlyByTransport
<1>1. IInv => OrphansOnlyByTransport
  BY DEF IInv, Safe
<1>2. QED
  BY <1>1, Inductive, PTL

\* Every invocation works with parameters SSM held while it ran.
THEOREM ConfigStaysFresh == Spec => []ConfigIsFresh
<1>1. IInv => ConfigIsFresh
  BY DEF IInv, Safe
<1>2. QED
  BY <1>1, Inductive, PTL

\* An invocation that began with everything in place, in a world that neither
\* changed nor failed it, gives a token when it ends.
THEOREM SteadyInvocationsSucceed == Spec => []SteadyInvocationSucceeds
<1>1. IInv => SteadyInvocationSucceeds
  BY DEF IInv, Served, SteadyServed, SteadyInvocationSucceeds
<1>2. QED
  BY <1>1, Inductive, PTL

\* The mint line is never logged without a token, nor left out with one.
THEOREM MintLinesMeanTokens == Spec => []MintLineMeansToken
<1>1. IInv => MintLineMeansToken
  BY DEF IInv, Served, LinesFollow, MintLines, NoTokenYet, MintLineMeansToken
<1>2. QED
  BY <1>1, Inductive, PTL
=============================================================================
