-------------------------- MODULE RefinementProofs --------------------------
(***************************************************************************)
(* TokenBroker implements MintService, for every value of the constants:   *)
(* initial states map to initial states and every step of an invocation,   *)
(* of GitHub or of an operator maps to a step of MintService or changes    *)
(* nothing it speaks of.  The step is proved under the inductive invariant *)
(* of TokenBrokerInvariant.                                                *)
(***************************************************************************)
EXTENDS TokenBrokerProofs

----------------------------------------------------------------------------
(* Answers are final                                                       *)

\* No step changes what an invocation that is done was answered.
LEMMA AnswerFrame ==
    ASSUME IInv, [Next]_vars, NEW i \in Invocations, pc[i] = "done"
    PROVE  UNCHANGED <<pc[i], answer[i], response[i], token[i], logs[i]>>
<1>1. ASSUME NEW j \in Invocations, NEW payload, Handle(j, payload)
      PROVE  UNCHANGED <<pc[i], answer[i], response[i], token[i], logs[i]>>
  <2>1. i # j
    BY <1>1 DEF Handle
  <2>2. QED
    BY <1>1, <2>1 DEF Handle, Advance, LogLine, IInv, TypeOK
<1>2. ASSUME NEW j \in Invocations, Serve(j)
      PROVE  UNCHANGED <<pc[i], answer[i], response[i], token[i], logs[i]>>
  <2>1. CASE j = i
    <3>1. GrantToken(i) \/ RefuseToken(i)
      BY <1>2, <2>1 DEF Serve, LoadAppConfig, SignJWT, ValidateRepositoryInstallation,
                        DecodeToken, Respond
    <3>2. QED
      BY <3>1 DEF GrantToken, RefuseToken, local
  <2>2. CASE j # i
    <3>1. /\ pc'[i] = pc[i] /\ token'[i] = token[i]
      BY <1>2, <2>2 DEF Serve, LoadAppConfig, SignJWT, ValidateRepositoryInstallation,
                        GrantToken, RefuseToken, DecodeToken, Respond, Fail, Advance,
                        local, IInv, TypeOK
    <3>2. answer'[i] = answer[i] /\ response'[i] = response[i] /\ logs'[i] = logs[i]
      BY <1>2, <2>2 DEF Serve, LoadAppConfig, SignJWT, ValidateRepositoryInstallation,
                        GrantToken, RefuseToken, DecodeToken, Respond, Fail, LogLine,
                        local, IInv, TypeOK
    <3>3. QED
      BY <3>1, <3>2
  <2>3. QED
    BY <2>1, <2>2
<1>3. ASSUME NEW j \in Invocations, Break(j)
      PROVE  UNCHANGED <<pc[i], answer[i], response[i], token[i], logs[i]>>
  <2>1. i # j
    BY <1>3 DEF Break, LoadAppConfigFails, ValidateFails, ExchangeFails, Timeout, InFlight
  <2>2. QED
    BY <1>3, <2>1 DEF Break, LoadAppConfigFails, ValidateFails, ExchangeFails, Timeout,
                      Fail, Advance, LogLine, local, IInv, TypeOK
<1>4. CASE Operate
  BY <1>4 DEF Operate, PutParameter, DeleteParameter, WriteParameter, GenerateKey, DeleteKey,
              SelectRepositories, Redeploy, Change, local
<1>5. CASE Finished \/ UNCHANGED vars
  BY <1>5 DEF Finished, vars, local
<1>6. QED
  BY <1>1, <1>2, <1>3, <1>4, <1>5 DEF Next

\* A late answer from GitHub changes nothing for an invocation that has ended.
THEOREM AnswersStayFinal == Spec => AnswersAreFinal
<1>1. IInv /\ [Next]_vars =>
        [\A i \in Invocations : pc[i] = "done" =>
           UNCHANGED <<pc[i], answer[i], response[i], token[i], logs[i]>>]_vars
  BY AnswerFrame
<1>2. QED
  BY <1>1, Inductive, PTL DEF Spec, AnswersAreFinal

----------------------------------------------------------------------------
(* The refinement mapping                                                  *)

AbstractStatus == [i \in Invocations |-> Status(i)]
AbstractScope == [i \in Invocations |-> IF Bound(i) THEN Scope(i) ELSE NoConfig]
AbstractToken(k) == [by |-> issued[k].by,
                     scope |-> [repository |-> issued[k].repository,
                                permissions |-> issued[k].permissions]]
AbstractIssued == [k \in DOMAIN issued |-> AbstractToken(k)]
AbstractGiven == [i \in Invocations |->
                     IF answer[i] = "ok" THEN response[i].token ELSE 0]

\* The initial states of the broker are initial states of MintService.
LEMMA InitRefines == Init => Abstract!Init
<1>1. SUFFICES ASSUME Init PROVE Abstract!Init
  OBVIOUS
<1>2. \A i \in Invocations : Status(i) = "idle" /\ ~Bound(i) /\ answer[i] # "ok"
  BY <1>1 DEF Init, Status, Bound
<1>3. issued = <<>>
  BY <1>1 DEF Init
<1>4. QED
  BY <1>2, <1>3 DEF Abstract!Init

\* How the status follows from the program counter and the answer.
LEMMA StatusFacts ==
    ASSUME NEW i \in Invocations
    PROVE  /\ pc[i] = "idle" => Status(i) = "idle"
           /\ pc[i] \in InFlight => Status(i) = "waiting"
           /\ pc[i] = "done" /\ answer[i] = "ok" => Status(i) = "given"
           /\ pc[i] = "done" /\ answer[i] = "input" => Status(i) = "rejected"
           /\ pc[i] = "done" /\ answer[i] \in Failures \ {"input"} => Status(i) = "refused"
BY DEF Status, InFlight, Failures

\* An invocation whose status is known, and known not to change, maps to itself.
LEMMA Unmoved ==
    ASSUME NEW i \in Invocations,
           pc'[i] = pc[i] \/ (pc[i] \in InFlight /\ pc'[i] \in InFlight),
           answer'[i] = answer[i]
    PROVE  Status(i)' = Status(i)
BY DEF Status, InFlight

\* Steps that move no invocation's status, scope, token or response stutter.
LEMMA QuietRefines ==
    ASSUME \A i \in Invocations : Status(i)' = Status(i),
           UNCHANGED <<target, issued, answer, response>>
    PROVE  UNCHANGED Abstract!vars
<1>1. AbstractStatus' = AbstractStatus
  BY DEF AbstractStatus
<1>2. AbstractScope' = AbstractScope
  BY DEF AbstractScope, Bound, Scope
<1>3. AbstractIssued' = AbstractIssued /\ AbstractGiven' = AbstractGiven
  BY DEF AbstractIssued, AbstractToken, AbstractGiven
<1>4. QED
  BY <1>1, <1>2, <1>3
  DEF Abstract!vars, AbstractStatus, AbstractScope, AbstractIssued, AbstractToken, AbstractGiven

\* A failure of an invocation in flight is a refusal.
LEMMA EndRefines ==
    ASSUME IInv, NEW i \in Invocations, NEW reason \in Failures \ {"input"},
           pc[i] \in InFlight,
           pc' = [pc EXCEPT ![i] = "done"],
           answer' = [answer EXCEPT ![i] = reason],
           UNCHANGED <<issued, target, response>>
    PROVE  Abstract!Refuse(i)
<1>1. /\ \A j \in Invocations \ {i} : pc'[j] = pc[j] /\ answer'[j] = answer[j]
      /\ pc'[i] = "done" /\ answer'[i] = reason
      /\ pc[i] # "done" /\ answer[i] = "none" /\ reason # "ok" /\ reason # "input"
  BY DEF IInv, TypeOK, Safe, AnsweredWhenDone, InFlight, Failures
<1>2. Status(i) = "waiting" /\ Status(i)' = "refused"
  BY <1>1 DEF Status, InFlight
<1>3. \A j \in Invocations \ {i} : Status(j)' = Status(j)
  BY <1>1 DEF Status
<1>4. \A j \in Invocations : Bound(j)' = Bound(j)
  BY <1>2, <1>3 DEF Bound
<1>5. \A j \in Invocations : (answer'[j] = "ok") = (answer[j] = "ok")
  BY <1>1
<1>6. QED
  BY <1>2, <1>3, <1>4, <1>5 DEF Abstract!Refuse, Scope

\* A start is an Accept, or for a payload with input a Reject.
LEMMA HandleRefines ==
    ASSUME IInv, NEW i \in Invocations, NEW payload, Handle(i, payload)
    PROVE  Abstract!Accept(i) \/ Abstract!Reject(i)
<1>1. /\ pc[i] = "idle" /\ answer[i] = "none"
      /\ UNCHANGED <<issued, response>>
      /\ target' = [target EXCEPT ![i] = deployed]
      /\ \A j \in Invocations \ {i} : target'[j] = target[j]
      /\ target'[i] = deployed /\ deployed \in Targets
  BY DEF IInv, TypeOK, Safe, AnsweredWhenDone, Handle, github
<1>2. Status(i) = "idle"
  BY <1>1, StatusFacts
<1>3. CASE Empty(payload)
  <2>1. /\ pc' = [pc EXCEPT ![i] = "load"] /\ answer' = answer
    BY <1>3 DEF Handle, Advance
  <2>2. /\ \A j \in Invocations \ {i} : pc'[j] = pc[j]
        /\ pc'[i] = "load"
    BY <2>1 DEF IInv, TypeOK
  <2>3. Status(i)' = "waiting" /\ Bound(i)'
    BY <2>2 DEF Status, Bound, InFlight
  <2>4. \A j \in Invocations \ {i} : Status(j)' = Status(j) /\ Bound(j)' = Bound(j)
    BY <2>1, <2>2 DEF Status, Bound
  <2>5. Scope(i)' = [repository |-> Repository(deployed), permissions |-> deployed.Permissions]
    BY <1>1 DEF Scope
  <2>6. \A j \in Invocations \ {i} : Scope(j)' = Scope(j)
    BY <1>1 DEF Scope
  <2>7. Abstract!Accept(i)
    BY <1>1, <1>2, <2>1, <2>3, <2>4, <2>5, <2>6 DEF Abstract!Accept
  <2>8. QED
    BY <2>7
<1>4. CASE ~Empty(payload)
  <2>1. /\ pc' = [pc EXCEPT ![i] = "done"] /\ answer' = [answer EXCEPT ![i] = "input"]
    BY <1>4 DEF Handle, Advance
  <2>2. /\ \A j \in Invocations \ {i} : pc'[j] = pc[j] /\ answer'[j] = answer[j]
        /\ pc'[i] = "done" /\ answer'[i] = "input"
    BY <2>1 DEF IInv, TypeOK
  <2>3. Status(i)' = "rejected" /\ ~Bound(i)' /\ ~Bound(i)
    BY <1>2, <2>2 DEF Status, Bound, InFlight
  <2>4. \A j \in Invocations \ {i} : Status(j)' = Status(j) /\ Bound(j)' = Bound(j)
    BY <2>1, <2>2 DEF Status, Bound
  <2>5. \A j \in Invocations \ {i} : Scope(j)' = Scope(j)
    BY <1>1 DEF Scope
  <2>6. \A j \in Invocations : (answer'[j] = "ok") = (answer[j] = "ok")
    BY <1>1, <2>2
  <2>7. Abstract!Reject(i)
    BY <1>1, <1>2, <2>3, <2>4, <2>5, <2>6 DEF Abstract!Reject
  <2>8. QED
    BY <2>7
<1>5. QED
  BY <1>3, <1>4

\* The token GitHub issues is an Issue, whether or not anyone still waits.
LEMMA GrantRefines ==
    ASSUME IInv, NEW i \in Invocations, GrantToken(i)
    PROVE  Abstract!Issue(i)
<1>1. /\ i \in posted /\ NoTokenYet(i) /\ pc[i] \in {"exchange", "done"}
      /\ answer[i] \in {"none", "transport", "timeout"}
      /\ answer[i] = "none" <=> pc[i] # "done"
      /\ UNCHANGED <<target, response, answer>>
  BY DEF GrantToken, IInv, Safe, Preflighted, AnsweredWhenDone
<1>2. /\ \A k \in DOMAIN issued : issued'[k] = issued[k]
      /\ DOMAIN issued' = DOMAIN issued \cup {Len(issued) + 1}
      /\ issued'[Len(issued) + 1] = TokenFor(i)
      /\ Len(issued) \in Nat /\ DOMAIN issued = 1..Len(issued)
  <2>1. issued' = Append(issued, TokenFor(i))
    BY GrantTokenAppends
  <2> DEFINE S == Token \cup {TokenFor(i)}
  <2>2. issued \in Seq(S) /\ TokenFor(i) \in S
    BY DEF IInv, TypeOK
  <2> HIDE DEF S
  <2>3. QED
    BY <2>1, <2>2, AppendFacts
<1>3. Status(i) \in {"waiting", "refused"} /\ Bound(i)
  BY <1>1 DEF Status, Bound, InFlight
<1>4. \A j \in Invocations : Status(j)' = Status(j) /\ Bound(j)' = Bound(j)
  <2>1. \A j \in Invocations \ {i} : pc'[j] = pc[j]
    BY DEF GrantToken, Advance, IInv, TypeOK
  <2>2. \/ pc'[i] = pc[i]
        \/ pc[i] = "exchange" /\ pc'[i] = "decode"
    BY <1>1 DEF GrantToken, Advance, IInv, TypeOK
  <2>3. QED
    BY <1>1, <2>1, <2>2 DEF Status, Bound, InFlight
<1>5. /\ AbstractStatus' = AbstractStatus
      /\ AbstractScope' = AbstractScope
      /\ AbstractGiven' = AbstractGiven
      /\ AbstractScope[i] = Scope(i)
  BY <1>1, <1>3, <1>4 DEF AbstractStatus, AbstractScope, AbstractGiven, Scope
<1>6. AbstractIssued' = Append(AbstractIssued, [by |-> i, scope |-> Scope(i)])
  <2>1. /\ DOMAIN AbstractIssued = 1..Len(issued)
        /\ Len(AbstractIssued) = Len(issued)
    BY <1>2 DEF AbstractIssued
  <2>2. Append(AbstractIssued, [by |-> i, scope |-> Scope(i)])
          = [k \in 1..(Len(issued) + 1) |->
               IF k = Len(issued) + 1 THEN [by |-> i, scope |-> Scope(i)]
               ELSE AbstractIssued[k]]
    BY <1>2, <2>1 DEF AbstractIssued
  <2>3. DOMAIN issued' = 1..(Len(issued) + 1)
    BY <1>2
  <2>4. \A k \in 1..Len(issued) : AbstractToken(k)' = AbstractIssued[k]
    BY <1>2 DEF AbstractToken, AbstractIssued
  <2>5. \A k \in DOMAIN issued' :
          k = Len(issued) + 1 => AbstractToken(k)' = [by |-> i, scope |-> Scope(i)]
    BY <1>2 DEF AbstractToken, TokenFor, Scope
  <2>6. AbstractIssued' = [k \in 1..(Len(issued) + 1) |->
                             IF k = Len(issued) + 1 THEN [by |-> i, scope |-> Scope(i)]
                             ELSE AbstractIssued[k]]
    BY <1>2, <2>3, <2>4, <2>5 DEF AbstractIssued
  <2>7. QED
    BY <2>2, <2>6
<1>7. \A k \in DOMAIN AbstractIssued : AbstractIssued[k].by # i
  BY <1>1 DEF AbstractIssued, AbstractToken, NoTokenYet
<1>8. QED
  BY <1>3, <1>5, <1>6, <1>7
  DEF Abstract!Issue, AbstractStatus, AbstractScope, AbstractIssued, AbstractToken, AbstractGiven

\* The answer to the caller is a Give.
LEMMA RespondRefines ==
    ASSUME IInv, NEW i \in Invocations, Respond(i)
    PROVE  Abstract!Give(i)
<1>1. /\ pc[i] = "respond" /\ answer[i] = "none"
      /\ token[i] \in DOMAIN issued /\ issued[token[i]].by = i
      /\ UNCHANGED <<issued, target>>
  BY DEF Respond, IInv, Safe, TokenHeld, AnsweredWhenDone, github
<1>2. /\ \A j \in Invocations \ {i} :
            pc'[j] = pc[j] /\ response'[j] = response[j] /\ answer'[j] = answer[j]
      /\ pc'[i] = "done" /\ response'[i].token = token[i] /\ answer'[i] = "ok"
  BY DEF Respond, MintResponse, Advance, IInv, TypeOK
<1>3. Status(i) = "waiting" /\ Status(i)' = "given"
  BY <1>1, <1>2 DEF Status, InFlight
<1>4. \A j \in Invocations \ {i} : Status(j)' = Status(j)
  BY <1>2 DEF Status
<1>5. \A j \in Invocations : Bound(j)' = Bound(j) /\ Scope(j)' = Scope(j)
  BY <1>1, <1>3, <1>4 DEF Bound, Scope
<1>6. AbstractGiven' = [AbstractGiven EXCEPT ![i] = token[i]]
  BY <1>2 DEF AbstractGiven
<1>7. token[i] \in DOMAIN AbstractIssued /\ AbstractIssued[token[i]].by = i
  BY <1>1 DEF AbstractIssued, AbstractToken
<1>8. /\ AbstractStatus' = [AbstractStatus EXCEPT ![i] = "given"]
      /\ AbstractScope' = AbstractScope
      /\ AbstractIssued' = AbstractIssued
  BY <1>1, <1>3, <1>4, <1>5 DEF AbstractStatus, AbstractScope, AbstractIssued, AbstractToken
<1>9. QED
  BY <1>3, <1>6, <1>7, <1>8
  DEF Abstract!Give, AbstractStatus, AbstractScope, AbstractIssued, AbstractToken, AbstractGiven

----------------------------------------------------------------------------
(* Every step                                                              *)

\* What the broker and the services do when nothing breaks refines.
LEMMA ServeRefines ==
    ASSUME IInv, NEW i \in Invocations, Serve(i)
    PROVE  [Abstract!Next]_(Abstract!vars)
<1>1. CASE GrantToken(i)
  BY <1>1, GrantRefines DEF Abstract!Next
<1>2. CASE Respond(i)
  BY <1>2, RespondRefines DEF Abstract!Next
<1>3. CASE \E reason \in Failures \ {"input"} : pc[i] \in InFlight /\ Fail(i, reason)
  <2>1. UNCHANGED <<issued, target, response>>
    BY <1>3 DEF Serve, LoadAppConfig, SignJWT, ValidateRepositoryInstallation, GrantToken,
                RefuseToken, DecodeToken, Respond, Fail, Advance, InFlight, Failures, world,
                github, local, IInv, TypeOK
  <2>2. Abstract!Refuse(i)
    BY <1>3, <2>1, EndRefines DEF Fail
  <2>3. QED
    BY <2>2 DEF Abstract!Next
<1>4. CASE /\ ~GrantToken(i) /\ ~Respond(i)
           /\ ~\E reason \in Failures \ {"input"} : pc[i] \in InFlight /\ Fail(i, reason)
  <2>1. /\ UNCHANGED <<target, issued, answer, response>>
        /\ pc' = pc \/ \E next \in InFlight : pc[i] \in InFlight /\ pc' = [pc EXCEPT ![i] = next]
    BY <1>4 DEF Serve, LoadAppConfig, SignJWT, ValidateRepositoryInstallation, RefuseToken,
                DecodeToken, Advance, InFlight, Failures, github, local
  <2>2. \A j \in Invocations : pc'[j] = pc[j] \/ (pc[j] \in InFlight /\ pc'[j] \in InFlight)
    BY <2>1 DEF IInv, TypeOK
  <2>3. \A j \in Invocations : Status(j)' = Status(j)
    BY <2>1, <2>2, Unmoved
  <2>4. QED
    BY <2>1, <2>3, QuietRefines
<1>5. QED
  BY <1>1, <1>2, <1>3, <1>4

\* A fault is a Refuse.
LEMMA BreakRefines ==
    ASSUME IInv, NEW i \in Invocations, Break(i)
    PROVE  Abstract!Refuse(i)
<1>1. UNCHANGED <<issued, target, response>>
  BY DEF Break, LoadAppConfigFails, ValidateFails, ExchangeFails, Timeout, Fail, github, local
<1>2. \E reason \in Failures \ {"input"} :
        /\ pc[i] \in InFlight
        /\ pc' = [pc EXCEPT ![i] = "done"]
        /\ answer' = [answer EXCEPT ![i] = reason]
  BY DEF Break, LoadAppConfigFails, ValidateFails, ExchangeFails, Timeout, Fail, Advance,
         InFlight, Failures
<1>3. QED
  BY <1>1, <1>2, EndRefines

\* Every step of the broker is a step of MintService or a stutter.
LEMMA NextRefines ==
    ASSUME IInv, [Next]_vars
    PROVE  [Abstract!Next]_(Abstract!vars)
<1>1. ASSUME NEW i \in Invocations, NEW payload, Handle(i, payload)
      PROVE  Abstract!Next
  BY <1>1, HandleRefines DEF Abstract!Next
<1>2. ASSUME NEW i \in Invocations, Serve(i)
      PROVE  [Abstract!Next]_(Abstract!vars)
  BY <1>2, ServeRefines
<1>3. ASSUME NEW i \in Invocations, Break(i)
      PROVE  Abstract!Next
  BY <1>3, BreakRefines DEF Abstract!Next
<1>4. CASE Operate \/ Finished \/ UNCHANGED vars
  <2>1. UNCHANGED <<pc, target, issued, answer, response>>
    BY <1>4 DEF Operate, PutParameter, DeleteParameter, WriteParameter, GenerateKey, DeleteKey,
                SelectRepositories, Redeploy, Change, Finished, vars, github, local
  <2>2. \A i \in Invocations : Status(i)' = Status(i)
    BY <2>1, Unmoved
  <2>3. QED
    BY <2>1, <2>2, QuietRefines
<1>5. QED
  BY <1>1, <1>2, <1>3, <1>4 DEF Next

\* The concurrent broker, with its faults and its changing world, keeps the
\* promise MintService states: one fixed scope per invocation, at most one
\* token and only in that scope, one answer.
THEOREM BrokerImplementsMintService == Spec => ImplementsMintService
<1>1. Init => Abstract!Init
  BY InitRefines
<1>2. IInv /\ [Next]_vars => [Abstract!Next]_(Abstract!vars)
  BY NextRefines
<1>3. QED
  BY <1>1, <1>2, Inductive, PTL DEF Spec, ImplementsMintService, Abstract!Spec
=============================================================================
