-------------------------- MODULE KeyRotationProofs --------------------------
(***************************************************************************)
(* What the rotation runbook promises, for any number of invocations and   *)
(* whatever is uploaded for the new key.  The broker's own invariant, IInv *)
(* of TokenBrokerInvariant, holds throughout: the operator's steps are     *)
(* changes like any other.                                                 *)
(***************************************************************************)
EXTENDS KeyRotation, TokenBrokerProofs

OldKey == RsaKey[OldPem]
NewKey == RsaKey[NewPem]

\* Nothing but the key is rotated: client ID, installation, deployment and the
\* installation's repositories are what they were in a healthy world.
Arranged ==
    /\ \A i \in Invocations : target[i] = deployed
    /\ \A v \in 1..Len(ssm) : /\ \A p \in Parameters : ssm[v][p] # Absent
                              /\ ssm[v].ClientID = RotatedApp
                              /\ ssm[v].InstallationID = ssm[1].InstallationID
    /\ \E n \in Installations :
          /\ Installation[n].client = RotatedApp
          /\ Installation[n].owner = deployed.Owner
          /\ FormatInt[n] = ssm[1].InstallationID
          /\ deployed.Repository \in selected[n]
          /\ deployed.Permissions \subseteq Installation[n].granted

\* What the operator has done by each stage.
Versions == IF stage \in {"start", "generated"} THEN 1
            ELSE IF stage = "restored" THEN 3 ELSE 2

AcceptedKeys == IF stage = "start" THEN {OldKey}
                ELSE IF stage = "rotated" THEN {NewKey} ELSE {OldKey, NewKey}

InStage ==
    /\ stage \in Stages
    /\ Len(ssm) = Versions
    /\ ssm[1].PrivateKey = OldPem
    /\ Len(ssm) >= 2 => ssm[2].PrivateKey \in Uploads
    /\ Len(ssm) = 3 => ssm[3].PrivateKey = OldPem
    /\ appKeys[RotatedApp] = AcceptedKeys

\* The probe begins after the overwrite.
ProbeInOrder ==
    IF stage \in {"start", "generated", "overwritten"} THEN pc[Probe] = "idle"
    ELSE since[Probe] = 2

\* A token is proof that the invocation's PEM holds one of the two keys.
MintedWithKey ==
    \A i \in Invocations :
        pc[i] \in {"decode", "respond"} \/ answer[i] = "ok" =>
            /\ app[i] # NoConfig
            /\ app[i].PrivateKey \in DOMAIN RsaKey
            /\ RsaKey[app[i].PrivateKey] \in {OldKey, NewKey}

Procedure == IInv /\ Arranged /\ InStage /\ ProbeInOrder /\ MintedWithKey

----------------------------------------------------------------------------
(* The broker's invariant along the runbook                                *)

\* The operator's writes and keys are changes the broker's invariant allows.
LEMMA OperatorKeepsIInv ==
    ASSUME IInv,
           \/ GenerateKey(RotatedApp, NewKey)
           \/ DeleteKey(RotatedApp, OldKey)
           \/ \E pem \in Uploads \cup {OldPem} : WriteParameter("PrivateKey", pem)
    PROVE  IInv'
<1>1. CASE GenerateKey(RotatedApp, NewKey) \/ DeleteKey(RotatedApp, OldKey)
    <2>1. NewKey \in Keys /\ OldKey \in Keys /\ RotatedApp \in ClientIDs
        BY RotationAssumption, WorldAssumption DEF NewKey, OldKey
    <2>2. Next
        BY <1>1, <2>1 DEF Next, Operate
    <2> QED
        BY <2>2, NextInv
<1>2. CASE \E pem \in Uploads \cup {OldPem} : WriteParameter("PrivateKey", pem)
    <2>1. PICK pem \in Uploads \cup {OldPem} : WriteParameter("PrivateKey", pem)
        BY <1>2
    <2>2. "PrivateKey" \in Parameters /\ pem \in Texts \cup {Absent}
        BY RotationAssumption, WorldAssumption DEF Parameters
    <2>3. Change
        BY <2>1 DEF WriteParameter
    <2>4. TypeOK'
        BY <2>1, <2>2, WriteParameterType DEF IInv
    <2>5. Safe'
        BY <2>1, <2>2, <2>3, ChangeSafe
    <2> QED
        BY <2>3, <2>4, <2>5, ChangeServed DEF IInv
<1> QED
    BY <1>1, <1>2

\* So it holds along the runbook.
LEMMA RotationKeepsIInv ==
    ASSUME IInv, [RotationNext]_rotationVars
    PROVE  IInv'
<1>1. CASE GenerateNewKey \/ DeleteOldKey \/ OverwriteParameter \/ Rollback
    BY <1>1, OperatorKeepsIInv
    DEF GenerateNewKey, DeleteOldKey, OverwriteParameter, Rollback, NewKey, OldKey
<1>2. CASE StartProbe
    <2>1. Next
        BY <1>2, RotationAssumption DEF StartProbe, Next
    <2> QED
        BY <2>1, NextInv
<1>3. CASE Broker
    <2>1. Next
        BY <1>3 DEF Broker, Callers, Next
    <2> QED
        BY <2>1, NextInv
<1>4. CASE AcceptProbe \/ RotationFinished \/ UNCHANGED rotationVars
    <2>1. UNCHANGED vars
        BY <1>4 DEF AcceptProbe, RotationFinished, Finished, rotationVars
    <2> QED
        BY <2>1, NextInv
<1> QED
    BY <1>1, <1>2, <1>3, <1>4 DEF RotationNext, Operator

----------------------------------------------------------------------------
(* Steps of the broker                                                     *)

\* What an invocation that is under way may do.
LEMMA BrokerStep ==
    ASSUME IInv, NEW i \in Invocations, Serve(i) \/ Break(i)
    PROVE  /\ UNCHANGED <<ssm, appKeys, selected, deployed, target, since>>
           /\ \A j \in Invocations \ {i} : UNCHANGED <<pc[j], answer[j], app[j]>>
           /\ pc[i] # "idle" /\ pc'[i] # "idle"
           /\ pc'[i] \in InFlight => pc[i] \in InFlight
<1>1. ASSUME NEW reason \in Failures, Fail(i, reason), pc[i] # "idle"
      PROVE  /\ UNCHANGED <<target, since, app>>
             /\ \A j \in Invocations \ {i} : UNCHANGED <<pc[j], answer[j]>>
             /\ pc'[i] = "done"
    BY <1>1 DEF Fail, local, IInv, TypeOK
<1>2. ASSUME NEW next \in InFlight, Advance(i, next), UNCHANGED answer
      PROVE  /\ \A j \in Invocations \ {i} : UNCHANGED <<pc[j], answer[j]>>
             /\ pc'[i] = next
    BY <1>2 DEF Advance, IInv, TypeOK
<1>3. CASE LoadAppConfig(i) \/ LoadAppConfigFails(i)
    BY <1>1, <1>2, <1>3
    DEF LoadAppConfig, LoadAppConfigFails, InFlight, Failures, world, IInv, TypeOK
<1>4. CASE SignJWT(i)
    BY <1>1, <1>2, <1>4 DEF SignJWT, InFlight, Failures, world, local
<1>5. CASE ValidateRepositoryInstallation(i) \/ ValidateFails(i)
    BY <1>1, <1>2, <1>5
    DEF ValidateRepositoryInstallation, ValidateFails, InFlight, Failures, world, local
<1>6. CASE GrantToken(i) \/ RefuseToken(i)
    <2>1. pc[i] \in {"exchange", "done"}
        BY <1>6 DEF GrantToken, RefuseToken, IInv, Safe, Preflighted
    <2> QED
        BY <1>1, <1>2, <1>6, <2>1
        DEF GrantToken, RefuseToken, InFlight, Failures, world, local
<1>7. CASE ExchangeFails(i)
    BY <1>1, <1>7 DEF ExchangeFails, InFlight, Failures, world
<1>8. CASE DecodeToken(i)
    BY <1>2, <1>8 DEF DecodeToken, InFlight, world, local
<1>9. CASE Respond(i) \/ Timeout(i)
    BY <1>9 DEF Respond, Timeout, Advance, InFlight, world, local, IInv, TypeOK
<1> QED
    BY <1>3, <1>4, <1>5, <1>6, <1>7, <1>8, <1>9 DEF Serve, Break

\* An invocation uses parameters of the time it ran, all of the rotated App.
LEMMA ConfigInUse ==
    ASSUME Procedure, NEW i \in Invocations, app[i] # NoConfig
    PROVE  /\ \E v \in since[i]..Len(ssm) : v \in 1..Len(ssm) /\ app[i] = ssm[v]
           /\ app[i].ClientID = RotatedApp
           /\ app[i].InstallationID = ssm[1].InstallationID
<1>1. PICK v \in since[i]..Len(ssm) : app[i] = ssm[v]
    BY DEF Procedure, IInv, Safe, ConfigIsFresh
<1>2. since[i] \in 1..Len(ssm) /\ Len(ssm) \in Nat
    BY ParameterType DEF Procedure, IInv, Safe, ConfigHeld
<1>3. v \in 1..Len(ssm)
    BY <1>1, <1>2
<1> QED
    BY <1>1, <1>3 DEF Procedure, Arranged

\* Only a grant makes a token, and it takes a key GitHub accepts.
LEMMA BrokerKeepsMinted ==
    ASSUME Procedure, NEW i \in Invocations, Serve(i) \/ Break(i)
    PROVE  MintedWithKey'
<1> DEFINE Minted(j) == /\ app[j] # NoConfig
                        /\ app[j].PrivateKey \in DOMAIN RsaKey
                        /\ RsaKey[app[j].PrivateKey] \in {OldKey, NewKey}
<1>1. \A j \in Invocations : pc[j] \in {"decode", "respond"} \/ answer[j] = "ok" => Minted(j)
    BY DEF Procedure, MintedWithKey
<1>2. \A j \in Invocations \ {i} : UNCHANGED <<pc[j], answer[j], app[j]>>
    BY BrokerStep DEF Procedure
<1>3. SUFFICES ASSUME pc'[i] \in {"decode", "respond"} \/ answer'[i] = "ok"
               PROVE  Minted(i)'
    BY <1>1, <1>2 DEF MintedWithKey, OldKey, NewKey
<1>4. CASE GrantToken(i) /\ pc[i] = "exchange"
    <2>1. PICK n \in Installations : TokenGrantedBy(n, app[i], target[i])
        BY <1>4 DEF GrantToken
    <2>2. app[i] # NoConfig
        BY <1>4 DEF GrantToken, Procedure, IInv, Safe, ConfigHeld
    <2>3. app[i].ClientID = RotatedApp
        BY <2>2, ConfigInUse
    <2>4. /\ app[i].PrivateKey \in DOMAIN RsaKey
          /\ RsaKey[app[i].PrivateKey] \in appKeys[RotatedApp]
        BY <2>1, <2>3 DEF TokenGrantedBy, Authenticated
    <2>5. appKeys[RotatedApp] \subseteq {OldKey, NewKey}
        BY DEF Procedure, InStage, AcceptedKeys
    <2> QED
        BY <1>4, <2>2, <2>4, <2>5 DEF GrantToken, OldKey, NewKey
<1>5. CASE DecodeToken(i) \/ Respond(i)
    BY <1>1, <1>5 DEF DecodeToken, Respond, local, OldKey, NewKey
<1>6. CASE ~(GrantToken(i) /\ pc[i] = "exchange") /\ ~DecodeToken(i) /\ ~Respond(i)
    <2>1. UNCHANGED app[i] /\ pc[i] = "done" /\ UNCHANGED answer[i]
        <3>1. ASSUME NEW reason \in Failures, Fail(i, reason)
              PROVE  FALSE
            BY <1>3, <3>1 DEF Fail, Failures, Procedure, IInv, TypeOK
        <3>2. ASSUME NEW next \in {"sign", "validate", "exchange"}, Advance(i, next),
                     UNCHANGED answer, pc[i] # "done"
              PROVE  FALSE
            BY <1>3, <3>2 DEF Advance, Procedure, IInv, TypeOK, Safe, AnsweredWhenDone
        <3>3. ~LoadAppConfig(i) /\ ~LoadAppConfigFails(i)
            BY <3>1, <3>2 DEF LoadAppConfig, LoadAppConfigFails, Failures
        <3>4. ~SignJWT(i)
            BY <3>1, <3>2 DEF SignJWT, Failures
        <3>5. ~ValidateRepositoryInstallation(i) /\ ~ValidateFails(i) /\ ~ExchangeFails(i)
            BY <3>1, <3>2
            DEF ValidateRepositoryInstallation, ValidateFails, ExchangeFails, Failures
        <3>6. ~Timeout(i)
            BY <1>3 DEF Timeout, Advance, Procedure, IInv, TypeOK
        <3>7. GrantToken(i) \/ RefuseToken(i)
            BY <1>6, <3>3, <3>4, <3>5, <3>6 DEF Serve, Break
        <3>8. pc[i] \in {"exchange", "done"}
            BY <3>7 DEF GrantToken, RefuseToken, Procedure, IInv, Safe, Preflighted
        <3>9. CASE GrantToken(i)
            BY <1>6, <3>8, <3>9 DEF GrantToken
        <3>10. CASE RefuseToken(i) /\ pc[i] = "exchange"
            BY <3>1, <3>10 DEF RefuseToken, Failures
        <3>11. CASE RefuseToken(i) /\ pc[i] = "done"
            BY <3>11 DEF RefuseToken, local
        <3> QED
            BY <3>7, <3>8, <3>9, <3>10, <3>11
    <2> QED
        BY <1>1, <1>3, <2>1, BrokerStep DEF OldKey, NewKey, Procedure, InFlight
<1> QED
    BY <1>4, <1>5, <1>6

----------------------------------------------------------------------------
(* The procedure                                                           *)

\* The rotation begins with the old key in use.
LEMMA InitProcedure == RotationInit => Procedure
<1> SUFFICES ASSUME RotationInit
             PROVE  Procedure
    OBVIOUS
<1>1. IInv
    BY InitInv DEF RotationInit
<1>2. PICK s \in ParameterStates : ssm = <<s>>
    BY DEF RotationInit, Init
<1>3. Len(ssm) = 1 /\ ssm[1] = s /\ Parameter = s
    BY <1>2 DEF Parameter
<1>4. Arranged
    <2>1. \A v \in 1..Len(ssm) : v = 1
        BY <1>3
    <2>2. PICK n \in Installations : /\ TokenGrantedBy(n, Parameter, deployed)
                                     /\ Installation[n].owner = deployed.Owner
        BY DEF RotationInit, Healthy
    <2>3. \A p \in Parameters : Parameter[p] # Absent
        BY DEF RotationInit, Healthy
    <2>4. Parameter.ClientID = RotatedApp
        BY DEF RotationInit
    <2>5. \A i \in Invocations : target[i] = deployed
        BY DEF RotationInit, Init
    <2> QED
        BY <1>3, <2>1, <2>2, <2>3, <2>4, <2>5 DEF Arranged, TokenGrantedBy
<1>5. InStage
    BY <1>3 DEF RotationInit, InStage, Stages, Versions, AcceptedKeys, OldKey
<1>6. ProbeInOrder /\ MintedWithKey
    BY RotationAssumption DEF RotationInit, Init, ProbeInOrder, MintedWithKey
<1> QED
    BY <1>1, <1>4, <1>5, <1>6 DEF Procedure

\* The operator touches no invocation.
LEMMA ChangeFrame ==
    ASSUME Procedure, Change
    PROVE  /\ UNCHANGED <<target, pc, since, app, answer>>
           /\ MintedWithKey'
BY DEF Change, local, Procedure, MintedWithKey, OldKey, NewKey

\* A write adds a version that differs in the PEM only.
LEMMA WriteAdds ==
    ASSUME Procedure, NEW pem \in Uploads \cup {OldPem}, WriteParameter("PrivateKey", pem)
    PROVE  /\ Len(ssm') = Len(ssm) + 1
           /\ \A v \in 1..Len(ssm) : ssm'[v] = ssm[v]
           /\ ssm'[Len(ssm) + 1].PrivateKey = pem
           /\ UNCHANGED appKeys
           /\ Arranged'
<1>1. /\ Len(ssm) \in Nat \ {0}
      /\ Parameter \in [Parameters -> Texts \cup {Absent}]
      /\ ssm \in Seq(ParameterStates)
    BY ParameterType DEF Procedure, IInv, TypeOK
<1>2. "PrivateKey" \in Parameters /\ pem \in Texts /\ pem # Absent
    BY RotationAssumption, WorldAssumption DEF Parameters
<1> DEFINE written == [Parameter EXCEPT !["PrivateKey"] = pem]
<1>3. written \in ParameterStates
    BY <1>1, <1>2 DEF ParameterStates
<1>4. ssm' = Append(ssm, written)
    BY DEF WriteParameter
<1>5. /\ Len(ssm') = Len(ssm) + 1
      /\ \A v \in 1..Len(ssm) : ssm'[v] = ssm[v]
      /\ ssm'[Len(ssm) + 1] = written
    <2> HIDE DEF written
    <2> QED
        BY <1>1, <1>3, <1>4, AppendFacts
<1>6. /\ written["PrivateKey"] = pem
      /\ \A p \in Parameters \ {"PrivateKey"} : written[p] = Parameter[p]
    BY <1>1, <1>2
<1>7. UNCHANGED <<target, deployed, selected, appKeys>>
    BY ChangeFrame DEF WriteParameter
<1>8. Arranged'
    <2>1. Parameter = ssm[Len(ssm)] /\ Len(ssm) \in 1..Len(ssm) /\ 1 \in 1..Len(ssm)
        BY <1>1 DEF Parameter
    <2>2. /\ \A p \in Parameters : written[p] # Absent
          /\ written["ClientID"] = RotatedApp
          /\ written["InstallationID"] = ssm[1].InstallationID
        <3>1. {"ClientID", "InstallationID"} \subseteq Parameters \ {"PrivateKey"}
            BY DEF Parameters
        <3> QED
            BY <1>2, <1>6, <2>1, <3>1 DEF Procedure, Arranged
    <2>3. \A v \in 1..Len(ssm') : v \in 1..Len(ssm) \/ v = Len(ssm) + 1
        BY <1>1, <1>5
    <2>4. ssm'[1] = ssm[1]
        BY <1>5, <2>1
    <2> HIDE DEF written
    <2>5. \A v \in 1..Len(ssm') : /\ \A p \in Parameters : ssm'[v][p] # Absent
                                  /\ ssm'[v].ClientID = RotatedApp
                                  /\ ssm'[v].InstallationID = ssm'[1].InstallationID
        BY <1>5, <2>2, <2>3, <2>4 DEF Procedure, Arranged
    <2> QED
        BY <1>7, <2>4, <2>5 DEF Procedure, Arranged
<1> QED
    BY <1>5, <1>6, <1>7, <1>8

\* A start takes the deployment there is.
LEMMA StartFrame ==
    ASSUME Procedure, NEW i \in Invocations, Handle(i, "null")
    PROVE  /\ UNCHANGED <<ssm, appKeys, selected, deployed, app, answer>>
           /\ pc[i] = "idle" /\ pc'[i] = "load" /\ since'[i] = Len(ssm)
           /\ \A j \in Invocations \ {i} : UNCHANGED <<pc[j], since[j]>>
           /\ Arranged' /\ MintedWithKey'
<1>1. /\ UNCHANGED <<ssm, appKeys, selected, deployed, app, answer>>
      /\ pc[i] = "idle" /\ pc'[i] = "load" /\ since'[i] = Len(ssm)
      /\ \A j \in Invocations \ {i} : UNCHANGED <<pc[j], since[j], target[j]>>
      /\ target'[i] = deployed
    BY DEF Handle, Empty, Advance, world, Procedure, IInv, TypeOK
<1>2. MintedWithKey'
    BY <1>1 DEF Procedure, MintedWithKey, OldKey, NewKey, IInv, Safe, AnsweredWhenDone
<1>3. Arranged'
    BY <1>1 DEF Procedure, Arranged
<1> QED
    BY <1>1, <1>2, <1>3

\* Every step keeps to the procedure.
LEMMA NextProcedure ==
    ASSUME Procedure, [RotationNext]_rotationVars
    PROVE  Procedure'
<1>1. IInv'
    BY RotationKeepsIInv DEF Procedure
<1>2. /\ OldKey # NewKey /\ RotatedApp \in ClientIDs /\ Probe \in Invocations
      /\ appKeys \in [ClientIDs -> SUBSET Keys]
      /\ Len(ssm) \in Nat
    BY RotationAssumption, ParameterType DEF OldKey, NewKey, Procedure, IInv, TypeOK
<1>3. CASE GenerateNewKey
    <2>1. /\ stage = "start" /\ stage' = "generated"
          /\ UNCHANGED <<ssm, selected, deployed>> /\ Change
          /\ appKeys'[RotatedApp] = appKeys[RotatedApp] \cup {NewKey}
        BY <1>2, <1>3 DEF GenerateNewKey, Reach, GenerateKey, NewKey
    <2>2. Arranged' /\ ProbeInOrder'
        BY <2>1, ChangeFrame DEF Procedure, Arranged, ProbeInOrder
    <2>3. InStage'
        BY <2>1 DEF Procedure, InStage, Stages, Versions, AcceptedKeys, OldKey, NewKey
    <2> QED
        BY <1>1, <2>1, <2>2, <2>3, ChangeFrame DEF Procedure
<1>4. CASE OverwriteParameter
    <2>1. /\ stage = "generated" /\ stage' = "overwritten"
          /\ \E pem \in Uploads : WriteParameter("PrivateKey", pem)
        BY <1>4 DEF OverwriteParameter, Reach
    <2>2. PICK pem \in Uploads : WriteParameter("PrivateKey", pem)
        BY <2>1
    <2>3. /\ Len(ssm) = 1 /\ Len(ssm') = 2 /\ ssm'[1] = ssm[1]
          /\ ssm'[2].PrivateKey = pem /\ UNCHANGED appKeys /\ Arranged'
        BY <1>2, <2>1, <2>2, WriteAdds DEF Procedure, InStage, Versions
    <2>4. UNCHANGED pc /\ MintedWithKey'
        BY <2>2, ChangeFrame DEF WriteParameter
    <2>5. InStage' /\ ProbeInOrder'
        BY <2>1, <2>3, <2>4
        DEF Procedure, InStage, Stages, Versions, AcceptedKeys, OldKey, NewKey, ProbeInOrder
    <2> QED
        BY <1>1, <2>3, <2>4, <2>5 DEF Procedure
<1>5. CASE StartProbe
    <2>1. stage = "overwritten" /\ stage' = "probing" /\ Handle(Probe, "null")
        BY <1>5 DEF StartProbe, Reach
    <2>2. /\ UNCHANGED <<ssm, appKeys>> /\ since'[Probe] = Len(ssm)
          /\ Arranged' /\ MintedWithKey'
        BY <1>2, <2>1, StartFrame
    <2>3. InStage' /\ ProbeInOrder'
        BY <2>1, <2>2
        DEF Procedure, InStage, Stages, Versions, AcceptedKeys, OldKey, NewKey, ProbeInOrder
    <2> QED
        BY <1>1, <2>2, <2>3 DEF Procedure
<1>6. CASE AcceptProbe
    BY <1>1, <1>6
    DEF AcceptProbe, Reach, vars, world, local, Procedure, Arranged, InStage, Stages, Versions,
        AcceptedKeys, OldKey, NewKey, ProbeInOrder, MintedWithKey
<1>7. CASE Rollback
    <2>1. /\ stage = "probing" /\ stage' = "restored" /\ WriteParameter("PrivateKey", OldPem)
        BY <1>7 DEF Rollback, Reach
    <2>2. /\ Len(ssm) = 2 /\ Len(ssm') = 3 /\ ssm'[1] = ssm[1] /\ ssm'[2] = ssm[2]
          /\ ssm'[3].PrivateKey = OldPem /\ UNCHANGED appKeys /\ Arranged'
        BY <1>2, <2>1, WriteAdds DEF Procedure, InStage, Versions
    <2>3. UNCHANGED since /\ MintedWithKey'
        BY <2>1, ChangeFrame DEF WriteParameter
    <2>4. InStage' /\ ProbeInOrder'
        BY <2>1, <2>2, <2>3
        DEF Procedure, InStage, Stages, Versions, AcceptedKeys, OldKey, NewKey, ProbeInOrder
    <2> QED
        BY <1>1, <2>2, <2>3, <2>4 DEF Procedure
<1>8. CASE DeleteOldKey
    <2>1. /\ stage = "verified" /\ stage' = "rotated"
          /\ UNCHANGED <<ssm, selected, deployed>> /\ Change
          /\ appKeys'[RotatedApp] = appKeys[RotatedApp] \ {OldKey}
        BY <1>2, <1>8 DEF DeleteOldKey, Reach, DeleteKey, OldKey
    <2>2. Arranged' /\ ProbeInOrder'
        BY <2>1, ChangeFrame DEF Procedure, Arranged, ProbeInOrder
    <2>3. InStage'
        BY <1>2, <2>1 DEF Procedure, InStage, Stages, Versions, AcceptedKeys, OldKey, NewKey
    <2> QED
        BY <1>1, <2>1, <2>2, <2>3, ChangeFrame DEF Procedure
<1>9. ASSUME NEW i \in Callers, Handle(i, "null"), UNCHANGED stage
      PROVE  Procedure'
    <2>1. i \in Invocations /\ i # Probe
        BY DEF Callers
    <2>2. /\ UNCHANGED <<ssm, appKeys, pc[Probe], since[Probe]>>
          /\ Arranged' /\ MintedWithKey'
        BY <1>2, <1>9, <2>1, StartFrame
    <2>3. InStage' /\ ProbeInOrder'
        BY <1>9, <2>2
        DEF Procedure, InStage, Versions, AcceptedKeys, OldKey, NewKey, ProbeInOrder
    <2> QED
        BY <1>1, <2>2, <2>3 DEF Procedure
<1>10. ASSUME NEW i \in Invocations, Serve(i) \/ Break(i), UNCHANGED stage
       PROVE  Procedure'
    <2>1. /\ UNCHANGED <<ssm, appKeys, selected, deployed, target, since>>
          /\ \A j \in Invocations \ {i} : UNCHANGED pc[j]
          /\ pc[i] # "idle"
        BY <1>10, BrokerStep DEF Procedure
    <2>2. MintedWithKey'
        BY <1>10, BrokerKeepsMinted
    <2>3. Arranged' /\ InStage'
        BY <1>10, <2>1 DEF Procedure, Arranged, InStage, Versions, AcceptedKeys, OldKey, NewKey
    <2>4. ProbeInOrder'
        BY <1>2, <1>10, <2>1 DEF Procedure, ProbeInOrder
    <2> QED
        BY <1>1, <2>2, <2>3, <2>4 DEF Procedure
<1>11. CASE RotationFinished \/ UNCHANGED rotationVars
    BY <1>1, <1>11
    DEF RotationFinished, Finished, rotationVars, vars, world, local, Procedure, Arranged, InStage,
        Stages, Versions, AcceptedKeys, OldKey, NewKey, ProbeInOrder, MintedWithKey
<1> QED
    BY <1>3, <1>4, <1>5, <1>6, <1>7, <1>8, <1>9, <1>10, <1>11
    DEF RotationNext, Operator, Broker

\* The broker and the operator keep to it for ever.
LEMMA ProcedureHolds == RotationSpec => []Procedure
BY InitProcedure, NextProcedure, PTL DEF RotationSpec

----------------------------------------------------------------------------
(* The key that is left                                                    *)

\* What is uploaded for the new key is not the old key's PEM again, in other
\* words: the probe could not tell.
OldKeyNotUploaded ==
    \A pem \in Uploads : pem \in DOMAIN RsaKey => RsaKey[pem] # OldKey

\* What the probe has verified is the new key.
Verified ==
    stage \in {"verified", "rotated"} =>
        /\ ssm[2].PrivateKey \in DOMAIN RsaKey
        /\ RsaKey[ssm[2].PrivateKey] = NewKey

\* The probe ran with what was uploaded, so that its token vouches for it.
LEMMA NextVerified ==
    ASSUME OldKeyNotUploaded, Procedure, Verified, [RotationNext]_rotationVars
    PROVE  Verified'
<1>1. CASE AcceptProbe
    <2>1. /\ stage = "probing" /\ answer[Probe] = "ok" /\ UNCHANGED ssm
          /\ Probe \in Invocations
        BY <1>1, RotationAssumption DEF AcceptProbe, Reach, ProbeSucceeded, vars, world
    <2>2. /\ app[Probe] # NoConfig
          /\ app[Probe].PrivateKey \in DOMAIN RsaKey
          /\ RsaKey[app[Probe].PrivateKey] \in {OldKey, NewKey}
        BY <2>1 DEF Procedure, MintedWithKey
    <2>3. Len(ssm) = 2 /\ since[Probe] = 2 /\ ssm[2].PrivateKey \in Uploads
        BY <2>1 DEF Procedure, InStage, Versions, ProbeInOrder
    <2>4. app[Probe] = ssm[2]
        BY <2>1, <2>2, <2>3, ConfigInUse
    <2>5. RsaKey[ssm[2].PrivateKey] # OldKey
        BY <2>2, <2>3, <2>4 DEF OldKeyNotUploaded
    <2> QED
        BY <2>1, <2>2, <2>4, <2>5 DEF Verified, NewKey
<1>2. CASE DeleteOldKey
    BY <1>2 DEF DeleteOldKey, Reach, DeleteKey, Verified, NewKey
<1>3. CASE GenerateNewKey \/ OverwriteParameter \/ StartProbe \/ Rollback
    BY <1>3
    DEF GenerateNewKey, OverwriteParameter, StartProbe, Rollback, Reach, Verified
<1>4. ASSUME NEW i \in Invocations, Handle(i, "null") \/ Serve(i) \/ Break(i), UNCHANGED stage
      PROVE  Verified'
    <2>1. UNCHANGED ssm
        BY <1>4, StartFrame, BrokerStep DEF Procedure
    <2> QED
        BY <1>4, <2>1 DEF Verified, NewKey
<1>5. CASE RotationFinished \/ UNCHANGED rotationVars
    BY <1>5 DEF RotationFinished, Finished, rotationVars, vars, world, Verified, NewKey
<1> QED
    BY <1>1, <1>2, <1>3, <1>4, <1>5 DEF RotationNext, Operator, Broker, Callers

\* Whatever else was uploaded, the operator who looks at the probe's outcome and
\* acts on it leaves a broker that works: with the new key, or with the old one.
THEOREM RotationEndsHealthy ==
    ASSUME OldKeyNotUploaded
    PROVE  RotationSpec => []RotationLeavesAWorkingKey
<1>1. RotationInit => Verified
    BY DEF RotationInit, Verified
<1>2. ASSUME Procedure, Verified, stage \in {"verified", "rotated", "restored"}
      PROVE  Healthy(deployed)
    <2>1. /\ Len(ssm) \in 1..Len(ssm) /\ Parameter = ssm[Len(ssm)]
        <3>1. Len(ssm) \in Nat \ {0}
            <4>1. TypeOK
                BY <1>2 DEF Procedure, IInv
            <4> QED
                BY <4>1, ParameterType
        <3> QED
            BY <3>1 DEF Parameter
    <2>2. /\ \A p \in Parameters : Parameter[p] # Absent
          /\ Parameter.ClientID = RotatedApp
          /\ Parameter.InstallationID = ssm[1].InstallationID
        BY <1>2, <2>1 DEF Procedure, Arranged
    <2>3. /\ Parameter.PrivateKey \in DOMAIN RsaKey
          /\ RsaKey[Parameter.PrivateKey] \in appKeys[RotatedApp]
        <3>1. CASE stage \in {"verified", "rotated"}
            <4>1. Len(ssm) = 2 /\ NewKey \in appKeys[RotatedApp]
                BY <1>2, <3>1 DEF Procedure, InStage, Versions, AcceptedKeys
            <4> QED
                BY <1>2, <2>1, <3>1, <4>1 DEF Verified
        <3>2. CASE stage = "restored"
            <4>1. Len(ssm) = 3 /\ ssm[3].PrivateKey = OldPem /\ OldKey \in appKeys[RotatedApp]
                BY <1>2, <3>2 DEF Procedure, InStage, Versions, AcceptedKeys
            <4> QED
                BY <2>1, <4>1, RotationAssumption DEF OldKey
        <3> QED
            BY <1>2, <3>1, <3>2
    <2>4. Authenticated(Parameter)
        BY <2>2, <2>3, RotationAssumption DEF Authenticated
    <2> QED
        BY <1>2, <2>2, <2>4 DEF Procedure, Arranged, Healthy, TokenGrantedBy
<1>3. Procedure /\ Verified => RotationLeavesAWorkingKey
    BY <1>2 DEF RotationLeavesAWorkingKey
<1>4. Procedure /\ Verified /\ [RotationNext]_rotationVars => Verified'
    BY NextVerified
<1> QED
    BY <1>1, <1>3, <1>4, ProcedureHolds, PTL DEF RotationSpec

----------------------------------------------------------------------------
(* No downtime                                                             *)

\* With Drain, nobody who is in flight after the deletion began before the
\* overwrite.
DrainedBefore ==
    stage = "rotated" => \A i \in Invocations : pc[i] \in InFlight => since[i] = 2

\* SSM held something else than one of the two PEMs while the invocation ran.
Excused(i) == \E v \in since[i]..Len(ssm) : ssm[v].PrivateKey \notin {OldPem, NewPem}

TurnedAway == {"ssm", "key", "preflight", "mismatch", "refused"}

\* Whoever is in flight with one of the two PEMs signs with a key that GitHub
\* accepts, and for an installation that may grant what the target needs.
LEMMA InFlightIsServed ==
    ASSUME Procedure, DrainedBefore, NEW i \in Invocations,
           pc[i] \in {"sign", "validate", "exchange"}, ~Excused(i)
    PROVE  \E n \in Installations : /\ TokenGrantedBy(n, app[i], target[i])
                                    /\ Installation[n].owner = target[i].Owner
<1>1. app[i] # NoConfig
    BY DEF Procedure, IInv, Safe, ConfigHeld, AnsweredWhenDone
<1>2. PICK v \in since[i]..Len(ssm) : v \in 1..Len(ssm) /\ app[i] = ssm[v]
    BY <1>1, ConfigInUse
<1>3. app[i].PrivateKey \in {OldPem, NewPem}
    BY <1>2 DEF Excused
<1>4. /\ app[i].PrivateKey \in DOMAIN RsaKey
      /\ RsaKey[app[i].PrivateKey] \in appKeys[RotatedApp]
    <2>1. CASE app[i].PrivateKey = OldPem
        <3>1. stage # "rotated"
            <4> SUFFICES ASSUME stage = "rotated"
                         PROVE  FALSE
                OBVIOUS
            <4>1. Len(ssm) = 2 /\ since[i] = 2 /\ ssm[2].PrivateKey \in Uploads
                BY DEF Procedure, InStage, Versions, DrainedBefore, InFlight
            <4>2. v = 2
                BY <1>2, <4>1
            <4> QED
                BY <1>2, <2>1, <4>1, <4>2, RotationAssumption
        <3> QED
            BY <2>1, <3>1, RotationAssumption DEF Procedure, InStage, AcceptedKeys, OldKey
    <2>2. CASE app[i].PrivateKey = NewPem
        <3>1. OldPem # NewPem
            BY RotationAssumption
        <3>2. stage # "start"
            <4> SUFFICES ASSUME stage = "start"
                         PROVE  FALSE
                OBVIOUS
            <4>1. Len(ssm) = 1 /\ ssm[1].PrivateKey = OldPem
                BY DEF Procedure, InStage, Versions
            <4> QED
                BY <1>2, <2>2, <3>1, <4>1
        <3> QED
            BY <2>2, <3>2, RotationAssumption DEF Procedure, InStage, AcceptedKeys, NewKey
    <2> QED
        BY <1>3, <2>1, <2>2
<1>5. /\ app[i].ClientID = RotatedApp
      /\ app[i].InstallationID = ssm[1].InstallationID
      /\ target[i] = deployed
    BY <1>1, ConfigInUse DEF Procedure, Arranged
<1>6. Authenticated(app[i])
    BY <1>4, <1>5, RotationAssumption DEF Authenticated
<1> QED
    BY <1>5, <1>6 DEF Procedure, Arranged, TokenGrantedBy

\* So that it is not turned away; without failing calls to SSM.
LEMMA StepTurnsNobodyAway ==
    ASSUME "ssm" \notin Faults, Procedure, DrainedBefore,
           NEW i \in Invocations, Serve(i) \/ Break(i),
           answer'[i] \in TurnedAway
    PROVE  answer'[i] = answer[i] \/ Excused(i)
<1>1. ASSUME NEW reason \in Failures, Fail(i, reason)
      PROVE  answer'[i] = reason
    BY <1>1 DEF Fail, Procedure, IInv, TypeOK
<1>2. CASE LoadAppConfig(i)
    <2>1. \A p \in Parameters : Parameter[p] # Absent
        <3>1. Len(ssm) \in 1..Len(ssm)
            BY ParameterType DEF Procedure, IInv
        <3> QED
            BY <3>1 DEF Procedure, Arranged, Parameter
    <2> QED
        BY <1>2, <2>1 DEF LoadAppConfig, ReadParameters
<1>3. CASE SignJWT(i)
    <2>1. CASE app[i].PrivateKey \in DOMAIN RsaKey
        BY <1>3, <2>1 DEF SignJWT
    <2>2. CASE app[i].PrivateKey \notin DOMAIN RsaKey
        BY <1>3, <2>2, InFlightIsServed DEF SignJWT, TokenGrantedBy, Authenticated
    <2> QED
        BY <2>1, <2>2
<1>4. CASE ValidateRepositoryInstallation(i)
    <2> SUFFICES ASSUME ~Excused(i)
                 PROVE  UNCHANGED answer[i]
        OBVIOUS
    <2> DEFINE found == IF Authenticated(app[i])
                        THEN RepositoryInstallation(app[i].ClientID, target[i])
                        ELSE {}
    <2>1. PICK m \in Installations : /\ TokenGrantedBy(m, app[i], target[i])
                                     /\ Installation[m].owner = target[i].Owner
        BY <1>4, InFlightIsServed DEF ValidateRepositoryInstallation
    <2>2. found = RepositoryInstallation(app[i].ClientID, target[i])
        BY <2>1 DEF TokenGrantedBy
    <2>3. m \in found /\ Matches(i, m)
        BY <2>1, <2>2 DEF TokenGrantedBy, RepositoryInstallation, Matches
    <2>4. ASSUME NEW n \in found
          PROVE  n = m
        BY <2>1, <2>2, <2>4, WorldAssumption DEF TokenGrantedBy, RepositoryInstallation
    <2>5. found # {} /\ \A n \in found : Matches(i, n)
        BY <2>3, <2>4
    <2> QED
        BY <1>4, <2>5 DEF ValidateRepositoryInstallation
<1>5. CASE RefuseToken(i)
    <2>1. CASE pc[i] = "exchange"
        BY <1>5, <2>1, InFlightIsServed DEF RefuseToken
    <2>2. CASE pc[i] # "exchange"
        BY <1>5, <2>2 DEF RefuseToken
    <2> QED
        BY <2>1, <2>2
<1>6. CASE GrantToken(i) \/ DecodeToken(i)
    BY <1>6 DEF GrantToken, DecodeToken
<1>7. CASE Respond(i) \/ Timeout(i)
    BY <1>7 DEF Respond, Timeout, Procedure, IInv, TypeOK, TurnedAway
<1>8. CASE ValidateFails(i) \/ ExchangeFails(i)
    BY <1>1, <1>8 DEF ValidateFails, ExchangeFails, TurnedAway, Failures
<1> QED
    BY <1>2, <1>3, <1>4, <1>5, <1>6, <1>7, <1>8 DEF Serve, Break, LoadAppConfigFails

\* An excuse stays one: versions are only added.
LEMMA ExcusedKept ==
    ASSUME Procedure, NEW i \in Invocations, Excused(i), UNCHANGED since[i],
           \/ UNCHANGED ssm
           \/ \E pem \in Uploads \cup {OldPem} : WriteParameter("PrivateKey", pem)
    PROVE  Excused(i)'
<1>1. CASE UNCHANGED ssm
    BY <1>1 DEF Excused
<1>2. CASE \E pem \in Uploads \cup {OldPem} : WriteParameter("PrivateKey", pem)
    <2>1. /\ Len(ssm') = Len(ssm) + 1
          /\ \A v \in 1..Len(ssm) : ssm'[v] = ssm[v]
        BY <1>2, WriteAdds
    <2>2. PICK v \in since[i]..Len(ssm) : ssm[v].PrivateKey \notin {OldPem, NewPem}
        BY DEF Excused
    <2>3. since[i] \in 1..Len(ssm) /\ Len(ssm) \in Nat
        BY ParameterType DEF Procedure, IInv, Safe, ConfigHeld
    <2>4. v \in 1..Len(ssm) /\ v \in since[i]..Len(ssm')
        BY <2>1, <2>3
    <2> QED
        BY <2>1, <2>2, <2>4 DEF Excused
<1> QED
    BY <1>1, <1>2

\* Every step keeps the broker up.
LEMMA NextNoDowntime ==
    ASSUME Drain, "ssm" \notin Faults,
           Procedure, DrainedBefore, NoDowntime, [RotationNext]_rotationVars
    PROVE  DrainedBefore' /\ NoDowntime'
<1>1. \A i \in Invocations : answer[i] \in TurnedAway => Excused(i)
    BY DEF NoDowntime, Excused, TurnedAway
<1>2. (\A i \in Invocations : answer'[i] \in TurnedAway => Excused(i)') => NoDowntime'
    BY DEF NoDowntime, Excused, TurnedAway
<1>3. CASE GenerateNewKey \/ DeleteOldKey
    <2>1. UNCHANGED <<ssm, pc, since, answer>>
        BY <1>3, ChangeFrame DEF GenerateNewKey, DeleteOldKey, GenerateKey, DeleteKey
    <2>2. DrainedBefore'
        <3>1. CASE GenerateNewKey
            BY <3>1 DEF GenerateNewKey, Reach, DrainedBefore
        <3>2. CASE DeleteOldKey
            <4>1. Len(ssm) = 2 /\ Drained
                BY <3>2 DEF DeleteOldKey, Reach, Procedure, InStage, Versions
            <4> QED
                BY <2>1, <4>1 DEF Drained, DrainedBefore
        <3> QED
            BY <1>3, <3>1, <3>2
    <2> QED
        BY <1>1, <1>2, <2>1, <2>2, ExcusedKept
<1>4. CASE OverwriteParameter \/ Rollback
    <2>1. /\ \E pem \in Uploads \cup {OldPem} : WriteParameter("PrivateKey", pem)
          /\ stage' # "rotated"
        BY <1>4 DEF OverwriteParameter, Rollback, Reach
    <2>2. UNCHANGED <<since, answer>>
        BY <2>1, ChangeFrame DEF WriteParameter
    <2> QED
        BY <1>1, <1>2, <2>1, <2>2, ExcusedKept DEF DrainedBefore
<1>5. ASSUME NEW i \in Invocations, Handle(i, "null"), stage' = stage \/ stage' # "rotated"
      PROVE  DrainedBefore' /\ NoDowntime'
    <2>1. /\ UNCHANGED <<ssm, answer>> /\ since'[i] = Len(ssm) /\ pc[i] = "idle"
          /\ \A j \in Invocations \ {i} : UNCHANGED <<pc[j], since[j]>>
        BY <1>5, StartFrame
    <2>2. answer[i] = "none"
        BY <2>1 DEF Procedure, IInv, Safe, AnsweredWhenDone
    <2>3. \A j \in Invocations : answer'[j] \in TurnedAway => Excused(j)'
        BY <1>1, <2>1, <2>2, ExcusedKept DEF TurnedAway
    <2>4. DrainedBefore'
        BY <1>5, <2>1 DEF DrainedBefore, Procedure, InStage, Versions
    <2> QED
        BY <1>2, <2>3, <2>4
<1>6. ASSUME NEW i \in Invocations, Serve(i) \/ Break(i), UNCHANGED stage
      PROVE  DrainedBefore' /\ NoDowntime'
    <2>1. /\ UNCHANGED <<ssm, since>>
          /\ \A j \in Invocations \ {i} : UNCHANGED <<pc[j], answer[j]>>
          /\ pc'[i] \in InFlight => pc[i] \in InFlight
        BY <1>6, BrokerStep DEF Procedure
    <2>2. \A j \in Invocations : answer'[j] \in TurnedAway => Excused(j)
        BY <1>1, <1>6, <2>1, StepTurnsNobodyAway
    <2>3. \A j \in Invocations : answer'[j] \in TurnedAway => Excused(j)'
        BY <2>1, <2>2, ExcusedKept
    <2>4. DrainedBefore'
        BY <1>6, <2>1 DEF DrainedBefore
    <2> QED
        BY <1>2, <2>3, <2>4
<1>7. CASE AcceptProbe \/ RotationFinished \/ UNCHANGED rotationVars
    <2>1. UNCHANGED <<ssm, pc, since, answer>> /\ (stage' = stage \/ stage' # "rotated")
        BY <1>7
        DEF AcceptProbe, Reach, RotationFinished, Finished, rotationVars, vars, world, local
    <2>2. DrainedBefore'
        BY <2>1 DEF DrainedBefore
    <2> QED
        BY <1>1, <1>2, <2>1, <2>2, ExcusedKept
<1>8. CASE StartProbe
    BY <1>5, <1>8, RotationAssumption DEF StartProbe, Reach
<1>9. CASE Broker
    BY <1>5, <1>6, <1>9 DEF Broker, Callers
<1> QED
    BY <1>3, <1>4, <1>7, <1>8, <1>9 DEF RotationNext, Operator

\* If the operator waits, before deleting the old key, until nobody is in flight
\* who began before the overwrite, no invocation is turned away because of the
\* rotation, as long as SSM answers.
THEOREM DrainedRotationHasNoDowntime ==
    ASSUME Drain, "ssm" \notin Faults
    PROVE  RotationSpec => []NoDowntime
<1>1. RotationInit => DrainedBefore /\ NoDowntime
    BY DEF RotationInit, Init, DrainedBefore, NoDowntime
<1>2. /\ Procedure /\ DrainedBefore /\ NoDowntime /\ [RotationNext]_rotationVars
      => DrainedBefore' /\ NoDowntime'
    BY NextNoDowntime
<1> QED
    BY <1>1, <1>2, ProcedureHolds, PTL DEF RotationSpec
=============================================================================
