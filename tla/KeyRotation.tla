---------------------------- MODULE KeyRotation ----------------------------
(***************************************************************************)
(* The broker while its App's private key is rotated.  The operator works  *)
(* outside the program, step by step: a new key on the App, the new PEM    *)
(* over the old one in SSM, one invocation to see that it works, and then  *)
(* either the old key is deleted from the App or the old PEM is restored.  *)
(* The broker's side is TokenBroker, invocation by invocation.             *)
(***************************************************************************)
EXTENDS TokenBroker

CONSTANTS
    RotatedApp,     \* the App whose key is rotated
    OldPem, NewPem, \* the PEM it has, the PEM GitHub hands out
    Uploads,        \* what may end up in SSM for NewPem (a damaged copy, too)
    Probe,          \* the invocation the operator makes
    Drain           \* the operator waits out older invocations

ASSUME RotationAssumption ==
    /\ RotatedApp \in ClientIDs
    /\ {OldPem, NewPem} \subseteq DOMAIN RsaKey
    /\ RsaKey[OldPem] # RsaKey[NewPem]
    /\ NewPem \in Uploads /\ OldPem \notin Uploads /\ Uploads \subseteq Texts
    /\ Probe \in Invocations
    /\ Drain \in BOOLEAN

VARIABLE stage  \* how far the operator is

rotationVars == <<vars, stage>>

Stages == {"start", "generated", "overwritten", "probing", "verified",
           "rotated", "restored"}

Callers == Invocations \ {Probe}

Reach(from, to) == stage = from /\ stage' = to

RotationInit ==
    /\ Init
    /\ stage = "start"
    /\ Healthy(deployed)
    /\ Parameter.ClientID = RotatedApp
    /\ Parameter.PrivateKey = OldPem
    /\ appKeys[RotatedApp] = {RsaKey[OldPem]}

GenerateNewKey ==
    /\ Reach("start", "generated")
    /\ GenerateKey(RotatedApp, RsaKey[NewPem])

OverwriteParameter ==
    /\ Reach("generated", "overwritten")
    /\ \E pem \in Uploads : WriteParameter("PrivateKey", pem)

\* The operator invokes the broker once, after the overwrite.
StartProbe ==
    /\ Reach("overwritten", "probing")
    /\ Handle(Probe, "null")

\* Mutant of ProbeSucceeded: the operator does not look at the outcome.
ProbeEnded == pc[Probe] = "done"

ProbeSucceeded == pc[Probe] = "done" /\ answer[Probe] = "ok"

AcceptProbe ==
    /\ Reach("probing", "verified")
    /\ ProbeSucceeded
    /\ UNCHANGED vars

Rollback ==
    /\ Reach("probing", "restored")
    /\ pc[Probe] = "done" /\ answer[Probe] # "ok"
    /\ WriteParameter("PrivateKey", OldPem)

\* No invocation is left that began before the overwrite.
Drained == \A i \in Invocations : pc[i] \in InFlight => since[i] = Len(ssm)

DeleteOldKey ==
    /\ Reach("verified", "rotated")
    /\ Drain => Drained
    /\ DeleteKey(RotatedApp, RsaKey[OldPem])

Operator ==
    \/ GenerateNewKey
    \/ OverwriteParameter
    \/ StartProbe
    \/ AcceptProbe
    \/ Rollback
    \/ DeleteOldKey

Broker ==
    /\ \/ \E i \in Callers : Handle(i, "null")
       \/ \E i \in Invocations : Serve(i) \/ Break(i)
    /\ UNCHANGED stage

RotationFinished ==
    /\ stage \in {"rotated", "restored"}
    /\ Finished
    /\ UNCHANGED stage

RotationNext == Operator \/ Broker \/ RotationFinished

RotationSpec == RotationInit /\ [][RotationNext]_rotationVars

----------------------------------------------------------------------------

\* An invocation of the broker never fails because of the rotation, unless
\* what was uploaded was not the new key's PEM and SSM held it while the
\* invocation ran: no invocation that is in flight across the deletion of the
\* old key signs with it and is turned away.
NoDowntime ==
    \A i \in Invocations :
        answer[i] \in {"ssm", "key", "preflight", "mismatch", "refused"} =>
            \E v \in since[i]..Len(ssm) :
                ssm[v].PrivateKey \notin {OldPem, NewPem}

\* Once the operator has seen the probe's outcome and acted on it, the PEM in
\* SSM belongs to a key GitHub accepts, and stays so: a probe that began before
\* the overwrite, or a rollback after the deletion, would strand the broker.
RotationLeavesAWorkingKey ==
    stage \in {"verified", "rotated", "restored"} => Healthy(deployed)
=============================================================================
