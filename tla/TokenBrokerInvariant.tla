------------------------ MODULE TokenBrokerInvariant ------------------------
(***************************************************************************)
(* Why the broker's tokens have the right scope, as an inductive           *)
(* invariant.  None of TokenScope, OneTokenPerInvocation and               *)
(* ResponseTruthful is inductive by itself: each needs what the preflight  *)
(* established about a token request that is still on the wire.            *)
(***************************************************************************)
EXTENDS TokenBroker

TokenFor(i) ==
    [by |-> i,
     repository |-> Repository(target[i]),
     permissions |-> target[i].Permissions]

NoTokenYet(i) == \A k \in DOMAIN issued : issued[k].by # i

\* Nothing has left for GitHub before the preflight succeeded.
NothingSent ==
    \A i \in Invocations : pc[i] \in {"idle", "load", "sign", "validate"} =>
        i \notin posted /\ NoTokenYet(i)

\* After LoadAppConfig, the configuration is there, read since the invocation
\* began.
ConfigHeld ==
    \A i \in Invocations :
        /\ pc[i] \in {"sign", "validate"} \/ i \in posted => app[i] # NoConfig
        /\ since[i] \in 1..Len(ssm)
        /\ pc[i] \in {"idle", "load"} => app[i] = NoConfig

\* A token request on the wire has no token yet and goes to an installation on
\* the target's account; whoever gave up on it saw a transport error or a
\* timeout.
Preflighted ==
    \A i \in posted :
        /\ NoTokenYet(i)
        /\ pc[i] \in {"exchange", "done"}
        /\ answer[i] \in {"none", "transport", "timeout"}
        /\ \E n \in Installations : /\ FormatInt[n] = app[i].InstallationID
                                    /\ Installation[n].owner = target[i].Owner

\* Every token GitHub issued is the token of its invocation's target.
IssuedInScope == \A k \in DOMAIN issued : issued[k] = TokenFor(issued[k].by)

\* A reply in hand, and a response given, is the invocation's own token.
TokenHeld ==
    \A i \in Invocations :
        /\ pc[i] \in {"decode", "respond"} =>
              token[i] \in DOMAIN issued /\ issued[token[i]].by = i
        /\ answer[i] = "ok" => /\ response[i] = MintResponse(i)
                               /\ token[i] \in DOMAIN issued
                               /\ issued[token[i]].by = i

\* An answer is given at the end, and only there.
AnsweredWhenDone ==
    \A i \in Invocations : /\ answer[i] = "none" <=> pc[i] # "done"
                           /\ pc[i] = "exchange" => i \in posted

Safe ==
    /\ NothingSent
    /\ ConfigHeld
    /\ Preflighted
    /\ IssuedInScope
    /\ OneTokenPerInvocation
    /\ TokenHeld
    /\ AnsweredWhenDone
    /\ OrphansOnlyByTransport
    /\ ConfigIsFresh

----------------------------------------------------------------------------
(* What makes SteadyInvocationSucceeds and MintLineMeansToken inductive: a *)
(* steady invocation still finds the world it was promised, and the lines  *)
(* it logged tell how far it came.                                         *)

SteadyServed(i) ==
    steady[i] => /\ pc[i] # "idle"
                 /\ pc[i] \in InFlight => Healthy(target[i])
                 /\ pc[i] \in InFlight \ {"load"} => app[i] = Parameter
                 /\ pc[i] = "done" => answer[i] = "ok"

MintLines == IF Threshold <= Severity.info THEN {"info"} ELSE {}

LinesFollow(i) ==
    /\ pc[i] \in ({"idle"} \cup InFlight) \ {"respond"} => logs[i] = {}
    /\ pc[i] = "respond" \/ answer[i] = "ok" => logs[i] = MintLines
    /\ "info" \in logs[i] => ~NoTokenYet(i)

Served == \A i \in Invocations : SteadyServed(i) /\ LinesFollow(i)

IInv == TypeOK /\ Safe /\ Served
=============================================================================
