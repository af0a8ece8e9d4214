--------------------------- MODULE MCTokenBroker ---------------------------
(***************************************************************************)
(* A small world for TokenBroker: one App installed on two accounts that   *)
(* own a repository of the same name, two keys, a client ID that names no  *)
(* App, an installation ID with a leading zero and a PEM that does not     *)
(* parse.                                                                  *)
(***************************************************************************)
EXTENDS TokenBrokerInvariant, TLC

CONSTANTS i1, i2, keyA, keyB

MCInvocations == {i1, i2}
MCTexts == {"app", "stranger", "41", "42", "041", "pemA", "pemB", "garbage"}
MCWritable == [ClientID |-> {"app", "stranger"},
               InstallationID |-> {"41", "42", "041"},
               PrivateKey |-> {"pemA", "pemB", "garbage"}]
MCRsaKey == [pemA |-> keyA, pemB |-> keyB]
MCKeys == {keyA, keyB}
MCClientIDs == {"app"}
MCInstallations == {41, 42}
MCInstallation ==
    41 :> [client |-> "app", owner |-> "meigma", granted |-> {"contents:read"}]
    @@ 42 :> [client |-> "app", owner |-> "fork",
              granted |-> {"contents:read", "issues:write"}]
MCFormatInt == 41 :> "41" @@ 42 :> "42"
MCNames == {"repo"}
TargetOf(owner, permissions) ==
    [Owner |-> owner, Repository |-> "repo", Permissions |-> permissions]
MCTargets == {TargetOf("meigma", {"contents:read"}),
              TargetOf("meigma", {"issues:write"}),
              TargetOf("fork", {"contents:read"})}

\* The deployment the documentation describes: everything in place.
MCInit ==
    /\ Init
    /\ ssm = <<[ClientID |-> "app", InstallationID |-> "41", PrivateKey |-> "pemA"]>>
    /\ appKeys = [c \in ClientIDs |-> {keyA}]
    /\ selected = [n \in Installations |-> Names]
    /\ deployed = TargetOf("meigma", {"contents:read"})

MCSpec == MCInit /\ [][Next]_vars /\ (TimeoutFairness \/ ServeFairness)
=============================================================================
