--------------------------- MODULE MCKeyRotation ---------------------------
(***************************************************************************)
(* Two callers and the operator's probe while pemA gives way to pemB; the  *)
(* upload may be damaged, or be the PEM of a key of some other App.        *)
(***************************************************************************)
EXTENDS KeyRotation, TLC

CONSTANTS i1, i2, probe, keyA, keyB, keyC

MCInvocations == {i1, i2, probe}
MCTexts == {"app", "41", "pemA", "pemB", "pemC", "garbage"}
MCWritable == [ClientID |-> {}, InstallationID |-> {}, PrivateKey |-> {}]
MCRsaKey == [pemA |-> keyA, pemB |-> keyB, pemC |-> keyC]
MCKeys == {keyA, keyB, keyC}
MCClientIDs == {"app"}
MCInstallations == {41}
MCInstallation ==
    41 :> [client |-> "app", owner |-> "meigma", granted |-> {"contents:read"}]
MCFormatInt == 41 :> "41"
MCNames == {"repo"}
MCTargets == {[Owner |-> "meigma", Repository |-> "repo",
               Permissions |-> {"contents:read"}]}
MCUploads == {"pemB", "pemC", "garbage"}

CallerSymmetry == Permutations({i1, i2})
=============================================================================
