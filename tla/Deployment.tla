----------------------------- MODULE Deployment -----------------------------
(***************************************************************************)
(* TerraformDeploy together with the environment it gives the function,    *)
(* which the broker loads at every start (BrokerConfig).  An apply that    *)
(* succeeds sets the environment to what the variables make, whether the   *)
(* code changes or not; between applies the variables change, and the      *)
(* environment may be edited by hand to anything.                          *)
(***************************************************************************)
EXTENDS TerraformDeploy, BrokerConfig

\* Null is neither an environment nor the state of a function, an error is not a
\* configuration, and the URL of the public API parses.
ASSUME DeploymentAssumption ==
    /\ Null \notin Environments
    /\ Null \notin [filename : ({"cached"} \X Versions)
                              \cup ({"local"} \X (Zips \cup {Null})),
                   source_code_hash : Versions \cup {Null}]
    /\ Malformed # DefaultURL
    /\ \A e \in Environments : Loaded(e) # Refused

VARIABLES
    inputs,         \* the environment the module's variables make
    environment     \* the environment of the function, Null without one

deployment == <<vars, inputs, environment>>

\* The variables have passed their validation.
Inputs == {e \in Environments : Deployed(e)}

DeploymentInit ==
    /\ Init
    /\ inputs \in Inputs
    /\ environment = Null

\* What an apply does, or what happens to its artifacts between two of them.
ApplyOrChange ==
    /\ Next
    /\ environment' = IF function' = Null THEN Null
                      ELSE IF phase = "function" /\ result' = "ok" THEN inputs
                      ELSE environment
    /\ UNCHANGED inputs

ConfigureBroker ==
    /\ Change
    /\ inputs' \in Inputs
    /\ UNCHANGED <<artifact, repository, content, cache, function, code, environment>>

\* By hand, to anything Load has a check for: also the region, which Lambda sets.
EditEnvironment ==
    /\ Change
    /\ function # Null
    /\ environment' \in Environments
    /\ UNCHANGED <<artifact, repository, content, cache, function, code, inputs>>

DeploymentNext == ApplyOrChange \/ ConfigureBroker \/ EditEnvironment

DeploymentSpec == DeploymentInit /\ [][DeploymentNext]_deployment

----------------------------------------------------------------------------
(* Properties                                                              *)

\* After an apply that succeeded the function has an environment that loads, also
\* if it had been edited before: what the two programs require of names, paths
\* and permissions, in two languages and with white space trimmed in different
\* places, agrees.  The broker then serves, if the base URL, which Terraform does
\* not validate, is left at its default.
ValidatedDeploymentLoads ==
    result = "ok" =>
        /\ environment # Null
        /\ Load(environment) # Refused
        /\ environment.url \in {Blank, DefaultURL} => Serves(environment)
=============================================================================
