-------------------------- MODULE MCTerraformDeploy --------------------------
(***************************************************************************)
(* Sources and hosts for the module's applies.                             *)
(***************************************************************************)
EXTENDS TerraformDeploy
=============================================================================
