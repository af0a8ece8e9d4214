-------------------------- MODULE MCReleasePipeline --------------------------
(***************************************************************************)
(* The pipeline with its six attempts and a few reruns.                    *)
(***************************************************************************)
EXTENDS ReleasePipeline
=============================================================================
