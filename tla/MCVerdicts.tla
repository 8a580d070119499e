------------------------------ MODULE MCVerdicts ------------------------------
(* Instances of the verdict pipeline for TLC. *)
EXTENDS VerdictPipeline
===============================================================================
