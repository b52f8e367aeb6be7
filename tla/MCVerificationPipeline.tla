----------------------- MODULE MCVerificationPipeline -----------------------
(* VerificationPipeline with two changes by others, and any target in the  *)
(* working copy and in one or two commits to begin with.                   *)
EXTENDS VerificationPipeline
=============================================================================
