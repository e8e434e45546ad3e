-------------------------- MODULE MCResultDownload --------------------------
(* The instances of MCNatPipeline with a download beside the workers. *)
EXTENDS MCNatPipeline, ResultDownload
=============================================================================
