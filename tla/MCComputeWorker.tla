--------------------------- MODULE MCComputeWorker --------------------------
(* ComputeWorker on a small instance. *)
EXTENDS ComputeWorker
=============================================================================
