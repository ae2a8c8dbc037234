--------------------------- MODULE MCRemoteWorker ---------------------------
(* RemoteWorker on a small instance. *)
EXTENDS RemoteWorker, TLC

Symmetry == Permutations(Jobs) \cup Permutations(Calls)
=============================================================================
