--------------------------- MODULE MCEpollReactor ---------------------------
(* The reactor for TLC, with its interchangeable workers.                   *)
EXTENDS EpollReactor, TLC

WorkerSymmetry == Permutations(Workers)
=============================================================================
