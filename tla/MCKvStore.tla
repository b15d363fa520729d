----------------------------- MODULE MCKvStore -----------------------------
(* The store for TLC: one key.                                              *)
EXTENDS KvStore, TLC

CONSTANT k1

OneShard == k1 :> 1
=============================================================================
