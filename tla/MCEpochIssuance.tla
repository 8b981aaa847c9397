-------------------------- MODULE MCEpochIssuance --------------------------
(***************************************************************************)
(* Instances of EpochIssuance for TLC.  Requests, nodes and receivers are  *)
(* model values; the requests of an instance are all the requests its      *)
(* nodes ever serve, so a receiver gets at most one epoch per request.     *)
(***************************************************************************)
EXTENDS EpochIssuance, TLC

\* Requests are interchangeable: nothing orders or names them.
RequestSymmetry == Permutations(Requests)
=============================================================================
