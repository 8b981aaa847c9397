-------------------------------- MODULE Vrf --------------------------------
(***************************************************************************)
(* The scalars and the verifiable random function that Orand chains its    *)
(* epochs with, in symbolic form.                                          *)
(*                                                                         *)
(* A node draws a random scalar at most once per request, so the scalar    *)
(* drawn while serving q is <<q, 0>>; applying the function k times to it  *)
(* gives <<q, k>>.  Two random draws never collide and the function is     *)
(* injective and never cycles: the properties of Scalar::randomize and of  *)
(* keccak256(sk * HashToCurve(alpha)) that the node relies on.  The output *)
(* depends on alpha alone because every node on a database signs with the  *)
(* secret key stored in it, while c, s and hence the digest that is signed *)
(* depend on the fresh k of each proof, so no two signatures are equal.    *)
(***************************************************************************)
EXTENDS Naturals

CONSTANT Requests   \* the requests that may reach a node

Scalar == Requests \X Nat

\* Scalar::randomize() in the request q.
Randomize(q) == <<q, 0>>

\* The field y of the proof that ECVRF::prove_contract returns for alpha.
ProveContract(alpha) == <<alpha[1], alpha[2] + 1>>

\* A row of the randomness table: the columns the protocol depends on.
Row == [epoch : Nat, alpha : Scalar]
Y(row) == ProveContract(row.alpha)
=============================================================================
