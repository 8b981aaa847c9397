---------------------------- MODULE MCOrandNode ----------------------------
(***************************************************************************)
(* An instance of OrandNode for TLC.                                       *)
(***************************************************************************)
EXTENDS OrandNode, TLC

CONSTANTS n1, n2, q1, q2, orand, alice, pub, priv, env

\* Calls with the arguments of their method, the others being fixed.
Args(method, names, receivers, epochs, users) ==
  [method : {method}, name : names, rcv : receivers, epoch : epochs, user : users]

MCCalls ==
  UNION {Args("addUser", {alice}, {pub}, {0}, Users),
         Args("addReceiver", Users, {priv}, {0}, {orand}),
         Args("addReceiver", {orand}, {pub}, {0}, {orand}),
         Args("newEpoch", {orand}, {pub}, {0}, Users),
         Args("newEpoch", {orand}, {priv}, {0}, {alice}),
         Args("getEpoch", {orand}, {pub}, {0, 1, MaxEpoch}, {alice}),
         Args("getPublicKey", {orand}, {pub}, {0}, {alice}),
         Args("getUser", {alice}, {pub}, {0}, {orand}),
         Args("getReceiver", {alice}, {pub}, {0}, {alice})}

Symmetry == Permutations(Requests) \cup Permutations(Nodes)
=============================================================================
