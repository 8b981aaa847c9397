----------------------------- MODULE EpochChain -----------------------------
(***************************************************************************)
(* What Orand promises about the randomness of a receiver, whatever the    *)
(* number of clients and the failures of the node: its epochs form one     *)
(* chain, numbered 0, 1, 2, ..., in which the output of an epoch is the    *)
(* input of the next one, and every epoch is handed to at most one client, *)
(* and only once it is part of the chain.                                  *)
(***************************************************************************)
EXTENDS Vrf, Sequences

CONSTANT Receivers

VARIABLES chain,      \* the epochs of each receiver, oldest first
          delivered   \* the <<receiver, position>> pairs handed to a client

vars == <<chain, delivered>>

Init == /\ chain = [r \in Receivers |-> <<>>]
        /\ delivered = {}

\* No chain has been started from the random scalar of q.
Unused(q) == \A r \in Receivers : \A i \in DOMAIN chain[r] :
                chain[r][i].alpha[1] # q

\* The inputs the next epoch of r may be computed from.
NextAlpha(r, q) ==
    IF chain[r] = <<>> THEN Randomize(q) ELSE Y(chain[r][Len(chain[r])])

Issue(r, q) ==
    /\ chain[r] = <<>> => Unused(q)
    /\ chain' = [chain EXCEPT ![r] =
                   Append(@, [epoch |-> Len(@), alpha |-> NextAlpha(r, q)])]
    /\ UNCHANGED delivered

Deliver(r, i) ==
    /\ i \in DOMAIN chain[r]
    /\ <<r, i>> \notin delivered
    /\ delivered' = delivered \cup {<<r, i>>}
    /\ UNCHANGED chain

Next == \/ \E r \in Receivers, q \in Requests : Issue(r, q)
        \/ \E r \in Receivers : \E i \in DOMAIN chain[r] : Deliver(r, i)

Spec == Init /\ [][Next]_vars
=============================================================================
