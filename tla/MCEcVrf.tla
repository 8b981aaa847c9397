------------------------------ MODULE MCEcVrf -------------------------------
(***************************************************************************)
(* The curve y^2 = x^3 + 7 over 43 elements: its group has 31.  The hash   *)
(* is a polynomial in its words, and an address a number for each point.   *)
(***************************************************************************)
EXTENDS EcVrf

MCKeccak(words) ==
  LET acc[i \in 0 .. Len(words)] ==
        IF i = 0 THEN 5 ELSE (acc[i - 1] * 41 + words[i] * words[i] + 11 * words[i] + 3) % 1009
  IN (acc[Len(words)] * 5) % HashSize

MCGenerator == CHOOSE p \in Curve : p.y % 2 = 0

\* The place of a point among all points, scattered.
Place(p) == Cardinality({q \in Curve : q.x < p.x \/ (q.x = p.x /\ q.y < p.y)})
MCAddressOf(p) == (7 * Place(p) + 5) % GroupOrder
=============================================================================
