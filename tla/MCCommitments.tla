--------------------------- MODULE MCCommitments ----------------------------
(***************************************************************************)
(* A small field, in which the fifth power is a permutation that is not    *)
(* linear, a matrix and its inverse, and round constants without pattern.  *)
(***************************************************************************)
EXTENDS Commitments

Row(a, b, c) == [i \in 0 .. 2 |-> <<a, b, c>>[i + 1]]

MCMds == [i \in 0 .. 2 |-> <<Row(1, 4, 5), Row(4, 5, 2), Row(5, 2, 3)>>[i + 1]]
MCMdsInv == [i \in 0 .. 2 |-> <<Row(2, 6, 2), Row(6, 3, 2), Row(2, 2, 5)>>[i + 1]]

MCRoundConstants ==
  [r \in 0 .. 5 |-> <<Row(4, 2, 5), Row(2, 6, 5), Row(6, 5, 5),
                      Row(4, 0, 6), Row(3, 6, 1), Row(5, 0, 1)>>[r + 1]]

MCCapacity == [length \in 0 .. 4 |-> length]

\* No word, less than a block, a block, one and a half, and more than the columns hold.
MCMessages == {<<>>, <<0>>, <<3>>, <<1, 6>>, <<6, 1>>, <<1, 6, 2>>, <<2, 5, 4>>, <<1, 2, 3, 4>>}

\* 256 has the low byte 0, and 3 is beyond the points.
MCPositions == {0, 1, 2, 3, 256}
MCLowByte == [i \in MCPositions |-> i % 256]
=============================================================================
