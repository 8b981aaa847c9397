\* One node, a COMMIT on the wire when its client hangs up: the next epoch
\* does not continue the previous one.
CONSTANTS
  q1 = q1
  q2 = q2
  n1 = n1
  pub = pub
  orand = orand
  Nobody = Nobody
  Requests = {q1, q2}
  Nodes = {n1}
  Receivers = {pub}
  Public = {pub}
  Users = {orand}
  Orand = orand
  LateCommit = TRUE
SPECIFICATION Spec
SYMMETRY RequestSymmetry
INVARIANT PreviousRandomness
CHECK_DEADLOCK FALSE
