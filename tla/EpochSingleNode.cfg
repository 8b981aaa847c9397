\* One node, no COMMIT outlives its task: the deployment of docker/node.
CONSTANTS
  q1 = q1
  q2 = q2
  q3 = q3
  n1 = n1
  pub = pub
  priv = priv
  orand = orand
  alice = alice
  Nobody = Nobody
  Requests = {q1, q2, q3}
  Nodes = {n1}
  Receivers = {pub, priv}
  Public = {pub}
  Users = {orand, alice}
  Orand = orand
  LateCommit = FALSE
SPECIFICATION Spec
SYMMETRY RequestSymmetry
INVARIANTS
  TypeOK
  ChainedEpochs
  NoConflict
PROPERTY ImplementsChain
CHECK_DEADLOCK FALSE
