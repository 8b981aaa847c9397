\* Two nodes on one database, and COMMITs that outlive their task: what the
\* database alone still guarantees, and that no mutex and no transaction is left
\* behind.
CONSTANTS
  q1 = q1
  q2 = q2
  q3 = q3
  n1 = n1
  n2 = n2
  pub = pub
  orand = orand
  Nobody = Nobody
  Requests = {q1, q2, q3}
  Nodes = {n1, n2}
  Receivers = {pub}
  Public = {pub}
  Users = {orand}
  Orand = orand
  LateCommit = TRUE
SPECIFICATION FairSpec
INVARIANTS
  NoFork
  DeliveredIsDurable
PROPERTIES
  QueuedIsAnswered
  TransactionsEnd
CHECK_DEADLOCK FALSE
