\* Two nodes and two requests, an administrator and a user, a public and a
\* private receiver, pages of two epochs.
CONSTANTS
  n1 = n1
  n2 = n2
  q1 = q1
  q2 = q2
  orand = orand
  alice = alice
  pub = pub
  priv = priv
  env = env
  NoOne = NoOne
  Nodes = {n1, n2}
  Requests = {q1, q2}
  Users = {orand, alice}
  Orand = orand
  Receivers = {pub, priv}
  Public = {pub}
  EnvKeys = {env, NoOne}
  PageLimit = 2
  MaxEpoch = 99
  MaxNonce = 3
  Calls <- MCCalls
SPECIFICATION Spec
SYMMETRY Symmetry
INVARIANTS
  KeysAgree
  SecretsWork
  PagesAreUnbroken
PROPERTIES
  ReceiversStay
  Authorized
CHECK_DEADLOCK FALSE
