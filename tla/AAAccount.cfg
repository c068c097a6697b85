SPECIFICATION Spec
CONSTANTS
  NoOwner = NoOwner
  Accounts = {a1}
  Addresses = {s1, s2, s3, s4}
  Owners = {o1}
  MaxNonce = 3
  MaxDepth = 3
SYMMETRY Symmetry
INVARIANTS
  TypeOK
  QuorumStands
  ExecutionsNumbered
  ReplayProtected
