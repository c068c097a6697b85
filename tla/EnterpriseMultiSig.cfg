SPECIFICATION Spec
CONSTANTS
  d1 = d1
  None = None
  DWallets = {d1}
  Signers = {s1, s2}
  Txs = {t1, t2}
  Executors = {e1, e2}
  SignerLists <- MCSignerLists
  Thresholds = {1, 2}
  Timelocks = {0, 1}
  MaxSigners = 3
SYMMETRY Symmetry
INVARIANTS
  TypeOK
  PolicyStands
PROPERTY ImplementsApproval
