SPECIFICATION Spec
CONSTANTS
  c1 = c1
  k2 = k2
  w1 = w1
  x1 = x1
  x2 = x2
  r1 = r1
  r2 = r2
  r3 = r3
  Contexts = {c1}
  Keys = {c1, k2}
  Wallets = {w1}
  WalletOf <- MCWalletOf
  Transactions = {x1, x2}
  Runs = {r1, r2, r3}
  ContextOf <- MCContextOf
  UseAA <- MCUseAA
  MaxOperations = 2
SYMMETRY Symmetry
INVARIANTS
  SnapshotsCoverBatch
  IndexHoldsTheUnrevoked
PROPERTY FrozenOnceReady
