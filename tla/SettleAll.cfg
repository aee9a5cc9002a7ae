SPECIFICATION Spec
CONSTANTS
  Sessions = {s1}
  TxHashes = {t1}
  PayIds = {p1, p2}
  Procs = {c1}
  Reqs = {r1}
  Worker = worker
  Ops <- EveryOp
  Pays <- PaysAny
  Discounted = {s1}
  Known = {s1}
  Covered = {t1}
  Direct = direct
  NoTx = noTx
  NoPay = noPay
  MaxFaults = 1
  MaxGrants = 1
  MaxRedemptions = 1
SYMMETRY PaySymmetry
INVARIANTS NothingBeforeMoney CompletedIsPaid
