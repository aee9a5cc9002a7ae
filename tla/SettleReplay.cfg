SPECIFICATION Spec
CONSTANTS
  Sessions = {s1}
  TxHashes = {t1, t2}
  PayIds = {p1, p2, p3}
  Procs = {c1}
  Reqs = {r1}
  Worker = worker
  Ops <- ConfirmOps
  Pays <- PaysAny
  Discounted = {}
  Known = {s1}
  Covered = {t1, t2}
  Direct = direct
  NoTx = noTx
  NoPay = noPay
  MaxFaults = 0
  MaxGrants = 1
  MaxRedemptions = 1
SYMMETRY PaySymmetry
INVARIANT TxSettlesOnePayment
