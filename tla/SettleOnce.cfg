SPECIFICATION Spec
CONSTANTS
  Sessions = {s1, s2}
  TxHashes = {t1}
  PayIds = {p1, p2}
  Procs = {c1, c2}
  Reqs = {r1}
  Worker = worker
  Ops <- RaceOps
  Pays <- PaysAny
  Discounted = {}
  Known = {}
  Covered = {t1}
  Direct = direct
  NoTx = noTx
  NoPay = noPay
  MaxFaults = 0
  MaxGrants = 1
  MaxRedemptions = 1
SYMMETRY RaceSymmetry
INVARIANTS TypeOK TxSettlesOnePayment TxInv
PROPERTY KeepsPromise
