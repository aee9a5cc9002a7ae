SPECIFICATION BuyerSpec
CONSTANTS
  Sessions = {s1}
  TxHashes = {t1}
  PayIds = {p1}
  Procs = {c1}
  Reqs = {}
  Worker = worker
  Ops <- NoOps
  Pays <- PaysAny
  Discounted = {}
  Known = {}
  Covered = {t1}
  Direct = direct
  NoTx = noTx
  NoPay = noPay
  MaxFaults = 1
  MaxGrants = 1
  MaxRedemptions = 1
PROPERTY ConfirmedIsGranted
