SPECIFICATION LedgersSpec
CONSTANTS
  MaxTime = 3
  Accounts = {"own", "op"}
  Self = "vault"
  Payees = {"vendor"}
  Adapters = {"adapter"}
  NoAdapter = "zero"
  Decisions = {b1}
  Amounts = {1, 2}
  CapChoices <- BothCaps
  Day = 2
  EscalationTTL = 0
  MaxIn = 2
  MaxEscalations = 2
  Bills = {b1}
  PayTo <- PayVendor
  Owed <- OweOne
  Events = {b1}
  Concerns <- AboutItself
  NoBill = noBill
  Handlers = {h1, h2}
  MaxProposals = 2
  MaxOverlaps = 1
  MaxFaults = 1
  Streams = {st1, st2}
  Parties = {payer, payee}
  NoParty = noParty
  Rates = {2}
  Reserves = {3}
  MaxOpens = 2
  EscrowIds = {es1, es2}
  BondIds = {bo1}
  People = {ann, ben, cat}
  NoPerson = noPerson
  Prices = {1}
  Tasks = {t1}
  Requests = {r1, r2}
  MaxCuts = 1
INVARIANTS LedgersTypeOK VaultSolvent OperatorWithinCap BillPaidOnce PaidIsPaid StreamConserved ActiveTimeBilled DealPaysOnce TasksCoherent
SYMMETRY HandlersAlike
CHECK_DEADLOCK FALSE
