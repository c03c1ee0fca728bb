SPECIFICATION Spec
CONSTANTS
  Orgs = {1}
  Gens = {1, 2, 3, 4}
  Batches = {b1, b2}
  SandboxTicks = {t1}
  Spends = {spend}
  Purchases = {purchased}
  spend = spend
  purchased = purchased
  None = None
  OrgOf <- OneOrg
  Amount <- MCAmount
  Welcome <- Two
  UnitsPerCredit = 2
  Overdraft = 1
  BatchSize = 2
  MaxAttempts = 2
  MaxUsage = 2
  MaxCalls = 2
SYMMETRY Symmetry
INVARIANTS FloorKept SplitTicksAgree RowsMatchEntries NeverOvercharged GrantedOnce
PROPERTIES SpendCovered ImplementsAccounts
CHECK_DEADLOCK FALSE
