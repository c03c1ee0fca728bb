SPECIFICATION FairSpec
CONSTANTS
  Orgs = {1, 2}
  Gens = {1, 2}
  Batches = {b1, b2}
  SandboxTicks = {t1}
  Spends = {spend}
  Purchases = {}
  spend = spend
  purchased = purchased
  None = None
  OrgOf <- TwoOrgs
  Amount <- MCAmount
  Welcome <- Two
  UnitsPerCredit = 2
  Overdraft = 1
  BatchSize = 2
  MaxAttempts = 2
  MaxUsage = 2
  MaxCalls = 2
PROPERTY TickEnds
CHECK_DEADLOCK FALSE
