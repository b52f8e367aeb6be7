SPECIFICATION OpenSpec
CONSTANTS
  Tokens = {t1, t2}
  Runs = {r1, r2}
  Keys = {}
  Null = Null
  Commits = {c1}
  LifetimeCaps = {5}
  Estimates = {2}
  Charges = {1}
  Caps = {0}
  Balances = {0}
  Floor = 5
  TTLs = {1}
  Deadline = 1
INVARIANTS
  HeldExposureReconcilable
