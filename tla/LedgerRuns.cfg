SPECIFICATION OpenSpec
CONSTANTS
  Tokens = {t1, t2}
  Runs = {r1, r2}
  Keys = {k1}
  Null = Null
  Commits = {c1}
  LifetimeCaps = {5}
  Estimates = {2, 3}
  Charges = {1}
  Caps = {2}
  Balances = {9}
  Floor = 5
  TTLs = {1}
  Deadline = 1
SYMMETRY Symmetry
INVARIANTS
  OneActiveRun
  ReservationOfActiveRun
  GrantFundsOneRun
  ExceptionFollowsItsGrant
PROPERTIES
  SettledRunsStay
  ExposureFallsOnlyByRelease
