CONSTANTS
  a = a
  p0 = p0
  t0 = t0
  Ids = {a, b}
  Patches = {p0, p1, p2, p3}
  Trees = {t0, t1}
  Sandboxes = {s1, s2, s3, sBuilder, sPrior}
  BuilderSandboxes = {sBuilder}
  PriorSandboxes = {sPrior}
  Initials <- MCInitials
  Changes <- MCChanges
  Spent = {0, 1}
  None = None
  MaxRounds = 3
  MaxBuilder = 3
  MaxVerifier = 3
  MaxSandbox = 3
  TeardownOnFailure = TRUE
SPECIFICATION LiveSpec
INVARIANTS
  FeedbackOfParentFailure
  AuditTrailMatchesRounds
  NoSandboxLeft
PROPERTIES
  ImplementsSeries
  LoopEnds
