CONSTANTS
  f = f
  n = n
  p = p
  i = i
  d = d
  c0 = c0
  c1 = c1
  Files = {f, n, p, i}
  Contents = {c0, c1}
  Absent = Absent
  Base <- MCBase
  Protected = {p}
  Ignored = {i}
  Within <- MCWithin
  Proposals <- MCProposals
  MaxAdmitted = 1
  MaxActions = 2
  MaxModelCalls = 1
  MaxEffects = 3
  Reports <- MCReports
  Sandboxes = {s1, s2}
  CallerSandbox = s1
  Modes <- MCModes
  None = None
SPECIFICATION Spec
INVARIANTS
  CompliantCandidate
  ReproducedCandidate
  SandboxesReturned
