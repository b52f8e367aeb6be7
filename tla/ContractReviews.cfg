CONSTANTS
  r1 = r1
  r2 = r2
  good = good
  other = other
  weak = weak
  never = never
  x = x
  y = y
  why = why
  because = because
  canon = canon
  lax = lax
  bug = bug
  refactor = refactor
  Reviewers = {r1, r2}
  Statements = {good, other, weak, never}
  Citations = {x, y}
  Rationales = {why, because}
  Spans = {1, 2}
  TextAt <- MCTextAt
  IdOf <- MCIdOf
  Classes = {bug, refactor}
  Forbids <- MCForbids
  Manifests = {canon, lax}
  Canonical = canon
  OutOfScope <- MCOutOfScope
  Contradictory <- MCContradictory
  AgainstClass <- MCAgainstClass
  Signals <- MCSignals
  Answers <- MCAnswers
  Raw <- MCRaw
  MaxRequirements = 2
  Entered <- MCEntered
  MaxEdits = 2
  MaxFrozen = 2
  None = None
SPECIFICATION Spec
INVARIANTS
  FrozenContractValid
  DigestNamesRequirements
PROPERTY
  ApprovalOfPresentDraft
SYMMETRY ReviewersAlike
CHECK_DEADLOCK FALSE
