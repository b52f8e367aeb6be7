SPECIFICATION Spec
CONSTANTS
    MaxChanges = 2
    None = None
INVARIANTS
    WorldsOfOneSource
    SourceIsCommitted
    AnswersAreSaved
CHECK_DEADLOCK FALSE
