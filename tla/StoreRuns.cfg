SPECIFICATION LiveSpec
CONSTANTS
  Threads = {a, b}
  Keys = {k}
  NoKey = NoKey
  Payloads = {plain, shown}
  Publishing = {shown}
  Runs = {r1, r2}
  None = None
  Torn = Torn
  Faults = {"write", "crash"}
INVARIANTS
  AnswersAgree
  BindingOnSavedRun
  PublishedReceiptValid
PROPERTIES
  LockReleased
