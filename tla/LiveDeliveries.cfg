SPECIFICATION OpenLiveSpec
CONSTANTS
  Tokens = {t1}
  Runs = {r1}
  Keys = {}
  Null = Null
  Commits = {c1}
  LifetimeCaps = {5}
  Estimates = {2}
  Charges = {}
  Caps = {0}
  Balances = {0}
  Floor = 5
  TTLs = {1}
  Deadline = 1
  Copies = {original, copy, again}
  Original = original
INVARIANTS
  ReceiptOfExecution
  AwaitedExecutionCovered
PROPERTIES
  ImplementsAtMostOnce
  SlotFreed
