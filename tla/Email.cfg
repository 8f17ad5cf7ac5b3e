SPECIFICATION FairOutboxSpec
CONSTANTS
  Total = 2
  Workers = {w1, w2}
  Batch = 2
  Concurrency = 1
  MaxAttempts = 2
  MaxFaults = 2
CHECK_DEADLOCK FALSE
INVARIANTS
  OutcomesAreTrue
  CopiesExplained
PROPERTIES
  MessagesSettle
