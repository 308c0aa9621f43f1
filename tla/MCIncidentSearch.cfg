CONSTANTS
  p1 = p1
  p2 = p2
  i1 = i1
  i2 = i2
  i3 = i3
  Deliveries <- OneProcess
  Sanitized = {i1, i2}
  NoWorkflow = NoWorkflow
  NoDelivery = NoDelivery
  maxAttempts = 2
  SearchLags = TRUE
  MaxFaults = 3
SPECIFICATION WorkflowSpec
INVARIANT NoDuplicateActions
CHECK_DEADLOCK FALSE
