CONSTANTS
  p1 = p1
  p2 = p2
  i1 = i1
  i2 = i2
  i3 = i3
  Deliveries <- OneProcess
  Sanitized = {i1, i2}
  NoWorkflow = NoWorkflow
  NoDelivery = NoDelivery
  maxAttempts = 2
  SearchLags = FALSE
  MaxFaults = 3
SPECIFICATION FairWorkflowSpec
INVARIANTS
  NoDuplicateActions
  ActionsAreOfRecord
PROPERTIES
  ResumeSkipsCompleted
  DeliveriesSettle
CHECK_DEADLOCK FALSE
