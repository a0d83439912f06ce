SPECIFICATION Spec
CONSTANTS
  bulk1 = bulk1
  sync1 = sync1
  c1 = c1
  c2 = c2
  NoJob = NoJob
  Jobs <- OneOfEach
  Incremental <- SyncJob
  Clients <- TwoRequests
PROPERTY CancelledIsFinal
