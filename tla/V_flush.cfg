\* queue_flush_fn fails after queue_add_fn succeeded.
CONSTANTS
  Functions = {f1}
  Workers = {w1, w2}
  Clients = {c1}
  JobSlot = {j1, j2}
  NoJob = NoJob
  NoWorker = NoWorker
  NoClient = NoClient
  UniqueSize = 64
  HandleMod = 65536
  QueueInstalled = TRUE
  UniqueInputs <- MCUniques
  DataInputs <- MCData
  PriorityInputs = {0, 2}
  MaxQueueInputs = {0}
  MaxCreates = 3
  MaxNoops = 1
  WorkerLibrary = TRUE
  AdapterFailures = TRUE
  AllocFailures = FALSE
  MaxRestarts = 0
  ClientProgram = FALSE
  MaxInbox = 0
SPECIFICATION Spec
INVARIANT NoOrphanRecord
SYMMETRY MCSymmetry
CONSTRAINT NoopBound
