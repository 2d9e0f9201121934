\* Dedup on the workload (unique "-") and the uninitialised key of an empty unique.
CONSTANTS
  Functions = {f1}
  Workers = {w1}
  Clients = {c1}
  JobSlot = {j1, j2}
  NoJob = NoJob
  NoWorker = NoWorker
  NoClient = NoClient
  UniqueSize = 64
  HandleMod = 65536
  QueueInstalled = TRUE
  UniqueInputs <- MCDashUniques
  DataInputs <- MCDashData
  PriorityInputs = {0}
  MaxQueueInputs = {0}
  MaxCreates = 3
  MaxNoops = 1
  WorkerLibrary = TRUE
  AdapterFailures = FALSE
  AllocFailures = FALSE
  MaxRestarts = 0
  ClientProgram = FALSE
  MaxInbox = 0
SPECIFICATION Spec
INVARIANT UniqueDedup
SYMMETRY MCSymmetry
CONSTRAINT NoopBound
