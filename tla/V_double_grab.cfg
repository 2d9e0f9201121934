\* A worker that GRABs twice without answering: server_worker->job is overwritten.
CONSTANTS
  Functions = {f1}
  Workers = {w1, w2}
  Clients = {c1}
  JobSlot = {j1, j2}
  NoJob = NoJob
  NoWorker = NoWorker
  NoClient = NoClient
  UniqueSize = 64
  HandleMod = 65536
  QueueInstalled = TRUE
  UniqueInputs <- MCUniques
  DataInputs <- MCData
  PriorityInputs = {0, 2}
  MaxQueueInputs = {0}
  MaxCreates = 3
  MaxNoops = 1
  WorkerLibrary = FALSE
  AdapterFailures = FALSE
  AllocFailures = FALSE
  MaxRestarts = 0
  ClientProgram = FALSE
  MaxInbox = 0
SPECIFICATION Spec
INVARIANT WorkerJobLinks
SYMMETRY MCSymmetry
CONSTRAINT NoopBound
