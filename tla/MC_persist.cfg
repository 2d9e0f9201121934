\* Write-through and replay: background submits with adapter failures,
\* maxqueue, and a crash and restart that replays the adapter.
CONSTANTS
  Functions = {f1}
  Workers = {w1}
  Clients = {c1}
  JobSlot = {j1, j2}
  NoJob = NoJob
  NoWorker = NoWorker
  NoClient = NoClient
  UniqueSize = 64
  HandleMod = 65536
  QueueInstalled = TRUE
  UniqueInputs <- MCNamedUniques
  DataInputs <- MCData
  PriorityInputs = {0}
  MaxQueueInputs = {0, 1}
  MaxCreates = 3
  MaxNoops = 1
  WorkerLibrary = TRUE
  AdapterFailures = TRUE
  AllocFailures = FALSE
  MaxRestarts = 1
  ClientProgram = TRUE
  MaxInbox = 2
SPECIFICATION Spec
INVARIANT JobAccounting
INVARIANT ReplayFaithful
INVARIANT ClientNotStranded
INVARIANT StatusOfCurrentRun
CONSTRAINT NoopBound
SYMMETRY MCSymmetry
