SPECIFICATION AuditSpec
CONSTANTS
  f1 = f1
  f2 = f2
  f3 = f3
  NoSlot = NoSlot
  NoPacket = NoPacket
  NumWorkers = 2
  NumSlots = 2
  QueueCapacity = 2
  Flows <- ThreeFlows
  WorkerOf <- ThreeFlowsWorkerOf
  MaxPackets = 1
  Interrupts = FALSE
  SpawnFails = FALSE
INVARIANTS
  ExitSafe
