SPECIFICATION AuditSpec
CONSTANTS
  f1 = f1
  f2 = f2
  f3 = f3
  NoSlot = NoSlot
  NoPacket = NoPacket
  NumWorkers = 2
  NumSlots = 2
  QueueCapacity = 2
  Flows <- ThreeFlows
  WorkerOf <- ThreeFlowsWorkerOf
  MaxPackets = 3
  Interrupts = TRUE
  SpawnFails = TRUE
INVARIANTS
  TypeOK
  OneOwner
  PayloadIntact
  FlowOrder
  EveryPacketOnce
  
  
PROPERTIES
  Terminates
