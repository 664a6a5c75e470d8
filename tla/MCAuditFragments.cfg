SPECIFICATION AuditSpec
CONSTANTS
  Tuple = {t1}
  Side = {client, server}
  ClosedGrace = 0
  HandshakeTimeout = 1
  IdleTimeout = 2
  FlagSets <- SomeFlagSets
  Payload <- SomePayloads
  Signature <- OverlappingSignatures
  BypassThreshold = 4
  GcInterval = 2
  DnsTuple = {t1}
INVARIANTS
  FragmentsCaught
