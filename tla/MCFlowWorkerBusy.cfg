SPECIFICATION FlowSpec
CONSTANTS
  Tuple = {t1, t2}
  ClosedGrace = 0
  HandshakeTimeout = 1
  IdleTimeout = 2
  FlagSets <- SomeFlagSets
  Payload <- TwoPayloads
  Signature <- TwoByteSignature
  BypassThreshold = 2
  GcInterval = 2
  DnsTuple = {t1}
PROPERTIES
  CleanupGuaranteed
