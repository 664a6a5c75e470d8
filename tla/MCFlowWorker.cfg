SPECIFICATION FlowSpec
CONSTANTS
  Tuple = {t1, t2}
  DnsTuple = {t1}
  ClosedGrace = 0
  HandshakeTimeout = 1
  IdleTimeout = 2
  FlagSets <- SomeFlagSets
  Payload <- SomePayloads
  Signature <- TwoByteSignature
  BypassThreshold = 2
  GcInterval = 1
INVARIANTS
  FlowTypeOK
  NeverBypassMalicious
PROPERTIES
  VerdictsLast
  ExpiredOnlyIfHidden
  CleanupWhenIdle
