SPECIFICATION TrackerSpec
CONSTANTS
  Tuple = {t1, t2, t3}
  ClosedGrace = 1
  HandshakeTimeout = 2
  IdleTimeout = 3
INVARIANTS
  TrackerTypeOK
  LruMatchesTable
  LruChronological
PROPERTIES
  LongIdleCollected
  SilentFlowsForgotten
