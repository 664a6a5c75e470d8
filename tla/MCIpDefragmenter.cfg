SPECIFICATION AuditSpec
CONSTANTS
  Fragment <- Fragments
  Length <- Lengths
  Unit = 2
  MaxDatagramSize = 7
  MaxConcurrentDatagrams = 2
  FragmentTimeout = 1
INVARIANTS
  DefragTypeOK
  DeliveredAsSent
  HandedOverWhenWhole
PROPERTIES
  Reassembles
  SlotsComeBack
