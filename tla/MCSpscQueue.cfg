SPECIFICATION Spec
CONSTANTS
  Item = {a, b}
  Junk = junk
  Capacity = 2
  IndexSpace = 8
INVARIANTS
  TypeOK
  NoDataRace
  StaleViewsAreSafe
PROPERTIES
  ImplementsFifo
