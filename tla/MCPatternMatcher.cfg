SPECIFICATION Spec
CONSTANTS
  NumBytes = 2
  Line <- RuleFileLines
  MaxRules = 3
  MaxScanned = 6
INVARIANTS
  LinksToLongestEnding
  RemembersLongestEnding
  AlertsExact
