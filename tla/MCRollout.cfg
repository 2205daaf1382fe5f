SPECIFICATION Spec
CONSTANTS
  ann = ann
  bob = bob
  Operators = {ann, bob}
  Scripts <- MCScripts
  Starts <- MCStarts
  MaxActs = 3
SYMMETRY MCSymmetry
PROPERTIES InOrder NoBlackout RulesPreserved DoneMeansDesired
CHECK_DEADLOCK FALSE
