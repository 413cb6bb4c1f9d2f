CONSTANTS
  Session = {s1, s2, s3}
  Nothing = Nothing
  MaxPanes = 3
SPECIFICATION PanesSpec
SYMMETRY PanesSymmetry
INVARIANTS
  OthersStay
PROPERTIES
  MapsPanes
CHECK_DEADLOCK FALSE
