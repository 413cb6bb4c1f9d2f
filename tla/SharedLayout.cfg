CONSTANTS
  Browser = {b1, b2}
  None = None
  MaxEdits = 2
  Faults = {"fail", "leave", "drop"}
SPECIFICATION Spec
SYMMETRY Symmetry
INVARIANTS
  SavesBuildOnEachOther
  EditsAreSaved
  ToldMeansShown
CHECK_DEADLOCK FALSE
