SPECIFICATION Spec
CONSTANTS
  Sessions = {s, t}
  Kinds = {k}
  Plans = {a, b}
  MaxTime = 1
  MaxDeaths = 1
SYMMETRY Symmetry
INVARIANTS
  SavedPlansKept
PROPERTIES
  HistoryKept
