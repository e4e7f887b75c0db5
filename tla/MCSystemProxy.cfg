CONSTANTS
  Services = {wifi, wire}
  NoService = NoService
  Configs = {c1, c2}
  Foreign = {f1}
  Empty = Empty
  Auth = Auth
  NoSnapshot = NoSnapshot
  MaxFailures = 2
  MaxChanges = 1
SYMMETRY Symmetry
SPECIFICATION Spec
INVARIANT Safety
PROPERTY ForeignSettingsAreKept
CHECK_DEADLOCK FALSE
