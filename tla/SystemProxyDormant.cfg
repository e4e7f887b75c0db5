CONSTANTS
  Services = {wifi, wire}
  NoService = NoService
  Configs = {c1, c2}
  Foreign = {f1}
  Empty = Empty
  Auth = Auth
  NoSnapshot = NoSnapshot
  MaxFailures = 0
  MaxChanges = 1
SPECIFICATION Spec
PROPERTY DormantStaysOff
CHECK_DEADLOCK FALSE
