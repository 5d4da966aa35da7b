SPECIFICATION Spec
CONSTANTS
  People = {ann}
  Configured = {}
  Sessions = {s1, s2, s3}
  MaxTrail = 3
  ann = ann s1 = s1 s2 = s2 s3 = s3
SYMMETRY Interchangeable
CHECK_DEADLOCK FALSE
INVARIANTS
  OutdatedStayShut
  TrailExplainsStatus
PROPERTIES
  SignInNeverReinstates
