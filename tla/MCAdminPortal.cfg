SPECIFICATION PortalLiveSpec
CONSTANTS
  Filters = {f1, f2}
  Admins = {adm1, adm2}
  Stored = FALSE
  MaxSessions = 2
  MaxTurns = 7
  MaxRequests = 4
  adm1 = adm1 adm2 = adm2 f1 = f1 f2 = f2
CHECK_DEADLOCK FALSE

  
PROPERTIES
  TableCatchesUp
