SPECIFICATION LiveSpec
CONSTANTS
  Notes = {n1, n2}
  Servers = {srv1}
  MaxAttempts = 3
  BatchSize = 2
  MaxEvents = 2
  MaxSilences = 1
  MaxFaults = 2
  n1 = n1 n2 = n2 srv1 = srv1
CHECK_DEADLOCK FALSE

  
  
PROPERTIES
  EveryNoteSettles
