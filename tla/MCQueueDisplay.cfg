SPECIFICATION DisplayLiveSpec
CONSTANTS
  Orders = {ord1}
  Clients = {dev1}
  Display = dev1
  Reads = {read1}
  MaxVersion = 2
  MaxPayments = 1
  MaxTaps = 1
  MaxFaults = 1
  MaxDrops = 1
  BatchSize = 1
  BufferSize = 1
  ord1 = ord1 read1 = read1 dev1 = dev1
CHECK_DEADLOCK FALSE
INVARIANTS
  
  NeverStranded

  
