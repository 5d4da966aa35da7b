SPECIFICATION LiveSpec
CONSTANTS
  Orders = {ord1}
  Clients = {dev1}
  MaxVersion = 4
  MaxPayments = 1
  BatchSize = 2
  BufferSize = 2
  MaxFaults = 2
  ord1 = ord1 dev1 = dev1
CHECK_DEADLOCK FALSE
INVARIANTS
  NoGapInBuffer
PROPERTIES
  KeepsPromise
