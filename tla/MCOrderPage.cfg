SPECIFICATION LiveSpec
CONSTANTS
  Items = {i1}
  Options = {}
  MaxSelect = 1
  MaxQuantity = 1
  Customers = {c1}
  Nobody = Nobody
  Keys = {k1, k2}
  NoKey = NoKey
  BadLink = BadLink
  Stages = 2
  MaxPreviews = 1
  MaxPolls = 1
  MaxReloads = 1
INVARIANTS
  OneLivePost
  EnabledOnlyIfOrderable
  UnknownOrderIsRetried

  
