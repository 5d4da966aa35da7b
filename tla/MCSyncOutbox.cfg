SPECIFICATION LiveSpec
CONSTANTS
  Drafts = {draft1}
  Known = {known1}
  MaxFaults = 2
  draft1 = draft1 known1 = known1
CHECK_DEADLOCK FALSE
INVARIANTS
  NoneLeftSyncing
  SyncedWasApplied
  TriedInOrder
PROPERTIES
  RecoverySends
