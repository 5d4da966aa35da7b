SPECIFICATION LiveSpec
CONSTANTS
  Requests = {r1, r2}
  Reconcilers = {w1}
  Keys = {k1}
  MaxFailures = 2
INVARIANTS
  OneChargeAtATime
  OnlyOpenIsPursued
  ResolvedIsTerminal
PROPERTIES
  ImplementsLedger
  SettlementIsRecorded
