SPECIFICATION Spec
CONSTANTS
  Orders = {o1}
  ClientIds = {o1}
  Sources = {"CASHIER_MANUAL"}
  Keys = {k1, k2, k3}
  NoKey = NoKey
  Carts = {c1}
  Actors = {a1}
  Handlers = {h1, h2}
  Totals = {0, 1}
  Amounts = {1}
  ExpectedVersions = {1, 2, 3}
SYMMETRY Interchangeable
INVARIANTS
  TypeOK
  
  
  CompletedIsPaid
  TransitionNeverDuplicates
  ReplayIsNotOlder
PROPERTY LifecycleSteps
