SPECIFICATION Spec
CONSTANTS
  Orders = {o1, o2}
  ClientIds = {o1}
  Sources = {"WHATSAPP", "CUSTOMER_WEB"}
  Keys = {k1, k2}
  NoKey = NoKey
  Carts = {c1, c2}
  Actors = {a1}
  Handlers = {h1, h2}
  Totals = {1}
  Amounts = {1, 2}
  ExpectedVersions = {}
SYMMETRY Interchangeable
INVARIANTS
  OneOrderPerRequest
  
  CashIsSound
