SPECIFICATION Spec
CONSTANTS
  Menus = {rice, tea}
  Price <- PriceDef
  Carts <- CartsDef
  Terms <- TermsDef
  Orders = {ord1, ord2}
  Editors = {form1, form2}
  MaxVersion = 3
  rice = rice tea = tea ord1 = ord1 ord2 = ord2 form1 = form1 form2 = form2
SYMMETRY Symmetry
CHECK_DEADLOCK FALSE
INVARIANTS
  WithinTerms
PROPERTIES
  NoLostEdit
  
