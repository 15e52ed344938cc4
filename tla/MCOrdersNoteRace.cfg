\* An owner saves the note of an order while a second tab cancels it.
CONSTANTS
  v1 = v1
  v2 = v2
  p1 = p1
  p2 = p2
  Variant = {v1, v2}
  Product = {p1, p2}
  ProductOf <- SimpleProducts
  InitialStock <- OneEach
  Carts <- FewCarts
  StockEdits = {}
  Store = store
  Checkouts = {c1}
  OwnerRequests = {o1}
  CustomerRequests = {}
  NoteRequests = {d1}
  VariantEdits = {}
  VariantRemovals = {}
  ProductEdits = {}
  ProductRemovals = {}
  StoreEdits = {}
  NoSession = NoSession
SPECIFICATION Spec
PROPERTIES OrdersMoveLegally
CHECK_DEADLOCK FALSE
