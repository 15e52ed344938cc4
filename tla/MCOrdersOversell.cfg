\* An owner saves a new price while two customers check out.
CONSTANTS
  v1 = v1
  v2 = v2
  p1 = p1
  p2 = p2
  Variant = {v1, v2}
  Product = {p1, p2}
  ProductOf <- SimpleProducts
  InitialStock <- OneEach
  Carts <- LastUnit
  StockEdits = {}
  Store = store
  Checkouts = {c1, c2}
  OwnerRequests = {}
  CustomerRequests = {}
  NoteRequests = {}
  VariantEdits = {d1}
  VariantRemovals = {}
  ProductEdits = {}
  ProductRemovals = {}
  StoreEdits = {}
  NoSession = NoSession
SPECIFICATION Spec
INVARIANTS NoOversell
CHECK_DEADLOCK FALSE
