\* Two customers buy different variants of one product.
CONSTANTS
  v1 = v1
  v2 = v2
  p1 = p1
  p2 = p2
  Variant = {v1, v2}
  Product = {p1}
  ProductOf <- OneProduct
  InitialStock <- ScarceStock
  Carts <- EitherVariant
  StockEdits = {}
  Store = store
  Checkouts = {c1, c2}
  OwnerRequests = {}
  CustomerRequests = {}
  NoteRequests = {}
  VariantEdits = {}
  VariantRemovals = {}
  ProductEdits = {}
  ProductRemovals = {}
  StoreEdits = {}
  NoSession = NoSession
SPECIFICATION Spec
INVARIANTS TotalStockNeverDrifts
CHECK_DEADLOCK FALSE
