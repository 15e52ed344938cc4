\* Two checkouts and one owner moving orders, while two dashboard tabs save notes,
\* variants, products and the store, or remove variants and products.
CONSTANTS
  v1 = v1
  v2 = v2
  p1 = p1
  p2 = p2
  Variant = {v1, v2}
  Product = {p1}
  ProductOf <- OneProduct
  InitialStock <- OneEach
  Carts <- FewCarts
  StockEdits = {0}
  Store = store
  Checkouts = {c1, c2}
  OwnerRequests = {o1}
  CustomerRequests = {}
  NoteRequests = {d1, d2}
  VariantEdits = {d1, d2}
  VariantRemovals = {d1, d2}
  ProductEdits = {d1, d2}
  ProductRemovals = {d1, d2}
  StoreEdits = {d1, d2}
  NoSession = NoSession
SPECIFICATION Spec
INVARIANTS TypeOK GaplessNumbers
PROPERTIES OnlySavesLeaveTheBook SoldWhileOnSale
SYMMETRY Alike
CHECK_DEADLOCK FALSE
