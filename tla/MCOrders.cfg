\* Two checkouts whose carts overlap in opposite orders, one owner and one
\* customer moving the orders, simple products, scarce stock.
CONSTANTS
  v1 = v1
  v2 = v2
  p1 = p1
  p2 = p2
  Variant = {v1, v2}
  Product = {p1, p2}
  ProductOf <- SimpleProducts
  InitialStock <- ScarceStock
  Carts <- MCCarts
  StockEdits = {}
  Store = store
  Checkouts = {c1, c2}
  OwnerRequests = {o1}
  CustomerRequests = {m1}
  NoteRequests = {}
  VariantEdits = {}
  VariantRemovals = {}
  ProductEdits = {}
  ProductRemovals = {}
  StoreEdits = {}
  NoSession = NoSession
SPECIFICATION FairSpec
INVARIANTS StatusTellsStockAndMoney AggregatesHonest
PROPERTIES OrdersMoveLegally CustomersCancelOnlyPending RefinesOrderBook EveryRequestEnds
CHECK_DEADLOCK FALSE
