------------------------------- MODULE Orders -------------------------------
(***************************************************************************)
(* Orders and stock of one store: checkout, the order status machine, the  *)
(* owner's note, the catalog handlers that write the same variant and      *)
(* product rows, and the handlers that save the store row, whose counter   *)
(* the order numbers come from.                                            *)
(*                                                                         *)
(* Every HTTP request is a session that runs its handler one SQL statement *)
(* at a time against RowStore, so two handlers interleave wherever the     *)
(* code awaits.  A session that is idle again may serve another request.   *)
(* A request the code refuses before writing changes nothing and is a      *)
(* stuttering step here; one refused later rolls its transaction back.     *)
(***************************************************************************)
EXTENDS OrderRules

CONSTANTS
    Variant, Product,      \* catalog rows; ProductOf gives a variant's parent
    ProductOf,
    InitialStock,          \* what is on the shelf at first
    Carts,                 \* the line lists a storefront may send
    StockEdits,            \* the quantities an owner may type in
    Store,                 \* the store row, which holds nextOrderNumber
    Checkouts,             \* POST /site/:slug/orders, and the order it writes
    OwnerRequests,         \* PATCH /orders/:id/status
    CustomerRequests,      \* POST /site/:slug/orders/me/:orderNumber/cancel
    NoteRequests,          \* PATCH /orders/:id/note
    VariantEdits,          \* PATCH /products/:id/variants/:variantId
    VariantRemovals,       \* DELETE /products/:id/variants/:variantId
    ProductEdits,          \* PATCH /products/:id
    ProductRemovals,       \* DELETE /products/:id
    StoreEdits,            \* PATCH /stores/me/hero, a publication, a new domain
    NoSession

Order == Checkouts
StatusRequests == OwnerRequests \cup CustomerRequests
FormRequests == NoteRequests \cup VariantEdits \cup VariantRemovals
                \cup ProductEdits \cup ProductRemovals \cup StoreEdits
Session == Checkouts \cup StatusRequests \cup FormRequests
Row == Variant \cup Product \cup Order \cup {Store}

\* Rows of different tables are told apart by their identity.
ASSUME RowsAreDistinct ==
    /\ Variant \cap Product = {}
    /\ (Variant \cup Product) \cap Order = {}
    /\ Store \notin Variant \cup Product \cup Order

\* One browser tab may send requests of several kinds, one after the other.
ASSUME SessionsAreReal == NoSession \notin Session

ASSUME CatalogIsSound ==
    /\ IsFiniteSet(Variant)
    /\ ProductOf \in [Variant -> Product]
    /\ InitialStock \in [Variant -> Nat]
    /\ Carts \subseteq Seq([variant : Variant, quantity : Nat \ {0}]) \ {<<>>}
    /\ StockEdits \subseteq Nat

-----------------------------------------------------------------------------
\* The rows.

Line == [variant : Variant, quantity : Nat \ {0}]

\* A product's derived columns (minPriceAmount, maxPriceAmount, totalStock,
\* variantCount), kept as the variants and stocks they were computed from.
Aggregate == SUBSET (Variant \X Nat)

VariantRow == [stock : Nat, deleted : BOOLEAN]
ProductRow == [aggregate : Aggregate, active : BOOLEAN, deleted : BOOLEAN]
PlacedRow == [status : Status, number : Nat, paid : BOOLEAN,
              method : PaymentMethod, cart : Seq(Line) \ {<<>>}]
OrderRow == PlacedRow \cup {AbsentOrder}

VARIABLES
    disk, live, holder,  \* the tables, see RowStore
    pc,                  \* where each session is in its handler
    job,                 \* the entities and inputs its handler holds in memory
    todo,                \* order lines it has not yet written
    stale,               \* products it has not yet recalculated
    sums,                \* the aggregates it last selected
    shipped              \* history: the orders that ever reached "shipped"

DB == INSTANCE RowStore

taskVars == <<pc, job, todo, stale, sums>>
vars == <<disk, live, holder, pc, job, todo, stale, sums, shipped>>

\* What a handler holds in memory, by the kind of request it serves.
NoJob == [kind |-> "none"]
CheckoutJob == [kind : {"checkout"}, cart : Seq(Line) \ {<<>>},
                method : PaymentMethod, number : Nat]
StatusJob == [kind : {"status"}, order : Order, seen : PlacedRow, to : Status,
              cart : Seq(Line) \ {<<>>}]
NoteJob == [kind : {"note"}, row : Order, entity : PlacedRow, selected : PlacedRow]
VariantJob == [kind : {"variant"}, row : Variant,
               entity : VariantRow, selected : VariantRow]
ProductJob == [kind : {"product"}, row : Product,
               entity : ProductRow, selected : ProductRow]
StoreJob == [kind : {"store"}, row : {Store}, entity : Nat, selected : Nat]
VariantRemovalJob == [kind : {"removeVariant"}, row : Variant]
ProductRemovalJob == [kind : {"removeProduct"}, row : Product, left : Seq(Variant)]

Job == {NoJob} \cup CheckoutJob \cup StatusJob \cup NoteJob \cup VariantJob
       \cup ProductJob \cup StoreJob \cup VariantRemovalJob \cup ProductRemovalJob

Kind(s) == job[s].kind

\* Mutant of SelectAggregate: the query does not run on the transaction's manager.
SelectOutsideTransaction(s, p) ==
    {<<v, disk[v].stock>> : v \in {w \in Variant : ProductOf[w] = p /\ ~disk[w].deleted}}

\* What recalculateAggregates selects for product p, as session s sees it.
SelectAggregate(s, p) ==
    {<<v, DB!Visible(s, v).stock>> :
       v \in {w \in Variant : ProductOf[w] = p /\ ~DB!Visible(s, w).deleted}}

Init ==
    /\ disk = [r \in Row |->
         IF r \in Variant THEN [stock |-> InitialStock[r], deleted |-> FALSE]
         ELSE IF r \in Product
           THEN [aggregate |-> {<<v, InitialStock[v]>> :
                                    v \in {w \in Variant : ProductOf[w] = r}},
                 active |-> TRUE, deleted |-> FALSE]
         ELSE IF r \in Order THEN AbsentOrder
         ELSE 1]
    /\ live = disk
    /\ holder = [r \in Row |-> NoSession]
    /\ pc = [s \in Session |-> "idle"]
    /\ job = [s \in Session |-> NoJob]
    /\ todo = [s \in Session |-> <<>>]
    /\ stale = [s \in Session |-> {}]
    /\ sums = [s \in Session |-> {}]
    /\ shipped = {}

-----------------------------------------------------------------------------
\* Steps every handler is made of.

\* The handler returns or throws; nothing it held in memory survives.  The
\* sessions of the dashboard's forms serve one request each: their number
\* bounds the whole-row saves of a behaviour, which could add stock for ever.
Finish(s) ==
    /\ pc' = [pc EXCEPT ![s] = IF s \in FormRequests THEN "done" ELSE "idle"]
    /\ job' = [job EXCEPT ![s] = NoJob]
    /\ todo' = [todo EXCEPT ![s] = <<>>]
    /\ stale' = [stale EXCEPT ![s] = {}]
    /\ sums' = [sums EXCEPT ![s] = {}]

Running(s) == pc[s] \notin {"idle", "done"}

Goto(s, label) == pc' = [pc EXCEPT ![s] = label]

\* A handler takes up a request with the entities it loaded for it.
Start(s, label, loaded, lines) ==
    /\ pc[s] = "idle"
    /\ Goto(s, label)
    /\ job' = [job EXCEPT ![s] = loaded]
    /\ todo' = [todo EXCEPT ![s] = lines]
    /\ UNCHANGED <<disk, live, holder, stale, sums, shipped>>

\* Mutant of Throw: the statements ran outside a transaction.
ThrowKeepsWrites(s) == DB!Commit(s) /\ Finish(s) /\ UNCHANGED shipped

\* Mutant of Throw: the connection goes back to the pool with its transaction
\* still open.
ThrowLeaksLocks(s) == Finish(s) /\ UNCHANGED <<disk, live, holder, shipped>>

Throw(s) ==
    /\ DB!Rollback(s)
    /\ Finish(s)
    /\ UNCHANGED shipped

\* One order line written; after the last the products follow.
LineDone(s, lines) ==
    /\ todo' = [todo EXCEPT ![s] = Tail(@)]
    /\ IF Tail(todo[s]) = <<>>
         THEN /\ Goto(s, "select")
              /\ stale' = [stale EXCEPT ![s] =
                             {ProductOf[lines[i].variant] : i \in DOMAIN lines}]
         ELSE UNCHANGED <<pc, stale>>

\* The products of a request are recalculated in the order its lines name them.
IsNextProduct(s, p) ==
    /\ p \in stale[s]
    /\ Kind(s) \in {"checkout", "status"} =>
         LET lines == job[s].cart
         IN  \E i \in DOMAIN lines :
               /\ ProductOf[lines[i].variant] = p
               /\ \A j \in 1..(i - 1) :
                    ProductOf[lines[j].variant] \notin stale[s]

\* recalculateAggregates, its SELECT ...
SelectSums(s) ==
    /\ pc[s] = "select"
    /\ \E p \in Product :
         /\ IsNextProduct(s, p)
         /\ sums' = [sums EXCEPT ![s] = SelectAggregate(s, p)]
    /\ Goto(s, "aggregate")
    /\ UNCHANGED <<disk, live, holder, job, todo, stale, shipped>>

\* What a handler does once its last product is recalculated.
AfterAggregates(s) ==
    IF Kind(s) = "checkout" THEN "number"
    ELSE IF Kind(s) = "status" THEN "apply"
    ELSE "commit"

\* ... and its UPDATE.
UpdateAggregate(s) ==
    /\ pc[s] = "aggregate"
    /\ \E p \in Product :
         /\ IsNextProduct(s, p)
         /\ DB!Update(s, p, [DB!Visible(s, p) EXCEPT !.aggregate = sums[s]])
         /\ stale' = [stale EXCEPT ![s] = @ \ {p}]
         /\ Goto(s, IF stale[s] = {p} THEN AfterAggregates(s) ELSE "select")
    /\ sums' = [sums EXCEPT ![s] = {}]
    /\ UNCHANGED <<job, todo, shipped>>

CommitHandler(s) ==
    /\ pc[s] = "commit"
    /\ DB!Commit(s)
    /\ Finish(s)
    /\ UNCHANGED shipped

-----------------------------------------------------------------------------
\* Checkout.

Buyable(v) ==
    /\ ~disk[v].deleted
    /\ disk[ProductOf[v]].active
    /\ ~disk[ProductOf[v]].deleted

\* placeOrder up to loadLines, which is the transaction's first statement.
LoadLines(c) ==
    /\ disk[c] = AbsentOrder
    /\ \E cart \in Carts, method \in PaymentMethod :
         /\ method = "cod"
         /\ NoDuplicateVariants(cart)
         /\ \A i \in DOMAIN cart : Buyable(cart[i].variant)
         /\ Start(c, "lines", [kind |-> "checkout", cart |-> cart, method |-> method,
                               number |-> 0], cart)

\* Mutant of InStock: the UPDATE has no condition on the quantity.
NotRemoved(c, line) == ~DB!Visible(c, line.variant).deleted

\* Mutant of InStock: the UPDATE has no condition on deletedAt.
EnoughLeft(c, line) == DB!Visible(c, line.variant).stock >= line.quantity

InStock(c, line) ==
    LET row == DB!Visible(c, line.variant)
    IN  ~row.deleted /\ row.stock >= line.quantity

\* The conditional UPDATE of reserveStock that matches its row.
ReserveLine(c) ==
    /\ pc[c] = "lines"
    /\ LET line == Head(todo[c])
       IN  /\ InStock(c, line)
           /\ DB!Update(c, line.variant,
                 [DB!Visible(c, line.variant) EXCEPT !.stock = @ - line.quantity])
    /\ LineDone(c, job[c].cart)
    /\ UNCHANGED <<job, sums, shipped>>

\* The one that matches nothing: ConflictException, and a rollback.
OutOfStock(c) ==
    /\ pc[c] = "lines"
    /\ ~InStock(c, Head(todo[c]))
    /\ Throw(c)

\* Mutant of TakeOrderNumber: the counter is not part of the transaction.
TakeNumberOutsideTransaction(c) ==
    /\ pc[c] = "number"
    /\ disk' = [disk EXCEPT ![Store] = @ + 1]
    /\ live' = [live EXCEPT ![Store] = @ + 1]
    /\ job' = [job EXCEPT ![c].number = disk[Store]]
    /\ Goto(c, "insert")
    /\ UNCHANGED <<holder, todo, stale, sums, shipped>>

\* The UPDATE stores ... RETURNING that hands out the order number.
TakeOrderNumber(c) ==
    /\ pc[c] = "number"
    /\ DB!Update(c, Store, DB!Visible(c, Store) + 1)
    /\ job' = [job EXCEPT ![c].number = DB!Visible(c, Store)]
    /\ Goto(c, "insert")
    /\ UNCHANGED <<todo, stale, sums, shipped>>

\* The orders in the table.
Placed == {o \in Order : disk[o].status # "absent"}

\* Mutant of NumberFree: the table has no unique index.
AnyNumber(c) == TRUE

\* The unique index of store and order number.
NumberFree(c) == \A o \in Placed : disk[o].number # job[c].number

\* The order and its lines are inserted and the transaction commits.
InsertOrder(c) ==
    /\ pc[c] = "insert"
    /\ NumberFree(c)
    /\ DB!UpdateAndCommit(c, c,
         NewOrder(job[c].number, job[c].method, job[c].cart))
    /\ Finish(c)
    /\ UNCHANGED shipped

\* The INSERT violates the index, and the counter goes back with the rest.
NumberTaken(c) ==
    /\ pc[c] = "insert"
    /\ ~NumberFree(c)
    /\ Throw(c)

-----------------------------------------------------------------------------
\* The status machine: changeStatus and its two callers.

\* changeStatus once assertTransition has passed: the stock comes first when
\* the status this call loaded is one that restores it.
ChangeStatus(r, o, to) ==
    /\ disk[o].status # "absent"
    /\ LegalTransition(disk[o].status, to)
    /\ LET loaded == [kind |-> "status", order |-> o, seen |-> disk[o], to |-> to,
                      cart |-> disk[o].cart]
       IN  IF RestoresStock(disk[o].status, to) THEN Start(r, "lines", loaded, disk[o].cart)
           ELSE Start(r, "apply", loaded, <<>>)

UpdateStatus(r) == \E o \in Order, to \in Status : ChangeStatus(r, o, to)

CancelMine(r) ==
    \E o \in Order :
      /\ disk[o].status \in CUSTOMER_CANCELLABLE_STATUSES
      /\ ChangeStatus(r, o, "cancelled")

\* restoreStock: no condition, so a removed variant gets its units back too.
RestoreLine(r) ==
    /\ pc[r] = "lines"
    /\ LET line == Head(todo[r])
       IN  DB!Update(r, line.variant,
             [DB!Visible(r, line.variant) EXCEPT !.stock = @ + line.quantity])
    /\ LineDone(r, job[r].cart)
    /\ UNCHANGED <<job, sums, shipped>>

\* Mutant of StillAsSeen: the UPDATE names the order only.
NoCondition(r) == TRUE

\* Mutant of StillAsSeen: the UPDATE asks for a status the move is legal from.
StillLegal(r) == LegalTransition(DB!Visible(r, job[r].order).status, job[r].to)

StillAsSeen(r) == DB!Visible(r, job[r].order).status = job[r].seen.status

\* What the UPDATE writes: status always, paymentStatus only when it flips.
AppliedStatus(r) ==
    [DB!Visible(r, job[r].order) EXCEPT
        !.status = job[r].to,
        !.paid = @ \/ PaysOrder(job[r].seen, job[r].to)]

\* The UPDATE conditional on the status this call read, and the COMMIT.
ApplyStatus(r) ==
    /\ pc[r] = "apply"
    /\ StillAsSeen(r)
    /\ DB!UpdateAndCommit(r, job[r].order, AppliedStatus(r))
    /\ shipped' = IF job[r].to = "shipped" THEN shipped \cup {job[r].order} ELSE shipped
    /\ Finish(r)

\* Somebody else moved the order: ConflictException, and the restore with it.
StatusConflict(r) ==
    /\ pc[r] = "apply"
    /\ ~StillAsSeen(r)
    /\ Throw(r)

-----------------------------------------------------------------------------
\* Handlers that load an entity, edit it in memory and save() it.

\* repository.save(): TypeORM selects the row again and updates the columns in
\* which the entity differs from it, whoever made them differ.
Column(entity, selected, current) == IF entity = selected THEN current ELSE entity

LoadToSave(s, kind, r, entity) ==
    Start(s, "diff", [kind |-> kind, row |-> r, entity |-> entity, selected |-> entity], <<>>)

\* updateNote edits internalNote, which nothing here reads.
LoadForNote(s) ==
    \E o \in Order : disk[o].status # "absent" /\ LoadToSave(s, "note", o, disk[o])

\* updateVariant: a new price or sku, and maybe a new stockQuantity.
LoadForVariantEdit(s) ==
    \E v \in Variant :
      /\ ~disk[v].deleted /\ ~disk[ProductOf[v]].deleted
      /\ \E stock \in StockEdits \cup {disk[v].stock} :
           LoadToSave(s, "variant", v, [disk[v] EXCEPT !.stock = stock])

\* product update: a new title, and maybe a new status.
LoadForProductEdit(s) ==
    \E p \in Product, active \in BOOLEAN :
      /\ ~disk[p].deleted
      /\ LoadToSave(s, "product", p, [disk[p] EXCEPT !.active = active])

\* updateHero, publish and confirmDomain edit columns of the store nothing here
\* reads, and hold the store with its counter over an upload, a generation or two
\* lookups.
LoadForStoreEdit(s) == LoadToSave(s, "store", Store, disk[Store])

SelectToSave(s) ==
    /\ pc[s] = "diff"
    /\ job' = [job EXCEPT ![s].selected = DB!Visible(s, job[s].row)]
    /\ Goto(s, "save")
    /\ UNCHANGED <<disk, live, holder, todo, stale, sums, shipped>>

SaveNote(s) ==
    /\ pc[s] = "save"
    /\ LET j == job[s]
       IN  DB!UpdateAndCommit(s, j.row,
             [DB!Visible(s, j.row) EXCEPT
                !.status = Column(j.entity.status, j.selected.status, @),
                !.paid = Column(j.entity.paid, j.selected.paid, @)])
    /\ Finish(s)
    /\ UNCHANGED shipped

SaveProduct(s) ==
    /\ pc[s] = "save"
    /\ LET j == job[s]
       IN  DB!UpdateAndCommit(s, j.row,
             [DB!Visible(s, j.row) EXCEPT
                !.aggregate = Column(j.entity.aggregate, j.selected.aggregate, @),
                !.active = Column(j.entity.active, j.selected.active, @),
                !.deleted = Column(j.entity.deleted, j.selected.deleted, @)])
    /\ Finish(s)
    /\ UNCHANGED shipped

SaveStore(s) ==
    /\ pc[s] = "save"
    /\ LET j == job[s]
       IN  DB!UpdateAndCommit(s, Store,
             Column(j.entity, j.selected, DB!Visible(s, Store)))
    /\ Finish(s)
    /\ UNCHANGED shipped

SaveVariant(s) ==
    /\ pc[s] = "save"
    /\ LET j == job[s]
       IN  /\ DB!Update(s, j.row,
                [DB!Visible(s, j.row) EXCEPT
                   !.stock = Column(j.entity.stock, j.selected.stock, @),
                   !.deleted = Column(j.entity.deleted, j.selected.deleted, @)])
           /\ stale' = [stale EXCEPT ![s] = {ProductOf[j.row]}]
    /\ Goto(s, "select")
    /\ UNCHANGED <<job, todo, sums, shipped>>

-----------------------------------------------------------------------------
\* Soft deletes.

LiveVariants(p) == {v \in Variant : ProductOf[v] = p /\ ~disk[v].deleted}

\* removeVariant refuses to remove the last one, by the list it loaded.
LoadForVariantRemoval(s) ==
    \E v \in Variant :
      /\ v \in LiveVariants(ProductOf[v])
      /\ ~disk[ProductOf[v]].deleted
      /\ Cardinality(LiveVariants(ProductOf[v])) # 1
      /\ Start(s, "remove", [kind |-> "removeVariant", row |-> v], <<>>)

RemoveVariant(s) ==
    /\ pc[s] = "remove"
    /\ LET v == job[s].row
       IN  /\ DB!Update(s, v, [DB!Visible(s, v) EXCEPT !.deleted = TRUE])
           /\ stale' = [stale EXCEPT ![s] = {ProductOf[v]}]
    /\ Goto(s, "select")
    /\ UNCHANGED <<job, todo, sums, shipped>>

\* remove: the variants of the product one after the other, in the order the
\* statement happens to scan them ...
LoadForProductRemoval(s) ==
    \E p \in Product :
      LET variants == {v \in Variant : ProductOf[v] = p}
      IN  /\ ~disk[p].deleted
          /\ \E scan \in [1..Cardinality(variants) -> variants] :
               /\ variants = {scan[i] : i \in DOMAIN scan}
               /\ Start(s, "remove", [kind |-> "removeProduct", row |-> p, left |-> scan], <<>>)

RemoveProductVariant(s) ==
    /\ pc[s] = "remove"
    /\ job[s].left # <<>>
    /\ LET v == Head(job[s].left)
       IN  DB!Update(s, v, [DB!Visible(s, v) EXCEPT !.deleted = TRUE])
    /\ job' = [job EXCEPT ![s].left = Tail(@)]
    /\ UNCHANGED <<pc, todo, stale, sums, shipped>>

\* ... then the product, whose aggregates nothing recalculates.
RemoveProduct(s) ==
    /\ pc[s] = "remove"
    /\ job[s].left = <<>>
    /\ LET p == job[s].row
       IN  DB!UpdateAndCommit(s, p, [DB!Visible(s, p) EXCEPT !.deleted = TRUE])
    /\ Finish(s)
    /\ UNCHANGED shipped

-----------------------------------------------------------------------------
\* Failures.

\* The row the next UPDATE of s locks; NoSession when its next statement is not
\* an UPDATE that has to wait for one.
WaitsFor(s) ==
    CASE pc[s] = "lines" /\ (Kind(s) = "checkout" => InStock(s, Head(todo[s])))
           -> holder[Head(todo[s]).variant]
      [] pc[s] = "aggregate" -> holder[CHOOSE p \in Product : IsNextProduct(s, p)]
      [] pc[s] = "number" -> holder[Store]
      [] pc[s] = "apply" /\ StillAsSeen(s) -> holder[job[s].order]
      [] pc[s] = "save" -> holder[job[s].row]
      [] pc[s] = "remove" ->
           IF Kind(s) = "removeProduct" /\ job[s].left # <<>>
           THEN holder[Head(job[s].left)] ELSE holder[job[s].row]
      [] OTHER -> NoSession

\* PostgreSQL finds a cycle of transactions waiting for each other and aborts
\* one of them.
DeadlockVictim(s) ==
    /\ \E cycle \in SUBSET Session :
         /\ s \in cycle
         /\ \A t \in cycle : WaitsFor(t) \in cycle \ {t}
         /\ \A t \in cycle : \E u \in cycle : WaitsFor(u) = t
    /\ Throw(s)

\* The server restarts, or its connection to the database drops, with the
\* handler anywhere.
ConnectionLost(s) ==
    /\ Running(s)
    /\ Throw(s)

-----------------------------------------------------------------------------

Recalculate(s) == SelectSums(s) \/ UpdateAggregate(s)

CheckoutStep(c) ==
    ReserveLine(c) \/ OutOfStock(c) \/ Recalculate(c)
    \/ TakeOrderNumber(c) \/ InsertOrder(c) \/ NumberTaken(c)

StatusStep(r) ==
    RestoreLine(r) \/ Recalculate(r) \/ ApplyStatus(r) \/ StatusConflict(r)

VariantEditStep(s) ==
    SelectToSave(s) \/ SaveVariant(s) \/ Recalculate(s) \/ CommitHandler(s)

VariantRemovalStep(s) == RemoveVariant(s) \/ Recalculate(s) \/ CommitHandler(s)

\* The next statement of the handler that serves s.
HandlerStep(s) ==
    \/ Kind(s) = "checkout" /\ CheckoutStep(s)
    \/ Kind(s) = "status" /\ StatusStep(s)
    \/ Kind(s) = "note" /\ (SelectToSave(s) \/ SaveNote(s))
    \/ Kind(s) = "variant" /\ VariantEditStep(s)
    \/ Kind(s) = "product" /\ (SelectToSave(s) \/ SaveProduct(s))
    \/ Kind(s) = "store" /\ (SelectToSave(s) \/ SaveStore(s))
    \/ Kind(s) = "removeVariant" /\ VariantRemovalStep(s)
    \/ Kind(s) = "removeProduct" /\ (RemoveProductVariant(s) \/ RemoveProduct(s))

\* A request arrives.
Request(s) ==
    \/ s \in Checkouts /\ LoadLines(s)
    \/ s \in OwnerRequests /\ UpdateStatus(s)
    \/ s \in CustomerRequests /\ CancelMine(s)
    \/ s \in NoteRequests /\ LoadForNote(s)
    \/ s \in VariantEdits /\ LoadForVariantEdit(s)
    \/ s \in ProductEdits /\ LoadForProductEdit(s)
    \/ s \in StoreEdits /\ LoadForStoreEdit(s)
    \/ s \in VariantRemovals /\ LoadForVariantRemoval(s)
    \/ s \in ProductRemovals /\ LoadForProductRemoval(s)

Next ==
    \E s \in Session :
      Request(s) \/ HandlerStep(s) \/ DeadlockVictim(s) \/ ConnectionLost(s)

\* The runtime keeps running a handler that can run, and PostgreSQL grants a
\* row lock to its waiters in the order they came: a statement that is
\* executable again and again is executed.  Nobody has to send a request.
Fairness ==
    \A s \in Session : SF_vars(HandlerStep(s)) /\ WF_vars(DeadlockVictim(s))

Spec == Init /\ [][Next]_vars

FairSpec == Spec /\ Fairness

-----------------------------------------------------------------------------
\* Properties.

\* Type correctness.  Its variant part is the promise of the stockQuantity
\* column, "never negative": every committed and every uncommitted version of
\* a variant has a natural number of units.
RowOK(r, version) ==
    /\ r \in Variant => version \in VariantRow
    /\ r \in Product => version \in ProductRow
    /\ r \in Order => version \in OrderRow
    /\ r = Store => version \in Nat

TypeOK ==
    /\ DOMAIN disk = Row /\ DOMAIN live = Row
    /\ \A r \in Row : RowOK(r, disk[r]) /\ RowOK(r, live[r])
    /\ holder \in [Row -> Session \cup {NoSession}]
    /\ pc \in [Session -> {"idle", "done", "lines", "select", "aggregate", "number",
                           "insert", "apply", "diff", "save", "remove", "commit"}]
    /\ job \in [Session -> Job]
    /\ todo \in [Session -> Seq(Line)]
    /\ stale \in [Session -> SUBSET Product]
    /\ sums \in [Session -> Aggregate]
    /\ shipped \subseteq Order

\* nextOrderNumber is 1 or comes after the number of an order.
FollowsANumber(counter) == counter = 1 \/ \E o \in Placed : disk[o].number = counter - 1

\* Order numbers run from 1 without a gap and no two orders share one, whatever
\* checkouts fail, wait or lose their connection after they took a number, and
\* whatever counter a form of the store writes back.  nextOrderNumber follows a
\* number that was given, and until such a form has ended it follows the last.
GaplessNumbers ==
    /\ \A o \in Placed : disk[o].number >= 1
    /\ \A o \in Placed : \A n \in 1..disk[o].number : \E p \in Placed : disk[p].number = n
    /\ \A o, p \in Placed : disk[o].number = disk[p].number => o = p
    /\ FollowsANumber(disk[Store])
    /\ (\A s \in StoreEdits : pc[s] # "done") => \A o \in Placed : disk[o].number < disk[Store]

\* The units an order keeps off the shelf: those of an order that stands, or
\* was called off only after it had left the shop.
Keeps(o) == disk[o].status # "absent" /\ (disk[o].status = "cancelled" => o \in shipped)

UnitsSold(v) ==
    SumFunctionOnSet([o \in Order |-> Units(disk[o].cart, v)], {o \in Order : Keeps(o)})

\* No unit is lost or invented: as long as no owner types a stock quantity,
\* every unit is on the shelf or in an order that keeps it, after any mix of
\* checkouts, cancellations, conflicts, deadlocks and lost connections.
StockLedger == \A v \in Variant : disk[v].stock + UnitsSold(v) = InitialStock[v]

\* Stock is never oversold: the orders that stand never hold more units of a
\* variant than the shop ever had.
NoOversell == \A v \in Variant : UnitsSold(v) <= InitialStock[v]

\* A cash-on-delivery order is paid exactly when it is delivered.
PaidExactlyWhenDelivered ==
    \A o \in Order : disk[o].paid <=> disk[o].status = "delivered"

\* The status of an order accounts for the stock it holds and the money it
\* brought, whatever was placed, cancelled, shipped or cut off at the same time.
StatusTellsStockAndMoney == StockLedger /\ PaidExactlyWhenDelivered

\* The derived columns of a product that is on sale are those of its live
\* variants.
AggregatesHonest ==
    \A p \in Product : ~disk[p].deleted =>
      disk[p].aggregate = {<<v, disk[v].stock>> : v \in LiveVariants(p)}

TotalStock(p) == MapThenSumSet(LAMBDA counted : counted[2], disk[p].aggregate)

\* totalStock alone, as the sum it is.
TotalStockNeverDrifts ==
    \A p \in Product : ~disk[p].deleted =>
      TotalStock(p) = MapThenSumSet(LAMBDA v : disk[v].stock, LiveVariants(p))

\* An order's status changes along the status machine only, so a cancelled or
\* delivered order stays so, though every handler decides on a status it read
\* before its transaction began.
OrdersMoveLegally ==
    [][\A o \in Order :
         \/ disk'[o].status = disk[o].status
         \/ disk[o].status = "absent" /\ disk'[o].status = "pending"
         \/ LegalTransition(disk[o].status, disk'[o].status)]_vars

\* A customer's cancellation never takes effect on an order the owner has
\* confirmed meanwhile.
CustomersCancelOnlyPending ==
    [][\A r \in CustomerRequests, o \in Order :
         (pc[r] = "apply" /\ pc'[r] = "idle" /\ disk'[o] # disk[o])
           => disk[o].status \in CUSTOMER_CANCELLABLE_STATUSES]_vars

\* What a checkout sells is still in the catalog when its order appears: a variant
\* removed after the handler loaded it is refused, and one it reserved cannot be
\* removed before the order is there.  Neither can its product, unless the form of
\* a variant was saved over the product's removal and brought the variant back.
\* (Whether the product is hidden is not read again after loadLines: one that was
\* hidden meanwhile is sold.)
SoldWhileOnSale ==
    [][\A o \in Order :
         (disk[o].status = "absent" /\ disk'[o].status = "pending")
           => \A i \in DOMAIN disk'[o].cart :
                LET v == disk'[o].cart[i].variant
                IN  /\ ~disk[v].deleted
                    /\ disk[ProductOf[v]].deleted => \E s \in VariantEdits : pc[s] = "done"]_vars

\* Every request is answered: no handler waits for a row lock for ever.
EveryRequestEnds == \A s \in Session : Running(s) ~> ~Running(s)

\* The tables, as anybody reads them, behave like the atomic order book.
Shelf == [v \in Variant |-> disk[v].stock]
PlacedOrders == [o \in Order |-> disk[o]]

Book == INSTANCE OrderBook WITH
    shelf <- Shelf, book <- PlacedOrders, next <- disk[Store]

RefinesOrderBook == Book!Spec

\* A handler that save()s an entity it loaded before is about to publish it.
SavePublished(s) ==
    \/ Kind(s) = "note" /\ pc[s] = "save"
    \/ Kind(s) = "variant" /\ pc[s] = "commit"

\* The order book with the payment column read off the status.
PaidByStatus == INSTANCE OrderBook WITH
    shelf <- Shelf,
    book <- [o \in Order |-> [disk[o] EXCEPT !.paid = disk[o].status = "delivered"]],
    next <- disk[Store]

\* A form of the store gives back the counter it loaded, and touches nothing else.
WritesCounterBack ==
    /\ \E s \in StoreEdits : Kind(s) = "store" /\ pc[s] = "save" /\ disk'[Store] = job[s].entity
    /\ disk'[Store] # disk[Store]
    /\ UNCHANGED <<Shelf, PlacedOrders>>

\* Whatever the owner's dashboard does meanwhile, only the publication of such
\* a save can leave the atomic order book: every other commit places one order
\* or moves one along the machine, with exactly its units, or leaves stock and
\* orders alone, or is a store form that gives an older counter back.  (The
\* payment column is put aside: after two stale saves an order can be delivered
\* unpaid.)
OnlySavesLeaveTheBook ==
    [][(\A s \in Session : SavePublished(s) => Running(s)')
         => \/ PaidByStatus!Next
            \/ UNCHANGED <<Shelf, PlacedOrders, disk[Store]>>
            \/ WritesCounterBack]_vars
=============================================================================
