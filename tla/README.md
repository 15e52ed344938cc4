# Invento-API in TLA+

Invento-API is a NestJS backend for small shops: an owner describes a business,
publishes a storefront, keeps a catalog, takes orders, buys from suppliers by
mail and gets a daily brief and a chatbot. It keeps its state in PostgreSQL
(through TypeORM) and Redis, and runs as one or more Node processes. This
directory models the parts of it whose correctness depends on what overlaps
with what, checks them with TLC on small instances and proves the most
important properties with TLAPS.

| File | What it is |
| --- | --- |
| `RowStore.tla` | PostgreSQL rows as the services use them: READ COMMITTED reads, row locks, commit, rollback |
| `OrderRules.tla` | the pure rules of orders: status machine, which moves restore stock or pay |
| `OrderBook.tla` | abstract specification: a shelf and a book of orders, every order and every move one atomic step |
| `Orders.tla` | checkout, status changes, notes, and the catalog handlers that write the same rows, one SQL statement at a time |
| `Orders_proofs.tla` | proofs about `Orders`: types, numbers, the status machine |
| `OrderBook_proofs.tla` | that `Orders` implements `OrderBook`, what its saves may break, the ledger of stock and the derived columns |
| `PurchaseDeal.tla` | abstract specification: a purchase request as one deal, every commit one step |
| `Procurement.tla` | purchase requests, offers, mails and replies, one await at a time |
| `MailboxSync.tla` | the passes that read replies out of the owner's mailbox, composed with `Procurement` |
| `KnowledgeIndex.tla` | what the chatbot may quote: stale marks, the sweep, the reconciliation |
| `ProductMatrix.tla` | the variants of a product and the attribute values they combine |
| `CatalogNames.tla` | slugs and keys of catalog rows, and the AI setup that creates them in a batch |
| `StoreImages.tla` | image rows and columns against the assets on Cloudinary |
| `Swatches.tla` | an attribute's style and the colours of its values |
| `FaqList.tla` | a list the owner arranges: positions, reordering, its cap |
| `Accounts.tla` | accounts, one-time codes, refresh tokens, Google sign-in |
| `SiteBuilder.tla` | the onboarding draft, themes, domain, publication, logo and hero |
| `Advisor.tla` | the daily brief: the hourly job, its lock, generation, decisions, the mail |
| `AdvisorSignals.tla` | what a brief says: the collectors, the calendar, ranking, narration |
| `Chat.tla` | turns of a conversation: rate limit, session, cap, retention |
| `ChatTools.tla` | the tool loop of one turn, what it shows and what it is recorded as |
| `DemandFeed.tla` | unanswered questions: themes, reviews, nightly clusters |
| `Storefront.tla` | the public listing, its filters, search, counts and navigation |
| `Records.tla` | the spread of one object literal over another |
| `Sums_proofs.tla` | lemmas: the least and the greatest of some numbers, sums over finite sets, folds over sequences |
| `Suppliers_proofs.tla` | proofs about `Procurement` and `MailboxSync` |
| `Catalog_proofs.tla` | proofs about `FaqList`, `Swatches`, `StoreImages`, `ProductMatrix`, `CatalogNames` and `Storefront` |
| `Owners_proofs.tla` | proofs about `Accounts` and `SiteBuilder` |
| `Advisor_proofs.tla` | proofs about `Advisor` and `AdvisorSignals` |
| `Assistant_proofs.tla` | proofs about `KnowledgeIndex`, `Chat`, `ChatTools` and `DemandFeed` |
| `MCOrders`, `MCProcurement`, `MCMailboxSync`, `MCJobs`, `MCStore` (`.tla`, `.cfg`) | the instances TLC checks |

## 1. The system

Paths are relative to `src/src/`.

| Component | State | Operations | Talks to | Hard behaviours | What makes it correct |
| --- | --- | --- | --- | --- | --- |
| **Orders** (`orders/`) | `orders`, `order_items`, `stores.nextOrderNumber` | placeOrder, updateStatus, cancelMine, updateNote | catalog rows, in one transaction; mail and knowledge after it | row locks taken in cart order, deadlocks, decisions on a status read before the transaction, whole-row saves | no unit sold twice or lost, gapless numbers, status machine, every request answered |
| **Catalog: products, variants** (`catalog/product*.service.ts`) | `products` with derived columns, `product_variants` | create, update, remove, add/update/remove/generate variants | orders write its stock; knowledge subscribes to its writes | derived columns recalculated by many handlers, saves of stale entities, checks made before the transaction | a product has a variant; its variants are one matrix without repetition, of live values |
| **Catalog: attributes, categories, images, AI setup** | one table each, slugs, positions, styles | CRUD, reorder, batch create, upload | Cloudinary, Gemini | "is it still used" checks, slugs chosen from a read, caps counted before an upload, files no transaction spans | slugs unique and found despite a rival, a style and its colours agree, rows and assets agree |
| **Purchase requests and offers** (`suppliers/purchase-request.service.ts`, `supplier-reply.service.ts`) | `purchase_requests`, `supplier_offers` | create, update, send, cancel, confirm, paste a reply, correct an offer | mail, Gemini, mailbox sync | slow awaits (one mail per supplier, one extraction per reply) between load and save, three commits per operation | one deal per request, no terminal status left, mails and rows agree |
| **Mailbox connection and sync** (`suppliers/mailbox*`) | `mailbox_connections` (grant, cursor, status), a Redis lock | connect, disconnect, scheduled and manual sync | Gmail, `ingest` | lock expiry, cursor advanced past what was not read, revocation during a pass, reconnection | every reply to a watched thread is read, and in order |
| **Supplier directory, drafting, mail, ranking** | `suppliers` | CRUD, draft a text, render and send a mail, rank offers | Gemini, SMTP or the mailbox | none of its own | ranking is a total order of the priced offers |
| **Refresh tokens** (`auth/token.service.ts`) | Redis keys | issue, rotate, verify | users | GET and DEL are two commands | a refresh token is used at most once |
| **Accounts** (`users/users.service.ts`) | `users`, Redis codes and cooldowns | register, verify, resend, reset, Google sign-in, change password | mail, tokens, stores | code compared and deleted in separate commands, compensation when a mail fails, identity linking | one account per address and store; a code verifies once and only its owner |
| **Advisor** (`advisor/`) | `advisor_briefs`, insights with decisions, settings, a Redis lock | hourly pass, generate now, decide on an insight | sales SQL, Gemini, mail | lock expiry, a brief replaced while it is decided on, six queries without a snapshot, days of 23 and 25 hours | one mail per store and day, decisions survive regeneration, advice that adds up |
| **Knowledge index** (`knowledge/`) | `knowledge_documents` with stale marks and failure counts, a Redis lock | mark stale, sweep, reconcile, search | catalog, FAQ and store writes; Gemini embeddings | compose, embed and clear in three steps; give-up count; writes no subscriber sees | a committed change is eventually indexed, what is hidden is not quoted |
| **Chatbot** (`chatbot/`) | conversations, messages, clusters | send a message, transcripts, insights, retention and clustering jobs | retrieval, Gemini, orders | concurrent turns, rate limits, deletion under a running turn, tools that run at once | counts and bindings survive overlap; what is recorded is what happened; reviews take a whole theme |
| **Site builder and stores** (`site-builder/`) | drafts, `stores`, `store_themes` | brainstorm, answers, domain, themes, publish, select | Gemini, Cloudinary, all of the above through `resolveCallerStore` | draft saved after slow generation, two-row theme switch, logos replaced while publishing | steps go forwards, one selected theme, a live store keeps domain and logo |
| **Public listings and filters** (`catalog/public-*`) | none | list, search, suggest, filters, navigation | catalog rows | predicates written several times | a count is what a click lists |
| **FAQ** (`faq/`) | `faqs` with positions | CRUD, reorder, public list | knowledge | reorderings that meet one another and saves | the order asked for last holds |
| **Clients, bootstrap** | none; configuration | I/O; start-up | - | none of their own | - |

Components meet in three ways: by calls inside one request (orders call
`ProductService.recalculateAggregates` with their own transaction), by rows
that several write (a variant's stock, a supplier's offer), and by periodic jobs
that pick up what requests left (stale documents, unread replies, due briefs).
`PROJECT.json` lists the components with their status and, under `hazards`, each
place where this can go wrong.

### What save() does

Many handlers load an entity, change it in memory and call
`repository.save(entity)`. TypeORM then selects the row again and updates the
columns in which the entity differs from *that* row. A column the handler never
touched is thus written back to the value it was loaded with if anybody changed
it between the load and the save's own SELECT, and left alone if they changed it
after that SELECT. `Orders`, `Procurement` and `FaqList` treat a save as these
steps: load, SELECT, UPDATE, with other sessions free to commit between them; the
other modules join the SELECT and the UPDATE into one step, and keep the load
apart. An entity whose row is gone is inserted again, under a new id where
`@BeforeInsert` generates one; `Accounts` and `FaqList` give it that id, while
`Procurement` and `StoreImages` go on to know the row by its old one, which only
calls that were overtaken, and are named as exceptions, could tell apart. Three of
the six findings come from a save of a stale entity, and a fourth from the relation it
carries. TypeORM and PostgreSQL
are not part of the repository; their definitions are marked external in the map.

### How properties name their exceptions

Much of this code reads, awaits and then writes without looking again, so many
promises hold only for a handler that was not overtaken. A property here states
the promise with its exceptions by name, as narrow as TLC lets it be: a history
variable or a version in the handler's memory tells whether *this* handler was
overtaken, and every other step must keep the promise. Such a property
(`Only...`, or with an "unless") says both that the listed races are real (TLC
rejects it without them) and that there is no further one within the bounds.

## 2. Orders

### State and actions

`disk[r]` is the committed version of a row, `live[r]` the newest version and
`holder[r]` the transaction that has locked it. A row is a variant (`stock`,
`deleted`), a product (`aggregate`, `active`, `deleted`), an order (`status`,
`number`, `paid`, `method`, `cart`), or the store, of which only
`nextOrderNumber` is kept. `job[s]` holds the entities a handler has in memory,
`todo` the order lines it still has to write, `stale` the products it still has
to recalculate and `sums` what it last selected. `shipped` is a history
variable: cancelling an order that left the shop does not restore its units.

| Code | Actions |
| --- | --- |
| `placeOrder` | `LoadLines`, `ReserveLine` or `OutOfStock` per line, `SelectSums` and `UpdateAggregate` per product, `TakeOrderNumber`, `InsertOrder` (which commits), or `NumberTaken` where the unique index of store and number refuses |
| `updateStatus`, `cancelMine`, `changeStatus`, `restoreStock` | `UpdateStatus`, `CancelMine`, `RestoreLine`, `SelectSums`, `UpdateAggregate`, `ApplyStatus` or `StatusConflict` |
| `updateNote` | `LoadForNote`, `SelectToSave`, `SaveNote` |
| `updateVariant`, product `update` | `LoadForVariantEdit`, `LoadForProductEdit`, `SelectToSave`, `SaveVariant` (then the recalculation and `CommitHandler`), `SaveProduct` |
| `removeVariant`, product `remove` | `LoadForVariantRemoval`, `RemoveVariant`, ..., `LoadForProductRemoval`, `RemoveProductVariant`, `RemoveProduct` |
| `updateHero`, `publish`, `confirmDomain` | `LoadForStoreEdit`, `SelectToSave`, `SaveStore`: the whole row, `nextOrderNumber` among its columns, as it was before an upload, a generation or two lookups |
| PostgreSQL's deadlock detector | `DeadlockVictim` |
| restart, lost connection | `ConnectionLost` |

A request refused before it wrote anything changes no state; it is a stuttering
step. Every later refusal is an action that rolls back (`Throw`). The derived
columns of a product are kept as the set of (variant, stock) pairs they were
computed from, so that a wrong recalculation is seen even when its sum happens
to be right.

### Runs

| Run | Instance | Distinct states | What it shows |
| --- | --- | --- | --- |
| `orders` | two checkouts whose carts name two variants in opposite orders (and one cart the code refuses), one owner, one customer, stock 3 and 2 | 16,643 | `StatusTellsStockAndMoney` (`StockLedger` and `PaidExactlyWhenDelivered`), `AggregatesHonest`, `OrdersMoveLegally`, `CustomersCancelOnlyPending`; the tables implement `OrderBook` (`RefinesOrderBook`); `EveryRequestEnds` under fairness |
| `orders_dashboard` | two checkouts, one owner, two dashboard tabs that each send one note, variant, product or store save or a removal; both variants of one product, one unit each | 941,603 up to symmetry | `TypeOK`; `GaplessNumbers`, though a store form gives an older counter back; `SoldWhileOnSale`: no removed variant or product is sold; `OnlySavesLeaveTheBook`: apart from the publication of a whole-row save, every commit is a step of the order book |
| `orders_note_race` | one checkout, one owner, one note | violation | a cancelled order returns to pending: `updateNote` saves the status it loaded |
| `orders_oversell` | two checkouts, one price edit, one unit | violation | two orders hold one unit: `updateVariant` saves the stock it loaded |
| `orders_drift` | two checkouts of different variants of one product | violation | `totalStock` misses a reservation |

`AggregatesHonest` passes in the first run because there every product has one
variant, and the lock of that variant orders the recalculations. With two
variants under one product it does not hold, which is the third violation:
`recalculateAggregates` selects before it locks the product.
`StatusTellsStockAndMoney` is a claim about a shop in which no dashboard form is
saved meanwhile; with one, the first two violations break it.

Two things are in the states of `orders_dashboard` that no property forbids, and both
are named in a property's comment. A store form that was loaded before a checkout and
saved after it writes the old `nextOrderNumber` back (`store.service.ts:172`, `:197`): no
number is given twice, since `UQ_orders_store_number` refuses the next order, but that
checkout rolls back with the counter, and so does every later one until another save of the
store or a repair by hand moves the counter on. And a product that is hidden
after `loadLines` is sold, since the UPDATE that reserves a unit asks for `deletedAt` and
the stock only (`checkout.service.ts:182-191`).

*Bounds.* Two checkouts are enough for lock waits, for a deadlock, for a lost race for
the last unit and for a number taken by a checkout that then fails; a checkout that
failed may be sent again by the same session, any number of times. Owner and customer
sessions serve any number of requests. Dashboard forms serve one each (`Finish` leaves
them `done`): a stock edit in a loop could add units for ever. Two checkouts beside a
store form are the shortest way to a counter that is behind: the first moves it, the
form takes it back, the second meets the index. Two variants with carts in opposite
orders give the shortest lock cycle; quantities 1 and 2 tell a unit from a line.

*Fairness.* `EveryRequestEnds` assumes strong fairness of each handler's next
statement and weak fairness of the deadlock detector. Node keeps running a
handler that can run, and PostgreSQL grants a row lock to its waiters in
the order they came, so a statement that becomes executable again and again is
executed. `deadlock_timeout` makes PostgreSQL abort one transaction of a cycle
that persists. Nobody has to send a request, and no connection has to fail.
TLC's own deadlock check is off in every configuration: a shop in which all
orders are final and nobody sends a request may stop.

### Proofs

Ten theorems hold for any number of sessions, variants, products, carts and
quantities.

| Theorem | Statement |
| --- | --- |
| `TypeCorrect` | `Spec => []TypeOK`: every committed and uncommitted row and every entity in memory has its type; no version of a variant has negative stock |
| `NumbersAreGapless` | `Spec => []GaplessNumbers`: the placed orders have the numbers from 1 on without a gap, each once; the counter follows a number that was given, and the last one until a store form was saved |
| `StatusMachineHolds` | if `NoteRequests = {}`, `OrdersMoveLegally` |
| `CustomersCancelOnlyPendingHolds` | if no session is both an owner's and a customer's, `CustomersCancelOnlyPending` |
| `OnlySavesLeaveTheBookHolds` | `OnlySavesLeaveTheBook`, with every request of the dashboard served |
| `SoldWhileOnSaleHolds` | `SoldWhileOnSale`, likewise: no removed variant is sold, and no removed product unless a variant's form was saved over its removal |
| `OrdersImplementTheBook` | if `NoteRequests = {}`, `VariantEdits = {}` and `StoreEdits = {}`, `RefinesOrderBook`: initial states map to initial states of `OrderBook`, steps to its steps or to stutters |
| `StatusTellsStockAndMoneyHolds` | if `NoteRequests = {}` and `VariantEdits = {}`, `[]StatusTellsStockAndMoney`: `StockLedger` and `PaidExactlyWhenDelivered` |
| `NoOversellWithoutForms` | under the same hypotheses, `[]NoOversell` |
| `AggregatesStayHonest` | if every product has one variant and no form of the catalog is saved, `[]AggregatesHonest` |

The assumptions are those of the module: rows of different tables are different
(`RowsAreDistinct`), `NoSession` is no session (`SessionsAreReal`), and stocks,
carts and parents have their types (`CatalogIsSound`). The hypotheses are needed:
`orders_note_race`, `orders_oversell` and `orders_drift` show what happens in a shop
that
saves notes, saves variants, or sells a product in two forms; a store form takes the book's
counter back. The payment half of
`StatusTellsStockAndMoney` needs `NoteRequests = {}` alone (`PaidExactlyWhenDeliveredHolds`).

The first four rest on one inductive invariant, `IInv`, of five parts.

- `TypeOK` alone is not inductive: that `ReserveLine` leaves a natural number
  needs the handler to be one that checks the quantity, hence
- `EveryJobFits`: at which labels a handler of each kind can be, that a handler
  at `lines` has a line left, that a checkout's order is still absent, that a
  status request goes along the machine from the status it saw, and that the counter a
  store form holds follows a number that was given.
- `OrdersSettled`: no order row is locked from one statement to the next, because
  every statement that writes one is the last of its transaction. So a handler
  reads an order as committed.
- `NumberLock`: the store row is locked exactly by a checkout that is about to
  insert, and the number that checkout took is the committed counter. So two
  checkouts never hold the same number, and a failed one gives its number back.
- `GaplessNumbers` follows from the last at `InsertOrder`, whose guard is the unique index:
  a number that is free and follows a number that was given is the next one.

There is one lemma per action (`...Step`), most of them instances of a few
lemmas about statements (`CatalogStep`, `ThrowStep`, `CommitStep`,
`LastUpdateStep`, `StartStep`); `SessionStep` joins them and `OneMoves` carries
the parts of the invariant that speak of one session over to the others.

`OrderBook_proofs` adds `HInv`, which ties a handler between two statements to the
atomic book: what it holds locked are exactly the variants of the lines it has written,
each off by the quantity of its line, and an order that is placed has the lines its
units were taken for. So a commit publishes the units of a whole order or of none, a
removed variant is never among them, and an abort publishes nothing. `UnitsOfLine` is
what makes the sum over a cart tractable: a cart that passed `NoDuplicateVariants` has
one line for a variant. The commit of a whole-row save is the one step this says nothing
of (but for the store's, which changes the counter alone); while only product saves
happen, the refinement follows for all steps. `RInv` says that a product is removed with
all its variants, the removal under way included, and that no handler but a variant's
form takes a removal back; `SoldWhileOnSaleHolds` rests on it. `PaidInv` is the same for
the payment column, also in the row a status change remembers.

`LedgerInv` takes the refinement to the stock ledger. Every step of such a shop is one of
the book's or leaves stock and orders alone, so a unit
leaves the shelf with an order that starts to keep it and comes back with one that stops.
What makes the sum over all orders change by that one order's units is that the orders
that keep theirs are finitely many, which the invariant says, and two lemmas of
`Sums_proofs` (`SumAdds`, `SumTakesAway`); `ShippedOnes` ties the history variable to the
status, since a parcel that has left does not come back. `NoOversell` follows: the shelf
is never negative.

`Sums_proofs` finds what the library's sum, a fold over the subsets of a set, computes:
that a function with its equation exists, that its values are numbers, and that any
element may be taken away instead of the one the fold chooses. Each is shown of a
smallest set for which it would fail, because the provers cannot instantiate an
induction theorem. The folds over sequences are done the same way, up to the first
length that fails (`FoldsList`, `ListFoldLands`).

`AInv` is for the derived columns: a handler that has written a variant's stock and not
yet its product's columns holds that variant, and what it selected is its own
version. One variant to a product makes that the whole sum.

Not proved: `TotalStockNeverDrifts`, which the run `orders_drift` shows to fail, and
`EveryRequestEnds`, which is liveness.

### Left out

Prices, totals, shipping data and the snapshot columns of an order line are functions
of what is loaded and are not read again. `cancelReason` is text. Every query is
scoped to one store, so one store is modelled. A storefront that is not
published refuses a checkout before any state is read. The mails and knowledge
marks that follow a commit change nothing an order depends on.

## 3. Procurement

### State and actions

One purchase request. `request` is its row (`status`, `deal` for
`confirmedOfferId`) and `offer` its offers (`status`, `sent` for `sentAt`,
`thread` for `mailboxThreadId`, `repliedAt`, `message` for `mailboxMessageId`, and
`price`, which names the reply it was read from or says that the owner typed
it). `inbox` is what suppliers wrote, in the order it arrived; the clock is its
length. `job[s]` holds the entities a handler loaded and edits. `mailed` and
`told` are history: who received the request, and who was told that it went to
somebody else.

| Code | Actions |
| --- | --- |
| `create`, `update` | `Create`, `LoadForEdit`, `SelectRequest`, `SaveEdit` |
| `send`, `mailRecipients` | `LoadForSend`, `MailRecipients` (any part of the mails may fail), `SelectOffers`, `AfterOffers`, `SelectRequest`, `SaveRequest` |
| `cancel` | `LoadForCancel`, `SelectRequest`, `SaveRequest` |
| `confirm`, `mailDecisions` | `LoadForConfirm`, `Strike` or `StrikeConflict`, `MailDecisions` |
| `ingestFromPaste`, `ingest`, `extract`, `markReplied` | `Paste`, `LoadRequest` or `SkipReply`, `SelectOffers`, `StoreReply`, `Extract`, `SelectOffers`, `AfterOffers`, `SelectRequest`, `SaveRequest` |
| `updateOffer` | `LoadForCorrection`, then as above |
| a save the database refuses | `Throws` |
| restart, lost connection | `ConnectionLost` |
| a supplier | `SupplierReplies` |

A transaction is the step of its commit, since what it reads it reads under
locks, except for the SELECT of a save. Saving a request also concerns its
offers: the entity lists them, so an offer that was added since it was loaded
would be detached, which its `NOT NULL` column refuses (`Orphans`, `Throws`).

### Runs

| Run | Instance | Distinct states | What it shows |
| --- | --- | --- | --- |
| `procurement` | two tabs that serve every kind of call, five calls between them, two recipient lists, one reply | about 1.1 million, up to symmetry | `OnlyOvertakenWritesLeaveTheDeal` |
| `procurement_stale_save` | one tab sends while another cancels | violation | a cancelled request becomes sent |
| `procurement_cut_send` | a send loses its connection | violation | all suppliers are mailed, the request is a draft, and it can neither be sent again nor take replies |

`OnlyOvertakenWritesLeaveTheDeal` is the refinement of `PurchaseDeal` with its
exceptions named: a commit that is not a legal step of the deal belongs to a
handler whose rows somebody changed after it loaded them. Not even those leave
mails and rows at odds (`MailsAndRowsAgree`): rows keep their types, a request that
counts as sent reached somebody, and nobody is declined who was never asked.
`send`, `cancel`,
`ingest`, `updateOffer` and `update` save whatever they loaded. `confirm` is
conditional on the status and so picks one winner among racing owners, but an
edit that was loaded while the request was a draft and is saved once it has been
answered replaces the offers under a confirmation that has already chosen one of
them.

*Bounds.* Five calls (`MaxCalls`) suffice for a whole life of a request (create,
send, answer, confirm) with one more call overlapping any of them, and for the
edit that overtakes a confirmation. Two offers give a winner and a loser and a
send that reaches only one of its suppliers; the second list lets the draft be
replaced once. Tabs, and the two suppliers of one list, are interchangeable, and
no property names one of them, which makes the symmetry sound; no liveness is
checked there.

### Proof

`OnlyOvertakenWritesLeaveTheDealHolds` (`Suppliers_proofs`) proves the property for any
number of calls, offers and replies. The inductive invariant `ProcurementInv` says
that the rows are typed, that whoever counts as sent was mailed, in a row as in a
copy a call has in memory, and, for each label, what the call has decided by then:
which status it saw, what it has set since, whose reply it holds. Being mailed is
for good (`DecisionsLast`), so these outlive the steps of others; and a call whose
rows are still as it knew them commits what it decided from those rows, which is a
step of `PurchaseDeal`. `NullIsNoRow` is assumed: no row and no status is SQL's NULL.

### Left out

Subject, body, quantity, delivery days and notes are text or numbers nobody
decides on; of an offer's figures only the price is kept, since `confirm`
requires one. How a model reads a reply is a choice: the price of that reply,
none, or no answer. Whether the recipients are active suppliers is a read before
the first write. `OfferRow` and `LoadOffer` carry what the mailbox sync
needs (threads, message ids, fetched replies), and `MailRecipients` takes whether
a mailbox is connected; in this run nothing is and these stay at their defaults.

## 4. The jobs: mailbox and knowledge index

### MailboxSync

`mailbox` joins the connection row (status, cursor, grant), the Redis lock, what
is in Gmail, and what each server instance has in memory. A pass copies the row,
picks the threads to watch, asks Gmail for the history since the cursor (or, with
no cursor, reads the threads and takes the cursor afterwards), cuts what it found to
`MaxPerSync` (`MAILBOX_MAX_REPLIES_PER_SYNC`), ingests the replies one by one with
the actions of `Procurement`, and records the cursor. `PassStarts` takes the lock
with `SET NX EX`; `SyncNow` is the owner's pass, which takes none; `LockExpires`
and `LockIsOutrun` are the key's time to live after a restart and under a running
pass. `FetchFails`, `GrantIsUnreadable`, `IngestFails` and `Restart` are the
faults (`MaxFailures`); `ReadConsent`, `SaveConsent`, `Disconnect` and
`WithdrawGrant` change the connection in between.

| Run | Instance | What it shows |
| --- | --- | --- |
| `mailbox` | a scheduled pass, the owner's and a pasted reply, two replies of one supplier, one failure, a reconnect (5,415,176 distinct states) | `BehindTheCursorIsSettled`: a reply the cursor has passed was dealt with, left out by a fetch in one of the named ways, or in the mailbox when the owner (re)connected it; `AnswersNeverGoBack`: the answer on an offer is not replaced by an older one, but by a save that did not know of it |
| `jobs`, poll | two instances, one reply, two failures, a reconnect (663,388 distinct states, the index included) | `OnePassAtATime`, though a pass deletes the lock without looking whose it is; `EveryReplyIsReached` and `DeadGrantIsNoticed` under fairness |

The ways a fetch leaves a reply out (`leftOut`) are the code's: a message that could not
be fetched is skipped; the cap cuts a pass and the cursor still moves to its end; the
pages end at `MAILBOX_MAX_HISTORY_PAGES` and the cursor is still the mailbox's newest,
which `history.list` tells on every page (the comment at `gmail.provider.ts:237` says
that the rest is left for the next pass); a thread was not watched yet when its reply's
page was read; and, on a first read, a reply arrives after its thread was read and
before the cursor is taken (the comment at `gmail.provider.ts:312` argues the order is
safe; it is safe against reading too late a cursor, not against this). Apart from these,
connecting starts from the cursor of that moment (`SaveConsent`), so that a reconnect
passes over what came while the mailbox was disconnected (`skipped`), against
`mailbox-connection.service.ts:168-170`, which says that it picks up the replies of the
requests already sent. `DeadGrantIsNoticed` needs a cursor: without one every thread
that cannot be read is skipped, so a pass over a withdrawn grant succeeds.

*Proved* (`OnePassAtATimeHolds`): a scheduled pass that has not ended holds the lock,
unless one has outrun its lock. The unconditional delete is harmless until then, since
whoever deletes holds it.

*Proved* (`BehindTheCursorIsSettledHolds`), for any inboxes, caps and number of passes.
`CursorInv` says for each place of a pass what its list accounts for: a reply that is in
the inbox up to the cursor the pass will record is on the page still to be ingested,
dealt with, left out by the fetch, or was there at a connect. What makes it inductive is
that a listing is in the order of the inbox and complete (`ListsAreComplete`), so a cut
by the cap leaves out what is named, and that nobody but a pass moves the cursor, each
to an end it has accounted for.

*Proved* (`AnswersNeverGoBackHolds`), for any number of instances, calls, offers and
replies. A handler loads an offer, awaits and saves it; `IsUnaware` is the named
exception, a save of an offer that was answered since it was loaded: then an older
answer may replace a newer one, as when a pass reads a reply while a newer one is
pasted, or a second `send` or a correction is under way. `AnswersInv` says that the
answer a handler is about to save is no older than the one it loaded
(`isReplyAlreadyRead`, or the time of a paste), that replies on rows, pages and in
memory have arrived, and that the ids of a new recipient list are nobody else's, so that
an edit never empties an offer that was answered. `RequestStep` takes the passes' steps
apart into those of `Procurement`, whose invariant therefore holds beside them too.

### KnowledgeIndex

`source[s]` is a product, category or FAQ row, `document[s]` its document (content,
stale mark, vector, failure count). A save or removal of a source is one step with
the mark its subscriber leaves in the same transaction; `WriteAround` is a write no
subscriber sees. `SweepStep` takes the lock, selects stale documents, composes,
embeds (or fails) and writes, each await a step; `ReconcileStep` is the nightly job;
`SweeperRestarts` and `SweepExpires` are the faults.

`DocumentsTellTheTruth` (run `jobs`): a document that is not marked says what its
source says, and what the owner hid cannot be quoted; excused are the writes that
came between a sweep's composition and its last UPDATE, which erases their mark,
and those that pass the subscriber by. The comment at `knowledge.subscriber.ts:45`
says such writes touch no text of a document; soft deletions, replaced links and
renames do, and `Silent` is the kind of source that has them. `IndexCatchesUp`: the
nightly job repairs both, so every document is right in the end, or given up after
`MaxEmbedFailures` while it is shown.

*Proved* (`DocumentsTellTheTruthHolds`). The invariant `IndexInv` adds what a sweep knows of
the rows it found: ids are not given twice, so one that is still there was not removed
since, and a write that hid its source or changed its text has replaced the row,
marked it, or overtaken the sweep.

*Fairness.* `MailboxSpec` and `JobsSpec` assume weak fairness of a scheduled start
(cron comes round again), of each step of a pass, a sweep and a reconciliation, and of
the expiry of a Redis key. Nothing is assumed of owners and suppliers, and of
failures only that they end (`MaxFailures`, `MaxCrashes`).

*Bounds.* Two instances show lock contention and a lock lost to its successor; two
replies show an answer out of order; one failure is a restart, a failed fetch or a
failed ingest at any await, or a fetch that is not complete, two are a retry that fails
again. Two connects (`MaxConnects`) are a first one and a reconnect, under a pass that
holds the older row. Scheduled passes read up to two replies, enough to apply a newer
one after an older one failed; the owner's pass meets an instance whose environment says
one, so that the cap cuts it. One call more than it takes to send a request is either
the owner's pass or a reply pasted over a pass that is under way. One source is active
in a behaviour, and no step relates two.

## 5. The parts of a store that share no row: `MCStore`

Thirteen modules that have no row in common. Composing them would multiply their
states and show nothing, so the run `store` picks one of them in its initial state
(`scene`) and plays it; `OthersKeepStill` leaves the rest as they were. Each has an
`Init...`, a `Next...` and a specification of its own and can be instantiated alone. The
bounds are in `MCStore.cfg`: two callers wherever calls overlap, two to four
rows, two or three calls, one fault. Two callers are what overtaking takes;
a third call lets one of them be followed by an innocent one that meets the damage.

### ProductMatrix

`product`, `variant[v]` (its value links and options key), `described` and `attribute`
and value rows; `edit[t]` is what a tab's request has read. Creating a product,
generating, adding, changing and removing variants, and removing values and
attributes read and check first (`assertVariantMatrix`, caps, `countProductsUsingValue`)
and then write in one transaction, with the unique index of `(productId,
optionsKey)` deciding there. `OnlyOvertakenEditsBreakTheMatrix`: unless the handler was
overtaken, no step leaves a product without a variant, mixes shapes, repeats a
combination, exceeds a cap or removes what is in use. The run `variant_options`
refutes `OptionsKeyIsTheCombination` (finding 6).

*Proved* (`OnlyOvertakenEditsBreakTheMatrixHolds`) for any attributes, values, caps and
callers. `MatrixInv` states what each handler has checked of the rows it read
(`PassesChecks`), so nobody having overtaken it means that this holds of the rows it
writes over. The rest is about matrices: whether one is valid does not depend on the
names of its rows (`RenamedMatrix`, which takes the checked matrix of combinations to
the inserted rows) and survives the loss of a row that is not the last
(`SmallerMatrix`).

### CatalogNames

One table of categories, attributes or products: slugs, names and rows of a batch
applied from Gemini's proposal. What `sanitize-catalog.util.ts` makes of a proposal, the
fallback key, and `buildUniqueSlug` on the words and numbers of a slug are operators;
`SaveEntry`, `Retry`, `GivesUp` and `CommitApply` are the insert, the single retry of
`saveUnique` and `runUnique`, and the batch. `OneRivalIsSurvived`: a call fails for its
slug only if two others wrote since it read (a product's rename, which is not retried,
for one). `ProposalsApplyOnce`: whatever Gemini answers, the sanitized proposal is
accepted unedited, and a double click applies it once. Two things the runs made visible:
an unedited proposal sends the fallback key explicitly, so `identifyAttribute` no longer
takes it for a fallback and a second attribute with an Arabic name is silently skipped
(`plan-catalog-write.util.ts:56-59`); and the `-2` of a retry may take a key past its 40
characters.

*Proved* (`OneRivalIsSurvivedHolds`, `ProposalsApplyOnceHolds`), of proposals, plans and
tables of any length. The operators first: among finitely many slugs `buildUniqueSlug`
finds the first number that is free (`UniqueSlugIsFree`), and what the loops over a list
build is followed by `ListFoldLands` of `Sums_proofs`. `Drafts` is what the sanitizer
keeps true of its list, `IsPlan` what `planCatalogWrite` keeps true of its plan; in
particular every slug of a plan is explained: each smaller number is taken, in the table
or in the plan. `NamesInv` then has two arguments. A save's slug was free when it was
chosen, so somebody wrote if it is not free any more; after a retry that was a second
one (`SaverOK`; for a product the time in the slug is another one for each call,
`StampsAreSpent`). And a plan nothing disturbed is *late*, having a slug that is taken
by now, or nobody has filed one of its names from the same payload (`ApplierOK`): two
plans of one batch that share a name share a slug, or a number one of them skipped is
one the other took (`SameNameSameSlug`), so who commits first makes the other late, and
a late plan is rolled back by the unique index. No instance has the random suffix that
follows `MAX_SLUG_ATTEMPTS` numbers, and in the theorems that bound is not there.

### StoreImages

`images`, `shown` (the single image of a category or hero) and `cloud`, which no
transaction spans. A call loads, uploads, saves and destroys, one step each, with
failing uploads and restarts. `AssetsMatchRows`: no row points to a destroyed asset and
no asset is kept that nothing shows, apart from those a fault or a stale save
touched, and the moment inside `updateHero`, which destroys first.
`CapIsPassedOnlyByOvertakenCounts`: the image cap is exceeded only by two calls
that counted before either inserted, or by a save that re-inserts a removed row.

*Proved* (`AssetsMatchRowsHolds`, `CapIsPassedOnlyByOvertakenCountsHolds`). `ImageInv`: an asset
nothing doubtful happened to is shown by one row, and is there unless its `updateHero` is at
the moment named above; an asset that is there is shown, or in a call's hands; and what a
call has just uploaded nobody else knows of.

### Swatches

`style` and the colour of each value; `ClearColours` is a statement of its own before
`SaveAttribute`. `UndisturbedEditsKeepThePair`: an edit nobody overtook keeps "a swatch
has a colour everywhere, other styles nowhere", with two named exceptions that
contradict `product-attribute.service.ts:485` ("can never be half-written"): a style
change whose key is refused when the colours are already cleared, and a PATCH with
`swatchHex: null`, which passes the check and blanks a swatch.
*Proved* (`UndisturbedEditsKeepThePairHolds`), from what each edit knows of what it read.

### FaqList

Entries with positions, each row lockable; `Move` is one UPDATE of a reordering,
invisible to others until `CommitOrder`; `EndDeadlock` and `BreakOff` are the
faults. Categories, attributes and values are put in order by the same loop, and the
map names those too. `ArrangedOrderHolds`: the list is in the order asked for last,
two orders never mix and none is half carried out; only a save of an entry loaded
before takes that entry back, or, if it was removed, brings it back under a new id. A
creation that is overtaken need not land last (`faq.service.ts:176`).

*Proved* (`ArrangedOrderStays`), for lists of any length: a reordering under way has moved, and
so locked, the listed entries it came past, and the entries arranged last that no save
brought back are where they were put.

### Accounts

`users`, the codes, cooldowns and refresh tokens in Redis, and the mails; each call to
PostgreSQL, Redis or the mail server is a step. `SignedInMeansVerified`; `ServesOnce`: a
code or a refresh token is spent once, but for requests that had read the key before it
was deleted; `GoogleKeepsToOneAccount`: all sign-ins of one Google identity get one
account while it is there, the loser of a race for the insert included, unless a save of
an older copy unlinks it (`joined` is the history of who was joined and not unlinked
since). Three accounts (`MaxUsers`) are two sign-ins' inserts and a registration, or an
account that a save inserts again, under a new id, after its registration was undone.
The state space also contains these, which no property forbids: the compensation of a
failed mail deletes an account somebody may have signed in to; `del(key)` may delete a
newer code; a stale save may lose a `googleId`, and an address two accounts in two
spellings.

*Proved*: all three properties, from `AccountsInv`: a token's account is verified or
gone for good; a code belongs to one key, wherever it is found (in Redis, in a mail, in
a request), and one that served is in Redis no more; and what each request has read.
`GoogleKeepsToOneAccountHolds` has an invariant of its own, `JoinInv`: the unique index
keeps the identity on one row, and of the accounts it signed in to, one that is there is
that row.

### SiteBuilder

`draft`, `shop`, themes and the selected one, logos; a request loads the draft, awaits
Gemini, Cloudinary or the store's services and saves what it loaded.
`OnlyOvertakenSavesGoBack`: steps only go forwards, and a live store stays live under
its domain, but for a request overtaken by a save, a publication that was cut, and
the moment in which the store is saved and the draft is not. ("The value only ever
advances", `site-build-step.enum.ts:2`, is untrue when a brainstorm's second save
overtakes an answer.) `LiveStoreIsComplete`: one theme is selected but for two
publications that chose at the same time, and no publication deletes the logo of its
store. A publication between a brainstorm's destroy and save takes a deleted logo
live; `updateHero` overtaking a publication saves `draft` back.

*Proved*: both properties, from `BuilderInv`: a request nobody overtook has the draft's step
and the store as they are; unless two publications chose at a time, no theme is selected
only between one's two updates; the store's monogram is there or its successor on the way,
and one that is being drawn is known to its publication alone.

### Advisor and AdvisorSignals

`Advisor`: `day` and `due` are the store's clock, `switches` its two settings,
`brief[d]` a day's lines with decisions, `job[g]` a generation of an instance
or of the owner's button. `HandledAdviceRests`: dismissed or done advice does not
return as new while it rests (`RestDays`), but for decisions taken while a generation was
on its way and for lines a regeneration left out. `OneMailADay`: but for a lock that
expired under its holder. A missed hour is *not* picked up by the next one as
`advisor-scheduler.service.ts:34` says: the next hour is not the send hour.
*Proved* (`OneMailADayHolds`): while no lock lapsed, one instance at most is in its hour and
holds the lock, and one that found no brief has sent none, since a mailed brief is there.
And `HandledAdviceRestsHolds`, for any number of days, instances, regenerations and decisions:
the last decision on an advice is in a brief of its day or before (`Recorded`); one of an
earlier brief kept the advice out when it was collected, so a generation's line that rests
has its decision in the brief to be replaced, which the generation carries over (`LineOK`)
or misses, and then the history `lost` has it. The proof found that history too narrow: an
advice stands in Monday's brief and in Tuesday's; on Tuesday the owner dismisses Monday's
line and presses the button, and after midnight, while that generation runs, dismisses
Tuesday's. The generation writes Tuesday's brief without the advice, which Monday's line
suppressed, and the later decision is gone: the advice returns a day early. `lost`
counted only lines whose signal was gone, and now counts every line left out; one advice
over two days, as in the run, is too little to see it.

`AdvisorSignals`: the six sales queries, the shelves, the unanswered questions, calendar
and weather are each asked at a moment of their own (`AskFor`) while customers order and
cancel; velocity, days of cover, the recommended quantity, trends and ranking are
operators on integers (`unitsPerDay` and what is computed from it are doubles in the
code, whose error matters only where the exact result is whole: the constants
`OverTarget` and `UnderCover` name the numbers of units for which the double of the
target is above it, or that of the cover below); a query or a narration may fail;
`Narrated` merges the model's words. `BriefsAddUp`: no article is called slow and
selling in one brief unless one of its orders changed meanwhile, and a reorder lasts
lead time and coverage while one unit less would not, or two where the double of a whole
target is above it: of 9 units a week, 7 days of lead time and 5 on the shelf the code
recommends 23 where 22 last, and of 29 units a reorder of 1 for a shelf of 87 that lasts
(`velocity.util.ts:66-79`). The run has the code's 7, 28 and 14 days and its default
lead time of 7, and the units that matter there. `EventsKeepTheirDate`: over ten days,
one of 23 and one of 25 hours, a brief written at any of nine hours around them finds an
event on its first day in the lookahead, but for one written at 23:xx before the short
day or 0:xx before the long one (`calendar.util.ts:52`), which misses a day or meets it
twice.
*Proved* (`EventsKeepTheirDateHolds`), for any hours in which the clock is one ahead,
any dates and any lookahead: but for those hours the n-th step of the walk is on the
n-th day (`WalkKeepsDays`), hence the first hit is the first day. And
`BriefsAddUpHolds`, for any number of articles, orders and failing queries: what a query
told was so when it was asked (`SalesAreTold`) and still is of every article that did
not move (`SignalsInv`); rounding up neither misses a unit nor adds one
(`RoundUpIsTheLeast`), whatever units the two constants name. Observations: the key of a
demand gap is the newest row's wording, so a dismissed gap returns when it is asked in
another order of words, against "stable across days" (`demand-gap.collector.ts`); a
label longer than 120 characters does not fit the key's column, and the INSERT takes the
whole brief with it, against "a failure costs its own section"
(`advisor-brief.service.ts:151`).

### Chat, ChatTools, DemandFeed

`Chat`: `rate` is a caller's bucket (INCR and EXPIRE are two commands), `session` the
row, `message` the transcript, `turn[t]` a request with its copy of the row.
`OnlyOvertakenTurnsUnbind`: a bound session stays its customer's but for a turn that
saves an older copy ("never unbound", `chat-session.entity.ts:45`).
`ModelIsAskedWithinTheCap`: up to turns that have not counted yet, were cut, or whose
count a stale save took back. `EveryWindowEnds`: a bucket expires, or its turn is about to say
when, but for one cut in between. Saving a session that retention has deleted inserts it again.
*Proved*: all three, from `ChatInv`: a turn's copy of the session is the row, but for
the customer it is about to bind, or an older version; and the transcript has no more
messages than the row counts, those about to be counted and those lost to it.

`ChatTools`: the agent's rounds, calls of one round interleaved with one another and
with what the owner hides, the notes tools leave, `Resolve` and `LoadReply`.
`RecordedAsTheToolsDid`: what the turn is recorded as and shows is what its tools
did. The round count includes the current message, so `MAX_TOOL_ITERATIONS` of four gives
three rounds; `get_store_info` always counts as a hit.
*Proved* (`RecordedAsTheToolsDidHolds`), for any wares, tools and rounds: hits are counted
exactly when something was told, the sources are among what was told, and the reply
and its outcome are as the sources and the rounds were. A `MaxRounds` of zero is excluded, and
of wares only that they are finite is assumed.

`DemandFeed`: rows with their phrase, age, review mark and cluster; the feed groups by
cluster or phrase. `AReviewTakesTheWholeTheme`: a review marks everything the default
feed shows with the question clicked, unless the window holds more rows than a review
reads. A feed of more days than the default shows older phrasings a review does not
mark. Three rows to a read (`MaxRows`) and four answers let reviewed rows, the clusters
of an earlier night and a cut one decide what a review takes: with the oldest row of a
phrase naming its cluster instead of the newest (`OldestOf`) TLC finds a theme half
reviewed.
*Proved* (`AReviewTakesTheWholeThemeHolds`), for any number of questions, phrasings and
nights: of the answers to one phrase that are new enough for the feed the older are
reviewed first (`ReviewedFirst`), now and with what the review under way has selected. So
the newest row of a phrase that names a cluster is the same for the feed, which reads what
is unreviewed, and for the review, which reads the whole window (`SameCluster`).

### Storefront

The listing with its filters, exact search and the fuzzy fallback, suggestions, the
sidebar's counts and price range and the navigation, each written in the code with
predicates of its own and here as an operator over one state of the catalogue, which the
owner edits. `CountsAreWhatAClickLists`: the number beside a filter is what a click
lists, the ends of the slider leave nothing out, a category's number is what its page
lists, and what is suggested is found. The parser of the query string hears the first
`MAX_FILTER_FACETS` facets and `MAX_FILTER_VALUES_PER_FACET` values of each (`Heard`,
`FirstValues`), so beside a facet that would come after them a number is not what a
click lists, for the click changes nothing: a named exception, which a store with more
than ten filterable attributes can meet. Both caps are two in the run, with three facets
and up to three values picked. The claim is about exact search: with the fuzzy fallback
products are listed while the sidebar counts none (`public-product.service.ts:185` says
they share their predicates).
*Proved* (`CountsAreWhatAClickListsHolds`), for any categories, values, words, prices
and number of products. `ShopInv` keeps of the rows that a product has a variant and
prices in the range; then each count's query and the listing of the click behind it
select the same products, the least and the greatest price are attained, and a word that
was suggested is one of its product's.

## 6. Findings

All six are disagreements between the code and what its own comments or
documents say, each shown by a run that ends in a counterexample; `PROJECT.json`
quotes the lines.

1. `updateNote` writes back an old status and payment (`order.service.ts:98`).
2. `updateVariant` writes back an old stock, so a unit is sold twice
   (`product-variant.service.ts:130`).
3. `recalculateAggregates` sums before it locks, so `totalStock` drifts
   (`product.service.ts:266`).
4. `send` moves a cancelled request to sent (`purchase-request.service.ts:244`).
5. A send that is cut off between two commits strands its request
   (`purchase-request.service.ts:426`).
6. `updateVariant` replaces a variant's options and its last `save()` brings the
   old ones back, while the options key keeps the new (`product-variant.service.ts:130`).

The observations in sections 4 and 5 were met while modelling and appear in the state
spaces as named exceptions of the properties; they have no run of their own.

## 7. What is proved and what is only checked

Thirty-seven theorems, for all values of the constants that the modules' named assumptions
allow, hence for any number of sessions, callers, rows, replies or turns. The
bounds on calls and faults (`MaxEdits`, `MaxCrashes`, ...) are arbitrary numbers in
them. Each states a property a run checks; only the hypotheses listed in section 2 are added.

| Component | Invariants | Action properties and refinement |
| --- | --- | --- |
| Orders | `TypeOK`, `GaplessNumbers`, `StatusTellsStockAndMoney`, `NoOversell`, `AggregatesHonest` | `OrdersMoveLegally`, `CustomersCancelOnlyPending`, `OnlySavesLeaveTheBook`, `SoldWhileOnSale`, `RefinesOrderBook` |
| Procurement, MailboxSync | `OnePassAtATime`, `BehindTheCursorIsSettled` | `OnlyOvertakenWritesLeaveTheDeal`, `AnswersNeverGoBack` |
| Catalog | `ArrangedOrderHolds`, `AssetsMatchRows`, `ProposalsApplyOnce` | `OneRivalIsSurvived`, `UndisturbedEditsKeepThePair`, `CapIsPassedOnlyByOvertakenCounts`, `OnlyOvertakenEditsBreakTheMatrix`, `CountsAreWhatAClickLists` |
| Accounts, SiteBuilder | `SignedInMeansVerified`, `GoogleKeepsToOneAccount`, `LiveStoreIsComplete` | `ServesOnce`, `OnlyOvertakenSavesGoBack` |
| Advisor, AdvisorSignals | `OneMailADay`, `EventsKeepTheirDate`, `BriefsAddUp` | `HandledAdviceRests` |
| KnowledgeIndex, Chat, ChatTools, DemandFeed | `DocumentsTellTheTruth`, `EveryWindowEnds`, `RecordedAsTheToolsDid`, `AReviewTakesTheWholeTheme` | `OnlyOvertakenTurnsUnbind`, `ModelIsAskedWithinTheCap` |

Almost all follow one argument. A handler reads, checks and awaits; what it has checked is
a statement about what it *read*. The inductive invariant says so for every place of
every handler, and says what can have happened to the rows since. If nobody
overtook the handler, its checks therefore speak of the rows it writes over, and a lemma
about the operators takes them across the write; if somebody did, the property's named
exception applies. Each invariant was checked by TLC on the run's instance
before it was proved.

The modules of `MCStore` are proved about one at a time, each with the specification
`Init... /\ [][Next...]_...` that the proof module names; the run's `scene` plays the same.

Only model-checked:

- Liveness (`EveryRequestEnds`, `EveryReplyIsReached`, `DeadGrantIsNoticed`,
  `IndexCatchesUp`): the prover has no rule for fairness here.

## 8. Not modelled

- Bootstrap, configuration, decorators, filters, migrations and seed data: no state
  at run time.
- The supplier directory (single-row CRUD), drafting and rendering of mails, the ranking
  of offers, prompts and the wording of everything generated.
- The list of conversations, the statistics and the chatbot's settings row; two saves of
  the advisor's settings, of which one may leave half a pair of coordinates.
- Scores and rank fusion of the retrieval; MIME decoding; encryption; signatures of tokens.
- Slugs of values within one attribute; sorting and paging of listings (a page is loaded
  by id without the predicates that chose it).
- `send`'s double mail by two concurrent sends and the resend cooldown's two commands are in
  the state spaces of `Procurement` and `Accounts`, but no property forbids them.

## 9. Plan

Every part with state of its own that requests or jobs race for is modelled, and every
property of the passing runs but the four of liveness is proved. What is left needs
another prover.

## 10. Reproducing

    tlc -workers 2 -config MCOrders.cfg MCOrders
    tlc -workers 2 -config MCOrdersDashboard.cfg MCOrders
    tlc -workers 2 -config MCProcurement.cfg MCProcurement
    tlc -workers 2 -config MCMailboxSync.cfg MCMailboxSync
    tlc -workers 2 -config MCJobs.cfg MCJobs
    tlc -workers 2 -config MCStore.cfg MCStore
    tlapm Orders_proofs.tla      (and OrderBook_, Sums_, Suppliers_, Catalog_,
                                  Owners_, Advisor_ and Assistant_proofs.tla)

Deadlock checking is off where a scene or a shop may come to an end. Between them the
passing runs take about twelve minutes.

Definitions whose comment begins with "Mutant of" are not used by any
specification. Each is the form a definition would take with a plausible bug in
it; put in its place, it makes the property `PROJECT.json` pairs it with fail.
