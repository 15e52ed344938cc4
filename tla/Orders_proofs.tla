--------------------------- MODULE Orders_proofs ---------------------------
(***************************************************************************)
(* Proofs about Orders for any number of sessions, rows and requests: type *)
(* correctness (with it, stock that is never negative), gapless order      *)
(* numbers, and the status machine.                                        *)
(*                                                                         *)
(* The inductive invariant IInv adds to these what makes them inductive:   *)
(* which label a handler of each kind can be at, that nobody keeps the     *)
(* lock of an order row from one statement to the next, and that the lock  *)
(* of the store row is held exactly by a checkout between the statement    *)
(* that took its number and its commit.                                    *)
(***************************************************************************)
EXTENDS Orders, TLAPS, SequenceTheorems, FiniteSetTheorems

\* TypeOK in three parts, so that a lemma names what it needs.
TablesOK ==
    /\ DOMAIN disk = Row /\ DOMAIN live = Row
    /\ \A r \in Row : RowOK(r, disk[r]) /\ RowOK(r, live[r])
    /\ holder \in [Row -> Session \cup {NoSession}]

Label == {"idle", "done", "lines", "select", "aggregate", "number",
          "insert", "apply", "diff", "save", "remove", "commit"}

TasksOK ==
    /\ pc \in [Session -> Label]
    /\ job \in [Session -> Job]
    /\ todo \in [Session -> Seq(Line)]
    /\ stale \in [Session -> SUBSET Product]
    /\ sums \in [Session -> Aggregate]

\* What the kind of request a session serves says about where it is, who sent
\* it and the order row it is about.
Fits(s) ==
    /\ Kind(s) = "none" => pc[s] \in {"idle", "done"}
    /\ Kind(s) = "checkout" =>
         /\ s \in Checkouts
         /\ pc[s] \in {"lines", "select", "aggregate", "number", "insert"}
         /\ disk[s].status = "absent"
    /\ Kind(s) = "status" =>
         /\ pc[s] \in {"lines", "select", "aggregate", "apply"}
         /\ LegalTransition(job[s].seen.status, job[s].to)
         /\ s \notin OwnerRequests =>
              job[s].seen.status \in CUSTOMER_CANCELLABLE_STATUSES
    /\ Kind(s) = "note" =>
         /\ s \in NoteRequests
         /\ pc[s] \in {"diff", "save"}
         /\ disk[job[s].row].status # "absent"
    /\ Kind(s) = "variant" =>
         pc[s] \in {"diff", "save", "select", "aggregate", "commit"}
    /\ Kind(s) = "product" => pc[s] \in {"diff", "save"}
    /\ Kind(s) = "store" =>
         /\ s \in StoreEdits
         /\ pc[s] \in {"diff", "save"}
         /\ FollowsANumber(job[s].entity)
    /\ Kind(s) = "removeVariant" =>
         pc[s] \in {"remove", "select", "aggregate", "commit"}
    /\ Kind(s) = "removeProduct" => pc[s] = "remove"
    /\ pc[s] = "lines" => todo[s] # <<>>

EveryJobFits == \A s \in Session : Fits(s)

\* A statement that writes an order row ends its transaction.
OrdersSettled == \A o \in Order : holder[o] = NoSession

\* The lock of the store row is held from TakeOrderNumber to the end of the
\* transaction, so the number a checkout took is still the committed one.
NumberLock ==
    /\ disk[Store] >= 1
    /\ \A s \in Session :
         /\ holder[Store] = s <=> pc[s] = "insert"
         /\ pc[s] = "insert" =>
              live[Store] = disk[Store] + 1 /\ job[s].number = disk[Store]

IInv ==
    /\ TypeOK
    /\ EveryJobFits
    /\ OrdersSettled
    /\ NumberLock
    /\ GaplessNumbers

-----------------------------------------------------------------------------
\* Rows.

\* The rows of one table are no rows of another.
LEMMA Tables ==
    /\ \A v \in Variant : v \in Row /\ v \notin Product /\ v \notin Order /\ v # Store
    /\ \A p \in Product : p \in Row /\ p \notin Variant /\ p \notin Order /\ p # Store
    /\ \A o \in Order : o \in Row /\ o \notin Variant /\ o \notin Product /\ o # Store
    /\ Store \in Row
BY RowsAreDistinct DEF Row

\* Every order row of the table is an order, or absent.
LEMMA OrderRows ==
    ASSUME TablesOK
    PROVE  \A o \in Order : /\ disk[o] \in OrderRow
                            /\ disk[o].status # "absent" => disk[o] \in PlacedRow
                            /\ disk[o] \in PlacedRow => disk[o].status # "absent"
BY Tables DEF TablesOK, RowOK, OrderRow, PlacedRow, AbsentOrder, Status

\* What a session reads of a row has the row's type.
LEMMA VisibleOK ==
    ASSUME TablesOK, NEW s \in Session, NEW r \in Row
    PROVE  RowOK(r, DB!Visible(s, r))
BY DEF TablesOK, DB!Visible

\* An order row nobody holds reads as committed.
LEMMA VisibleOrder ==
    ASSUME OrdersSettled, NEW s \in Session, NEW o \in Order
    PROVE  DB!Visible(s, o) = disk[o]
BY SessionsAreReal DEF OrdersSettled, DB!Visible

StoreKept ==
    /\ disk'[Store] = disk[Store]
    /\ live'[Store] = live[Store]
    /\ holder'[Store] = holder[Store]

\* The orders keep their numbers, and none appears or disappears.
OrdersKept ==
    \A o \in Order :
      /\ disk'[o].number = disk[o].number
      /\ disk'[o].status = "absent" <=> disk[o].status = "absent"

\* An UPDATE of a catalog row touches no order and not the store.
LEMMA UpdateCatalog ==
    ASSUME TablesOK, OrdersSettled, NEW s \in Session,
           NEW r \in Variant \cup Product, NEW version, RowOK(r, version),
           DB!Update(s, r, version)
    PROVE  TablesOK' /\ OrdersSettled' /\ OrdersKept /\ StoreKept
<1>1. r \in Row /\ r \notin Order /\ r # Store
  BY Tables
<1>2. \A q \in Row : /\ live'[q] = (IF q = r THEN version ELSE live[q])
                     /\ holder'[q] = (IF q = r THEN s ELSE holder[q])
  BY <1>1 DEF TablesOK, DB!Update
<1>3. TablesOK'
  BY <1>1, <1>2 DEF TablesOK, DB!Update
<1>4. QED
  BY <1>1, <1>2, <1>3, Tables DEF OrdersSettled, OrdersKept, StoreKept, DB!Update

\* A rollback changes no committed row, and nothing of the store unless the
\* session had locked it.
LEMMA RollbackAll ==
    ASSUME TablesOK, OrdersSettled, NEW s \in Session, DB!Rollback(s)
    PROVE  /\ TablesOK' /\ OrdersSettled' /\ OrdersKept
           /\ disk' = disk
           /\ holder[Store] # s => StoreKept
           /\ holder[Store] = s => holder'[Store] = NoSession
<1>1. /\ \A q \in Row : /\ live'[q] = (IF holder[q] = s THEN disk[q] ELSE live[q])
                        /\ holder'[q] = (IF holder[q] = s THEN NoSession ELSE holder[q])
      /\ disk' = disk /\ DOMAIN live' = Row
  BY DEF TablesOK, DB!Rollback, DB!Release
<1>2. TablesOK'
  BY <1>1 DEF TablesOK, DB!Rollback, DB!Release
<1>3. QED
  BY <1>1, <1>2, Tables, SessionsAreReal DEF OrdersSettled, OrdersKept, StoreKept

\* A commit publishes no order and no store row unless the session holds it.
LEMMA CommitCatalog ==
    ASSUME TablesOK, OrdersSettled, NEW s \in Session, DB!Commit(s), holder[Store] # s
    PROVE  TablesOK' /\ OrdersSettled' /\ OrdersKept /\ StoreKept /\ \A o \in Order : disk'[o] = disk[o]
<1>1. /\ \A q \in Row : /\ disk'[q] = (IF holder[q] = s THEN live[q] ELSE disk[q])
                        /\ holder'[q] = (IF holder[q] = s THEN NoSession ELSE holder[q])
      /\ live' = live /\ DOMAIN disk' = Row
  BY DEF TablesOK, DB!Commit, DB!Release, DB!Visible
<1>2. TablesOK'
  BY <1>1 DEF TablesOK, DB!Commit, DB!Release
<1>3. QED
  BY <1>1, <1>2, Tables, SessionsAreReal DEF OrdersSettled, OrdersKept, StoreKept

\* The last UPDATE of a transaction: of the orders only the updated one changes.
LEMMA UpdateAndCommitRow ==
    ASSUME TablesOK, OrdersSettled, NEW s \in Session, NEW r \in Row, r # Store,
           NEW version, RowOK(r, version), DB!UpdateAndCommit(s, r, version)
    PROVE  /\ TablesOK' /\ OrdersSettled'
           /\ \A o \in Order : disk'[o] = (IF o = r THEN version ELSE disk[o])
           /\ holder[Store] # s => StoreKept
           /\ holder[Store] = s => disk'[Store] = live[Store] /\ holder'[Store] = NoSession
<1>1. /\ \A q \in Row :
           /\ disk'[q] = (IF q = r THEN version ELSE IF holder[q] = s THEN live[q] ELSE disk[q])
           /\ live'[q] = (IF q = r THEN version ELSE live[q])
           /\ holder'[q] = (IF holder[q] = s THEN NoSession ELSE holder[q])
      /\ DOMAIN disk' = Row /\ DOMAIN live' = Row
  BY DEF TablesOK, DB!UpdateAndCommit, DB!Release, DB!Visible
<1>2. TablesOK'
  BY <1>1 DEF TablesOK, DB!UpdateAndCommit, DB!Release
<1>3. QED
  BY <1>1, <1>2, Tables, SessionsAreReal DEF OrdersSettled, StoreKept

-----------------------------------------------------------------------------
\* Sessions.

\* A step of one session leaves the others where they are.
OthersKept(s) ==
    \A t \in Session \ {s} :
      pc'[t] = pc[t] /\ job'[t] = job[t] /\ todo'[t] = todo[t]

\* The kind of a job tells which fields it has.
LEMMA JobKinds ==
    ASSUME NEW j \in Job
    PROVE  /\ j.kind \in {"none", "checkout", "status", "note", "variant", "product",
                          "store", "removeVariant", "removeProduct"}
           /\ j.kind = "none" => j = NoJob
           /\ j.kind = "checkout" => j \in CheckoutJob
           /\ j.kind = "status" => j \in StatusJob
           /\ j.kind = "note" => j \in NoteJob
           /\ j.kind = "variant" => j \in VariantJob
           /\ j.kind = "product" => j \in ProductJob
           /\ j.kind = "store" => j \in StoreJob
           /\ j.kind = "removeVariant" => j \in VariantRemovalJob
           /\ j.kind = "removeProduct" => j \in ProductRemovalJob
<1>1. NoJob.kind = "none"
  BY DEF NoJob
<1>2. /\ \A k \in CheckoutJob : k.kind = "checkout"
      /\ \A k \in StatusJob : k.kind = "status"
      /\ \A k \in NoteJob : k.kind = "note"
  BY DEF CheckoutJob, StatusJob, NoteJob
<1>3. /\ \A k \in VariantJob : k.kind = "variant"
      /\ \A k \in ProductJob : k.kind = "product"
      /\ \A k \in VariantRemovalJob : k.kind = "removeVariant"
      /\ \A k \in ProductRemovalJob : k.kind = "removeProduct"
  BY DEF VariantJob, ProductJob, VariantRemovalJob, ProductRemovalJob
<1>4. \A k \in StoreJob : k.kind = "store"
  BY DEF StoreJob
<1>5. QED
  BY <1>1, <1>2, <1>3, <1>4 DEF Job

\* A session of the dashboard that has ended takes no other request.
StaysDone(s) == s \in StoreEdits /\ pc[s] = "done" => pc'[s] = "done"

\* A handler that ends leaves its session fit for the next request.
LEMMA FinishFits ==
    ASSUME TasksOK, NEW s \in Session, Finish(s)
    PROVE  TasksOK' /\ OthersKept(s) /\ Fits(s)' /\ pc'[s] \in {"idle", "done"} /\ StaysDone(s)
<1>1. /\ pc'[s] \in {"idle", "done"} /\ job'[s] = NoJob
      /\ s \in StoreEdits => pc'[s] = "done"
      /\ pc' \in [Session -> Label]
      /\ \A t \in Session \ {s} : pc'[t] = pc[t]
  BY DEF TasksOK, Finish, Label, FormRequests
<1>2. TasksOK'
  <2>1. job' \in [Session -> Job]
    BY DEF TasksOK, Finish, Job
  <2>2. todo' \in [Session -> Seq(Line)]
    BY DEF TasksOK, Finish
  <2>3. stale' \in [Session -> SUBSET Product] /\ sums' \in [Session -> Aggregate]
    BY DEF TasksOK, Finish, Aggregate
  <2>4. QED
    BY <1>1, <2>1, <2>2, <2>3 DEF TasksOK
<1>3. OthersKept(s)
  BY <1>1 DEF TasksOK, Finish, OthersKept
<1>4. QED
  BY <1>1, <1>2, <1>3 DEF Fits, Kind, NoJob, StaysDone

\* TypeOK is its three parts.
LEMMA TypeParts ==
    TypeOK <=> TablesOK /\ TasksOK /\ shipped \subseteq Order
BY DEF TypeOK, TablesOK, TasksOK, Label

\* The lock of the store row: a step of a session that is not between taking a
\* number and its commit ...
LEMMA LockKept ==
    ASSUME NumberLock, NEW s \in Session, StoreKept, OthersKept(s),
           pc[s] # "insert", pc'[s] # "insert"
    PROVE  NumberLock'
BY DEF NumberLock, StoreKept, OthersKept

\* ... and one that may be, and gives its number back.
LEMMA LockReleased ==
    ASSUME NumberLock, NEW s \in Session, OthersKept(s), pc'[s] # "insert",
           disk'[Store] = disk[Store], holder[Store] # s => StoreKept,
           holder[Store] = s => holder'[Store] = NoSession
    PROVE  NumberLock'
BY SessionsAreReal DEF NumberLock, StoreKept, OthersKept

\* A number that was given stays given.
LEMMA NumbersStay ==
    ASSUME OrdersKept, NEW counter, FollowsANumber(counter)
    PROVE  FollowsANumber(counter)'
BY DEF OrdersKept, FollowsANumber, Placed

\* A step after which no order has appeared or changed its number leaves the other
\* sessions where they fit.
LEMMA OthersFit ==
    ASSUME IInv, NEW s \in Session, OthersKept(s), Fits(s)', OrdersKept
    PROVE  EveryJobFits'
<1> SUFFICES ASSUME NEW t \in Session, t # s PROVE Fits(t)'
  BY DEF EveryJobFits
<1>1. pc'[t] = pc[t] /\ job'[t] = job[t] /\ todo'[t] = todo[t]
  BY DEF OthersKept
<1>2. Kind(t) = "note" => job[t].row \in Order
  BY JobKinds DEF IInv, TypeOK, Kind, NoteJob
<1>3. Kind(t) = "checkout" => t \in Order
  BY DEF IInv, EveryJobFits, Fits, Order
<1>4. Kind(t) = "store" => FollowsANumber(job[t].entity)'
  <2>1. Kind(t) = "store" => FollowsANumber(job[t].entity)
    BY DEF IInv, EveryJobFits, Fits
  <2>2. PICK counter : counter = job[t].entity
    OBVIOUS
  <2>3. FollowsANumber(counter) => FollowsANumber(counter)'
    BY NumbersStay
  <2>4. FollowsANumber(job[t].entity)' = FollowsANumber(counter)'
    BY <1>1, <2>2 DEF FollowsANumber
  <2>5. QED
    BY <2>1, <2>2, <2>3, <2>4
<1>5. QED
  BY <1>1, <1>2, <1>3, <1>4 DEF IInv, EveryJobFits, Fits, Kind, OrdersKept

\* Such a step gives no number, whatever counter that was ahead it leaves.
LEMMA NumbersKept ==
    ASSUME IInv, NEW s \in Session, OthersKept(s), StaysDone(s), OrdersKept,
           FollowsANumber(disk'[Store])
             /\ ((s \in StoreEdits => pc'[s] # "done") => disk'[Store] = disk[Store])
    PROVE  GaplessNumbers'
<1>1. Placed' = Placed /\ \A o \in Placed : disk'[o].number = disk[o].number
  BY DEF Placed, OrdersKept
<1>2. PICK counter : counter = disk'[Store]
  OBVIOUS
<1>3. FollowsANumber(counter)'
  BY <1>2, NumbersStay
<1>4. FollowsANumber(disk[Store])'
  BY <1>2, <1>3 DEF FollowsANumber
<1>5. (\A t \in StoreEdits : pc'[t] # "done") => \A t \in StoreEdits : pc[t] # "done"
  BY DEF OthersKept, StaysDone, Session, FormRequests
<1>6. (\A t \in StoreEdits : pc'[t] # "done") => \A o \in Placed' : disk'[o].number < disk'[Store]
  BY <1>1, <1>5 DEF IInv, GaplessNumbers
<1>7. QED
  BY <1>1, <1>4, <1>6 DEF IInv, GaplessNumbers

\* ... and the invariant holds after it.
LEMMA StepOfOne ==
    ASSUME IInv, NEW s \in Session, OthersKept(s), Fits(s)', TasksOK', TablesOK',
           shipped' \subseteq Order, OrdersSettled', OrdersKept, NumberLock',
           disk'[Store] = disk[Store], StaysDone(s)
    PROVE  IInv'
<1>1. TypeOK'
  BY TypeParts DEF TypeOK, TablesOK, TasksOK, Label
<1>2. EveryJobFits'
  BY OthersFit
<1>3. GaplessNumbers'
  BY NumbersKept DEF IInv, GaplessNumbers
<1>4. QED
  BY <1>1, <1>2, <1>3 DEF IInv

-----------------------------------------------------------------------------
\* What the kinds of steps have in common.

\* A handler takes up a request.
LEMMA StartStep ==
    ASSUME IInv, NEW s \in Session, NEW label \in Label \ {"insert"},
           NEW loaded \in Job, NEW lines \in Seq(Line),
           Start(s, label, loaded, lines), Fits(s)'
    PROVE  IInv'
<1>1. /\ pc'[s] = label /\ pc[s] = "idle" /\ shipped' = shipped
      /\ disk' = disk /\ live' = live /\ holder' = holder
  BY DEF Start, Goto, IInv, TypeOK
<1>2. TasksOK'
  BY TypeParts DEF IInv, TasksOK, Start, Goto
<1>3. OthersKept(s)
  BY TypeParts DEF IInv, TasksOK, Start, Goto, OthersKept
<1>4. TablesOK' /\ OrdersSettled' /\ OrdersKept /\ StoreKept
  BY <1>1, TypeParts DEF IInv, TablesOK, OrdersSettled, OrdersKept, StoreKept
<1>5. NumberLock'
  BY <1>1, <1>3, <1>4, LockKept DEF IInv
<1>6. QED
  BY <1>1, <1>2, <1>3, <1>4, <1>5, StepOfOne DEF IInv, TypeOK, StoreKept, StaysDone

\* A handler updates a catalog row, or none.
LEMMA CatalogStep ==
    ASSUME IInv, NEW s \in Session, TasksOK', OthersKept(s), Fits(s)', shipped' = shipped,
           pc[s] \notin {"insert", "done"}, pc'[s] # "insert",
           \/ \E r \in Variant \cup Product : \E version :
                RowOK(r, version) /\ DB!Update(s, r, version)
           \/ UNCHANGED <<disk, live, holder>>
    PROVE  IInv'
<1>1. TablesOK' /\ OrdersSettled' /\ OrdersKept /\ StoreKept
  <2>1. CASE \E r \in Variant \cup Product : \E version :
               RowOK(r, version) /\ DB!Update(s, r, version)
    BY <2>1, UpdateCatalog, TypeParts DEF IInv
  <2>2. CASE UNCHANGED <<disk, live, holder>>
    BY <2>2, TypeParts DEF IInv, TablesOK, OrdersSettled, OrdersKept, StoreKept
  <2>3. QED
    BY <2>1, <2>2
<1>2. NumberLock'
  BY <1>1, LockKept DEF IInv
<1>3. QED
  BY <1>1, <1>2, StepOfOne DEF IInv, TypeOK, StoreKept, StaysDone

\* A handler throws.
LEMMA ThrowStep ==
    ASSUME IInv, NEW s \in Session, Throw(s)
    PROVE  IInv' /\ disk' = disk
<1>1. /\ TablesOK' /\ OrdersSettled' /\ OrdersKept /\ disk' = disk
      /\ holder[Store] # s => StoreKept
      /\ holder[Store] = s => holder'[Store] = NoSession
  BY RollbackAll, TypeParts DEF IInv, Throw
<1>2. TasksOK' /\ OthersKept(s) /\ Fits(s)' /\ pc'[s] # "insert" /\ StaysDone(s)
  BY FinishFits, TypeParts DEF IInv, Throw
<1>3. NumberLock'
  BY <1>1, <1>2, LockReleased DEF IInv
<1>4. QED
  BY <1>1, <1>2, <1>3, StepOfOne DEF IInv, TypeOK, Throw

\* A handler commits after its last catalog row.
LEMMA CommitStep ==
    ASSUME IInv, NEW s \in Session, CommitHandler(s)
    PROVE  IInv' /\ \A o \in Order : disk'[o] = disk[o]
<1>1. holder[Store] # s /\ pc[s] # "insert"
  BY DEF CommitHandler, IInv, NumberLock
<1>2. TablesOK' /\ OrdersSettled' /\ OrdersKept /\ StoreKept /\ \A o \in Order : disk'[o] = disk[o]
  BY <1>1, CommitCatalog, TypeParts DEF IInv, CommitHandler
<1>3. TasksOK' /\ OthersKept(s) /\ Fits(s)' /\ pc'[s] # "insert" /\ StaysDone(s)
  BY FinishFits, TypeParts DEF IInv, CommitHandler
<1>4. NumberLock'
  BY <1>1, <1>2, <1>3, LockKept DEF IInv
<1>5. QED
  BY <1>2, <1>3, <1>4, StepOfOne DEF IInv, TypeOK, CommitHandler, StoreKept

\* A handler writes its last row, not an order's first version, and commits.
LEMMA LastUpdateStep ==
    ASSUME IInv, NEW s \in Session, pc[s] # "insert", Finish(s), shipped' \subseteq Order,
           NEW r \in Row, r # Store, NEW version, RowOK(r, version),
           DB!UpdateAndCommit(s, r, version),
           r \in Order => /\ version.number = disk[r].number
                          /\ version.status = "absent" <=> disk[r].status = "absent"
    PROVE  IInv' /\ \A o \in Order : disk'[o] = (IF o = r THEN version ELSE disk[o])
<1>1. holder[Store] # s
  BY DEF IInv, NumberLock
<1>2. /\ TablesOK' /\ OrdersSettled' /\ StoreKept
      /\ \A o \in Order : disk'[o] = (IF o = r THEN version ELSE disk[o])
  BY <1>1, UpdateAndCommitRow, TypeParts DEF IInv
<1>3. OrdersKept
  BY <1>2 DEF OrdersKept
<1>4. TasksOK' /\ OthersKept(s) /\ Fits(s)' /\ pc'[s] # "insert" /\ StaysDone(s)
  BY FinishFits, TypeParts DEF IInv
<1>5. NumberLock'
  BY <1>2, <1>4, LockKept DEF IInv
<1>6. QED
  BY <1>2, <1>3, <1>4, <1>5, StepOfOne DEF StoreKept

-----------------------------------------------------------------------------
\* One lemma per action: checkout.

\* A checkout is taken up with the lines it loaded.
LEMMA LoadLinesStep ==
    ASSUME IInv, NEW c \in Checkouts, LoadLines(c)
    PROVE  IInv'
<1>1. c \in Session
  BY DEF Session
<1>2. PICK cart \in Carts, method \in PaymentMethod :
        /\ disk[c] = AbsentOrder
        /\ Start(c, "lines", [kind |-> "checkout", cart |-> cart, method |-> method,
                              number |-> 0], cart)
  BY DEF LoadLines
<1>3. cart \in Seq(Line) /\ cart # <<>>
  BY CatalogIsSound DEF Line
<1>4. [kind |-> "checkout", cart |-> cart, method |-> method, number |-> 0] \in Job
  BY <1>3 DEF Job, CheckoutJob
<1>5. /\ pc'[c] = "lines" /\ todo'[c] = cart /\ disk' = disk
      /\ job'[c] = [kind |-> "checkout", cart |-> cart, method |-> method, number |-> 0]
  BY <1>1, <1>2, TypeParts DEF IInv, TasksOK, Start, Goto
<1>6. Fits(c)'
  BY <1>2, <1>3, <1>5 DEF Fits, Kind, AbsentOrder
<1>7. QED
  BY <1>1, <1>2, <1>3, <1>4, <1>6, StartStep DEF Label

\* One line written, by a checkout or a cancellation.
LEMMA LineDoneFits ==
    ASSUME TasksOK, NEW s \in Session, NEW lines \in Seq(Line), todo[s] # <<>>,
           pc[s] = "lines", LineDone(s, lines), UNCHANGED <<job, sums>>
    PROVE  /\ TasksOK' /\ OthersKept(s)
           /\ pc'[s] \in {"lines", "select"}
           /\ pc'[s] = "lines" => todo'[s] # <<>>
<1>1. Tail(todo[s]) \in Seq(Line)
  BY HeadTailProperties DEF TasksOK
<1>2. {ProductOf[lines[i].variant] : i \in DOMAIN lines} \subseteq Product
  <2>1. \A i \in DOMAIN lines : lines[i] \in Line
    BY LenProperties, ElementOfSeq
  <2>2. QED
    BY <2>1, CatalogIsSound DEF Line
<1>3. CASE Tail(todo[s]) = <<>>
  BY <1>1, <1>2, <1>3 DEF TasksOK, LineDone, Goto, Label, OthersKept
<1>4. CASE Tail(todo[s]) # <<>>
  BY <1>1, <1>4 DEF TasksOK, LineDone, Goto, OthersKept
<1>5. QED
  BY <1>3, <1>4

\* The first line a handler has still to write.
LEMMA NextLine ==
    ASSUME TasksOK, NEW s \in Session, todo[s] # <<>>
    PROVE  /\ Head(todo[s]).variant \in Variant
           /\ Head(todo[s]).quantity \in Nat
<1>1. Head(todo[s]) \in Line
  BY HeadTailProperties DEF TasksOK
<1>2. QED
  BY <1>1 DEF Line

\* Reserving a line writes its variant only and leaves it a natural stock.
LEMMA ReserveLineStep ==
    ASSUME IInv, NEW c \in Session, Kind(c) = "checkout", ReserveLine(c)
    PROVE  IInv'
<1> DEFINE line == Head(todo[c])
           row == DB!Visible(c, line.variant)
<1>1. TasksOK /\ TablesOK /\ Fits(c) /\ pc[c] = "lines" /\ todo[c] # <<>>
  BY TypeParts DEF IInv, EveryJobFits, Fits, ReserveLine
<1>2. line.variant \in Variant /\ line.quantity \in Nat
  BY <1>1, NextLine
<1>3. row \in VariantRow /\ row.stock >= line.quantity
  BY <1>1, <1>2, Tables, VisibleOK DEF RowOK, ReserveLine, InStock
<1>4. RowOK(line.variant, [row EXCEPT !.stock = @ - line.quantity])
  BY <1>2, <1>3, Tables DEF RowOK, VariantRow
<1>5. DB!Update(c, line.variant, [row EXCEPT !.stock = @ - line.quantity])
  BY DEF ReserveLine
<1>6. job[c].cart \in Seq(Line)
  BY <1>1, JobKinds DEF TasksOK, Kind, CheckoutJob
<1>7. TasksOK' /\ OthersKept(c) /\ pc'[c] \in {"lines", "select"}
      /\ (pc'[c] = "lines" => todo'[c] # <<>>)
  BY <1>1, <1>6, LineDoneFits DEF ReserveLine
<1>8. Fits(c)'
  BY <1>1, <1>5, <1>7 DEF Fits, Kind, ReserveLine, DB!Update
<1>9. QED
  BY <1>1, <1>2, <1>4, <1>5, <1>7, <1>8, CatalogStep DEF ReserveLine

\* A checkout locks the store row and holds the next number.
LEMMA TakeOrderNumberStep ==
    ASSUME IInv, NEW c \in Session, Kind(c) = "checkout", TakeOrderNumber(c)
    PROVE  IInv'
<1>1. TasksOK /\ TablesOK /\ Fits(c) /\ pc[c] = "number" /\ shipped' = shipped
  BY TypeParts DEF IInv, EveryJobFits, TakeOrderNumber
<1>2. disk[Store] \in Nat /\ live[Store] \in Nat
  BY <1>1, Tables DEF TablesOK, RowOK
<1>3. holder[Store] = NoSession
  BY <1>1 DEF IInv, NumberLock, TakeOrderNumber, DB!Update, DB!Free
<1>4. DB!Visible(c, Store) = disk[Store]
  BY <1>3, SessionsAreReal DEF DB!Visible
<1>5. \A q \in Row : /\ disk'[q] = disk[q]
                     /\ live'[q] = (IF q = Store THEN disk[Store] + 1 ELSE live[q])
                     /\ holder'[q] = (IF q = Store THEN c ELSE holder[q])
  BY <1>1, <1>4 DEF TakeOrderNumber, DB!Update, TablesOK
<1>6. TablesOK'
  BY <1>1, <1>2, <1>4, <1>5, Tables DEF TablesOK, RowOK, TakeOrderNumber, DB!Update
<1>7. OrdersSettled' /\ OrdersKept
  BY <1>5, Tables DEF IInv, OrdersSettled, OrdersKept
<1>8. /\ pc' = [pc EXCEPT ![c] = "insert"]
      /\ job' = [job EXCEPT ![c].number = disk[Store]]
      /\ todo' = todo /\ stale' = stale /\ sums' = sums
  BY <1>4 DEF TakeOrderNumber, Goto
<1>9. job[c] \in CheckoutJob
  BY <1>1, JobKinds DEF TasksOK, Kind
<1>10. [job[c] EXCEPT !.number = disk[Store]] \in CheckoutJob
  BY <1>2, <1>9 DEF CheckoutJob
<1>11. TasksOK'
  BY <1>1, <1>8, <1>10 DEF TasksOK, Label, Job
<1>12. /\ OthersKept(c) /\ pc'[c] = "insert"
       /\ job'[c] = [job[c] EXCEPT !.number = disk[Store]]
  BY <1>1, <1>8 DEF TasksOK, OthersKept
<1>13. job'[c].number = disk[Store] /\ job'[c].kind = "checkout"
  BY <1>9, <1>12 DEF CheckoutJob
<1>14. Fits(c)'
  BY <1>1, <1>5, <1>12, <1>13, Tables DEF Fits, Kind, Order
<1>15. NumberLock'
  <2>1. disk'[Store] = disk[Store] /\ live'[Store] = disk[Store] + 1 /\ holder'[Store] = c
    BY <1>5, Tables
  <2>2. \A t \in Session \ {c} : pc[t] # "insert"
    BY <1>3, SessionsAreReal DEF IInv, NumberLock
  <2>3. QED
    BY <1>12, <1>13, <2>1, <2>2 DEF IInv, NumberLock, OthersKept
<1>16. StaysDone(c)
  BY <1>1 DEF StaysDone
<1>17. QED
  BY <1>1, <1>5, <1>6, <1>7, <1>11, <1>12, <1>14, <1>15, <1>16, Tables, StepOfOne DEF IInv, TypeOK

\* The order appears with the number its checkout took, and the counter with it.
LEMMA InsertOrderStep ==
    ASSUME IInv, NEW c \in Session, Kind(c) = "checkout", InsertOrder(c)
    PROVE  IInv' /\ disk[c].status = "absent" /\ disk'[c].status = "pending"
           /\ \A o \in Order \ {c} : disk'[o] = disk[o]
<1> DEFINE new == NewOrder(job[c].number, job[c].method, job[c].cart)
           n == disk[Store]
<1>1. /\ TasksOK /\ TablesOK /\ Fits(c) /\ OrdersSettled /\ pc[c] = "insert"
      /\ Finish(c) /\ shipped' = shipped
      /\ DB!UpdateAndCommit(c, c, new)
  BY TypeParts DEF IInv, EveryJobFits, InsertOrder
<1>2. c \in Order /\ c \in Row /\ c # Store /\ disk[c].status = "absent"
  BY <1>1, Tables DEF Fits, Order
<1>3. /\ holder[Store] = c /\ live[Store] = n + 1 /\ job[c].number = n /\ n >= 1
      /\ \A t \in Session \ {c} : pc[t] # "insert"
  BY <1>1 DEF IInv, NumberLock
<1>4. n \in Nat
  BY <1>1, Tables DEF TablesOK, RowOK
<1>5. job[c] \in CheckoutJob
  BY <1>1, JobKinds DEF TasksOK, Kind
<1>6. /\ new \in PlacedRow
      /\ new.status = "pending" /\ new.number = n
  BY <1>3, <1>5 DEF CheckoutJob, NewOrder, PlacedRow, Status
<1>7. RowOK(c, new)
  BY <1>2, <1>6, Tables DEF RowOK, OrderRow
<1>8. /\ TablesOK' /\ OrdersSettled'
      /\ \A o \in Order : disk'[o] = (IF o = c THEN new ELSE disk[o])
      /\ disk'[Store] = n + 1 /\ holder'[Store] = NoSession
  BY <1>1, <1>2, <1>3, <1>7, UpdateAndCommitRow
<1>9. TasksOK' /\ OthersKept(c) /\ Fits(c)' /\ pc'[c] # "insert"
  BY <1>1, FinishFits
<1>10. EveryJobFits'
  <2> SUFFICES ASSUME NEW t \in Session, t # c PROVE Fits(t)'
    BY <1>9 DEF EveryJobFits
  <2>1. pc'[t] = pc[t] /\ job'[t] = job[t] /\ todo'[t] = todo[t]
    BY <1>9 DEF OthersKept
  <2>5. Kind(t) = "store" => FollowsANumber(job[t].entity)'
    <3>1. Kind(t) = "store" => FollowsANumber(job[t].entity)
      BY DEF IInv, EveryJobFits, Fits
    <3>2. \A o \in Placed : o \in Placed' /\ disk'[o].number = disk[o].number
      BY <1>2, <1>6, <1>8 DEF Placed
    <3>3. QED
      BY <2>1, <3>1, <3>2 DEF FollowsANumber
  <2>2. Kind(t) = "note" => job[t].row \in Order
    BY <1>1, JobKinds DEF TasksOK, Kind, NoteJob
  <2>3. Fits(t) /\ (Kind(t) = "checkout" => t \in Order)
    BY DEF IInv, EveryJobFits, Fits, Order
  <2>4. QED
    BY <1>2, <1>6, <1>8, <2>1, <2>2, <2>3, <2>5 DEF Fits, Kind
<1>11. NumberLock'
  BY <1>3, <1>4, <1>8, <1>9, SessionsAreReal DEF NumberLock, OthersKept
<1>12. GaplessNumbers'
  <2>1. Placed' = Placed \cup {c} /\ c \notin Placed
    BY <1>2, <1>6, <1>8 DEF Placed
  <2>2. /\ \A o \in Placed : disk'[o].number = disk[o].number
        /\ disk'[c].number = n
    BY <1>2, <1>6, <1>8, <2>1 DEF Placed
  <2>3. /\ \A o \in Placed' : disk'[o].number >= 1
        /\ \A o \in Placed' : \A k \in 1..disk'[o].number : \E q \in Placed' : disk'[q].number = k
    <3>1. \A o \in Placed' : disk'[o].number >= 1
      BY <1>3, <2>1, <2>2 DEF IInv, GaplessNumbers
    <3>2. ASSUME NEW o \in Placed, NEW k \in 1..disk[o].number
          PROVE  \E q \in Placed' : disk'[q].number = k
      BY <2>1, <2>2, <3>2 DEF IInv, GaplessNumbers
    <3>3. ASSUME NEW k \in 1..n PROVE \E q \in Placed' : disk'[q].number = k
      <4>1. CASE k = n
        BY <2>1, <2>2, <4>1
      <4>2. CASE k # n
        <5>1. PICK o \in Placed : disk[o].number = n - 1
          BY <1>4, <3>3, <4>2 DEF IInv, GaplessNumbers, FollowsANumber
        <5>2. k \in 1..disk[o].number
          BY <1>4, <3>3, <4>2, <5>1
        <5>3. QED
          BY <3>2, <5>2
      <4>3. QED
        BY <4>1, <4>2
    <3>4. QED
      BY <2>1, <2>2, <3>1, <3>2, <3>3
  <2>4. \A o \in Placed : disk[o].number # n
    BY <1>1, <1>3 DEF InsertOrder, NumberFree
  <2>5. \A o, p \in Placed' : disk'[o].number = disk'[p].number => o = p
    BY <2>1, <2>2, <2>4 DEF IInv, GaplessNumbers
  <2>6. FollowsANumber(disk[Store])'
    BY <1>4, <1>8, <2>1, <2>2 DEF FollowsANumber
  <2>7. (\A t \in StoreEdits : pc'[t] # "done") => \A o \in Placed' : disk'[o].number < disk'[Store]
    <3>1. (\A t \in StoreEdits : pc'[t] # "done") => \A t \in StoreEdits : pc[t] # "done"
      BY <1>1, <1>9 DEF OthersKept, Session, FormRequests
    <3>2. \A o \in Placed : disk[o].number \in Nat
      BY <1>1, OrderRows DEF Placed, PlacedRow
    <3>3. QED
      BY <1>4, <1>8, <2>1, <2>2, <3>1, <3>2 DEF IInv, GaplessNumbers
  <2>8. QED
    BY <2>3, <2>5, <2>6, <2>7 DEF GaplessNumbers
<1>13. TypeOK'
  BY <1>1, <1>8, <1>9, TypeParts DEF TypeOK, TablesOK, TasksOK, Label, IInv
<1>14. QED
  BY <1>2, <1>6, <1>8, <1>10, <1>11, <1>12, <1>13 DEF IInv

-----------------------------------------------------------------------------
\* One lemma per action: the products' derived columns.

\* Selecting the sums of a product writes no row.
LEMMA SelectSumsStep ==
    ASSUME IInv, NEW s \in Session, SelectSums(s)
    PROVE  IInv'
<1>1. TasksOK /\ TablesOK /\ Fits(s) /\ pc[s] = "select" /\ shipped' = shipped
      /\ UNCHANGED <<disk, live, holder, job, todo, stale>>
  BY TypeParts DEF IInv, EveryJobFits, SelectSums
<1>2. PICK p \in Product : sums' = [sums EXCEPT ![s] = SelectAggregate(s, p)]
  BY DEF SelectSums
<1>3. SelectAggregate(s, p) \in Aggregate
  <2>1. \A v \in Variant : DB!Visible(s, v).stock \in Nat
    BY <1>1, Tables, VisibleOK DEF RowOK, VariantRow
  <2>2. QED
    BY <2>1 DEF SelectAggregate, Aggregate
<1>4. pc' = [pc EXCEPT ![s] = "aggregate"]
  BY DEF SelectSums, Goto
<1>5. TasksOK'
  BY <1>1, <1>2, <1>3, <1>4 DEF TasksOK, Label
<1>6. OthersKept(s) /\ pc'[s] = "aggregate"
  BY <1>1, <1>4 DEF TasksOK, OthersKept
<1>7. Fits(s)'
  BY <1>1, <1>6, JobKinds DEF Fits, Kind, TasksOK
<1>8. QED
  BY <1>1, <1>5, <1>6, <1>7, CatalogStep

\* Updating a product's derived columns writes that product only.
LEMMA UpdateAggregateStep ==
    ASSUME IInv, NEW s \in Session, UpdateAggregate(s)
    PROVE  IInv'
<1>1. TasksOK /\ TablesOK /\ Fits(s) /\ pc[s] = "aggregate" /\ shipped' = shipped
      /\ UNCHANGED <<job, todo>> /\ sums' = [sums EXCEPT ![s] = {}]
  BY TypeParts DEF IInv, EveryJobFits, UpdateAggregate
<1>2. PICK p \in Product :
        /\ DB!Update(s, p, [DB!Visible(s, p) EXCEPT !.aggregate = sums[s]])
        /\ stale' = [stale EXCEPT ![s] = @ \ {p}]
        /\ Goto(s, IF stale[s] = {p} THEN AfterAggregates(s) ELSE "select")
  BY DEF UpdateAggregate
<1>3. RowOK(p, [DB!Visible(s, p) EXCEPT !.aggregate = sums[s]])
  <2>1. DB!Visible(s, p) \in ProductRow
    BY <1>1, Tables, VisibleOK DEF RowOK
  <2>2. QED
    BY <1>1, <2>1, Tables DEF RowOK, ProductRow, TasksOK
<1>4. /\ pc'[s] = (IF stale[s] = {p} THEN AfterAggregates(s) ELSE "select")
      /\ OthersKept(s)
  BY <1>1, <1>2 DEF Goto, TasksOK, OthersKept
<1>5. AfterAggregates(s) \in {"number", "apply", "commit"}
  BY DEF AfterAggregates
<1>6. TasksOK'
  BY <1>1, <1>2, <1>5 DEF TasksOK, Goto, Label, Aggregate
<1>7. Fits(s)'
  BY <1>1, <1>2, <1>4, JobKinds DEF Fits, Kind, TasksOK, AfterAggregates, DB!Update
<1>8. pc'[s] # "insert"
  BY <1>4, <1>5
<1>9. QED
  BY <1>1, <1>2, <1>3, <1>4, <1>6, <1>7, <1>8, CatalogStep

-----------------------------------------------------------------------------
\* One lemma per action: the status machine.

\* A status change is taken up with the order as it was committed.
LEMMA ChangeStatusStep ==
    ASSUME IInv, NEW r \in StatusRequests, NEW o \in Order, NEW to \in Status,
           ChangeStatus(r, o, to),
           r \notin OwnerRequests => disk[o].status \in CUSTOMER_CANCELLABLE_STATUSES
    PROVE  IInv'
<1> DEFINE loaded == [kind |-> "status", order |-> o, seen |-> disk[o], to |-> to,
                      cart |-> disk[o].cart]
<1>1. r \in Session /\ TablesOK /\ TasksOK
  BY TypeParts DEF Session, IInv
<1>2. disk[o] \in PlacedRow
  BY <1>1, OrderRows DEF ChangeStatus
<1>3. disk[o].cart \in Seq(Line) /\ disk[o].cart # <<>>
  BY <1>2 DEF PlacedRow
<1>4. loaded \in Job
  BY <1>2, <1>3 DEF Job, StatusJob
<1>5. \/ Start(r, "lines", loaded, disk[o].cart)
      \/ Start(r, "apply", loaded, <<>>)
  BY DEF ChangeStatus
<1>6. LegalTransition(disk[o].status, to)
  BY DEF ChangeStatus
<1>7. job'[r] = loaded /\ disk' = disk
  BY <1>1, <1>5 DEF TasksOK, Start
<1>8. CASE Start(r, "lines", loaded, disk[o].cart)
  <2>1. pc'[r] = "lines" /\ todo'[r] = disk[o].cart
    BY <1>1, <1>8 DEF TasksOK, Start, Goto
  <2>2. Fits(r)'
    BY <1>3, <1>6, <1>7, <2>1 DEF Fits, Kind
  <2>3. QED
    BY <1>1, <1>3, <1>4, <1>8, <2>2, StartStep DEF Label
<1>9. CASE Start(r, "apply", loaded, <<>>)
  <2>1. pc'[r] = "apply"
    BY <1>1, <1>9 DEF TasksOK, Start, Goto
  <2>2. Fits(r)'
    BY <1>6, <1>7, <2>1 DEF Fits, Kind
  <2>3. QED
    BY <1>1, <1>4, <1>9, <2>2, StartStep, EmptySeq DEF Label
<1>10. QED
  BY <1>5, <1>8, <1>9

\* Restoring a line writes its variant only.
LEMMA RestoreLineStep ==
    ASSUME IInv, NEW r \in Session, Kind(r) = "status", RestoreLine(r)
    PROVE  IInv'
<1> DEFINE line == Head(todo[r])
           row == DB!Visible(r, line.variant)
<1>1. TasksOK /\ TablesOK /\ Fits(r) /\ pc[r] = "lines" /\ todo[r] # <<>>
  BY TypeParts DEF IInv, EveryJobFits, Fits, RestoreLine
<1>2. line.variant \in Variant /\ line.quantity \in Nat
  BY <1>1, NextLine
<1>3. row \in VariantRow
  BY <1>1, <1>2, Tables, VisibleOK DEF RowOK
<1>4. RowOK(line.variant, [row EXCEPT !.stock = @ + line.quantity])
  BY <1>2, <1>3, Tables DEF RowOK, VariantRow
<1>5. DB!Update(r, line.variant, [row EXCEPT !.stock = @ + line.quantity])
  BY DEF RestoreLine
<1>6. job[r].cart \in Seq(Line)
  BY <1>1, JobKinds DEF TasksOK, Kind, StatusJob
<1>7. TasksOK' /\ OthersKept(r) /\ pc'[r] \in {"lines", "select"}
      /\ (pc'[r] = "lines" => todo'[r] # <<>>)
  BY <1>1, <1>6, LineDoneFits DEF RestoreLine
<1>8. Fits(r)'
  BY <1>1, <1>5, <1>7 DEF Fits, Kind, RestoreLine, DB!Update
<1>9. QED
  BY <1>1, <1>2, <1>4, <1>5, <1>7, <1>8, CatalogStep DEF RestoreLine

\* The order moves from the status its handler read, and it alone.
LEMMA ApplyStatusStep ==
    ASSUME IInv, NEW r \in Session, Kind(r) = "status", ApplyStatus(r)
    PROVE  /\ IInv'
           /\ job[r].order \in Order
           /\ \A o \in Order \ {job[r].order} : disk'[o] = disk[o]
           /\ disk[job[r].order].status = job[r].seen.status
           /\ disk'[job[r].order].status = job[r].to
           /\ LegalTransition(job[r].seen.status, job[r].to)
<1> DEFINE o == job[r].order
<1>1. TasksOK /\ TablesOK /\ Fits(r) /\ OrdersSettled /\ pc[r] = "apply" /\ Finish(r)
      /\ DB!UpdateAndCommit(r, o, AppliedStatus(r)) /\ StillAsSeen(r)
  BY TypeParts DEF IInv, EveryJobFits, ApplyStatus
<1>2. job[r] \in StatusJob
  BY <1>1, JobKinds DEF TasksOK, Kind
<1>3. o \in Order /\ job[r].seen \in PlacedRow /\ job[r].to \in Status
  BY <1>2 DEF StatusJob
<1>4. DB!Visible(r, o) = disk[o]
  BY <1>1, <1>3, VisibleOrder
<1>5. disk[o].status = job[r].seen.status
  BY <1>1, <1>4 DEF StillAsSeen
<1>6. disk[o] \in PlacedRow
  BY <1>1, <1>3, <1>5, OrderRows DEF PlacedRow, Status
<1>7. AppliedStatus(r) = [disk[o] EXCEPT !.status = job[r].to,
                                         !.paid = @ \/ PaysOrder(job[r].seen, job[r].to)]
  BY <1>4 DEF AppliedStatus
<1>8. (disk[o].paid \/ PaysOrder(job[r].seen, job[r].to)) \in BOOLEAN
  OBVIOUS
<1>9. /\ AppliedStatus(r) \in PlacedRow
      /\ AppliedStatus(r).status = job[r].to
      /\ AppliedStatus(r).number = disk[o].number
  BY <1>3, <1>6, <1>7, <1>8 DEF PlacedRow
<1>10. RowOK(o, AppliedStatus(r)) /\ o \in Row /\ o # Store
  BY <1>3, <1>9, Tables DEF RowOK, OrderRow
<1>11. AppliedStatus(r).status # "absent" /\ disk[o].status # "absent"
  BY <1>3, <1>6, <1>9 DEF PlacedRow, Status
<1>12. shipped' \subseteq Order
  BY <1>3 DEF ApplyStatus, IInv, TypeOK
<1>13. IInv' /\ \A q \in Order : disk'[q] = (IF q = o THEN AppliedStatus(r) ELSE disk[q])
  BY <1>1, <1>9, <1>10, <1>11, <1>12, LastUpdateStep
<1>14. LegalTransition(job[r].seen.status, job[r].to)
  BY <1>1 DEF Fits
<1>15. QED
  BY <1>3, <1>5, <1>9, <1>13, <1>14

-----------------------------------------------------------------------------
\* One lemma per action: whole-row saves.

\* The note's handler holds an order row of the table.
LEMMA LoadForNoteStep ==
    ASSUME IInv, NEW s \in NoteRequests, LoadForNote(s)
    PROVE  IInv'
<1>1. s \in Session /\ TablesOK /\ TasksOK
  BY TypeParts DEF Session, FormRequests, IInv
<1>2. PICK o \in Order : disk[o].status # "absent" /\ LoadToSave(s, "note", o, disk[o])
  BY DEF LoadForNote
<1> DEFINE loaded == [kind |-> "note", row |-> o, entity |-> disk[o], selected |-> disk[o]]
<1>3. loaded \in Job
  BY <1>1, <1>2, OrderRows DEF Job, NoteJob
<1>4. Start(s, "diff", loaded, <<>>)
  BY <1>2 DEF LoadToSave
<1>5. job'[s] = loaded /\ disk' = disk /\ pc'[s] = "diff"
  BY <1>1, <1>4 DEF TasksOK, Start, Goto
<1>6. Fits(s)'
  BY <1>2, <1>5 DEF Fits, Kind
<1>7. QED
  BY <1>1, <1>3, <1>4, <1>6, StartStep, EmptySeq DEF Label

\* The variant's handler holds a variant row, its stock typed in or loaded.
LEMMA LoadForVariantEditStep ==
    ASSUME IInv, NEW s \in VariantEdits, LoadForVariantEdit(s)
    PROVE  IInv'
<1>1. s \in Session /\ TablesOK /\ TasksOK
  BY TypeParts DEF Session, FormRequests, IInv
<1>2. PICK v \in Variant : \E stock \in StockEdits \cup {disk[v].stock} :
        LoadToSave(s, "variant", v, [disk[v] EXCEPT !.stock = stock])
  BY DEF LoadForVariantEdit
<1>3. PICK stock \in StockEdits \cup {disk[v].stock} :
        LoadToSave(s, "variant", v, [disk[v] EXCEPT !.stock = stock])
  BY <1>2
<1> DEFINE entity == [disk[v] EXCEPT !.stock = stock]
           loaded == [kind |-> "variant", row |-> v, entity |-> entity, selected |-> entity]
<1>4. disk[v] \in VariantRow
  BY <1>1, Tables DEF TablesOK, RowOK
<1>5. entity \in VariantRow
  BY <1>4, CatalogIsSound DEF VariantRow
<1>6. loaded \in Job
  BY <1>5 DEF Job, VariantJob
<1>7. Start(s, "diff", loaded, <<>>)
  BY <1>3 DEF LoadToSave
<1>8. job'[s] = loaded /\ pc'[s] = "diff"
  BY <1>1, <1>7 DEF TasksOK, Start, Goto
<1>9. Fits(s)'
  BY <1>8 DEF Fits, Kind
<1>10. QED
  BY <1>1, <1>6, <1>7, <1>9, StartStep, EmptySeq DEF Label

\* The product's handler holds a product row.
LEMMA LoadForProductEditStep ==
    ASSUME IInv, NEW s \in ProductEdits, LoadForProductEdit(s)
    PROVE  IInv'
<1>1. s \in Session /\ TablesOK /\ TasksOK
  BY TypeParts DEF Session, FormRequests, IInv
<1>2. PICK p \in Product, active \in BOOLEAN :
        LoadToSave(s, "product", p, [disk[p] EXCEPT !.active = active])
  BY DEF LoadForProductEdit
<1> DEFINE entity == [disk[p] EXCEPT !.active = active]
           loaded == [kind |-> "product", row |-> p, entity |-> entity, selected |-> entity]
<1>3. disk[p] \in ProductRow
  BY <1>1, Tables DEF TablesOK, RowOK
<1>4. entity \in ProductRow
  BY <1>3 DEF ProductRow
<1>5. loaded \in Job
  BY <1>4 DEF Job, ProductJob
<1>6. Start(s, "diff", loaded, <<>>)
  BY <1>2 DEF LoadToSave
<1>7. job'[s] = loaded /\ pc'[s] = "diff"
  BY <1>1, <1>6 DEF TasksOK, Start, Goto
<1>8. Fits(s)'
  BY <1>7 DEF Fits, Kind
<1>9. QED
  BY <1>1, <1>5, <1>6, <1>8, StartStep, EmptySeq DEF Label

\* The store's handler holds its counter.
LEMMA LoadForStoreEditStep ==
    ASSUME IInv, NEW s \in StoreEdits, LoadForStoreEdit(s)
    PROVE  IInv'
<1>1. s \in Session /\ TablesOK /\ TasksOK
  BY TypeParts DEF Session, FormRequests, IInv
<1> DEFINE n == disk[Store]
           loaded == [kind |-> "store", row |-> Store, entity |-> n, selected |-> n]
<1>2. loaded \in Job
  BY <1>1, Tables DEF TablesOK, RowOK, Job, StoreJob
<1>3. Start(s, "diff", loaded, <<>>)
  BY DEF LoadForStoreEdit, LoadToSave
<1>4. job'[s] = loaded /\ disk' = disk /\ pc'[s] = "diff"
  BY <1>1, <1>3 DEF TasksOK, Start, Goto
<1>5. FollowsANumber(n)
  BY DEF IInv, GaplessNumbers
<1>6. FollowsANumber(job[s].entity)'
  BY <1>4, <1>5 DEF FollowsANumber, Placed
<1>7. Fits(s)'
  BY <1>4, <1>6 DEF Fits, Kind
<1>8. QED
  BY <1>1, <1>2, <1>3, <1>7, StartStep, EmptySeq DEF Label

\* What save() selects is a row of the entity's table.
LEMMA SelectToSaveStep ==
    ASSUME IInv, NEW s \in Session, Kind(s) \in {"note", "variant", "product", "store"},
           SelectToSave(s)
    PROVE  IInv'
<1> DEFINE seen == DB!Visible(s, job[s].row)
           loaded == [job[s] EXCEPT !.selected = seen]
<1>1. TasksOK /\ TablesOK /\ Fits(s) /\ OrdersSettled /\ pc[s] = "diff" /\ shipped' = shipped
      /\ UNCHANGED <<disk, live, holder, todo, stale, sums>>
      /\ job' = [job EXCEPT ![s].selected = seen] /\ pc' = [pc EXCEPT ![s] = "save"]
  BY TypeParts DEF IInv, EveryJobFits, SelectToSave, Goto
<1>2. /\ loaded \in Job /\ loaded.kind = job[s].kind /\ loaded.row = job[s].row
      /\ loaded.entity = job[s].entity
  <2>1. CASE Kind(s) = "note"
    <3>1. job[s] \in NoteJob /\ disk[job[s].row].status # "absent"
      BY <1>1, <2>1, JobKinds DEF TasksOK, Kind, Fits
    <3>2. seen \in PlacedRow
      BY <1>1, <3>1, OrderRows, VisibleOrder DEF NoteJob
    <3>3. /\ loaded \in NoteJob /\ loaded.kind = job[s].kind /\ loaded.row = job[s].row
          /\ loaded.entity = job[s].entity
      BY <3>1, <3>2 DEF NoteJob
    <3>4. QED
      BY <3>3 DEF Job
  <2>2. CASE Kind(s) = "variant"
    <3>1. job[s] \in VariantJob
      BY <1>1, <2>2, JobKinds DEF TasksOK, Kind
    <3>2. seen \in VariantRow
      BY <1>1, <3>1, Tables, VisibleOK DEF VariantJob, RowOK
    <3>3. /\ loaded \in VariantJob /\ loaded.kind = job[s].kind /\ loaded.row = job[s].row
          /\ loaded.entity = job[s].entity
      BY <3>1, <3>2 DEF VariantJob
    <3>4. QED
      BY <3>3 DEF Job
  <2>3. CASE Kind(s) = "product"
    <3>1. job[s] \in ProductJob
      BY <1>1, <2>3, JobKinds DEF TasksOK, Kind
    <3>2. seen \in ProductRow
      BY <1>1, <3>1, Tables, VisibleOK DEF ProductJob, RowOK
    <3>3. /\ loaded \in ProductJob /\ loaded.kind = job[s].kind /\ loaded.row = job[s].row
          /\ loaded.entity = job[s].entity
      BY <3>1, <3>2 DEF ProductJob
    <3>4. QED
      BY <3>3 DEF Job
  <2>4. CASE Kind(s) = "store"
    <3>1. job[s] \in StoreJob
      BY <1>1, <2>4, JobKinds DEF TasksOK, Kind
    <3>2. seen \in Nat
      BY <1>1, <3>1, Tables, VisibleOK DEF StoreJob, RowOK
    <3>3. /\ loaded \in StoreJob /\ loaded.kind = job[s].kind /\ loaded.row = job[s].row
          /\ loaded.entity = job[s].entity
      BY <3>1, <3>2 DEF StoreJob
    <3>4. QED
      BY <3>3 DEF Job
  <2>5. QED
    BY <2>1, <2>2, <2>3, <2>4
<1>3. TasksOK'
  BY <1>1, <1>2 DEF TasksOK, Label
<1>4. OthersKept(s) /\ pc'[s] = "save" /\ job'[s] = loaded
  BY <1>1 DEF TasksOK, OthersKept
<1>5. Fits(s)'
  BY <1>1, <1>2, <1>4 DEF Fits, Kind, FollowsANumber, Placed
<1>6. QED
  BY <1>1, <1>3, <1>4, <1>5, CatalogStep

\* A note save keeps the order and its number; its status it may set back.
LEMMA SaveNoteStep ==
    ASSUME IInv, NEW s \in Session, Kind(s) = "note", SaveNote(s)
    PROVE  IInv' /\ \A o \in Order : disk[o].status = "absent" => disk'[o] = disk[o]
<1> DEFINE o == job[s].row
           status == Column(job[s].entity.status, job[s].selected.status, disk[o].status)
           paid == Column(job[s].entity.paid, job[s].selected.paid, disk[o].paid)
           saved == [disk[o] EXCEPT !.status = status, !.paid = paid]
<1>1. TasksOK /\ TablesOK /\ Fits(s) /\ OrdersSettled /\ pc[s] = "save" /\ Finish(s)
      /\ shipped' = shipped
  BY TypeParts DEF IInv, EveryJobFits, SaveNote
<1>2. job[s] \in NoteJob /\ disk[o].status # "absent"
  BY <1>1, JobKinds DEF TasksOK, Kind, Fits
<1>3. o \in Order /\ job[s].entity \in PlacedRow /\ disk[o] \in PlacedRow
  BY <1>1, <1>2, OrderRows DEF NoteJob
<1>4. DB!UpdateAndCommit(s, o, saved)
  BY <1>1, <1>3, VisibleOrder DEF SaveNote
<1>5. status \in Status /\ paid \in BOOLEAN
  BY <1>3 DEF Column, PlacedRow
<1>6. saved \in PlacedRow /\ saved.number = disk[o].number /\ saved.status # "absent"
  BY <1>3, <1>5 DEF PlacedRow, Status
<1>7. RowOK(o, saved) /\ o \in Row /\ o # Store
  BY <1>3, <1>6, Tables DEF RowOK, OrderRow
<1>8. pc[s] # "insert" /\ shipped' \subseteq Order
  BY <1>1 DEF IInv, TypeOK
<1>9. IInv' /\ \A q \in Order : disk'[q] = (IF q = o THEN saved ELSE disk[q])
  <2> HIDE DEF saved
  <2>1. QED
    BY <1>1, <1>2, <1>4, <1>6, <1>7, <1>8, LastUpdateStep
<1>10. QED
  BY <1>2, <1>9

\* A store save gives the store the counter it has or one it had: both follow a
\* number that was given.
LEMMA SaveStoreStep ==
    ASSUME IInv, NEW s \in Session, Kind(s) = "store", SaveStore(s)
    PROVE  /\ IInv'
           /\ \A r \in Row \ {Store} : holder[r] # s => disk'[r] = disk[r]
           /\ \A o \in Order : disk'[o] = disk[o]
           /\ disk'[Store] \in {disk[Store], job[s].entity}
<1> DEFINE counter == Column(job[s].entity, job[s].selected, DB!Visible(s, Store))
<1>1. /\ TasksOK /\ TablesOK /\ Fits(s) /\ OrdersSettled /\ pc[s] = "save" /\ Finish(s)
      /\ shipped' = shipped /\ DB!UpdateAndCommit(s, Store, counter)
  BY TypeParts DEF IInv, EveryJobFits, SaveStore
<1>2. /\ job[s] \in StoreJob /\ s \in StoreEdits
      /\ FollowsANumber(job[s].entity) /\ FollowsANumber(disk[Store])
  BY <1>1, JobKinds DEF TasksOK, Kind, Fits, IInv, GaplessNumbers
<1>3. holder[Store] = NoSession /\ \A t \in Session : pc[t] # "insert"
  BY <1>1, SessionsAreReal DEF IInv, NumberLock, DB!UpdateAndCommit, DB!Free
<1>4. DB!Visible(s, Store) = disk[Store]
  BY <1>3, SessionsAreReal DEF DB!Visible
<1>5. counter \in {disk[Store], job[s].entity} /\ FollowsANumber(counter)
  BY <1>2, <1>4 DEF Column
<1>6. counter \in Nat /\ counter >= 1
  <2>1. counter \in Nat
    BY <1>1, <1>2, <1>5, Tables DEF StoreJob, TablesOK, RowOK
  <2>2. \A o \in Placed : disk[o].number >= 1
    BY DEF IInv, GaplessNumbers
  <2>3. QED
    BY <1>5, <2>1, <2>2 DEF FollowsANumber
<1> HIDE DEF counter
<1>7. /\ \A q \in Row :
           /\ disk'[q] = (IF q = Store THEN counter ELSE IF holder[q] = s THEN live[q] ELSE disk[q])
           /\ live'[q] = (IF q = Store THEN counter ELSE live[q])
           /\ holder'[q] = (IF holder[q] = s THEN NoSession ELSE holder[q])
      /\ DOMAIN disk' = Row /\ DOMAIN live' = Row
  BY <1>1 DEF TablesOK, DB!UpdateAndCommit, DB!Release, DB!Visible
<1>8. RowOK(Store, counter)
  BY <1>6, Tables DEF RowOK
<1>9. TablesOK'
  BY <1>1, <1>7, <1>8 DEF TablesOK, DB!UpdateAndCommit, DB!Release
<1>10. OrdersSettled' /\ OrdersKept /\ \A o \in Order : disk'[o] = disk[o]
  BY <1>1, <1>7, Tables, SessionsAreReal DEF OrdersSettled, OrdersKept
<1>11. TasksOK' /\ OthersKept(s) /\ Fits(s)' /\ pc'[s] \in {"idle", "done"} /\ StaysDone(s)
  BY <1>1, FinishFits
<1>12. pc'[s] = "done"
  BY <1>1, <1>2 DEF Finish, FormRequests, TasksOK
<1>13. disk'[Store] = counter /\ holder'[Store] = NoSession
  BY <1>3, <1>7, Tables, SessionsAreReal
<1>14. NumberLock'
  BY <1>3, <1>6, <1>11, <1>13, SessionsAreReal DEF NumberLock, OthersKept
<1>15. GaplessNumbers'
  <2>1. FollowsANumber(disk'[Store])
    BY <1>5, <1>13
  <2>2. QED
    BY <1>2, <1>10, <1>11, <1>12, <2>1, NumbersKept
<1>16. EveryJobFits'
  BY <1>10, <1>11, OthersFit
<1>17. TypeOK'
  BY <1>1, <1>9, <1>11, TypeParts DEF TypeOK, TablesOK, TasksOK, Label, IInv
<1>18. QED
  BY <1>5, <1>7, <1>9, <1>10, <1>13, <1>14, <1>15, <1>16, <1>17 DEF IInv

\* A product save mixes two product rows into a product row.
LEMMA SaveProductStep ==
    ASSUME IInv, NEW s \in Session, Kind(s) = "product", SaveProduct(s)
    PROVE  IInv' /\ \A o \in Order : disk'[o] = disk[o]
<1> DEFINE p == job[s].row
           row == DB!Visible(s, p)
           e == job[s].entity
           q == job[s].selected
           saved == [row EXCEPT
                       !.aggregate = Column(e.aggregate, q.aggregate, @),
                       !.active = Column(e.active, q.active, @),
                       !.deleted = Column(e.deleted, q.deleted, @)]
<1>1. TasksOK /\ TablesOK /\ Finish(s) /\ DB!UpdateAndCommit(s, p, saved)
  BY TypeParts DEF IInv, SaveProduct
<1>2. pc[s] # "insert" /\ shipped' \subseteq Order
  BY DEF IInv, TypeOK, SaveProduct
<1>3. p \in Product /\ e \in ProductRow
  BY <1>1, JobKinds DEF TasksOK, Kind, ProductJob
<1>4. row \in ProductRow
  BY <1>1, <1>3, Tables, VisibleOK DEF RowOK
<1>5. saved \in ProductRow
  BY <1>3, <1>4 DEF Column, ProductRow
<1>6. RowOK(p, saved) /\ p \in Row /\ p # Store /\ p \notin Order
  BY <1>3, <1>5, Tables DEF RowOK
<1>7. QED
  <2> HIDE DEF saved, p
  <2>1. QED
    BY <1>1, <1>2, <1>6, LastUpdateStep

\* A variant save mixes two variant rows into a variant row.
LEMMA SaveVariantStep ==
    ASSUME IInv, NEW s \in Session, Kind(s) = "variant", SaveVariant(s)
    PROVE  IInv'
<1> DEFINE v == job[s].row
           row == DB!Visible(s, v)
           e == job[s].entity
           q == job[s].selected
           saved == [row EXCEPT
                       !.stock = Column(e.stock, q.stock, @),
                       !.deleted = Column(e.deleted, q.deleted, @)]
<1>1. TasksOK /\ TablesOK /\ Fits(s) /\ pc[s] = "save" /\ shipped' = shipped
      /\ UNCHANGED <<job, todo, sums>> /\ DB!Update(s, v, saved)
      /\ stale' = [stale EXCEPT ![s] = {ProductOf[v]}] /\ pc' = [pc EXCEPT ![s] = "select"]
  BY TypeParts DEF IInv, EveryJobFits, SaveVariant, Goto
<1>2. v \in Variant /\ e \in VariantRow
  BY <1>1, JobKinds DEF TasksOK, Kind, VariantJob
<1>3. row \in VariantRow
  BY <1>1, <1>2, Tables, VisibleOK DEF RowOK
<1>4. saved \in VariantRow
  BY <1>2, <1>3 DEF Column, VariantRow
<1>5. RowOK(v, saved)
  BY <1>2, <1>4, Tables DEF RowOK
<1>6. TasksOK'
  BY <1>1, <1>2, CatalogIsSound DEF TasksOK, Label
<1>7. OthersKept(s) /\ pc'[s] = "select"
  BY <1>1 DEF TasksOK, OthersKept
<1>8. Fits(s)'
  BY <1>1, <1>7 DEF Fits, Kind
<1>9. QED
  <2> HIDE DEF saved, v
  <2>1. QED
    BY <1>1, <1>2, <1>5, <1>6, <1>7, <1>8, CatalogStep

-----------------------------------------------------------------------------
\* One lemma per action: soft deletes.

\* A variant's removal is taken up.
LEMMA LoadForVariantRemovalStep ==
    ASSUME IInv, NEW s \in VariantRemovals, LoadForVariantRemoval(s)
    PROVE  IInv'
<1>1. s \in Session /\ TasksOK
  BY TypeParts DEF Session, FormRequests, IInv
<1>2. PICK v \in Variant :
        Start(s, "remove", [kind |-> "removeVariant", row |-> v], <<>>)
  BY DEF LoadForVariantRemoval
<1> DEFINE loaded == [kind |-> "removeVariant", row |-> v]
<1>3. loaded \in Job
  BY DEF Job, VariantRemovalJob
<1>4. job'[s] = loaded /\ pc'[s] = "remove"
  BY <1>1, <1>2 DEF TasksOK, Start, Goto
<1>5. Fits(s)'
  BY <1>4 DEF Fits, Kind
<1>6. QED
  BY <1>1, <1>2, <1>3, <1>5, StartStep, EmptySeq DEF Label

\* A product's removal is taken up with its variants in some order.
LEMMA LoadForProductRemovalStep ==
    ASSUME IInv, NEW s \in ProductRemovals, LoadForProductRemoval(s)
    PROVE  IInv'
<1>1. s \in Session /\ TasksOK
  BY TypeParts DEF Session, FormRequests, IInv
<1>2. PICK p \in Product :
        \E scan \in [1..Cardinality({v \in Variant : ProductOf[v] = p})
                       -> {v \in Variant : ProductOf[v] = p}] :
          Start(s, "remove", [kind |-> "removeProduct", row |-> p, left |-> scan], <<>>)
  BY DEF LoadForProductRemoval
<1> DEFINE variants == {v \in Variant : ProductOf[v] = p}
<1>3. PICK scan \in [1..Cardinality(variants) -> variants] :
        Start(s, "remove", [kind |-> "removeProduct", row |-> p, left |-> scan], <<>>)
  BY <1>2
<1> DEFINE loaded == [kind |-> "removeProduct", row |-> p, left |-> scan]
<1>4. scan \in Seq(Variant)
  <2>1. IsFiniteSet(variants)
    BY CatalogIsSound, FS_Subset
  <2>2. Cardinality(variants) \in Nat
    BY <2>1, FS_CardinalityType
  <2>3. scan \in [1..Cardinality(variants) -> Variant]
    OBVIOUS
  <2>4. QED
    BY <2>2, <2>3, SeqDef
<1>5. loaded \in Job
  BY <1>4 DEF Job, ProductRemovalJob
<1>6. job'[s] = loaded /\ pc'[s] = "remove"
  BY <1>1, <1>3 DEF TasksOK, Start, Goto
<1>7. Fits(s)'
  BY <1>6 DEF Fits, Kind
<1>8. QED
  BY <1>1, <1>3, <1>5, <1>7, StartStep, EmptySeq DEF Label

\* Removing a variant sets its deletedAt only.
LEMMA RemoveVariantStep ==
    ASSUME IInv, NEW s \in Session, Kind(s) = "removeVariant", RemoveVariant(s)
    PROVE  IInv'
<1> DEFINE v == job[s].row
           removed == [DB!Visible(s, v) EXCEPT !.deleted = TRUE]
<1>1. TasksOK /\ TablesOK /\ Fits(s) /\ pc[s] = "remove" /\ shipped' = shipped
      /\ UNCHANGED <<job, todo, sums>> /\ DB!Update(s, v, removed)
      /\ stale' = [stale EXCEPT ![s] = {ProductOf[v]}] /\ pc' = [pc EXCEPT ![s] = "select"]
  BY TypeParts DEF IInv, EveryJobFits, RemoveVariant, Goto
<1>2. v \in Variant
  BY <1>1, JobKinds DEF TasksOK, Kind, VariantRemovalJob
<1>3. RowOK(v, removed)
  BY <1>1, <1>2, Tables, VisibleOK DEF RowOK, VariantRow
<1>4. TasksOK'
  BY <1>1, <1>2, CatalogIsSound DEF TasksOK, Label
<1>5. OthersKept(s) /\ pc'[s] = "select"
  BY <1>1 DEF TasksOK, OthersKept
<1>6. Fits(s)'
  BY <1>1, <1>5 DEF Fits, Kind
<1>7. QED
  <2> HIDE DEF removed, v
  <2>1. QED
    BY <1>1, <1>2, <1>3, <1>4, <1>5, <1>6, CatalogStep

\* Removing a product's next variant sets its deletedAt only.
LEMMA RemoveProductVariantStep ==
    ASSUME IInv, NEW s \in Session, Kind(s) = "removeProduct", RemoveProductVariant(s)
    PROVE  IInv'
<1> DEFINE v == Head(job[s].left)
           removed == [DB!Visible(s, v) EXCEPT !.deleted = TRUE]
<1>1. TasksOK /\ TablesOK /\ Fits(s) /\ pc[s] = "remove" /\ shipped' = shipped
      /\ UNCHANGED <<pc, todo, stale, sums>> /\ DB!Update(s, v, removed)
      /\ job[s].left # <<>> /\ job' = [job EXCEPT ![s].left = Tail(@)]
  BY TypeParts DEF IInv, EveryJobFits, RemoveProductVariant
<1>2. job[s] \in ProductRemovalJob /\ job[s].left \in Seq(Variant)
  BY <1>1, JobKinds DEF TasksOK, Kind, ProductRemovalJob
<1>3. v \in Variant /\ Tail(job[s].left) \in Seq(Variant)
  BY <1>1, <1>2, HeadTailProperties
<1>4. RowOK(v, removed)
  BY <1>1, <1>3, Tables, VisibleOK DEF RowOK, VariantRow
<1>5. [job[s] EXCEPT !.left = Tail(@)] \in Job
  BY <1>2, <1>3 DEF Job, ProductRemovalJob
<1>6. TasksOK'
  BY <1>1, <1>5 DEF TasksOK
<1>7. OthersKept(s) /\ pc'[s] = "remove" /\ job'[s].kind = "removeProduct"
  BY <1>1, <1>2 DEF TasksOK, OthersKept, ProductRemovalJob
<1>8. Fits(s)'
  BY <1>7 DEF Fits, Kind
<1>9. QED
  <2> HIDE DEF removed, v
  <2>1. QED
    BY <1>1, <1>3, <1>4, <1>6, <1>7, <1>8, CatalogStep

\* Removing a product sets its deletedAt and commits no order.
LEMMA RemoveProductStep ==
    ASSUME IInv, NEW s \in Session, Kind(s) = "removeProduct", RemoveProduct(s)
    PROVE  IInv' /\ \A o \in Order : disk'[o] = disk[o]
<1> DEFINE p == job[s].row
           removed == [DB!Visible(s, p) EXCEPT !.deleted = TRUE]
<1>1. TasksOK /\ TablesOK /\ Finish(s) /\ DB!UpdateAndCommit(s, p, removed)
  BY TypeParts DEF IInv, RemoveProduct
<1>2. pc[s] # "insert" /\ shipped' \subseteq Order
  BY DEF IInv, TypeOK, RemoveProduct
<1>3. p \in Product
  BY <1>1, JobKinds DEF TasksOK, Kind, ProductRemovalJob
<1>4. RowOK(p, removed) /\ p \in Row /\ p # Store /\ p \notin Order
  BY <1>1, <1>3, Tables, VisibleOK DEF RowOK, ProductRow
<1>5. QED
  <2> HIDE DEF removed, p
  <2>1. QED
    BY <1>1, <1>2, <1>4, LastUpdateStep

-----------------------------------------------------------------------------
\* The inductive step.

\* What one step of session s may do to an order row.
OrderEffect(s) ==
    \A o \in Order :
      \/ disk'[o] = disk[o]
      \/ /\ Kind(s) = "checkout" /\ o = s
         /\ disk[o].status = "absent" /\ disk'[o].status = "pending"
      \/ /\ Kind(s) = "status" /\ pc[s] = "apply" /\ o = job[s].order
         /\ disk[o].status = job[s].seen.status
         /\ disk'[o].status = job[s].to
         /\ LegalTransition(job[s].seen.status, job[s].to)
      \/ Kind(s) = "note" /\ disk[o].status # "absent"

\* Every kind of request is taken up soundly.
LEMMA RequestStep ==
    ASSUME IInv, NEW s \in Session, Request(s)
    PROVE  IInv' /\ disk' = disk
<1>1. CASE s \in Checkouts /\ LoadLines(s)
  BY <1>1, LoadLinesStep DEF LoadLines, Start
<1>2. CASE s \in OwnerRequests /\ UpdateStatus(s)
  <2>1. PICK o \in Order, to \in Status : ChangeStatus(s, o, to)
    BY <1>2 DEF UpdateStatus
  <2>2. QED
    BY <1>2, <2>1, ChangeStatusStep DEF ChangeStatus, Start, StatusRequests
<1>3. CASE s \in CustomerRequests /\ CancelMine(s)
  <2>1. PICK o \in Order :
          disk[o].status \in CUSTOMER_CANCELLABLE_STATUSES /\ ChangeStatus(s, o, "cancelled")
    BY <1>3 DEF CancelMine
  <2>2. "cancelled" \in Status
    BY DEF Status
  <2>3. QED
    BY <1>3, <2>1, <2>2, ChangeStatusStep DEF ChangeStatus, Start, StatusRequests
<1>4. CASE s \in NoteRequests /\ LoadForNote(s)
  BY <1>4, LoadForNoteStep DEF LoadForNote, LoadToSave, Start
<1>5. CASE s \in VariantEdits /\ LoadForVariantEdit(s)
  BY <1>5, LoadForVariantEditStep DEF LoadForVariantEdit, LoadToSave, Start
<1>6. CASE s \in ProductEdits /\ LoadForProductEdit(s)
  BY <1>6, LoadForProductEditStep DEF LoadForProductEdit, LoadToSave, Start
<1>7. CASE s \in VariantRemovals /\ LoadForVariantRemoval(s)
  BY <1>7, LoadForVariantRemovalStep DEF LoadForVariantRemoval, Start
<1>8. CASE s \in ProductRemovals /\ LoadForProductRemoval(s)
  BY <1>8, LoadForProductRemovalStep DEF LoadForProductRemoval, Start
<1>9. CASE s \in StoreEdits /\ LoadForStoreEdit(s)
  BY <1>9, LoadForStoreEditStep DEF LoadForStoreEdit, LoadToSave, Start
<1>10. QED
  BY <1>1, <1>2, <1>3, <1>4, <1>5, <1>6, <1>7, <1>8, <1>9 DEF Request

\* Recalculating a product, for whichever handler.
LEMMA RecalculateStep ==
    ASSUME IInv, NEW s \in Session, Recalculate(s)
    PROVE  IInv' /\ disk' = disk
BY SelectSumsStep, UpdateAggregateStep
   DEF Recalculate, SelectSums, UpdateAggregate, DB!Update

\* Every step of a checkout preserves the invariant.
LEMMA CheckoutStepOK ==
    ASSUME IInv, NEW c \in Session, Kind(c) = "checkout", CheckoutStep(c)
    PROVE  IInv' /\ OrderEffect(c)
<1>1. CASE ReserveLine(c)
  BY <1>1, ReserveLineStep DEF OrderEffect, ReserveLine, DB!Update
<1>2. CASE OutOfStock(c)
  BY <1>2, ThrowStep DEF OrderEffect, OutOfStock
<1>3. CASE Recalculate(c)
  BY <1>3, RecalculateStep DEF OrderEffect
<1>4. CASE TakeOrderNumber(c)
  BY <1>4, TakeOrderNumberStep DEF OrderEffect, TakeOrderNumber, DB!Update
<1>5. CASE InsertOrder(c)
  BY <1>5, InsertOrderStep DEF OrderEffect
<1>6. CASE NumberTaken(c)
  BY <1>6, ThrowStep DEF OrderEffect, NumberTaken
<1>7. QED
  BY <1>1, <1>2, <1>3, <1>4, <1>5, <1>6 DEF CheckoutStep

\* Every step of a status change preserves the invariant.
LEMMA StatusStepOK ==
    ASSUME IInv, NEW r \in Session, Kind(r) = "status", StatusStep(r)
    PROVE  IInv' /\ OrderEffect(r)
<1>1. CASE RestoreLine(r)
  BY <1>1, RestoreLineStep DEF OrderEffect, RestoreLine, DB!Update
<1>2. CASE Recalculate(r)
  BY <1>2, RecalculateStep DEF OrderEffect
<1>3. CASE ApplyStatus(r)
  <2>1. pc[r] = "apply"
    BY <1>3 DEF ApplyStatus
  <2>2. QED
    BY <1>3, <2>1, ApplyStatusStep DEF OrderEffect
<1>4. CASE StatusConflict(r)
  BY <1>4, ThrowStep DEF OrderEffect, StatusConflict
<1>5. QED
  BY <1>1, <1>2, <1>3, <1>4 DEF StatusStep

\* Every step of a dashboard form preserves the invariant.
LEMMA FormStepOK ==
    ASSUME IInv, NEW s \in Session, HandlerStep(s), Kind(s) \notin {"checkout", "status"}
    PROVE  IInv' /\ OrderEffect(s)
<1>1. CASE Kind(s) \in {"note", "variant", "product", "store"} /\ SelectToSave(s)
  BY <1>1, SelectToSaveStep DEF OrderEffect, SelectToSave
<1>2. CASE Kind(s) = "note" /\ SaveNote(s)
  <2>1. \A o \in Order : disk'[o] = disk[o] \/ disk[o].status # "absent"
    BY <1>2, SaveNoteStep
  <2>2. QED
    BY <1>2, <2>1, SaveNoteStep DEF OrderEffect
<1>3. CASE Kind(s) = "product" /\ SaveProduct(s)
  BY <1>3, SaveProductStep DEF OrderEffect
<1>4. CASE Kind(s) = "variant" /\ SaveVariant(s)
  BY <1>4, SaveVariantStep DEF OrderEffect, SaveVariant, DB!Update
<1>5. CASE Recalculate(s)
  BY <1>5, RecalculateStep DEF OrderEffect
<1>6. CASE CommitHandler(s)
  BY <1>6, CommitStep DEF OrderEffect
<1>7. CASE Kind(s) = "removeVariant" /\ RemoveVariant(s)
  BY <1>7, RemoveVariantStep DEF OrderEffect, RemoveVariant, DB!Update
<1>8. CASE Kind(s) = "removeProduct" /\ RemoveProductVariant(s)
  BY <1>8, RemoveProductVariantStep DEF OrderEffect, RemoveProductVariant, DB!Update
<1>9. CASE Kind(s) = "removeProduct" /\ RemoveProduct(s)
  BY <1>9, RemoveProductStep DEF OrderEffect
<1>10. CASE Kind(s) = "store" /\ SaveStore(s)
  BY <1>10, SaveStoreStep DEF OrderEffect
<1>11. QED
  BY <1>1, <1>2, <1>3, <1>4, <1>5, <1>6, <1>7, <1>8, <1>9, <1>10
     DEF HandlerStep, VariantEditStep, VariantRemovalStep

\* Every step of a session preserves the invariant.
LEMMA SessionStep ==
    ASSUME IInv, NEW s \in Session,
           Request(s) \/ HandlerStep(s) \/ DeadlockVictim(s) \/ ConnectionLost(s)
    PROVE  IInv' /\ OrderEffect(s)
<1>1. CASE Request(s)
  BY <1>1, RequestStep DEF OrderEffect
<1>2. CASE HandlerStep(s)
  <2>1. CASE Kind(s) = "checkout"
    <3>1. CheckoutStep(s)
      BY <1>2, <2>1 DEF HandlerStep
    <3>2. QED
      BY <2>1, <3>1, CheckoutStepOK
  <2>2. CASE Kind(s) = "status"
    <3>1. StatusStep(s)
      BY <1>2, <2>2 DEF HandlerStep
    <3>2. QED
      BY <2>2, <3>1, StatusStepOK
  <2>3. CASE Kind(s) \notin {"checkout", "status"}
    BY <1>2, <2>3, FormStepOK
  <2>4. QED
    BY <2>1, <2>2, <2>3
<1>3. CASE DeadlockVictim(s) \/ ConnectionLost(s)
  BY <1>3, ThrowStep DEF OrderEffect, DeadlockVictim, ConnectionLost
<1>4. QED
  BY <1>1, <1>2, <1>3

-----------------------------------------------------------------------------
\* The theorems.

\* A step of one session moves no other.
LEMMA OneMoves ==
    ASSUME TasksOK, NEW s \in Session,
           Request(s) \/ HandlerStep(s) \/ DeadlockVictim(s) \/ ConnectionLost(s)
    PROVE  OthersKept(s)
<1>1. ASSUME NEW label, NEW loaded, NEW lines, Start(s, label, loaded, lines)
      PROVE  OthersKept(s)
  BY <1>1 DEF Start, Goto, TasksOK, OthersKept
<1>2. ASSUME Request(s) PROVE OthersKept(s)
  BY <1>1, <1>2 DEF Request, LoadLines, UpdateStatus, CancelMine, ChangeStatus, LoadForNote,
       LoadForVariantEdit, LoadForProductEdit, LoadForStoreEdit, LoadForVariantRemoval,
       LoadForProductRemoval, LoadToSave
<1>3. ASSUME Finish(s) PROVE OthersKept(s)
  BY <1>3 DEF Finish, TasksOK, OthersKept
<1>4. ASSUME NEW label, pc' = pc \/ Goto(s, label), job' = job,
             todo' = todo \/ todo' = [todo EXCEPT ![s] = Tail(@)]
      PROVE  OthersKept(s)
  BY <1>4 DEF Goto, TasksOK, OthersKept
<1>5. ASSUME Recalculate(s) PROVE OthersKept(s)
  <2>1. CASE SelectSums(s)
    BY <1>4, <2>1 DEF SelectSums
  <2>2. CASE UpdateAggregate(s)
    BY <1>4, <2>2 DEF UpdateAggregate
  <2>3. QED
    BY <1>5, <2>1, <2>2 DEF Recalculate
<1>6. ASSUME NEW lines, LineDone(s, lines), job' = job PROVE OthersKept(s)
  BY <1>4, <1>6 DEF LineDone
<1>7. ASSUME CheckoutStep(s) PROVE OthersKept(s)
  <2>1. CASE ReserveLine(s)
    BY <1>6, <2>1 DEF ReserveLine
  <2>2. CASE OutOfStock(s) \/ InsertOrder(s) \/ NumberTaken(s)
    BY <1>3, <2>2 DEF OutOfStock, Throw, InsertOrder, NumberTaken
  <2>3. CASE TakeOrderNumber(s)
    BY <2>3 DEF TakeOrderNumber, Goto, TasksOK, OthersKept
  <2>4. QED
    BY <1>5, <1>7, <2>1, <2>2, <2>3 DEF CheckoutStep
<1>8. ASSUME StatusStep(s) PROVE OthersKept(s)
  BY <1>3, <1>5, <1>6, <1>8 DEF StatusStep, RestoreLine, ApplyStatus, StatusConflict, Throw
<1>9. ASSUME SelectToSave(s) \/ RemoveProductVariant(s) PROVE OthersKept(s)
  BY <1>9 DEF SelectToSave, RemoveProductVariant, Goto, TasksOK, OthersKept
<1>10. ASSUME SaveVariant(s) \/ RemoveVariant(s) PROVE OthersKept(s)
  BY <1>4, <1>10 DEF SaveVariant, RemoveVariant
<1>11. ASSUME SaveNote(s) \/ SaveProduct(s) \/ SaveStore(s) \/ RemoveProduct(s) \/ CommitHandler(s)
       PROVE  OthersKept(s)
  BY <1>3, <1>11 DEF SaveNote, SaveProduct, SaveStore, RemoveProduct, CommitHandler
<1>12. ASSUME HandlerStep(s) PROVE OthersKept(s)
  BY <1>5, <1>7, <1>8, <1>9, <1>10, <1>11, <1>12
     DEF HandlerStep, VariantEditStep, VariantRemovalStep
<1>13. QED
  BY <1>2, <1>3, <1>12 DEF DeadlockVictim, ConnectionLost, Throw

\* The invariant holds at first.
LEMMA InitIInv ==
    Init => IInv
<1> SUFFICES ASSUME Init PROVE IInv
  OBVIOUS
<1>1. /\ \A v \in Variant : disk[v] = [stock |-> InitialStock[v], deleted |-> FALSE]
      /\ \A p \in Product :
           disk[p] = [aggregate |-> {<<v, InitialStock[v]>> :
                                        v \in {w \in Variant : ProductOf[w] = p}},
                      active |-> TRUE, deleted |-> FALSE]
      /\ \A o \in Order : disk[o] = AbsentOrder
      /\ disk[Store] = 1
      /\ DOMAIN disk = Row /\ live = disk
  BY Tables DEF Init
<1>2. TablesOK
  <2>1. \A v \in Variant : disk[v] \in VariantRow
    <3> TAKE v \in Variant
    <3>1. disk[v] = [stock |-> InitialStock[v], deleted |-> FALSE]
      BY <1>1
    <3>2. InitialStock[v] \in Nat
      BY CatalogIsSound
    <3>3. QED
      BY <3>1, <3>2 DEF VariantRow
  <2>2. \A p \in Product : disk[p] \in ProductRow
    <3> TAKE p \in Product
    <3> DEFINE counted == {<<v, InitialStock[v]>> : v \in {w \in Variant : ProductOf[w] = p}}
    <3>1. disk[p] = [aggregate |-> counted, active |-> TRUE, deleted |-> FALSE]
      BY <1>1
    <3>2. \A v \in Variant : InitialStock[v] \in Nat
      BY CatalogIsSound
    <3>3. counted \in Aggregate
      BY <3>2 DEF Aggregate
    <3>4. QED
      BY <3>1, <3>3 DEF ProductRow
  <2>3. \A r \in Row : RowOK(r, disk[r])
    BY <1>1, <2>1, <2>2, Tables DEF RowOK, OrderRow
  <2>4. QED
    BY <1>1, <2>3 DEF TablesOK, Init
<1>3. TasksOK /\ shipped \subseteq Order
  BY EmptySeq DEF Init, TasksOK, Label, Job, Aggregate
<1>4. EveryJobFits
  BY DEF Init, EveryJobFits, Fits, Kind, NoJob
<1>5. OrdersSettled
  BY Tables DEF Init, OrdersSettled
<1>6. NumberLock
  BY <1>1, Tables, SessionsAreReal DEF Init, NumberLock
<1>7. GaplessNumbers
  <2>1. Placed = {}
    BY <1>1 DEF Placed, AbsentOrder
  <2>2. QED
    BY <1>1, <2>1 DEF GaplessNumbers, FollowsANumber
<1>8. QED
  BY <1>2, <1>3, <1>4, <1>5, <1>6, <1>7, TypeParts DEF IInv

\* Every step preserves the invariant.
LEMMA NextIInv ==
    IInv /\ [Next]_vars => IInv'
<1> SUFFICES ASSUME IInv, [Next]_vars PROVE IInv'
  OBVIOUS
<1>1. CASE Next
  BY <1>1, SessionStep DEF Next
<1>2. CASE UNCHANGED vars
  BY <1>2 DEF vars, IInv, TypeOK, EveryJobFits, Fits, Kind, OrdersSettled, NumberLock,
              GaplessNumbers, FollowsANumber, Placed
<1>3. QED
  BY <1>1, <1>2

\* The invariant holds throughout.
LEMMA Invariance == Spec => []IInv
<1>1. QED
  BY InitIInv, NextIInv, PTL DEF Spec

\* The tables and the handlers' memory keep their types whatever requests are
\* served and fail, in particular stock is never negative, in any version of a
\* variant: reserveStock takes units only under the condition that they are there.
THEOREM TypeCorrect == Spec => []TypeOK
<1>1. IInv => TypeOK
  BY DEF IInv
<1>2. QED
  BY Invariance, <1>1, PTL

\* However checkouts interleave, fail or are cut off, and whatever counter the
\* forms of the store write back, the orders carry the numbers from 1 on, each once:
\* takeOrderNumber locks the store row until the order is in the table, every
\* counter that is saved follows a number that was given, and the unique index
\* refuses one that was given already.
THEOREM NumbersAreGapless == Spec => []GaplessNumbers
<1>1. IInv => GaplessNumbers
  BY DEF IInv
<1>2. QED
  BY Invariance, <1>1, PTL

\* In a shop whose owner saves no notes, any number of concurrent status
\* changes and cancellations moves every order along the status machine only:
\* changeStatus writes under the condition that the status is the one it read.
THEOREM StatusMachineHolds ==
    ASSUME NoteRequests = {}
    PROVE  Spec => OrdersMoveLegally
<1> DEFINE Legal ==
      \A o \in Order :
         \/ disk'[o].status = disk[o].status
         \/ disk[o].status = "absent" /\ disk'[o].status = "pending"
         \/ LegalTransition(disk[o].status, disk'[o].status)
<1>1. ASSUME IInv, [Next]_vars PROVE Legal
  <2>1. CASE UNCHANGED vars
    BY <2>1 DEF vars
  <2>2. ASSUME NEW s \in Session,
               Request(s) \/ HandlerStep(s) \/ DeadlockVictim(s) \/ ConnectionLost(s)
        PROVE  Legal
    <3>1. OrderEffect(s)
      BY <1>1, <2>2, SessionStep
    <3>2. Kind(s) # "note"
      BY <1>1 DEF IInv, EveryJobFits, Fits
    <3>3. QED
      BY <3>1, <3>2 DEF OrderEffect
  <2>3. QED
    BY <1>1, <2>1, <2>2 DEF Next
<1>2. IInv /\ [Next]_vars => [Legal]_vars
  BY <1>1
<1>3. QED
  BY Invariance, <1>2, PTL DEF Spec, OrdersMoveLegally

\* A customer's cancellation takes effect on pending orders only, whatever the
\* owner did between the customer's read and the UPDATE: the status read is one
\* cancelMine accepts, and the UPDATE insists on it.
THEOREM CustomersCancelOnlyPendingHolds ==
    ASSUME CustomerRequests \cap OwnerRequests = {}
    PROVE  Spec => CustomersCancelOnlyPending
<1> DEFINE Safe ==
      \A r \in CustomerRequests, o \in Order :
         (pc[r] = "apply" /\ pc'[r] = "idle" /\ disk'[o] # disk[o])
           => disk[o].status \in CUSTOMER_CANCELLABLE_STATUSES
<1>1. ASSUME IInv, [Next]_vars PROVE Safe
  <2>1. SUFFICES ASSUME NEW r \in CustomerRequests, NEW o \in Order,
                        pc[r] = "apply", pc'[r] = "idle", disk'[o] # disk[o]
                 PROVE  disk[o].status \in CUSTOMER_CANCELLABLE_STATUSES
    OBVIOUS
  <2>2. r \in Session /\ r \notin OwnerRequests
    BY DEF Session, StatusRequests
  <2>3. PICK s \in Session :
          Request(s) \/ HandlerStep(s) \/ DeadlockVictim(s) \/ ConnectionLost(s)
    BY <1>1, <2>1 DEF Next, vars
  <2>4. s = r
    BY <1>1, <2>1, <2>2, <2>3, OneMoves, TypeParts DEF IInv, OthersKept
  <2>5. Kind(r) = "status"
    BY <1>1, <2>1, <2>2, JobKinds DEF IInv, EveryJobFits, Fits, Kind, TypeOK
  <2>6. o = job[r].order /\ disk[o].status = job[r].seen.status
    BY <1>1, <2>1, <2>3, <2>4, <2>5, SessionStep DEF OrderEffect
  <2>7. QED
    BY <1>1, <2>2, <2>5, <2>6 DEF IInv, EveryJobFits, Fits
<1>2. IInv /\ [Next]_vars => [Safe]_vars
  BY <1>1
<1>3. QED
  BY Invariance, <1>2, PTL DEF Spec, CustomersCancelOnlyPending
=============================================================================
