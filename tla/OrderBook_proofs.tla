-------------------------- MODULE OrderBook_proofs --------------------------
(***************************************************************************)
(* Orders implements OrderBook, for any number of sessions, rows and       *)
(* requests, and what follows: no unit of stock is lost or invented, and   *)
(* the derived columns of the products stay honest while they can.         *)
(*                                                                         *)
(* What ties a handler in the middle of its statements to the atomic order *)
(* book is what it holds locked: exactly the variants of the lines it has  *)
(* already written, each off by the quantity of its line.  So a commit     *)
(* publishes either the units of a whole order or none.                    *)
(***************************************************************************)
EXTENDS Orders_proofs, Sums_proofs

VariantsOf(lines) == {lines[i].variant : i \in DOMAIN lines}

\* A handler that writes the lines of its cart: those it has written are the
\* variants it holds, the others are the lines left.
HoldsWrittenLines(s) ==
    LET cart == job[s].cart
    IN  /\ NoDuplicateVariants(cart)
        /\ NoDuplicateVariants(todo[s])
        /\ \A j \in DOMAIN todo[s] : \E i \in DOMAIN cart : todo[s][j] = cart[i]
        /\ \A v \in Variant :
             holder[v] = s <=> v \in VariantsOf(cart) \ VariantsOf(todo[s])
        /\ pc[s] # "lines" => todo[s] = <<>>

HoldsNothing(s) == \A v \in Variant : holder[v] # s

CheckoutHolds(c) ==
    /\ job[c].cart \in Carts /\ job[c].method = "cod"
    /\ HoldsWrittenLines(c)
    /\ \A v \in Variant : holder[v] = c =>
         /\ ~disk[v].deleted
         /\ disk[v].stock = live[v].stock + Units(job[c].cart, v)

StatusHolds(r) ==
    /\ disk[job[r].order].status # "absent"
    /\ job[r].cart = disk[job[r].order].cart
    /\ IF RestoresStock(job[r].seen.status, job[r].to)
       THEN /\ HoldsWrittenLines(r)
            /\ \A v \in Variant : holder[v] = r =>
                 live[v].stock = disk[v].stock + Units(job[r].cart, v)
       ELSE pc[r] = "apply" /\ HoldsNothing(r)

\* What the handler of session s holds locked, by the kind of request.
Holds(s) ==
    /\ Kind(s) = "checkout" => CheckoutHolds(s)
    /\ Kind(s) = "status" => StatusHolds(s)
    /\ Kind(s) = "variant" => s \in VariantEdits
    /\ Kind(s) \in {"removeVariant", "removeProduct"} =>
         \A v \in Variant : holder[v] = s => live[v].stock = disk[v].stock
    /\ Kind(s) \in {"none", "note", "product", "store"} => HoldsNothing(s)

\* An order in the table has the cart it was placed with.
PlacedOK(o) ==
    disk[o].status # "absent" =>
      /\ disk[o].cart \in Carts
      /\ NoDuplicateVariants(disk[o].cart)
      /\ disk[o].method = "cod"

HInv ==
    /\ \A s \in Session : Holds(s)
    /\ \A o \in Order : PlacedOK(o)

\* Without note saves the payment column follows the status, also in the row a
\* status change remembers.
PaidInv ==
    /\ PaidExactlyWhenDelivered
    /\ \A s \in Session : Kind(s) = "status" =>
         /\ job[s].seen.method = "cod"
         /\ job[s].seen.paid <=> job[s].seen.status = "delivered"

-----------------------------------------------------------------------------
\* Carts.

\* A storefront's cart is a list of lines.
LEMMA CartLines ==
    ASSUME NEW cart \in Carts
    PROVE  cart \in Seq(Line) /\ cart # <<>>
BY CatalogIsSound DEF Line

\* The units of a variant in a list of lines: the quantity of its only line, or
\* none.
LEMMA UnitsOfLine ==
    ASSUME NEW lines \in Seq(Line), NEW v \in Variant
    PROVE  /\ Units(lines, v) \in Nat
           /\ v \notin VariantsOf(lines) => Units(lines, v) = 0
           /\ \A i \in DOMAIN lines :
                NoDuplicateVariants(lines) /\ lines[i].variant = v
                  => Units(lines, v) = lines[i].quantity
<1>1. \A i \in DOMAIN lines : lines[i] \in Line
  BY LenProperties, ElementOfSeq
<1>2. \A i \in DOMAIN lines : lines[i].quantity \in Nat
  BY <1>1 DEF Line
<1>3. CASE v \in VariantsOf(lines)
  <2>1. \E i \in DOMAIN lines : lines[i].variant = v
    BY <1>3 DEF VariantsOf
  <2> DEFINE i == CHOOSE i \in DOMAIN lines : lines[i].variant = v
  <2>2. i \in DOMAIN lines /\ lines[i].variant = v /\ Units(lines, v) = lines[i].quantity
    BY <2>1 DEF Units
  <2> HIDE DEF i
  <2>3. QED
    BY <1>2, <1>3, <2>2 DEF NoDuplicateVariants
<1>4. CASE v \notin VariantsOf(lines)
  <2>1. ~\E i \in DOMAIN lines : lines[i].variant = v
    BY <1>4 DEF VariantsOf
  <2>2. QED
    BY <2>1 DEF Units
<1>5. QED
  BY <1>3, <1>4

\* The lines left after the first.
LEMMA LinesAfterFirst ==
    ASSUME NEW lines \in Seq(Line), lines # <<>>, NoDuplicateVariants(lines)
    PROVE  /\ NoDuplicateVariants(Tail(lines))
           /\ VariantsOf(Tail(lines)) = VariantsOf(lines) \ {Head(lines).variant}
           /\ Head(lines).variant \in VariantsOf(lines)
           /\ \A j \in DOMAIN Tail(lines) : j + 1 \in DOMAIN lines /\ Tail(lines)[j] = lines[j + 1]
           /\ 1 \in DOMAIN lines /\ Head(lines) = lines[1]
<1>1. /\ Len(lines) \in Nat \ {0} /\ DOMAIN lines = 1..Len(lines)
      /\ Tail(lines) \in Seq(Line) /\ Len(Tail(lines)) = Len(lines) - 1
      /\ \A j \in 1..Len(Tail(lines)) : Tail(lines)[j] = lines[j + 1]
      /\ DOMAIN Tail(lines) = 1..Len(Tail(lines))
      /\ Head(lines) = lines[1]
  BY LenProperties, EmptySeq, HeadTailProperties
<1>2. \A j \in DOMAIN Tail(lines) : j + 1 \in DOMAIN lines /\ Tail(lines)[j] = lines[j + 1]
  BY <1>1
<1>3. 1 \in DOMAIN lines
  BY <1>1
<1>4. NoDuplicateVariants(Tail(lines))
  <2>1. SUFFICES ASSUME NEW i \in DOMAIN Tail(lines), NEW j \in DOMAIN Tail(lines),
                        Tail(lines)[i].variant = Tail(lines)[j].variant
                 PROVE  i = j
    BY DEF NoDuplicateVariants
  <2>2. i + 1 = j + 1
    BY <1>2, <2>1 DEF NoDuplicateVariants
  <2>3. QED
    BY <1>1, <2>2
<1>5. ASSUME NEW v, v \in VariantsOf(Tail(lines))
      PROVE  v \in VariantsOf(lines) /\ v # Head(lines).variant
  <2>1. PICK j \in DOMAIN Tail(lines) : Tail(lines)[j].variant = v
    BY <1>5 DEF VariantsOf
  <2>2. j + 1 \in DOMAIN lines /\ lines[j + 1].variant = v /\ j + 1 # 1
    BY <1>1, <1>2, <2>1
  <2>3. QED
    BY <1>1, <1>3, <2>2 DEF VariantsOf, NoDuplicateVariants
<1>6. ASSUME NEW v, v \in VariantsOf(lines), v # Head(lines).variant
      PROVE  v \in VariantsOf(Tail(lines))
  <2>1. PICK i \in DOMAIN lines : lines[i].variant = v
    BY <1>6 DEF VariantsOf
  <2>2. i - 1 \in DOMAIN Tail(lines) /\ Tail(lines)[i - 1] = lines[i]
    BY <1>1, <1>6, <2>1
  <2>3. QED
    BY <2>1, <2>2 DEF VariantsOf
<1>7. Head(lines).variant \in VariantsOf(lines)
  BY <1>1, <1>3 DEF VariantsOf
<1>8. QED
  BY <1>1, <1>2, <1>3, <1>4, <1>5, <1>6, <1>7

-----------------------------------------------------------------------------
\* What a step of one session leaves to the others.

\* One statement of session s, as the tables see it.
Statement(s) ==
    \/ UNCHANGED <<disk, live, holder>>
    \/ \E r, version : DB!Update(s, r, version) \/ DB!UpdateAndCommit(s, r, version)
    \/ DB!Commit(s) \/ DB!Rollback(s)

\* The rows another session holds keep their holder and both versions.
OthersLocksKept(s) ==
    \A t \in Session \ {s}, v \in Variant \cup Product :
      /\ holder'[v] = t <=> holder[v] = t
      /\ holder[v] = t => disk'[v] = disk[v] /\ live'[v] = live[v]

\* No statement touches a row that another session holds.
LEMMA StatementKeepsLocks ==
    ASSUME TablesOK, NEW s \in Session, Statement(s)
    PROVE  OthersLocksKept(s)
<1> SUFFICES ASSUME NEW t \in Session \ {s}, NEW v \in Variant \cup Product
             PROVE  /\ holder'[v] = t <=> holder[v] = t
                    /\ holder[v] = t => disk'[v] = disk[v] /\ live'[v] = live[v]
  BY DEF OthersLocksKept
<1>1. v \in Row /\ t # NoSession /\ s # NoSession
  BY Tables, SessionsAreReal
<1>2. CASE UNCHANGED <<disk, live, holder>>
  BY <1>2
<1>3. ASSUME NEW r, NEW version, DB!Update(s, r, version)
      PROVE  /\ holder'[v] = t <=> holder[v] = t
             /\ holder[v] = t => disk'[v] = disk[v] /\ live'[v] = live[v]
  BY <1>1, <1>3 DEF TablesOK, DB!Update, DB!Free
<1>4. ASSUME NEW r, NEW version, DB!UpdateAndCommit(s, r, version)
      PROVE  /\ holder'[v] = t <=> holder[v] = t
             /\ holder[v] = t => disk'[v] = disk[v] /\ live'[v] = live[v]
  BY <1>1, <1>4 DEF TablesOK, DB!UpdateAndCommit, DB!Free, DB!Release, DB!Visible
<1>5. CASE DB!Commit(s)
  BY <1>1, <1>5 DEF TablesOK, DB!Commit, DB!Release, DB!Visible
<1>6. CASE DB!Rollback(s)
  BY <1>1, <1>6 DEF TablesOK, DB!Rollback, DB!Release
<1>7. QED
  BY <1>2, <1>3, <1>4, <1>5, <1>6 DEF Statement

\* Every step of a session is one statement of it.
LEMMA OneStatement ==
    ASSUME NEW s \in Session,
           Request(s) \/ HandlerStep(s) \/ DeadlockVictim(s) \/ ConnectionLost(s)
    PROVE  Statement(s)
<1>1. ASSUME Request(s) PROVE Statement(s)
  BY <1>1 DEF Request, LoadLines, UpdateStatus, CancelMine, ChangeStatus, LoadForNote,
       LoadForVariantEdit, LoadForProductEdit, LoadForStoreEdit, LoadForVariantRemoval,
       LoadForProductRemoval, LoadToSave, Start, Statement
<1>2. ASSUME Throw(s) PROVE Statement(s)
  BY <1>2 DEF Throw, Statement
<1>3. ASSUME Recalculate(s) PROVE Statement(s)
  BY <1>3 DEF Recalculate, SelectSums, UpdateAggregate, Statement
<1>4. ASSUME CheckoutStep(s) PROVE Statement(s)
  BY <1>2, <1>3, <1>4 DEF CheckoutStep, ReserveLine, OutOfStock, TakeOrderNumber,
       InsertOrder, NumberTaken, Statement
<1>5. ASSUME StatusStep(s) PROVE Statement(s)
  BY <1>2, <1>3, <1>5 DEF StatusStep, RestoreLine, ApplyStatus, StatusConflict, Statement
<1>6. ASSUME \/ SelectToSave(s) \/ SaveNote(s) \/ SaveProduct(s) \/ SaveVariant(s)
             \/ SaveStore(s) \/ RemoveVariant(s) \/ RemoveProductVariant(s) \/ RemoveProduct(s)
             \/ CommitHandler(s)
      PROVE  Statement(s)
  BY <1>6 DEF SelectToSave, SaveNote, SaveProduct, SaveVariant, SaveStore, RemoveVariant,
       RemoveProductVariant, RemoveProduct, CommitHandler, Statement
<1>7. ASSUME HandlerStep(s) PROVE Statement(s)
  BY <1>3, <1>4, <1>5, <1>6, <1>7 DEF HandlerStep, VariantEditStep, VariantRemovalStep
<1>8. QED
  BY <1>1, <1>2, <1>7 DEF DeadlockVictim, ConnectionLost

-----------------------------------------------------------------------------
\* The invariant of the sessions a step does not concern.

\* The orders in the table keep their carts and payment methods.
OrdersSteady ==
    \A o \in Order : disk[o].status # "absent" =>
      /\ disk'[o].status # "absent"
      /\ disk'[o].cart = disk[o].cart
      /\ disk'[o].method = disk[o].method

\* An order that appears has a cart the shop accepts, of variants on sale.
NewOrdersOK ==
    \A o \in Order : disk[o].status = "absent" =>
      \/ disk'[o] = disk[o]
      \/ /\ PlacedOK(o)'
         /\ \A i \in DOMAIN disk'[o].cart : ~disk[disk'[o].cart[i].variant].deleted

\* A step of one session leaves true what the others hold.
LEMMA OthersHold ==
    ASSUME TasksOK, HInv, NEW s \in Session,
           OthersKept(s), OthersLocksKept(s), OrdersSteady
    PROVE  \A t \in Session \ {s} : Holds(t)'
<1> SUFFICES ASSUME NEW t \in Session, t # s PROVE Holds(t)'
  OBVIOUS
<1>1. /\ Holds(t) /\ pc'[t] = pc[t] /\ job'[t] = job[t] /\ todo'[t] = todo[t]
      /\ \A v \in Variant :
           /\ holder'[v] = t <=> holder[v] = t
           /\ holder[v] = t => disk'[v] = disk[v] /\ live'[v] = live[v]
  BY DEF HInv, OthersKept, OthersLocksKept
<1>2. HoldsWrittenLines(t) => HoldsWrittenLines(t)'
  BY <1>1 DEF HoldsWrittenLines, VariantsOf, NoDuplicateVariants
<1>3. HoldsNothing(t) => HoldsNothing(t)'
  BY <1>1 DEF HoldsNothing
<1>4. Kind(t) = "checkout" => CheckoutHolds(t)'
  BY <1>1, <1>2 DEF Holds, CheckoutHolds
<1>5. Kind(t) = "status" => StatusHolds(t)'
  <2> HAVE Kind(t) = "status"
  <2>1. job[t].order \in Order
    BY JobKinds DEF TasksOK, Kind, StatusJob
  <2>2. StatusHolds(t)
    BY <1>1 DEF Holds
  <2>3. /\ disk'[job[t].order].status # "absent"
        /\ job[t].cart = disk'[job[t].order].cart
    BY <2>1, <2>2 DEF StatusHolds, OrdersSteady
  <2>4. CASE RestoresStock(job[t].seen.status, job[t].to)
    <3>1. HoldsWrittenLines(t)' /\ \A v \in Variant : holder'[v] = t =>
             live'[v].stock = disk'[v].stock + Units(job[t].cart, v)
      BY <1>1, <1>2, <2>2, <2>4 DEF StatusHolds
    <3>2. QED
      BY <1>1, <2>3, <2>4, <3>1 DEF StatusHolds
  <2>5. CASE ~RestoresStock(job[t].seen.status, job[t].to)
    BY <1>1, <1>3, <2>2, <2>3, <2>5 DEF StatusHolds
  <2>6. QED
    BY <2>4, <2>5
<1>6. Kind(t)' = Kind(t)
  BY <1>1 DEF Kind
<1>7. QED
  BY <1>1, <1>3, <1>4, <1>5, <1>6 DEF Holds

\* A step that keeps what its own session holds keeps the invariant.
LEMMA HoldsStep ==
    ASSUME IInv, HInv, NEW s \in Session,
           Request(s) \/ HandlerStep(s) \/ DeadlockVictim(s) \/ ConnectionLost(s),
           Holds(s)', OrdersSteady, NewOrdersOK
    PROVE  HInv'
<1>1. OthersKept(s) /\ OthersLocksKept(s)
  BY OneMoves, OneStatement, StatementKeepsLocks, TypeParts DEF IInv
<1>2. \A t \in Session : Holds(t)'
  BY <1>1, OthersHold, TypeParts DEF IInv
<1>3. \A o \in Order : PlacedOK(o)'
  BY DEF HInv, OrdersSteady, NewOrdersOK, PlacedOK
<1>4. QED
  BY <1>2, <1>3 DEF HInv

-----------------------------------------------------------------------------
\* What the session that takes a step holds after it.

\* A session that serves no request holds no variant.
LEMMA IdleHoldsNothing ==
    ASSUME IInv, HInv, NEW s \in Session, pc[s] = "idle"
    PROVE  HoldsNothing(s)
<1>1. Kind(s) = "none"
  BY JobKinds DEF IInv, EveryJobFits, Fits, Kind, TypeOK
<1>2. QED
  BY <1>1 DEF HInv, Holds

\* A handler that ends gives up every lock.
LEMMA FinishHolds ==
    ASSUME TasksOK, NEW s \in Session, Finish(s), DB!Release(s)
    PROVE  Holds(s)'
<1>1. job'[s] = NoJob
  BY DEF TasksOK, Finish
<1>2. \A v \in Variant : holder'[v] # s
  BY Tables, SessionsAreReal DEF DB!Release
<1>3. QED
  BY <1>1, <1>2 DEF Holds, HoldsNothing, Kind, NoJob

\* A checkout starts with all its lines left, a status change with those of its
\* order if it restores them, and nobody with a lock.
LEMMA RequestHolds ==
    ASSUME IInv, HInv, NEW s \in Session, Request(s)
    PROVE  Holds(s)'
<1>1. pc[s] = "idle" /\ UNCHANGED <<disk, live, holder>>
  BY DEF Request, LoadLines, UpdateStatus, CancelMine, ChangeStatus, LoadForNote,
     LoadForVariantEdit, LoadForProductEdit, LoadForStoreEdit, LoadForVariantRemoval,
     LoadForProductRemoval, LoadToSave, Start
<1>2. HoldsNothing(s) /\ HoldsNothing(s)'
  BY <1>1, IdleHoldsNothing DEF HoldsNothing
<1>3. TasksOK /\ TablesOK
  BY TypeParts DEF IInv
<1>4. ASSUME NEW label, NEW loaded, NEW lines, Start(s, label, loaded, lines)
      PROVE  pc'[s] = label /\ job'[s] = loaded /\ todo'[s] = lines
  BY <1>3, <1>4 DEF Start, Goto, TasksOK
<1>5. CASE s \in Checkouts /\ LoadLines(s)
  <2>1. PICK cart \in Carts, method \in PaymentMethod :
          /\ method = "cod" /\ NoDuplicateVariants(cart)
          /\ Start(s, "lines", [kind |-> "checkout", cart |-> cart, method |-> method,
                                number |-> 0], cart)
    BY <1>5 DEF LoadLines
  <2>2. /\ pc'[s] = "lines" /\ todo'[s] = cart
        /\ job'[s] = [kind |-> "checkout", cart |-> cart, method |-> "cod", number |-> 0]
    BY <1>4, <2>1
  <2>3. HoldsWrittenLines(s)'
    BY <1>2, <2>1, <2>2 DEF HoldsWrittenLines, HoldsNothing
  <2>4. CheckoutHolds(s)'
    BY <1>2, <2>1, <2>2, <2>3 DEF CheckoutHolds, HoldsNothing
  <2>5. QED
    BY <2>2, <2>4 DEF Holds, Kind
<1>6. ASSUME NEW o \in Order, NEW to \in Status, ChangeStatus(s, o, to)
      PROVE  Holds(s)'
  <2> DEFINE loaded == [kind |-> "status", order |-> o, seen |-> disk[o], to |-> to,
                        cart |-> disk[o].cart]
  <2>1. disk[o].status # "absent" /\ NoDuplicateVariants(disk[o].cart)
    BY <1>6 DEF ChangeStatus, HInv, PlacedOK
  <2>2. disk' = disk
    BY <1>1
  <2>3. CASE RestoresStock(disk[o].status, to)
    <3>1. pc'[s] = "lines" /\ job'[s] = loaded /\ todo'[s] = disk[o].cart
      BY <1>4, <1>6, <2>3 DEF ChangeStatus
    <3>2. HoldsWrittenLines(s)'
      BY <1>2, <2>1, <3>1 DEF HoldsWrittenLines, HoldsNothing
    <3>3. StatusHolds(s)'
      BY <1>2, <2>1, <2>2, <2>3, <3>1, <3>2 DEF StatusHolds, HoldsNothing
    <3>4. QED
      BY <3>1, <3>3 DEF Holds, Kind
  <2>4. CASE ~RestoresStock(disk[o].status, to)
    <3>1. pc'[s] = "apply" /\ job'[s] = loaded
      BY <1>4, <1>6, <2>4 DEF ChangeStatus
    <3>2. StatusHolds(s)'
      BY <1>2, <2>1, <2>2, <2>4, <3>1 DEF StatusHolds
    <3>3. QED
      BY <3>1, <3>2 DEF Holds, Kind
  <2>5. QED
    BY <2>3, <2>4
<1>7. CASE UpdateStatus(s) \/ CancelMine(s)
  BY <1>6, <1>7 DEF UpdateStatus, CancelMine, Status
<1>8. ASSUME \E kind \in {"note", "product", "store", "removeVariant", "removeProduct"} :
               job'[s].kind = kind
      PROVE  Holds(s)'
  BY <1>2, <1>8 DEF Holds, HoldsNothing, Kind
<1>9. CASE LoadForNote(s)
  BY <1>4, <1>8, <1>9 DEF LoadForNote, LoadToSave
<1>10. CASE s \in VariantEdits /\ LoadForVariantEdit(s)
  <2>1. job'[s].kind = "variant"
    BY <1>4, <1>10 DEF LoadForVariantEdit, LoadToSave
  <2>2. QED
    BY <1>10, <2>1 DEF Holds, Kind
<1>11. CASE LoadForProductEdit(s)
  BY <1>4, <1>8, <1>11 DEF LoadForProductEdit, LoadToSave
<1>12. CASE LoadForVariantRemoval(s)
  BY <1>4, <1>8, <1>12 DEF LoadForVariantRemoval
<1>13. CASE LoadForProductRemoval(s)
  BY <1>4, <1>8, <1>13 DEF LoadForProductRemoval
<1>14. CASE LoadForStoreEdit(s)
  BY <1>4, <1>8, <1>14 DEF LoadForStoreEdit, LoadToSave
<1>15. QED
  BY <1>5, <1>7, <1>9, <1>10, <1>11, <1>12, <1>13, <1>14 DEF Request

\* One line written: the handler holds one variant more, of the lines left the
\* first.
LEMMA LineWritten ==
    ASSUME IInv, NEW s \in Session, pc[s] = "lines", job[s].cart \in Seq(Line),
           HoldsWrittenLines(s), LineDone(s, job[s].cart), job' = job,
           holder' = [holder EXCEPT ![Head(todo[s]).variant] = s]
    PROVE  /\ HoldsWrittenLines(s)'
           /\ Head(todo[s]).variant \in Variant
           /\ holder[Head(todo[s]).variant] # s
           /\ Units(job[s].cart, Head(todo[s]).variant) = Head(todo[s]).quantity
           /\ \A v \in Variant : holder'[v] = s <=> holder[v] = s \/ v = Head(todo[s]).variant
<1> DEFINE cart == job[s].cart
           lines == todo[s]
           line == Head(lines)
<1>1. TasksOK /\ TablesOK /\ lines # <<>> /\ lines \in Seq(Line)
  BY TypeParts DEF IInv, EveryJobFits, Fits, TasksOK
<1>2. line.variant \in Variant
  BY <1>1, NextLine
<1>3. /\ NoDuplicateVariants(cart) /\ NoDuplicateVariants(lines)
      /\ \A j \in DOMAIN lines : \E i \in DOMAIN cart : lines[j] = cart[i]
      /\ \A v \in Variant : holder[v] = s <=> v \in VariantsOf(cart) \ VariantsOf(lines)
  BY DEF HoldsWrittenLines
<1> HIDE DEF lines
<1>4. /\ NoDuplicateVariants(Tail(lines))
      /\ VariantsOf(Tail(lines)) = VariantsOf(lines) \ {line.variant}
      /\ line.variant \in VariantsOf(lines)
      /\ \A j \in DOMAIN Tail(lines) : j + 1 \in DOMAIN lines /\ Tail(lines)[j] = lines[j + 1]
      /\ 1 \in DOMAIN lines /\ line = lines[1]
  BY <1>1, <1>3, LinesAfterFirst
<1>5. PICK i \in DOMAIN cart : cart[i] = line
  BY <1>3, <1>4
<1>6. Units(cart, line.variant) = line.quantity
  BY <1>2, <1>3, <1>5, UnitsOfLine
<1>7. line.variant \in VariantsOf(cart)
  BY <1>5 DEF VariantsOf
<1>8. holder[line.variant] # s
  BY <1>2, <1>3, <1>4
<1>9. \A v \in Variant : holder'[v] = s <=> holder[v] = s \/ v = line.variant
  BY <1>1, <1>2, Tables DEF TablesOK, lines
<1>10. todo'[s] = Tail(lines) /\ job'[s] = job[s]
       /\ (pc'[s] # "lines" => Tail(lines) = <<>>)
  BY <1>1 DEF TasksOK, LineDone, Goto, lines
<1>11. \A j \in DOMAIN Tail(lines) : \E k \in DOMAIN cart : Tail(lines)[j] = cart[k]
  BY <1>3, <1>4
<1>12. \A v \in Variant : holder'[v] = s <=> v \in VariantsOf(cart) \ VariantsOf(Tail(lines))
  BY <1>3, <1>4, <1>7, <1>9
<1>13. HoldsWrittenLines(s)'
  BY <1>3, <1>4, <1>10, <1>11, <1>12 DEF HoldsWrittenLines
<1>14. QED
  BY <1>2, <1>6, <1>8, <1>9, <1>13 DEF lines

\* A reserved line takes its units off the version the checkout holds.
LEMMA ReserveLineHolds ==
    ASSUME IInv, HInv, NEW c \in Session, Kind(c) = "checkout", ReserveLine(c)
    PROVE  Holds(c)'
<1> DEFINE line == Head(todo[c])
           u == line.variant
           row == DB!Visible(c, u)
<1>1. TasksOK /\ TablesOK /\ CheckoutHolds(c) /\ pc[c] = "lines" /\ job[c].cart \in Seq(Line)
  BY TypeParts, CartLines DEF IInv, HInv, Holds, CheckoutHolds, ReserveLine
<1>2. /\ HoldsWrittenLines(c)' /\ u \in Variant /\ holder[u] # c
      /\ Units(job[c].cart, u) = line.quantity
      /\ \A v \in Variant : holder'[v] = c <=> holder[v] = c \/ v = u
  BY <1>1, LineWritten DEF CheckoutHolds, ReserveLine, DB!Update
<1>3. todo[c] # <<>>
  BY <1>1 DEF IInv, EveryJobFits, Fits
<1>4. row = disk[u] /\ u \in Row /\ line.quantity \in Nat
  BY <1>1, <1>2, <1>3, NextLine, Tables DEF DB!Visible
<1>5. disk[u] \in VariantRow /\ ~disk[u].deleted /\ disk[u].stock >= line.quantity
  BY <1>1, <1>2, <1>4, Tables DEF ReserveLine, InStock, TablesOK, RowOK
<1>6. /\ disk' = disk /\ job' = job
      /\ \A v \in Variant : live'[v] = (IF v = u THEN [disk[u] EXCEPT !.stock = @ - line.quantity]
                                                 ELSE live[v])
  BY <1>1, <1>2, <1>4, Tables DEF ReserveLine, DB!Update, TablesOK
<1>7. live'[u].stock = disk[u].stock - line.quantity
  BY <1>2, <1>5, <1>6 DEF VariantRow
<1>8. disk[u].stock = live'[u].stock + Units(job[c].cart, u)
  BY <1>2, <1>4, <1>5, <1>7 DEF VariantRow
<1>9. \A v \in Variant : holder'[v] = c =>
        ~disk'[v].deleted /\ disk'[v].stock = live'[v].stock + Units(job[c].cart, v)
  BY <1>1, <1>2, <1>5, <1>6, <1>8 DEF CheckoutHolds
<1>10. CheckoutHolds(c)'
  BY <1>1, <1>2, <1>6, <1>9 DEF CheckoutHolds
<1>11. QED
  BY <1>6, <1>10 DEF Holds, Kind

\* A restored line adds its units to the version the handler holds.
LEMMA RestoreLineHolds ==
    ASSUME IInv, HInv, NEW r \in Session, Kind(r) = "status", RestoreLine(r)
    PROVE  Holds(r)'
<1> DEFINE line == Head(todo[r])
           u == line.variant
           row == DB!Visible(r, u)
<1>1. TasksOK /\ TablesOK /\ StatusHolds(r) /\ pc[r] = "lines" /\ job[r] \in StatusJob
  BY TypeParts, JobKinds DEF IInv, HInv, Holds, RestoreLine, TasksOK, Kind
<1>2. job[r].cart \in Seq(Line) /\ job[r].order \in Order
  BY <1>1 DEF StatusJob
<1>3. /\ RestoresStock(job[r].seen.status, job[r].to) /\ HoldsWrittenLines(r)
      /\ \A v \in Variant : holder[v] = r =>
           live[v].stock = disk[v].stock + Units(job[r].cart, v)
  BY <1>1 DEF StatusHolds
<1>4. /\ HoldsWrittenLines(r)' /\ u \in Variant /\ holder[u] # r
      /\ Units(job[r].cart, u) = line.quantity
      /\ \A v \in Variant : holder'[v] = r <=> holder[v] = r \/ v = u
  BY <1>1, <1>2, <1>3, LineWritten DEF RestoreLine, DB!Update
<1>5. row = disk[u] /\ u \in Row
  BY <1>4, Tables DEF DB!Visible
<1>6. /\ disk' = disk /\ job' = job
      /\ \A v \in Variant : live'[v] = (IF v = u THEN [disk[u] EXCEPT !.stock = @ + line.quantity]
                                                 ELSE live[v])
  BY <1>1, <1>4, <1>5, Tables DEF RestoreLine, DB!Update, TablesOK
<1>7. live'[u].stock = disk[u].stock + line.quantity
  BY <1>1, <1>4, <1>6, Tables DEF TablesOK, RowOK, VariantRow
<1>8. \A v \in Variant : holder'[v] = r =>
        live'[v].stock = disk'[v].stock + Units(job[r].cart, v)
  BY <1>3, <1>4, <1>6, <1>7
<1>9. StatusHolds(r)'
  BY <1>1, <1>3, <1>4, <1>6, <1>8 DEF StatusHolds
<1>10. QED
  BY <1>6, <1>9 DEF Holds, Kind

\* A step that moves no variant row and leaves the handler's job and lines.
LEMMA RestHolds ==
    ASSUME TasksOK, HInv, NEW s \in Session, disk' = disk,
           \A v \in Variant : holder'[v] = holder[v] /\ live'[v] = live[v],
           todo'[s] = todo[s], job'[s] = job[s], pc[s] \notin {"lines", "apply"}
    PROVE  Holds(s)'
<1>1. Holds(s) /\ Kind(s)' = Kind(s)
  BY DEF HInv, Kind
<1>2. ASSUME HoldsWrittenLines(s) PROVE HoldsWrittenLines(s)'
  BY <1>2 DEF HoldsWrittenLines
<1>3. Kind(s) = "checkout" => CheckoutHolds(s)'
  BY <1>1, <1>2 DEF Holds, CheckoutHolds
<1>4. Kind(s) = "status" => StatusHolds(s)'
  BY <1>1, <1>2 DEF Holds, StatusHolds
<1>5. QED
  BY <1>1, <1>3, <1>4 DEF Holds, HoldsNothing

\* Recalculating a product moves no variant row.
LEMMA RecalculateHolds ==
    ASSUME IInv, HInv, NEW s \in Session, Recalculate(s)
    PROVE  Holds(s)'
<1>1. TasksOK /\ TablesOK
  BY TypeParts DEF IInv
<1>2. CASE SelectSums(s)
  BY <1>1, <1>2, RestHolds DEF SelectSums
<1>3. CASE UpdateAggregate(s)
  <2>1. PICK p \in Product : \E version : DB!Update(s, p, version)
    BY <1>3 DEF UpdateAggregate
  <2>2. disk' = disk /\ \A v \in Variant : holder'[v] = holder[v] /\ live'[v] = live[v]
    BY <1>1, <2>1, Tables DEF DB!Update, TablesOK
  <2>3. QED
    BY <1>1, <1>3, <2>2, RestHolds DEF UpdateAggregate
<1>4. QED
  BY <1>2, <1>3 DEF Recalculate

\* Taking a number moves no variant row.
LEMMA TakeOrderNumberHolds ==
    ASSUME IInv, HInv, NEW c \in Session, Kind(c) = "checkout", TakeOrderNumber(c)
    PROVE  Holds(c)'
<1>1. TasksOK /\ TablesOK /\ CheckoutHolds(c) /\ pc[c] = "number" /\ job[c] \in CheckoutJob
  BY TypeParts, JobKinds DEF IInv, HInv, Holds, TakeOrderNumber, TasksOK, Kind
<1>2. /\ disk' = disk /\ todo' = todo
      /\ \A v \in Variant : holder'[v] = holder[v] /\ live'[v] = live[v]
  BY <1>1, Tables DEF TakeOrderNumber, DB!Update, TablesOK
<1>3. job'[c].kind = "checkout" /\ job'[c].cart = job[c].cart /\ job'[c].method = job[c].method
  BY <1>1 DEF TakeOrderNumber, TasksOK, CheckoutJob
<1>4. HoldsWrittenLines(c)'
  BY <1>1, <1>2, <1>3 DEF CheckoutHolds, HoldsWrittenLines
<1>5. CheckoutHolds(c)'
  BY <1>1, <1>2, <1>3, <1>4 DEF CheckoutHolds
<1>6. QED
  BY <1>3, <1>5 DEF Holds, Kind

\* A removal leaves the stock of the variants it removes.
LEMMA RemovalHolds ==
    ASSUME IInv, HInv, NEW s \in Session, Kind(s) \in {"removeVariant", "removeProduct"},
           job'[s].kind = job[s].kind, NEW u \in Variant,
           DB!Update(s, u, [DB!Visible(s, u) EXCEPT !.deleted = TRUE])
    PROVE  Holds(s)'
<1>1. TablesOK
  BY TypeParts DEF IInv
<1>2. \A v \in Variant : holder[v] = s => live[v].stock = disk[v].stock
  BY DEF HInv, Holds
<1>3. DB!Visible(s, u) \in VariantRow /\ u \in Row
  BY <1>1, Tables, VisibleOK DEF RowOK
<1>4. DB!Visible(s, u).stock = disk[u].stock
  BY <1>2 DEF DB!Visible
<1>5. [DB!Visible(s, u) EXCEPT !.deleted = TRUE].stock = disk[u].stock
  BY <1>3, <1>4 DEF VariantRow
<1>6. \A v \in Variant :
        /\ disk'[v] = disk[v]
        /\ v = u => live'[v].stock = disk[u].stock
        /\ v # u => live'[v] = live[v] /\ holder'[v] = holder[v]
  BY <1>1, <1>3, <1>5, Tables DEF DB!Update, TablesOK
<1>7. \A v \in Variant : holder'[v] = s => live'[v].stock = disk'[v].stock
  BY <1>2, <1>6
<1>8. QED
  BY <1>7 DEF Holds, Kind

-----------------------------------------------------------------------------
\* The commits: what they publish, and the step of the order book they are.

\* The abstract rules are those of the handlers.
LEMMA SameRules ==
    /\ \A from, to : PaidByStatus!LegalTransition(from, to) = LegalTransition(from, to)
    /\ \A from, to : PaidByStatus!RestoresStock(from, to) = RestoresStock(from, to)
    /\ \A order, to : PaidByStatus!PaysOrder(order, to) = PaysOrder(order, to)
    /\ \A lines : PaidByStatus!NoDuplicateVariants(lines) = NoDuplicateVariants(lines)
    /\ \A lines, v : PaidByStatus!Units(lines, v) = Units(lines, v)
    /\ \A number, method, lines :
         PaidByStatus!NewOrder(number, method, lines) = NewOrder(number, method, lines)
    /\ PaidByStatus!AbsentOrder = AbsentOrder
    /\ PaidByStatus!Status = Status
BY DEF PaidByStatus!LegalTransition, LegalTransition, PaidByStatus!RestoresStock,
       RestoresStock, PaidByStatus!PaysOrder, PaysOrder,
       PaidByStatus!NoDuplicateVariants, NoDuplicateVariants, PaidByStatus!Units, Units,
       PaidByStatus!NewOrder, NewOrder, PaidByStatus!AbsentOrder, AbsentOrder,
       PaidByStatus!Status, Status, PaidByStatus!ORDER_STATUS_TRANSITIONS,
       ORDER_STATUS_TRANSITIONS, PaidByStatus!STOCK_RESTORING_STATUSES,
       STOCK_RESTORING_STATUSES

BookKept == UNCHANGED <<Shelf, PlacedOrders, disk[Store]>>

\* A step that publishes nothing, or nothing a reader of the book sees.
LEMMA NothingPublished ==
    ASSUME \A v \in Variant : disk'[v].stock = disk[v].stock,
           \A o \in Order : disk'[o] = disk[o],
           disk'[Store] = disk[Store]
    PROVE  BookKept /\ OrdersSteady /\ NewOrdersOK
BY DEF BookKept, Shelf, PlacedOrders, OrdersSteady, NewOrdersOK

\* What the last statement of a transaction publishes.
LEMMA Published ==
    ASSUME IInv, NEW s \in Session, NEW r \in Row, NEW version,
           DB!UpdateAndCommit(s, r, version)
    PROVE  /\ \A q \in Row : disk'[q] = (IF q = r THEN version
                                         ELSE IF holder[q] = s THEN live[q] ELSE disk[q])
           /\ \A o \in Order : disk'[o] = (IF o = r THEN version ELSE disk[o])
<1>1. \A q \in Row : disk'[q] = (IF q = r THEN version
                                 ELSE IF holder[q] = s THEN live[q] ELSE disk[q])
  BY DEF DB!UpdateAndCommit, DB!Visible
<1>2. QED
  BY <1>1, Tables, SessionsAreReal DEF IInv, OrdersSettled

\* A handler whose lines are all written holds exactly the variants of its cart.
LEMMA AllWritten ==
    ASSUME IInv, NEW s \in Session, HoldsWrittenLines(s), pc[s] # "lines"
    PROVE  \A v \in Variant : holder[v] = s <=> v \in VariantsOf(job[s].cart)
BY DEF HoldsWrittenLines, VariantsOf

\* The order appears with its number, and its units are off the shelf.
LEMMA InsertOrderPublishes ==
    ASSUME IInv, HInv, NEW c \in Session, Kind(c) = "checkout", InsertOrder(c)
    PROVE  /\ Holds(c)' /\ OrdersSteady /\ NewOrdersOK
           /\ PaidByStatus!Next
           /\ c \in Order /\ \A o \in Order \ {c} : disk'[o] = disk[o]
           /\ disk'[c].paid = FALSE /\ disk'[c].status = "pending"
<1> DEFINE cart == job[c].cart
           n == disk[Store]
           new == NewOrder(n, "cod", cart)
           book == [o \in Order |-> [disk[o] EXCEPT !.paid = disk[o].status = "delivered"]]
<1>1. /\ TasksOK /\ TablesOK /\ Fits(c) /\ CheckoutHolds(c) /\ pc[c] = "insert" /\ Finish(c)
      /\ DB!UpdateAndCommit(c, c, NewOrder(job[c].number, job[c].method, cart))
  BY TypeParts DEF IInv, EveryJobFits, HInv, Holds, InsertOrder
<1>2. c \in Order /\ c \in Row /\ c # Store /\ disk[c].status = "absent"
  BY <1>1, Tables DEF Fits, Order
<1>3. holder[Store] = c /\ live[Store] = n + 1 /\ job[c].number = n
  BY <1>1 DEF IInv, NumberLock
<1>4. /\ cart \in Carts /\ job[c].method = "cod" /\ HoldsWrittenLines(c) /\ cart # <<>>
      /\ \A v \in Variant : holder[v] = c =>
           ~disk[v].deleted /\ disk[v].stock = live[v].stock + Units(cart, v)
  BY <1>1, CartLines DEF CheckoutHolds
<1>5. NoDuplicateVariants(cart) /\ cart \in Seq(Line)
  BY <1>4, CartLines DEF HoldsWrittenLines
<1>6. DB!UpdateAndCommit(c, c, new)
  BY <1>1, <1>3, <1>4
<1>7. \A v \in Variant : holder[v] = c <=> v \in VariantsOf(cart)
  BY <1>1, <1>4, AllWritten
<1> HIDE DEF new, cart
<1>8. /\ \A q \in Row : disk'[q] = (IF q = c THEN new
                                    ELSE IF holder[q] = c THEN live[q] ELSE disk[q])
      /\ \A o \in Order : disk'[o] = (IF o = c THEN new ELSE disk[o])
  BY <1>2, <1>6, Published
<1>9. new = [status |-> "pending", number |-> n, paid |-> FALSE, method |-> "cod", cart |-> cart]
  BY DEF new, NewOrder
<1>10. Holds(c)'
  BY <1>1, FinishHolds DEF DB!UpdateAndCommit
<1>11. ASSUME NEW i \in DOMAIN cart PROVE ~disk[cart[i].variant].deleted
  <2>1. cart[i] \in Line
    BY <1>5, LenProperties, ElementOfSeq
  <2>2. cart[i].variant \in Variant /\ cart[i].variant \in VariantsOf(cart)
    BY <2>1 DEF Line, VariantsOf
  <2>3. QED
    BY <1>4, <1>7, <2>2
<1>21. OrdersSteady /\ NewOrdersOK
  BY <1>2, <1>4, <1>5, <1>8, <1>9, <1>11 DEF OrdersSteady, NewOrdersOK, PlacedOK
<1>12. \A v \in Variant : /\ disk[v].stock \in Nat /\ live[v].stock \in Nat
                          /\ Units(cart, v) \in Nat
  BY <1>1, <1>5, UnitsOfLine, Tables DEF TablesOK, RowOK, VariantRow
<1>13. \A v \in Variant : /\ Units(cart, v) <= disk[v].stock
                          /\ disk'[v].stock = disk[v].stock - Units(cart, v)
  <2> TAKE v \in Variant
  <2>1. v \in Row /\ v # c
    BY <1>2, Tables
  <2>2. CASE holder[v] = c
    <3>1. disk'[v] = live[v]
      BY <1>8, <2>1, <2>2
    <3>2. disk[v].stock = live[v].stock + Units(cart, v)
      BY <1>4, <2>2
    <3>3. QED
      BY <1>12, <3>1, <3>2
  <2>3. CASE holder[v] # c
    <3>1. disk'[v] = disk[v]
      BY <1>8, <2>1, <2>3
    <3>2. Units(cart, v) = 0
      BY <1>5, <1>7, <2>3, UnitsOfLine
    <3>3. QED
      BY <1>12, <3>1, <3>2
  <2>4. QED
    BY <2>2, <2>3
<1>14. disk'[Store] = n + 1
  BY <1>2, <1>3, <1>8, Tables
<1>15. book[c].status = "absent"
  <2>1. disk[c] \in OrderRow
    BY <1>1, <1>2, OrderRows
  <2>2. QED
    BY <1>2, <2>1 DEF OrderRow, PlacedRow, AbsentOrder
<1>16. Shelf' = [v \in Variant |-> Shelf[v] - Units(cart, v)]
  BY <1>13 DEF Shelf
<1>17. book' = [book EXCEPT ![c] = new]
  <2>1. [new EXCEPT !.paid = new.status = "delivered"] = new
    <3>1. (new.status = "delivered") = FALSE
      BY <1>9
    <3>2. new \in PlacedRow /\ new.paid = FALSE
      BY <1>1, <1>4, <1>5, <1>9, CartLines, Tables DEF PlacedRow, Status, PaymentMethod, TablesOK, RowOK
    <3>3. [new EXCEPT !.paid = FALSE] = new
      BY <3>2 DEF PlacedRow
    <3>4. QED
      BY <3>1, <3>3, Zenon
  <2>2. \A o \in Order : book'[o] = (IF o = c THEN new ELSE book[o])
    BY <1>2, <1>8, <2>1
  <2>3. QED
    BY <1>2, <2>2
<1>18. \A v \in Variant : Units(cart, v) <= Shelf[v]
  BY <1>13 DEF Shelf
<1>19. PaidByStatus!Place(c, cart, "cod")
  BY <1>5, <1>14, <1>15, <1>16, <1>17, <1>18, SameRules DEF PaidByStatus!Place, new
<1>20. PaidByStatus!Next
  BY <1>2, <1>4, <1>19 DEF PaidByStatus!Next, cart
<1>22. QED
  BY <1>2, <1>8, <1>9, <1>10, <1>20, <1>21

\* A move is a step of the order book.
LEMMA MovesAreSteps ==
    ASSUME NEW order \in Order, NEW target \in Status, PaidByStatus!Move(order, target)
    PROVE  PaidByStatus!Next
BY DEF PaidByStatus!Next, PaidByStatus!Status, Status

\* Rows of the orders table are equal when their columns are.
LEMMA SameRow ==
    ASSUME NEW a \in PlacedRow, NEW b \in PlacedRow,
           a.status = b.status, a.number = b.number, a.paid = b.paid,
           a.method = b.method, a.cart = b.cart
    PROVE  a = b
BY DEF PlacedRow

\* What ApplyStatus finds and writes.
LEMMA AppliedRow ==
    ASSUME IInv, HInv, NEW r \in Session, Kind(r) = "status", ApplyStatus(r)
    PROVE  /\ job[r].order \in Order /\ job[r].seen \in PlacedRow /\ job[r].to \in Status
           /\ pc[r] = "apply" /\ StatusHolds(r)
           /\ disk[job[r].order] \in PlacedRow
           /\ disk[job[r].order].status = job[r].seen.status
           /\ LegalTransition(job[r].seen.status, job[r].to)
           /\ DB!UpdateAndCommit(r, job[r].order,
                [disk[job[r].order] EXCEPT !.status = job[r].to,
                                           !.paid = @ \/ PaysOrder(job[r].seen, job[r].to)])
<1> DEFINE o == job[r].order
<1>1. TasksOK /\ TablesOK /\ Fits(r) /\ OrdersSettled /\ pc[r] = "apply"
      /\ DB!UpdateAndCommit(r, o, AppliedStatus(r)) /\ StillAsSeen(r) /\ StatusHolds(r)
  BY TypeParts DEF IInv, EveryJobFits, ApplyStatus, HInv, Holds
<1>2. job[r] \in StatusJob
  BY <1>1, JobKinds DEF TasksOK, Kind
<1>3. o \in Order /\ job[r].seen \in PlacedRow /\ job[r].to \in Status
  BY <1>2 DEF StatusJob
<1>4. DB!Visible(r, o) = disk[o]
  BY <1>1, <1>3, VisibleOrder
<1>5. disk[o] \in PlacedRow
  BY <1>1, <1>3, OrderRows DEF StatusHolds
<1>6. QED
  BY <1>1, <1>3, <1>4, <1>5 DEF StillAsSeen, AppliedStatus, Fits

\* The order moves, and its units are on the shelf again if the move restores
\* them.
LEMMA ApplyStatusPublishes ==
    ASSUME IInv, HInv, NEW r \in Session, Kind(r) = "status", ApplyStatus(r)
    PROVE  /\ Holds(r)' /\ OrdersSteady /\ NewOrdersOK
           /\ PaidByStatus!Next
<1> DEFINE o == job[r].order
           to == job[r].to
           paid == disk[o].paid \/ PaysOrder(job[r].seen, to)
           version == [disk[o] EXCEPT !.status = to, !.paid = paid]
           book == [q \in Order |-> [disk[q] EXCEPT !.paid = disk[q].status = "delivered"]]
           cart == disk[o].cart
<1>1. /\ o \in Order /\ o \in Row /\ o # Store /\ to \in Status
      /\ pc[r] = "apply" /\ StatusHolds(r)
      /\ disk[o] \in PlacedRow /\ disk[o].status = job[r].seen.status
      /\ LegalTransition(disk[o].status, to)
      /\ DB!UpdateAndCommit(r, o, version)
  BY AppliedRow, Tables
<1>2. TasksOK /\ TablesOK /\ Finish(r)
  BY TypeParts DEF IInv, ApplyStatus
<1>3. paid \in BOOLEAN
  BY <1>1 DEF PlacedRow
<1> HIDE DEF paid
<1>4. /\ version \in PlacedRow /\ version.status = to /\ version.paid = paid
      /\ version.number = disk[o].number /\ version.method = disk[o].method
      /\ version.cart = disk[o].cart
  BY <1>1, <1>3 DEF PlacedRow
<1> HIDE DEF version, o
<1>5. /\ \A q \in Row : disk'[q] = (IF q = o THEN version
                                    ELSE IF holder[q] = r THEN live[q] ELSE disk[q])
      /\ \A q \in Order : disk'[q] = (IF q = o THEN version ELSE disk[q])
  BY <1>1, Published
<1>6. Holds(r)'
  BY <1>1, <1>2, FinishHolds DEF DB!UpdateAndCommit
<1>7. to # "absent" /\ disk[o].status # "absent"
  BY <1>1 DEF PlacedRow, Status
<1>8. OrdersSteady /\ NewOrdersOK
  BY <1>1, <1>4, <1>5, <1>7 DEF OrdersSteady, NewOrdersOK
<1>9. disk[o].status # "delivered" /\ disk[o].status \in Status
  BY <1>1 DEF LegalTransition, ORDER_STATUS_TRANSITIONS
<1>10. job[r].cart = cart /\ cart \in Seq(Line)
  BY <1>1 DEF StatusHolds, PlacedRow, o
<1>11. \A v \in Variant : disk[v].stock \in Nat /\ Units(cart, v) \in Nat
  BY <1>2, <1>10, UnitsOfLine, Tables DEF TablesOK, RowOK, VariantRow
<1>12. \A v \in Variant : disk'[v] = (IF holder[v] = r THEN live[v] ELSE disk[v])
  BY <1>1, <1>5, Tables
<1>13. Shelf' = IF RestoresStock(disk[o].status, to)
                THEN [v \in Variant |-> Shelf[v] + Units(cart, v)] ELSE Shelf
  <2>1. CASE RestoresStock(disk[o].status, to)
    <3>1. /\ HoldsWrittenLines(r)
          /\ \A v \in Variant : holder[v] = r => live[v].stock = disk[v].stock + Units(cart, v)
      BY <1>1, <1>10, <2>1 DEF StatusHolds, o
    <3>2. \A v \in Variant : holder[v] = r <=> v \in VariantsOf(cart)
      BY <1>1, <1>10, <3>1, AllWritten
    <3>3. \A v \in Variant : holder[v] # r => Units(cart, v) = 0
      BY <1>10, <3>2, UnitsOfLine
    <3>4. \A v \in Variant : disk'[v].stock = disk[v].stock + Units(cart, v)
      BY <1>11, <1>12, <3>1, <3>3
    <3>5. QED
      BY <2>1, <3>4 DEF Shelf
  <2>2. CASE ~RestoresStock(disk[o].status, to)
    <3>1. \A v \in Variant : disk'[v] = disk[v]
      BY <1>1, <1>12, <2>2 DEF StatusHolds, HoldsNothing, o
    <3>2. QED
      BY <2>2, <3>1 DEF Shelf
  <2>3. QED
    BY <2>1, <2>2
<1>14. disk'[Store] = disk[Store]
  BY <1>1, <1>5, Tables DEF IInv, NumberLock
<1>15. /\ book[o] \in PlacedRow /\ book[o].status = disk[o].status /\ book[o].paid = FALSE
       /\ book[o].number = disk[o].number /\ book[o].method = "cod" /\ book[o].cart = cart
  <2>1. book[o] = [disk[o] EXCEPT !.paid = FALSE]
    <3>1. (disk[o].status = "delivered") = FALSE
      BY <1>9
    <3>2. book[o] = [disk[o] EXCEPT !.paid = (disk[o].status = "delivered")]
      BY <1>1
    <3>3. QED
      BY <3>1, <3>2, Zenon
  <2>2. disk[o].method = "cod"
    BY <1>1, <1>7 DEF HInv, PlacedOK
  <2>3. QED
    BY <1>1, <2>1, <2>2 DEF PlacedRow
<1>16. book'[o] = [book[o] EXCEPT !.status = to, !.paid = @ \/ PaysOrder(book[o], to)]
  <2> DEFINE moved == [book[o] EXCEPT !.status = to, !.paid = @ \/ PaysOrder(book[o], to)]
             delivered == to = "delivered"
  <2>1. (book[o].paid \/ PaysOrder(book[o], to)) = delivered
    BY <1>15 DEF PaysOrder
  <2>2. moved = [book[o] EXCEPT !.status = to, !.paid = delivered]
    BY <2>1, Zenon
  <2>3. book'[o] = [version EXCEPT !.paid = delivered]
    <3>1. book'[o] = [disk'[o] EXCEPT !.paid = disk'[o].status = "delivered"]
      BY <1>1
    <3>2. disk'[o] = version /\ (version.status = "delivered") = delivered
      BY <1>1, <1>4, <1>5
    <3>3. QED
      BY <3>1, <3>2, Zenon
  <2>4. delivered \in BOOLEAN
    OBVIOUS
  <2> HIDE DEF book, delivered
  <2>5. /\ [version EXCEPT !.paid = delivered] \in PlacedRow
        /\ [version EXCEPT !.paid = delivered].status = to
        /\ [version EXCEPT !.paid = delivered].paid = delivered
        /\ [version EXCEPT !.paid = delivered].number = disk[o].number
        /\ [version EXCEPT !.paid = delivered].method = disk[o].method
        /\ [version EXCEPT !.paid = delivered].cart = cart
    BY <1>4, <2>4 DEF PlacedRow
  <2>6. /\ [book[o] EXCEPT !.status = to, !.paid = delivered] \in PlacedRow
        /\ [book[o] EXCEPT !.status = to, !.paid = delivered].status = to
        /\ [book[o] EXCEPT !.status = to, !.paid = delivered].paid = delivered
        /\ [book[o] EXCEPT !.status = to, !.paid = delivered].number = disk[o].number
        /\ [book[o] EXCEPT !.status = to, !.paid = delivered].method = "cod"
        /\ [book[o] EXCEPT !.status = to, !.paid = delivered].cart = cart
    BY <1>1, <1>15, <2>4 DEF PlacedRow
  <2>7. disk[o].method = "cod"
    BY <1>1, <1>7 DEF HInv, PlacedOK
  <2>8. [version EXCEPT !.paid = delivered]
          = [book[o] EXCEPT !.status = to, !.paid = delivered]
    BY <2>5, <2>6, <2>7, SameRow
  <2>9. QED
    BY <2>2, <2>3, <2>8, Zenon
<1>17. \A q \in Order \ {o} : book'[q] = book[q]
  <2> TAKE q \in Order \ {o}
  <2>1. disk'[q] = disk[q]
    BY <1>5
  <2>2. QED
    BY <2>1
<1>18. book' = [book EXCEPT ![o].status = to, ![o].paid = @ \/ PaysOrder(book[o], to)]
  <2> DEFINE pays == book[o].paid \/ PaysOrder(book[o], to)
             moved == [book[o] EXCEPT !.status = to, !.paid = pays]
  <2>1. book'[o] = moved
    BY <1>16, Zenon
  <2>2. book' = [q \in Order |-> book'[q]] /\ book = [q \in Order |-> book[q]]
    OBVIOUS
  <2> HIDE DEF book, pays
  <2>3. [book EXCEPT ![o].status = to, ![o].paid = pays] = [book EXCEPT ![o] = moved]
    BY <1>1, <2>2
  <2> HIDE DEF moved
  <2>4. book' = [book EXCEPT ![o] = moved]
    BY <1>1, <1>17, <2>1, <2>2
  <2>5. QED
    BY <2>3, <2>4, Zenon DEF pays
<1>19. PICK order \in Order, target \in Status : order = o /\ target = to
  BY <1>1
<1>20. PaidByStatus!Move(order, target)
  <2>1. PaidByStatus!LegalTransition(book[order].status, target)
    BY <1>1, <1>15, <1>19, SameRules
  <2>2. Shelf' = IF PaidByStatus!RestoresStock(book[order].status, target)
                 THEN [v \in Variant |-> Shelf[v] + PaidByStatus!Units(book[order].cart, v)] ELSE Shelf
    BY <1>13, <1>15, <1>19, SameRules
  <2>3. book' = [book EXCEPT ![order].status = target,
                             ![order].paid = @ \/ PaidByStatus!PaysOrder(book[order], target)]
    BY <1>18, <1>19, SameRules
  <2>4. QED
    BY <1>14, <2>1, <2>2, <2>3 DEF PaidByStatus!Move
<1>21. QED
  BY <1>6, <1>8, <1>20, MovesAreSteps

\* A note save keeps the cart and the payment method of its order.
LEMMA SaveNotePublishes ==
    ASSUME IInv, HInv, NEW s \in Session, Kind(s) = "note", SaveNote(s)
    PROVE  /\ Holds(s)' /\ OrdersSteady /\ NewOrdersOK
           /\ SavePublished(s) /\ ~Running(s)'
<1> DEFINE o == job[s].row
           status == Column(job[s].entity.status, job[s].selected.status, disk[o].status)
           paid == Column(job[s].entity.paid, job[s].selected.paid, disk[o].paid)
           saved == [disk[o] EXCEPT !.status = status, !.paid = paid]
<1>1. TasksOK /\ TablesOK /\ Fits(s) /\ OrdersSettled /\ pc[s] = "save" /\ Finish(s)
  BY TypeParts DEF IInv, EveryJobFits, SaveNote
<1>2. job[s] \in NoteJob /\ disk[o].status # "absent"
  BY <1>1, JobKinds DEF TasksOK, Kind, Fits
<1>3. o \in Order /\ o \in Row /\ job[s].entity \in PlacedRow /\ disk[o] \in PlacedRow
  BY <1>1, <1>2, OrderRows, Tables DEF NoteJob
<1>4. DB!UpdateAndCommit(s, o, saved)
  BY <1>1, <1>3, VisibleOrder DEF SaveNote
<1>5. status \in Status
  BY <1>3 DEF Column, PlacedRow
<1>6. saved.status = status /\ saved.cart = disk[o].cart /\ saved.method = disk[o].method
  BY <1>3 DEF PlacedRow
<1> HIDE DEF saved, status, o
<1>7. \A q \in Order : disk'[q] = (IF q = o THEN saved ELSE disk[q])
  BY <1>3, <1>4, Published
<1>8. OrdersSteady /\ NewOrdersOK
  BY <1>2, <1>3, <1>5, <1>6, <1>7 DEF OrdersSteady, NewOrdersOK, Status
<1>9. Holds(s)'
  BY <1>1, <1>4, FinishHolds DEF DB!UpdateAndCommit
<1>10. SavePublished(s) /\ ~Running(s)'
  BY <1>1, FinishFits DEF SavePublished, Running
<1>11. QED
  BY <1>8, <1>9, <1>10

\* A transaction that updates a product last publishes no order, and of the
\* variants what its session holds.
LEMMA ProductPublishes ==
    ASSUME IInv, HInv, NEW s \in Session, pc[s] # "insert", Finish(s),
           NEW p \in Product, NEW version, DB!UpdateAndCommit(s, p, version),
           Kind(s) \in {"product", "removeProduct"}
    PROVE  /\ Holds(s)' /\ OrdersSteady /\ NewOrdersOK /\ BookKept
           /\ \A o \in Order : disk'[o] = disk[o]
<1>1. /\ \A q \in Row : disk'[q] = (IF q = p THEN version
                                    ELSE IF holder[q] = s THEN live[q] ELSE disk[q])
      /\ \A o \in Order : disk'[o] = (IF o = p THEN version ELSE disk[o])
  BY Published, Tables
<1>2. holder[Store] # s
  BY DEF IInv, NumberLock
<1>3. \A v \in Variant : holder[v] = s => live[v].stock = disk[v].stock
  BY DEF HInv, Holds, HoldsNothing
<1>4. /\ \A v \in Variant : disk'[v].stock = disk[v].stock
      /\ \A o \in Order : disk'[o] = disk[o]
      /\ disk'[Store] = disk[Store]
  BY <1>1, <1>2, <1>3, Tables
<1>5. Holds(s)'
  BY FinishHolds, TypeParts DEF IInv, DB!UpdateAndCommit
<1>6. QED
  BY <1>4, <1>5, NothingPublished

\* The commit of a variant's removal publishes no change of stock; that of its
\* edit is a save.
LEMMA CommitPublishes ==
    ASSUME IInv, HInv, NEW s \in Session, CommitHandler(s)
    PROVE  /\ Holds(s)' /\ OrdersSteady /\ NewOrdersOK
           /\ BookKept \/ (SavePublished(s) /\ ~Running(s)')
           /\ \A o \in Order : disk'[o] = disk[o]
<1>1. /\ TasksOK /\ TablesOK /\ Fits(s) /\ pc[s] = "commit" /\ DB!Commit(s) /\ Finish(s)
  BY TypeParts DEF IInv, EveryJobFits, CommitHandler
<1>2. Kind(s) \in {"variant", "removeVariant"}
  BY <1>1, JobKinds DEF Fits, TasksOK, Kind
<1>3. \A o \in Order : disk'[o] = disk[o]
  BY CommitStep
<1>4. Holds(s)'
  BY <1>1, FinishHolds DEF DB!Commit
<1>5. OrdersSteady /\ NewOrdersOK
  BY <1>3 DEF OrdersSteady, NewOrdersOK
<1>6. CASE Kind(s) = "variant"
  BY <1>1, <1>3, <1>4, <1>5, <1>6, FinishFits DEF SavePublished, Running
<1>7. CASE Kind(s) = "removeVariant"
  <2>1. \A v \in Variant : holder[v] = s => live[v].stock = disk[v].stock
    BY <1>7 DEF HInv, Holds
  <2>2. \A q \in Row : disk'[q] = (IF holder[q] = s THEN live[q] ELSE disk[q])
    BY <1>1 DEF DB!Commit, DB!Visible
  <2>3. holder[Store] # s
    BY <1>1 DEF IInv, NumberLock
  <2>4. (\A v \in Variant : disk'[v].stock = disk[v].stock) /\ disk'[Store] = disk[Store]
    BY <2>1, <2>2, <2>3, Tables
  <2>5. QED
    BY <1>3, <1>4, <2>4, NothingPublished
<1>8. QED
  BY <1>2, <1>6, <1>7

\* A store form moves the counter or nothing.
LEMMA SaveStorePublishes ==
    ASSUME IInv, HInv, NEW s \in Session, Kind(s) = "store", SaveStore(s)
    PROVE  /\ Holds(s)' /\ OrdersSteady /\ NewOrdersOK
           /\ BookKept \/ WritesCounterBack
<1>1. TasksOK /\ Fits(s) /\ pc[s] = "save" /\ Finish(s) /\ DB!Release(s)
  BY TypeParts DEF IInv, EveryJobFits, SaveStore, DB!UpdateAndCommit
<1>2. /\ \A r \in Row \ {Store} : holder[r] # s => disk'[r] = disk[r]
      /\ \A o \in Order : disk'[o] = disk[o]
      /\ disk'[Store] \in {disk[Store], job[s].entity}
  BY SaveStoreStep
<1>3. \A v \in Variant : disk'[v] = disk[v]
  BY <1>2, Tables DEF HInv, Holds, HoldsNothing
<1>4. UNCHANGED <<Shelf, PlacedOrders>>
  BY <1>2, <1>3 DEF Shelf, PlacedOrders
<1>5. Holds(s)' /\ OrdersSteady /\ NewOrdersOK
  BY <1>1, <1>2, FinishHolds DEF OrdersSteady, NewOrdersOK
<1>6. BookKept \/ WritesCounterBack
  BY <1>1, <1>2, <1>4 DEF BookKept, WritesCounterBack, Fits
<1>7. QED
  BY <1>5, <1>6

\* What every step does: it leaves its session holding what it should, and
\* either is a step of the order book, or changes nothing of it, or publishes a
\* dashboard save, of an order or variant or of the counter.
StepPublishes(s) ==
    /\ Holds(s)' /\ OrdersSteady /\ NewOrdersOK
    /\ \/ PaidByStatus!Next \/ BookKept \/ WritesCounterBack
       \/ SavePublished(s) /\ ~Running(s)'

\* A step that commits nothing and keeps what its session holds.
LEMMA QuietStep ==
    ASSUME NEW s \in Session, Holds(s)', disk' = disk
    PROVE  StepPublishes(s)
BY NothingPublished DEF StepPublishes

\* A handler that throws publishes nothing.
LEMMA ThrowPublishes ==
    ASSUME IInv, NEW s \in Session, Throw(s)
    PROVE  StepPublishes(s)
<1>1. Holds(s)'
  BY FinishHolds, TypeParts DEF IInv, Throw, DB!Rollback
<1>2. QED
  BY <1>1, QuietStep, ThrowStep

\* Every step of a checkout, ...
LEMMA CheckoutPublishes ==
    ASSUME IInv, HInv, NEW c \in Session, Kind(c) = "checkout", CheckoutStep(c)
    PROVE  StepPublishes(c)
<1>1. CASE ReserveLine(c)
  BY <1>1, ReserveLineHolds, QuietStep DEF ReserveLine, DB!Update
<1>2. CASE OutOfStock(c)
  BY <1>2, ThrowPublishes DEF OutOfStock
<1>3. CASE Recalculate(c)
  BY <1>3, RecalculateHolds, RecalculateStep, QuietStep
<1>4. CASE TakeOrderNumber(c)
  BY <1>4, TakeOrderNumberHolds, QuietStep DEF TakeOrderNumber, DB!Update
<1>5. CASE InsertOrder(c)
  BY <1>5, InsertOrderPublishes DEF StepPublishes
<1>6. CASE NumberTaken(c)
  BY <1>6, ThrowPublishes DEF NumberTaken
<1>7. QED
  BY <1>1, <1>2, <1>3, <1>4, <1>5, <1>6 DEF CheckoutStep

\* ... of a status change ...
LEMMA StatusPublishes ==
    ASSUME IInv, HInv, NEW r \in Session, Kind(r) = "status", StatusStep(r)
    PROVE  StepPublishes(r)
<1>1. CASE RestoreLine(r)
  BY <1>1, RestoreLineHolds, QuietStep DEF RestoreLine, DB!Update
<1>2. CASE Recalculate(r)
  BY <1>2, RecalculateHolds, RecalculateStep, QuietStep
<1>3. CASE ApplyStatus(r)
  BY <1>3, ApplyStatusPublishes DEF StepPublishes
<1>4. CASE StatusConflict(r)
  BY <1>4, ThrowPublishes DEF StatusConflict
<1>5. QED
  BY <1>1, <1>2, <1>3, <1>4 DEF StatusStep

\* ... and of a dashboard form.
LEMMA FormPublishes ==
    ASSUME IInv, HInv, NEW s \in Session, HandlerStep(s), Kind(s) \notin {"checkout", "status"}
    PROVE  StepPublishes(s)
<1>1. TasksOK /\ TablesOK /\ Fits(s)
  BY TypeParts DEF IInv, EveryJobFits
<1>2. CASE Kind(s) \in {"note", "variant", "product", "store"} /\ SelectToSave(s)
  <2>1. pc[s] = "diff" /\ UNCHANGED <<disk, live, holder>> /\ job'[s].kind = job[s].kind
    <3>1. job[s] \in NoteJob \cup VariantJob \cup ProductJob \cup StoreJob
      BY <1>1, <1>2, JobKinds DEF TasksOK, Kind
    <3>2. job'[s] = [job[s] EXCEPT !.selected = DB!Visible(s, job[s].row)]
      BY <1>1, <1>2 DEF SelectToSave, TasksOK
    <3>3. QED
      BY <1>2, <3>1, <3>2 DEF SelectToSave, NoteJob, VariantJob, ProductJob, StoreJob
  <2>2. Holds(s)'
    BY <1>2, <2>1 DEF HInv, Holds, HoldsNothing, Kind
  <2>3. QED
    BY <2>1, <2>2, QuietStep
<1>3. CASE Kind(s) = "note" /\ SaveNote(s)
  BY <1>3, SaveNotePublishes DEF StepPublishes
<1>4. CASE Kind(s) = "product" /\ SaveProduct(s)
  <2>1. job[s].row \in Product
    BY <1>1, <1>4, JobKinds DEF TasksOK, Kind, ProductJob
  <2>2. PICK p \in Product : p = job[s].row /\ \E version : DB!UpdateAndCommit(s, p, version)
    BY <1>4, <2>1 DEF SaveProduct
  <2>3. pc[s] # "insert" /\ Finish(s)
    BY <1>4 DEF SaveProduct
  <2>4. QED
    BY <1>4, <2>2, <2>3, ProductPublishes DEF StepPublishes
<1>5. CASE Kind(s) = "variant" /\ SaveVariant(s)
  <2>1. disk' = disk /\ job' = job
    BY <1>5 DEF SaveVariant, DB!Update
  <2>2. Holds(s)'
    BY <1>5, <2>1 DEF HInv, Holds, Kind
  <2>3. QED
    BY <2>1, <2>2, QuietStep
<1>6. CASE Recalculate(s)
  BY <1>6, RecalculateHolds, RecalculateStep, QuietStep
<1>7. CASE CommitHandler(s)
  BY <1>7, CommitPublishes DEF StepPublishes
<1>8. CASE Kind(s) = "removeVariant" /\ RemoveVariant(s)
  <2>1. job[s].row \in Variant
    BY <1>1, <1>8, JobKinds DEF TasksOK, Kind, VariantRemovalJob
  <2>2. disk' = disk /\ job' = job
        /\ DB!Update(s, job[s].row, [DB!Visible(s, job[s].row) EXCEPT !.deleted = TRUE])
    BY <1>8 DEF RemoveVariant, DB!Update
  <2>3. PICK u \in Variant : u = job[s].row
    BY <2>1
  <2>4. DB!Update(s, u, [DB!Visible(s, u) EXCEPT !.deleted = TRUE])
    BY <2>2, <2>3 DEF DB!Update
  <2>5. Holds(s)'
    BY <1>8, <2>2, <2>4, RemovalHolds
  <2>6. QED
    BY <2>2, <2>5, QuietStep
<1>9. CASE Kind(s) = "removeProduct" /\ RemoveProductVariant(s)
  <2>1. job[s] \in ProductRemovalJob /\ job[s].left # <<>>
    BY <1>1, <1>9, JobKinds DEF TasksOK, Kind, RemoveProductVariant
  <2>2. Head(job[s].left) \in Variant
    BY <2>1, HeadTailProperties DEF ProductRemovalJob
  <2>3. PICK u \in Variant : u = Head(job[s].left)
    BY <2>2
  <2>4. disk' = disk /\ DB!Update(s, u, [DB!Visible(s, u) EXCEPT !.deleted = TRUE])
    BY <1>9, <2>3 DEF RemoveProductVariant, DB!Update
  <2>5. job'[s].kind = job[s].kind
    BY <1>1, <1>9, <2>1 DEF RemoveProductVariant, TasksOK, ProductRemovalJob
  <2>6. Holds(s)'
    BY <1>9, <2>4, <2>5, RemovalHolds
  <2>7. QED
    BY <2>4, <2>6, QuietStep
<1>10. CASE Kind(s) = "removeProduct" /\ RemoveProduct(s)
  <2>1. job[s].row \in Product
    BY <1>1, <1>10, JobKinds DEF TasksOK, Kind, ProductRemovalJob
  <2>2. PICK p \in Product : p = job[s].row /\ \E version : DB!UpdateAndCommit(s, p, version)
    BY <1>10, <2>1 DEF RemoveProduct
  <2>3. pc[s] # "insert" /\ Finish(s)
    BY <1>10 DEF RemoveProduct
  <2>4. QED
    BY <1>10, <2>2, <2>3, ProductPublishes DEF StepPublishes
<1>11. CASE Kind(s) = "store" /\ SaveStore(s)
  BY <1>11, SaveStorePublishes DEF StepPublishes
<1>12. QED
  BY <1>2, <1>3, <1>4, <1>5, <1>6, <1>7, <1>8, <1>9, <1>10, <1>11
     DEF HandlerStep, VariantEditStep, VariantRemovalStep

-----------------------------------------------------------------------------
\* The invariant of what is held locked.

\* Every step of a session.
LEMMA SessionPublishes ==
    ASSUME IInv, HInv, NEW s \in Session,
           Request(s) \/ HandlerStep(s) \/ DeadlockVictim(s) \/ ConnectionLost(s)
    PROVE  StepPublishes(s) /\ HInv'
<1>1. CASE Request(s)
  BY <1>1, RequestHolds, RequestStep, QuietStep, HoldsStep DEF StepPublishes
<1>2. CASE DeadlockVictim(s) \/ ConnectionLost(s)
  BY <1>2, ThrowPublishes, HoldsStep DEF DeadlockVictim, ConnectionLost, StepPublishes
<1>3. CASE HandlerStep(s)
  <2>1. CASE Kind(s) = "checkout"
    <3>1. CheckoutStep(s)
      BY <1>3, <2>1 DEF HandlerStep
    <3>2. QED
      BY <1>3, <2>1, <3>1, CheckoutPublishes, HoldsStep DEF StepPublishes
  <2>2. CASE Kind(s) = "status"
    <3>1. StatusStep(s)
      BY <1>3, <2>2 DEF HandlerStep
    <3>2. QED
      BY <1>3, <2>2, <3>1, StatusPublishes, HoldsStep DEF StepPublishes
  <2>3. CASE Kind(s) \notin {"checkout", "status"}
    BY <1>3, <2>3, FormPublishes, HoldsStep DEF StepPublishes
  <2>4. QED
    BY <2>1, <2>2, <2>3
<1>4. QED
  BY <1>1, <1>2, <1>3

\* The invariant holds at first.
LEMMA InitHInv ==
    Init => HInv
<1> SUFFICES ASSUME Init PROVE HInv
  OBVIOUS
<1>1. \A s \in Session : Holds(s)
  BY Tables, SessionsAreReal DEF Init, Holds, HoldsNothing, Kind, NoJob
<1>2. \A o \in Order : disk[o] = AbsentOrder
  BY Tables DEF Init
<1>3. QED
  BY <1>1, <1>2 DEF HInv, PlacedOK, AbsentOrder

\* Every step preserves it.
LEMMA NextHInv ==
    IInv /\ HInv /\ [Next]_vars => HInv'
<1> SUFFICES ASSUME IInv, HInv, [Next]_vars PROVE HInv'
  OBVIOUS
<1>1. CASE Next
  BY <1>1, SessionPublishes DEF Next
<1>2. CASE UNCHANGED vars
  BY <1>2 DEF vars, HInv, Holds, CheckoutHolds, StatusHolds, HoldsWrittenLines,
              HoldsNothing, PlacedOK, Kind
<1>3. QED
  BY <1>1, <1>2

\* Both invariants hold throughout.
LEMMA HoldsInvariance == Spec => [](IInv /\ HInv)
<1>1. Init => IInv /\ HInv
  BY InitIInv, InitHInv
<1>2. (IInv /\ HInv) /\ [Next]_vars => (IInv /\ HInv)'
  BY NextIInv, NextHInv
<1>3. QED
  BY <1>1, <1>2, PTL DEF Spec

-----------------------------------------------------------------------------
\* The payment column.

\* Only three statements write an order row.
LEMMA OrderWriters ==
    ASSUME IInv, HInv, NEW s \in Session,
           Request(s) \/ HandlerStep(s) \/ DeadlockVictim(s) \/ ConnectionLost(s)
    PROVE  \/ \A o \in Order : disk'[o] = disk[o]
           \/ Kind(s) = "checkout" /\ InsertOrder(s)
           \/ Kind(s) = "status" /\ ApplyStatus(s)
           \/ Kind(s) = "note"
<1>1. ASSUME disk' = disk PROVE \A o \in Order : disk'[o] = disk[o]
  BY <1>1
<1>2. CASE Request(s)
  BY <1>1, <1>2, RequestStep
<1>3. CASE DeadlockVictim(s) \/ ConnectionLost(s)
  BY <1>1, <1>3, ThrowStep DEF DeadlockVictim, ConnectionLost
<1>4. CASE HandlerStep(s) /\ Kind(s) = "checkout"
  <2>1. CheckoutStep(s)
    BY <1>4 DEF HandlerStep
  <2>2. InsertOrder(s) \/ disk' = disk
    BY <2>1, ThrowStep, RecalculateStep
       DEF CheckoutStep, ReserveLine, OutOfStock, TakeOrderNumber, NumberTaken, DB!Update
  <2>3. QED
    BY <1>1, <1>4, <2>2
<1>5. CASE HandlerStep(s) /\ Kind(s) = "status"
  <2>1. StatusStep(s)
    BY <1>5 DEF HandlerStep
  <2>2. ApplyStatus(s) \/ disk' = disk
    BY <2>1, ThrowStep, RecalculateStep DEF StatusStep, RestoreLine, StatusConflict, DB!Update
  <2>3. QED
    BY <1>1, <1>5, <2>2
<1>6. CASE HandlerStep(s) /\ Kind(s) \notin {"checkout", "status", "note"}
  <2>1. OrderEffect(s)
    BY <1>6, FormStepOK
  <2>2. QED
    BY <1>6, <2>1 DEF OrderEffect
<1>7. QED
  BY <1>2, <1>3, <1>4, <1>5, <1>6

\* A status change remembers a row of the table.
LEMMA SeenRows ==
    ASSUME IInv, NEW s \in Session,
           Request(s) \/ HandlerStep(s) \/ DeadlockVictim(s) \/ ConnectionLost(s),
           Kind(s)' = "status"
    PROVE  \/ job'[s] = job[s]
           \/ \E o \in Order : disk[o].status # "absent" /\ job'[s].seen = disk[o]
<1>1. TasksOK
  BY TypeParts DEF IInv
<1>2. ASSUME NEW label, NEW loaded, NEW lines, Start(s, label, loaded, lines)
      PROVE  job'[s] = loaded
  BY <1>1, <1>2 DEF Start, TasksOK
<1>3. ASSUME Finish(s) PROVE FALSE
  BY <1>1, <1>3 DEF Finish, TasksOK, Kind, NoJob
<1>4. CASE Request(s)
  <2>1. ASSUME NEW o \in Order, NEW to, ChangeStatus(s, o, to)
        PROVE  disk[o].status # "absent" /\ job'[s].seen = disk[o]
    BY <1>2, <2>1 DEF ChangeStatus
  <2>2. CASE UpdateStatus(s) \/ CancelMine(s)
    BY <2>1, <2>2 DEF UpdateStatus, CancelMine
  <2>3. ASSUME NEW label, NEW loaded, NEW lines, Start(s, label, loaded, lines),
               loaded.kind # "status"
        PROVE  FALSE
    BY <1>2, <2>3 DEF Kind
  <2>4. ASSUME LoadLines(s) PROVE FALSE
    BY <2>3, <2>4 DEF LoadLines
  <2>5. ASSUME NEW kind, NEW r, NEW entity, LoadToSave(s, kind, r, entity), kind # "status"
        PROVE  FALSE
    BY <2>3, <2>5 DEF LoadToSave
  <2>6. ASSUME \/ LoadForNote(s) \/ LoadForVariantEdit(s) \/ LoadForProductEdit(s)
               \/ LoadForStoreEdit(s)
        PROVE  FALSE
    BY <2>5, <2>6 DEF LoadForNote, LoadForVariantEdit, LoadForProductEdit, LoadForStoreEdit
  <2>7. ASSUME LoadForVariantRemoval(s) PROVE FALSE
    BY <2>3, <2>7 DEF LoadForVariantRemoval
  <2>8. ASSUME LoadForProductRemoval(s) PROVE FALSE
    BY <2>3, <2>8 DEF LoadForProductRemoval
  <2>9. QED
    BY <1>4, <2>2, <2>4, <2>6, <2>7, <2>8 DEF Request
<1>5. CASE DeadlockVictim(s) \/ ConnectionLost(s)
  BY <1>3, <1>5 DEF DeadlockVictim, ConnectionLost, Throw
<1>6. CASE HandlerStep(s)
  <2>1. CASE Recalculate(s)
    BY <2>1 DEF Recalculate, SelectSums, UpdateAggregate
  <2>2. CASE Kind(s) = "checkout" /\ TakeOrderNumber(s)
    <3>1. job[s] \in CheckoutJob
      BY <1>1, <2>2, JobKinds DEF TasksOK, Kind
    <3>2. QED
      BY <1>1, <2>2, <3>1 DEF TakeOrderNumber, TasksOK, Kind, CheckoutJob
  <2>3. CASE ReserveLine(s) \/ RestoreLine(s) \/ SaveVariant(s) \/ RemoveVariant(s)
    BY <2>3 DEF ReserveLine, RestoreLine, SaveVariant, RemoveVariant
  <2>4. CASE \/ OutOfStock(s) \/ InsertOrder(s) \/ NumberTaken(s) \/ ApplyStatus(s)
             \/ StatusConflict(s) \/ SaveNote(s) \/ SaveProduct(s) \/ SaveStore(s)
             \/ RemoveProduct(s) \/ CommitHandler(s)
    BY <1>3, <2>4 DEF OutOfStock, InsertOrder, NumberTaken, ApplyStatus, StatusConflict,
         SaveNote, SaveProduct, SaveStore, RemoveProduct, CommitHandler, Throw
  <2>5. CASE Kind(s) \in {"note", "variant", "product", "store"} /\ SelectToSave(s)
    <3>1. job[s] \in NoteJob \cup VariantJob \cup ProductJob \cup StoreJob
      BY <1>1, <2>5, JobKinds DEF TasksOK, Kind
    <3>2. job'[s] = [job[s] EXCEPT !.selected = DB!Visible(s, job[s].row)]
      BY <1>1, <2>5 DEF SelectToSave, TasksOK
    <3>3. QED
      BY <3>1, <3>2 DEF Kind, NoteJob, VariantJob, ProductJob, StoreJob
  <2>6. CASE Kind(s) = "removeProduct" /\ RemoveProductVariant(s)
    <3>1. job[s] \in ProductRemovalJob
      BY <1>1, <2>6, JobKinds DEF TasksOK, Kind
    <3>2. QED
      BY <1>1, <2>6, <3>1 DEF RemoveProductVariant, TasksOK, Kind, ProductRemovalJob
  <2>7. QED
    BY <1>6, <2>1, <2>2, <2>3, <2>4, <2>5, <2>6
       DEF HandlerStep, CheckoutStep, StatusStep, VariantEditStep, VariantRemovalStep
<1>7. QED
  BY <1>4, <1>5, <1>6

\* Without note saves every step keeps the payment column with the status.
LEMMA PaidStep ==
    ASSUME IInv, HInv, PaidInv, NoteRequests = {}, NEW s \in Session,
           Request(s) \/ HandlerStep(s) \/ DeadlockVictim(s) \/ ConnectionLost(s)
    PROVE  PaidInv'
<1>1. PaidExactlyWhenDelivered'
  <2>1. Kind(s) # "note"
    BY DEF IInv, EveryJobFits, Fits
  <2>2. CASE \A o \in Order : disk'[o] = disk[o]
    BY <2>2 DEF PaidInv, PaidExactlyWhenDelivered
  <2>3. CASE Kind(s) = "checkout" /\ InsertOrder(s)
    <3>1. /\ s \in Order /\ \A o \in Order \ {s} : disk'[o] = disk[o]
          /\ disk'[s].paid = FALSE /\ disk'[s].status = "pending"
      BY <2>3, InsertOrderPublishes
    <3>2. QED
      BY <3>1 DEF PaidInv, PaidExactlyWhenDelivered
  <2>4. CASE Kind(s) = "status" /\ ApplyStatus(s)
    <3> DEFINE paid == disk[job[s].order].paid \/ PaysOrder(job[s].seen, job[s].to)
               version == [disk[job[s].order] EXCEPT !.status = job[s].to, !.paid = paid]
    <3>1. /\ job[s].order \in Order /\ job[s].order \in Row /\ disk[job[s].order] \in PlacedRow
          /\ disk[job[s].order].status = job[s].seen.status
          /\ LegalTransition(job[s].seen.status, job[s].to)
          /\ DB!UpdateAndCommit(s, job[s].order, version)
      BY <2>4, AppliedRow, Tables
    <3>2. \A o \in Order : disk'[o] = (IF o = job[s].order THEN version ELSE disk[o])
      <4> HIDE DEF version
      <4>1. QED
        BY <3>1, Published
    <3>3. /\ job[s].seen.method = "cod"
          /\ job[s].seen.paid <=> job[s].seen.status = "delivered"
          /\ disk[job[s].order].paid <=> disk[job[s].order].status = "delivered"
      BY <2>4, <3>1 DEF PaidInv, PaidExactlyWhenDelivered
    <3>4. job[s].seen.status # "delivered"
      BY <3>1 DEF LegalTransition, ORDER_STATUS_TRANSITIONS
    <3>5. paid <=> job[s].to = "delivered"
      BY <3>1, <3>3, <3>4 DEF PaysOrder
    <3>6. paid \in BOOLEAN
      BY <3>1 DEF PlacedRow
    <3> HIDE DEF paid
    <3>7. version.paid = paid /\ version.status = job[s].to
      BY <3>1, <3>6 DEF PlacedRow
    <3> HIDE DEF version
    <3>8. QED
      BY <3>2, <3>5, <3>7 DEF PaidInv, PaidExactlyWhenDelivered
  <2>5. QED
    BY <2>1, <2>2, <2>3, <2>4, OrderWriters
<1>2. ASSUME NEW t \in Session, Kind(t)' = "status"
      PROVE  /\ job'[t].seen.method = "cod"
             /\ job'[t].seen.paid <=> job'[t].seen.status = "delivered"
  <2>1. CASE job'[t] = job[t]
    BY <1>2, <2>1 DEF PaidInv, Kind
  <2>2. ASSUME NEW o \in Order, disk[o].status # "absent", job'[t].seen = disk[o]
        PROVE  /\ job'[t].seen.method = "cod"
               /\ job'[t].seen.paid <=> job'[t].seen.status = "delivered"
    BY <2>2 DEF HInv, PlacedOK, PaidInv, PaidExactlyWhenDelivered
  <2>3. CASE t # s
    BY <2>1, <2>3, OneMoves, TypeParts DEF IInv, OthersKept
  <2>4. QED
    BY <1>2, <2>1, <2>2, <2>3, SeenRows
<1>3. QED
  BY <1>1, <1>2 DEF PaidInv

-----------------------------------------------------------------------------
\* What is removed stays removed: a product is removed together with all its
\* variants, and only the form of a variant brings one of them back.

\* What the handler of session s does to the removal of the rows it holds: the
\* removal of a product has written the variants it has not left to write, no
\* handler but a variant's form takes a removal back, and none of a product's.
KeepsRemovals(s) ==
    /\ Kind(s) = "removeProduct" =>
         \A v \in Variant : ProductOf[v] = job[s].row =>
           (\E i \in DOMAIN job[s].left : job[s].left[i] = v)
             \/ (holder[v] = s /\ live[v].deleted)
    /\ Kind(s) # "variant" =>
         \A v \in Variant : holder[v] = s => (disk[v].deleted => live[v].deleted)
    /\ \A p \in Product : holder[p] = s => live[p].deleted = disk[p].deleted
    /\ Kind(s) = "product" => job[s].entity.deleted = FALSE

VariantSaved == \E s \in VariantEdits : pc[s] = "done"

RemovedTogether ==
    VariantSaved \/ \A v \in Variant : disk[ProductOf[v]].deleted => disk[v].deleted

RInv ==
    /\ \A s \in Session : KeepsRemovals(s)
    /\ RemovedTogether

\* A step of one session leaves true what the others keep.
LEMMA OthersKeepRemovals ==
    ASSUME RInv, NEW s \in Session, OthersKept(s), OthersLocksKept(s)
    PROVE  \A t \in Session \ {s} : KeepsRemovals(t)'
<1> SUFFICES ASSUME NEW t \in Session \ {s} PROVE KeepsRemovals(t)'
  OBVIOUS
<1>1. /\ KeepsRemovals(t) /\ job'[t] = job[t]
      /\ \A r \in Variant \cup Product :
           /\ holder'[r] = t <=> holder[r] = t
           /\ holder[r] = t => disk'[r] = disk[r] /\ live'[r] = live[r]
  BY DEF RInv, OthersKept, OthersLocksKept
<1>2. QED
  BY <1>1 DEF KeepsRemovals, Kind

\* The form of a variant is saved once and for all.
LEMMA SavedStays ==
    ASSUME IInv, VariantSaved, NEW s \in Session,
           Request(s) \/ HandlerStep(s) \/ DeadlockVictim(s) \/ ConnectionLost(s)
    PROVE  VariantSaved'
<1>1. PICK t \in VariantEdits : pc[t] = "done"
  BY DEF VariantSaved
<1>2. t \in Session /\ t \in FormRequests /\ TasksOK
  BY TypeParts DEF Session, FormRequests, IInv
<1>3. CASE t # s
  BY <1>1, <1>2, <1>3, OneMoves DEF OthersKept, VariantSaved
<1>4. CASE t = s
  <2>1. Kind(s) = "none"
    BY <1>1, <1>2, <1>4, JobKinds DEF IInv, EveryJobFits, Fits, TasksOK, Kind
  <2>2. ~Request(s)
    BY <1>1, <1>4 DEF Request, LoadLines, UpdateStatus, CancelMine, ChangeStatus, LoadForNote,
       LoadForVariantEdit, LoadForProductEdit, LoadForStoreEdit, LoadForVariantRemoval,
       LoadForProductRemoval, LoadToSave, Start
  <2>3. ~HandlerStep(s)
    BY <2>1 DEF HandlerStep
  <2>4. Finish(s)
    BY <2>2, <2>3 DEF DeadlockVictim, ConnectionLost, Throw
  <2>5. pc'[s] = "done"
    BY <1>2, <1>4, <2>4 DEF Finish, TasksOK
  <2>6. QED
    BY <1>1, <1>4, <2>5 DEF VariantSaved
<1>5. QED
  BY <1>3, <1>4

\* What the step lemmas show: what session s keeps after the step, and, if no
\* form of a variant was saved, that nothing is removed by half.
StepRemoves(s) ==
    /\ KeepsRemovals(s)'
    /\ VariantSaved' \/ VariantSaved
         \/ \A v \in Variant : disk'[ProductOf[v]].deleted => disk'[v].deleted

\* A step that commits nothing.
LEMMA QuietRemoves ==
    ASSUME RInv, NEW s \in Session, KeepsRemovals(s)', disk' = disk
    PROVE  StepRemoves(s)
BY DEF RInv, RemovedTogether, StepRemoves

\* A handler that ends holds nothing it could take back.
LEMMA FinishKeeps ==
    ASSUME IInv, NEW s \in Session, Finish(s), DB!Release(s)
    PROVE  KeepsRemovals(s)'
<1>1. job'[s] = NoJob
  BY TypeParts DEF IInv, TasksOK, Finish
<1>2. \A r \in Variant \cup Product : holder'[r] # s
  BY Tables, SessionsAreReal DEF DB!Release
<1>3. QED
  BY <1>1, <1>2 DEF KeepsRemovals, Kind, NoJob

\* A request starts with no lock.
LEMMA RequestRemoves ==
    ASSUME IInv, HInv, RInv, NEW s \in Session, Request(s)
    PROVE  StepRemoves(s)
<1>1. pc[s] = "idle" /\ UNCHANGED <<disk, live, holder>>
  BY DEF Request, LoadLines, UpdateStatus, CancelMine, ChangeStatus, LoadForNote,
     LoadForVariantEdit, LoadForProductEdit, LoadForStoreEdit, LoadForVariantRemoval,
     LoadForProductRemoval, LoadToSave, Start
<1>2. HoldsNothing(s) /\ KeepsRemovals(s) /\ TasksOK /\ TablesOK
  BY <1>1, IdleHoldsNothing, TypeParts DEF IInv, RInv
<1>3. ASSUME NEW label, NEW loaded, NEW lines, Start(s, label, loaded, lines)
      PROVE  job'[s] = loaded
  BY <1>2, <1>3 DEF Start, TasksOK
<1>4. ASSUME Kind(s)' = "removeProduct" =>
               \A v \in Variant : ProductOf[v] = job'[s].row =>
                 \E i \in DOMAIN job'[s].left : job'[s].left[i] = v,
             Kind(s)' = "product" => job'[s].entity.deleted = FALSE
      PROVE  StepRemoves(s)
  <2>1. KeepsRemovals(s)'
    BY <1>1, <1>2, <1>4 DEF KeepsRemovals, HoldsNothing
  <2>2. QED
    BY <1>1, <2>1, QuietRemoves
<1>5. ASSUME NEW label, NEW loaded, NEW lines, Start(s, label, loaded, lines),
             loaded.kind \notin {"removeProduct", "product"}
      PROVE  StepRemoves(s)
  BY <1>3, <1>4, <1>5 DEF Kind
<1>6. CASE LoadLines(s)
  BY <1>5, <1>6 DEF LoadLines
<1>7. ASSUME NEW o \in Order, NEW to, ChangeStatus(s, o, to) PROVE StepRemoves(s)
  BY <1>5, <1>7 DEF ChangeStatus
<1>8. CASE UpdateStatus(s) \/ CancelMine(s)
  BY <1>7, <1>8 DEF UpdateStatus, CancelMine
<1>9. CASE LoadForNote(s) \/ LoadForVariantEdit(s) \/ LoadForStoreEdit(s)
  BY <1>5, <1>9 DEF LoadForNote, LoadForVariantEdit, LoadForStoreEdit, LoadToSave
<1>10. CASE LoadForVariantRemoval(s)
  BY <1>5, <1>10 DEF LoadForVariantRemoval
<1>11. CASE LoadForProductEdit(s)
  <2>1. PICK p \in Product, active \in BOOLEAN :
          ~disk[p].deleted /\ LoadToSave(s, "product", p, [disk[p] EXCEPT !.active = active])
    BY <1>11 DEF LoadForProductEdit
  <2>2. /\ job'[s].kind = "product"
        /\ job'[s].entity = [disk[p] EXCEPT !.active = active]
    BY <1>3, <2>1 DEF LoadToSave
  <2>3. disk[p] \in ProductRow
    BY <1>2, Tables DEF TablesOK, RowOK
  <2>4. job'[s].entity.deleted = FALSE
    BY <2>1, <2>2, <2>3 DEF ProductRow
  <2>5. QED
    BY <1>4, <2>2, <2>4 DEF Kind
<1>12. CASE LoadForProductRemoval(s)
  <2>1. PICK p \in Product :
          \E scan \in [1..Cardinality({v \in Variant : ProductOf[v] = p})
                         -> {v \in Variant : ProductOf[v] = p}] :
            /\ {v \in Variant : ProductOf[v] = p} = {scan[i] : i \in DOMAIN scan}
            /\ Start(s, "remove", [kind |-> "removeProduct", row |-> p, left |-> scan], <<>>)
    BY <1>12 DEF LoadForProductRemoval
  <2>2. PICK scan : /\ {v \in Variant : ProductOf[v] = p} = {scan[i] : i \in DOMAIN scan}
                    /\ Start(s, "remove", [kind |-> "removeProduct", row |-> p, left |-> scan], <<>>)
    BY <2>1
  <2>3. job'[s] = [kind |-> "removeProduct", row |-> p, left |-> scan]
    BY <1>3, <2>2
  <2>4. \A v \in Variant : ProductOf[v] = p => \E i \in DOMAIN scan : scan[i] = v
    BY <2>2
  <2>5. QED
    BY <1>4, <2>3, <2>4 DEF Kind
<1>13. QED
  BY <1>6, <1>8, <1>9, <1>10, <1>11, <1>12 DEF Request

\* A step that leaves the tables and the handler's job but for what it selected.
LEMMA IdleTablesRemove ==
    ASSUME RInv, NEW s \in Session, UNCHANGED <<disk, live, holder>>,
           Kind(s)' = Kind(s),
           Kind(s) = "removeProduct" => job'[s] = job[s],
           Kind(s) = "product" => job'[s].entity = job[s].entity
    PROVE  StepRemoves(s)
<1>1. KeepsRemovals(s)
  BY DEF RInv
<1>2. KeepsRemovals(s)'
  BY <1>1 DEF KeepsRemovals
<1>3. QED
  BY <1>2, QuietRemoves

\* An UPDATE of a row that takes no removal back.
LEMMA UpdateRemoves ==
    ASSUME IInv, RInv, NEW s \in Session, NEW r \in Row, NEW version,
           DB!Update(s, r, version), Kind(s)' = Kind(s),
           r \in Variant => Kind(s) = "variant"
                            \/ (DB!Visible(s, r).deleted => version.deleted),
           r \in Product => version.deleted = DB!Visible(s, r).deleted,
           Kind(s) # "product",
           Kind(s) = "removeProduct" =>
             /\ r \in Variant /\ version.deleted
             /\ job'[s].row = job[s].row
             /\ \A i \in DOMAIN job[s].left :
                  job[s].left[i] = r \/ \E j \in DOMAIN job'[s].left : job'[s].left[j] = job[s].left[i]
    PROVE  StepRemoves(s)
<1>1. KeepsRemovals(s) /\ TablesOK
  BY TypeParts DEF RInv, IInv
<1>2. disk' = disk /\ \A q \in Row : /\ live'[q] = (IF q = r THEN version ELSE live[q])
                                     /\ holder'[q] = (IF q = r THEN s ELSE holder[q])
  BY <1>1 DEF DB!Update, TablesOK
<1>3. \A q \in Variant \cup Product : q \in Row
  BY Tables
<1>4. Kind(s) # "variant" =>
        \A v \in Variant : holder'[v] = s => (disk'[v].deleted => live'[v].deleted)
  BY <1>1, <1>2, <1>3 DEF KeepsRemovals, DB!Visible
<1>5. \A p \in Product : holder'[p] = s => live'[p].deleted = disk'[p].deleted
  <2> TAKE p \in Product
  <2>1. CASE p = r
    <3>1. DB!Visible(s, r).deleted = disk[r].deleted
      BY <1>1, <2>1 DEF KeepsRemovals, DB!Visible
    <3>2. QED
      BY <1>2, <1>3, <2>1, <3>1
  <2>2. CASE p # r
    BY <1>1, <1>2, <1>3, <2>2 DEF KeepsRemovals
  <2>3. QED
    BY <2>1, <2>2
<1>6. Kind(s) = "removeProduct" =>
        \A v \in Variant : ProductOf[v] = job'[s].row =>
          (\E i \in DOMAIN job'[s].left : job'[s].left[i] = v)
            \/ (holder'[v] = s /\ live'[v].deleted)
  <2> SUFFICES ASSUME Kind(s) = "removeProduct", NEW v \in Variant, ProductOf[v] = job'[s].row
               PROVE  (\E i \in DOMAIN job'[s].left : job'[s].left[i] = v)
                        \/ (holder'[v] = s /\ live'[v].deleted)
    OBVIOUS
  <2>1. (\E i \in DOMAIN job[s].left : job[s].left[i] = v)
          \/ (holder[v] = s /\ live[v].deleted)
    BY <1>1 DEF KeepsRemovals
  <2>2. CASE v = r
    BY <1>2, <1>3, <2>2
  <2>3. CASE v # r
    BY <1>2, <1>3, <2>1, <2>3
  <2>4. QED
    BY <2>2, <2>3
<1>7. KeepsRemovals(s)'
  BY <1>4, <1>5, <1>6 DEF KeepsRemovals
<1>8. QED
  BY <1>2, <1>7, QuietRemoves

\* A commit of what a handler holds, with or without a last UPDATE of a row that
\* is neither a variant nor a product.
LEMMA CommitRemoves ==
    ASSUME IInv, HInv, RInv, NEW s \in Session, Finish(s), DB!Release(s),
           \A q \in Variant \cup Product : disk'[q] = DB!Visible(s, q)
    PROVE  StepRemoves(s)
<1>1. KeepsRemovals(s) /\ KeepsRemovals(s)'
  BY FinishKeeps DEF RInv
<1>2. CASE Kind(s) = "variant"
  <2>1. s \in VariantEdits /\ pc'[s] = "done"
    BY <1>2, TypeParts DEF HInv, Holds, IInv, TasksOK, Finish, FormRequests
  <2>2. QED
    BY <1>1, <2>1 DEF StepRemoves, VariantSaved
<1>3. CASE Kind(s) # "variant"
  <2>1. \A p \in Product : disk'[p].deleted = disk[p].deleted
    BY <1>1 DEF KeepsRemovals, DB!Visible
  <2>2. \A v \in Variant : disk[v].deleted => disk'[v].deleted
    BY <1>1, <1>3 DEF KeepsRemovals, DB!Visible
  <2>3. \A v \in Variant : ProductOf[v] \in Product
    BY CatalogIsSound
  <2>4. QED
    BY <1>1, <2>1, <2>2, <2>3 DEF StepRemoves, RInv, RemovedTogether
<1>4. QED
  BY <1>2, <1>3

\* The save of a product removes nothing; its removal follows all its variants.
LEMMA ProductRemoves ==
    ASSUME IInv, HInv, RInv, NEW s \in Session, Finish(s),
           NEW p \in Product, NEW version, DB!UpdateAndCommit(s, p, version),
           Kind(s) # "variant",
           \/ version.deleted => disk[p].deleted
           \/ \A v \in Variant : ProductOf[v] = p => holder[v] = s /\ live[v].deleted
    PROVE  StepRemoves(s)
<1>1. KeepsRemovals(s) /\ KeepsRemovals(s)'
  BY FinishKeeps DEF RInv, DB!UpdateAndCommit
<1>2. /\ \A q \in Variant : disk'[q] = DB!Visible(s, q)
      /\ \A q \in Product : disk'[q] = (IF q = p THEN version ELSE DB!Visible(s, q))
  BY Tables DEF DB!UpdateAndCommit
<1>3. \A q \in Product : q # p => disk'[q].deleted = disk[q].deleted
  BY <1>1, <1>2 DEF KeepsRemovals, DB!Visible
<1>4. \A v \in Variant : disk[v].deleted => disk'[v].deleted
  BY <1>1, <1>2 DEF KeepsRemovals, DB!Visible
<1>5. ASSUME NEW v \in Variant, disk'[ProductOf[v]].deleted, ~VariantSaved
      PROVE  disk'[v].deleted
  <2>1. ProductOf[v] \in Product
    BY CatalogIsSound
  <2>2. disk[ProductOf[v]].deleted => disk[v].deleted
    BY <1>5 DEF RInv, RemovedTogether
  <2>3. CASE ProductOf[v] = p /\ (version.deleted => disk[p].deleted)
    BY <1>2, <1>4, <1>5, <2>1, <2>2, <2>3
  <2>4. CASE ProductOf[v] = p /\ ~(version.deleted => disk[p].deleted)
    BY <1>2, <2>4 DEF DB!Visible
  <2>5. CASE ProductOf[v] # p
    BY <1>3, <1>4, <1>5, <2>1, <2>2, <2>5
  <2>6. QED
    BY <2>3, <2>4, <2>5
<1>6. QED
  BY <1>1, <1>5 DEF StepRemoves

\* The statements that write a variant's stock, or mark it removed.
LEMMA LineRemoves ==
    ASSUME IInv, HInv, RInv, NEW s \in Session,
           \/ Kind(s) = "checkout" /\ ReserveLine(s)
           \/ Kind(s) = "status" /\ RestoreLine(s)
    PROVE  StepRemoves(s)
<1>1. TasksOK /\ TablesOK /\ todo[s] # <<>>
  BY TypeParts DEF IInv, EveryJobFits, Fits, ReserveLine, RestoreLine
<1>2. Head(todo[s]).variant \in Variant
  BY <1>1, NextLine
<1>3. PICK u \in Variant : u = Head(todo[s]).variant
  BY <1>2
<1>4. u \in Row /\ u \notin Product /\ DB!Visible(s, u) \in VariantRow
  BY <1>1, Tables, VisibleOK DEF RowOK
<1>5. \E n : DB!Update(s, u, [DB!Visible(s, u) EXCEPT !.stock = n])
  BY <1>3 DEF ReserveLine, RestoreLine
<1>6. PICK n : DB!Update(s, u, [DB!Visible(s, u) EXCEPT !.stock = n])
  BY <1>5
<1>7. [DB!Visible(s, u) EXCEPT !.stock = n].deleted = DB!Visible(s, u).deleted
  BY <1>4 DEF VariantRow
<1>8. job' = job /\ Kind(s) \in {"checkout", "status"}
  BY DEF ReserveLine, RestoreLine
<1>9. PICK version : /\ version = [DB!Visible(s, u) EXCEPT !.stock = n]
  OBVIOUS
<1>10. DB!Update(s, u, version) /\ version.deleted = DB!Visible(s, u).deleted
  BY <1>6, <1>7, <1>9
<1>11. QED
  BY <1>4, <1>8, <1>10, UpdateRemoves DEF Kind

\* Recalculating a product removes nothing.
LEMMA RecalculateRemoves ==
    ASSUME IInv, HInv, RInv, NEW s \in Session, Recalculate(s),
           Kind(s) \in {"checkout", "status", "variant", "removeVariant"}
    PROVE  StepRemoves(s)
<1>1. CASE SelectSums(s)
  BY <1>1, IdleTablesRemove DEF SelectSums, Kind
<1>2. CASE UpdateAggregate(s)
  <2>1. PICK p \in Product :
          DB!Update(s, p, [DB!Visible(s, p) EXCEPT !.aggregate = sums[s]])
    BY <1>2 DEF UpdateAggregate
  <2>2. p \in Row /\ p \notin Variant /\ DB!Visible(s, p) \in ProductRow
    BY Tables, VisibleOK, TypeParts DEF IInv, RowOK
  <2>3. [DB!Visible(s, p) EXCEPT !.aggregate = sums[s]].deleted = DB!Visible(s, p).deleted
    BY <2>2 DEF ProductRow
  <2>4. PICK version : version = [DB!Visible(s, p) EXCEPT !.aggregate = sums[s]]
    OBVIOUS
  <2>5. job' = job
    BY <1>2 DEF UpdateAggregate
  <2>6. DB!Update(s, p, version) /\ version.deleted = DB!Visible(s, p).deleted
    BY <2>1, <2>3, <2>4
  <2>7. QED
    BY <2>2, <2>5, <2>6, UpdateRemoves DEF Kind
<1>3. QED
  BY <1>1, <1>2 DEF Recalculate

\* A transaction that ends with the row of an order or of the store, or with none.
LEMMA LastRowRemoves ==
    ASSUME IInv, HInv, RInv, NEW s \in Session, Finish(s),
           \/ DB!Commit(s)
           \/ \E r \in Order \cup {Store} : \E version : DB!UpdateAndCommit(s, r, version)
    PROVE  StepRemoves(s)
<1>1. CASE DB!Commit(s)
  <2>1. DB!Release(s) /\ \A q \in Variant \cup Product : disk'[q] = DB!Visible(s, q)
    BY <1>1, Tables DEF DB!Commit
  <2>2. QED
    BY <2>1, CommitRemoves
<1>2. ASSUME NEW r \in Order \cup {Store}, NEW version, DB!UpdateAndCommit(s, r, version)
      PROVE  StepRemoves(s)
  <2>1. DB!Release(s) /\ \A q \in Variant \cup Product : disk'[q] = DB!Visible(s, q)
    BY <1>2, Tables DEF DB!UpdateAndCommit
  <2>2. QED
    BY <2>1, CommitRemoves
<1>3. QED
  BY <1>1, <1>2

\* A rollback publishes nothing.
LEMMA ThrowRemoves ==
    ASSUME IInv, RInv, NEW s \in Session, Throw(s)
    PROVE  StepRemoves(s)
BY FinishKeeps, QuietRemoves DEF Throw, DB!Rollback

\* A form that reads its row again remembers the same entity.
LEMMA SelectRemoves ==
    ASSUME IInv, RInv, NEW s \in Session, SelectToSave(s),
           Kind(s) \in {"note", "variant", "product", "store"}
    PROVE  StepRemoves(s)
<1>1. TasksOK /\ job[s] \in NoteJob \cup VariantJob \cup ProductJob \cup StoreJob
  BY TypeParts, JobKinds DEF IInv, TasksOK, Kind
<1>2. job'[s] = [job[s] EXCEPT !.selected = DB!Visible(s, job[s].row)]
  BY <1>1 DEF SelectToSave, TasksOK
<1>3. job'[s].kind = job[s].kind /\ job'[s].entity = job[s].entity
  BY <1>1, <1>2 DEF NoteJob, VariantJob, ProductJob, StoreJob
<1>4. QED
  BY <1>3, IdleTablesRemove DEF SelectToSave, Kind

\* Every step of a removal or of a dashboard form.
LEMMA FormRemoves ==
    ASSUME IInv, HInv, RInv, NEW s \in Session, HandlerStep(s),
           Kind(s) \notin {"checkout", "status"}
    PROVE  StepRemoves(s)
<1>1. TasksOK /\ TablesOK /\ KeepsRemovals(s) /\ job[s] \in Job
  BY TypeParts DEF IInv, RInv, TasksOK
<1>2. CASE Kind(s) \in {"note", "variant", "product", "store"} /\ SelectToSave(s)
  BY <1>2, SelectRemoves
<1>3. CASE Kind(s) = "note" /\ SaveNote(s)
  <2>1. job[s].row \in Order
    BY <1>1, <1>3, JobKinds DEF Kind, NoteJob
  <2>2. QED
    BY <1>3, <2>1, LastRowRemoves DEF SaveNote
<1>4. CASE Kind(s) = "store" /\ SaveStore(s)
  BY <1>4, LastRowRemoves DEF SaveStore
<1>5. CASE Kind(s) \in {"variant", "removeVariant"} /\ CommitHandler(s)
  BY <1>5, LastRowRemoves DEF CommitHandler
<1>6. CASE Kind(s) \in {"variant", "removeVariant"} /\ Recalculate(s)
  BY <1>6, RecalculateRemoves
<1>7. CASE Kind(s) = "variant" /\ SaveVariant(s)
  <2>1. job[s].row \in Variant
    BY <1>1, <1>7, JobKinds DEF Kind, VariantJob
  <2>2. PICK r \in Variant : \E version : DB!Update(s, r, version)
    BY <1>7, <2>1 DEF SaveVariant
  <2>3. r \in Row /\ r \notin Product /\ job' = job
    BY <1>7, Tables DEF SaveVariant
  <2>4. QED
    BY <1>7, <2>2, <2>3, UpdateRemoves DEF Kind
<1>8. CASE Kind(s) = "product" /\ SaveProduct(s)
  <2>1. job[s].row \in Product /\ job[s].entity.deleted = FALSE
    BY <1>1, <1>8, JobKinds DEF Kind, ProductJob, KeepsRemovals
  <2>2. PICK p \in Product : p = job[s].row
    BY <2>1
  <2>3. DB!Visible(s, p) \in ProductRow
    BY <1>1, Tables, VisibleOK DEF RowOK
  <2>4. DB!Visible(s, p).deleted = disk[p].deleted
    BY <1>1 DEF KeepsRemovals, DB!Visible
  <2>5. PICK aggregate, active, deleted :
          /\ DB!UpdateAndCommit(s, p, [DB!Visible(s, p) EXCEPT
               !.aggregate = aggregate, !.active = active, !.deleted = deleted])
          /\ deleted = Column(job[s].entity.deleted, job[s].selected.deleted,
                              DB!Visible(s, p).deleted)
    BY <1>8, <2>2 DEF SaveProduct
  <2>6. deleted => disk[p].deleted
    BY <2>1, <2>4, <2>5 DEF Column
  <2>7. PICK version : version = [DB!Visible(s, p) EXCEPT
               !.aggregate = aggregate, !.active = active, !.deleted = deleted]
    OBVIOUS
  <2>8. version.deleted = deleted
    BY <2>3, <2>7 DEF ProductRow
  <2>9. QED
    BY <1>8, <2>5, <2>6, <2>7, <2>8, ProductRemoves DEF SaveProduct
<1>9. CASE Kind(s) = "removeVariant" /\ RemoveVariant(s)
  <2>1. job[s].row \in Variant
    BY <1>1, <1>9, JobKinds DEF Kind, VariantRemovalJob
  <2>2. PICK r \in Variant : r = job[s].row
    BY <2>1
  <2>3. r \in Row /\ r \notin Product /\ DB!Visible(s, r) \in VariantRow /\ job' = job
    BY <1>1, <1>9, Tables, VisibleOK DEF RowOK, RemoveVariant
  <2>4. PICK version : version = [DB!Visible(s, r) EXCEPT !.deleted = TRUE]
    OBVIOUS
  <2>5. DB!Update(s, r, version) /\ version.deleted = TRUE
    BY <1>9, <2>2, <2>3, <2>4 DEF RemoveVariant, VariantRow
  <2>6. QED
    BY <1>9, <2>3, <2>5, UpdateRemoves DEF Kind
<1>10. CASE Kind(s) = "removeProduct" /\ RemoveProductVariant(s)
  <2>1. job[s] \in ProductRemovalJob /\ job[s].left # <<>> /\ job[s].left \in Seq(Variant)
    BY <1>1, <1>10, JobKinds DEF Kind, RemoveProductVariant, ProductRemovalJob
  <2>2. PICK left \in Seq(Variant) : left = job[s].left
    BY <2>1
  <2>3. Head(left) \in Variant
    BY <2>1, <2>2, HeadTailProperties
  <2>4. PICK r \in Variant : r = Head(left)
    BY <2>3
  <2>5. job'[s] = [job[s] EXCEPT !.left = Tail(left)]
    BY <1>1, <1>10, <2>2 DEF RemoveProductVariant, TasksOK
  <2>6. job'[s].kind = job[s].kind /\ job'[s].row = job[s].row /\ job'[s].left = Tail(left)
    BY <2>1, <2>5 DEF ProductRemovalJob
  <2>7. \A i \in DOMAIN left : left[i] = r \/ \E j \in DOMAIN Tail(left) : Tail(left)[j] = left[i]
    <3>1. /\ Len(left) \in Nat \ {0} /\ DOMAIN left = 1..Len(left)
          /\ Tail(left) \in Seq(Variant) /\ Len(Tail(left)) = Len(left) - 1
          /\ \A j \in 1..Len(Tail(left)) : Tail(left)[j] = left[j + 1]
          /\ DOMAIN Tail(left) = 1..Len(Tail(left))
          /\ Head(left) = left[1]
      BY <2>1, <2>2, LenProperties, EmptySeq, HeadTailProperties
    <3> TAKE i \in DOMAIN left
    <3>2. CASE i = 1
      BY <2>4, <3>1, <3>2
    <3>3. CASE i # 1
      <4>1. i - 1 \in DOMAIN Tail(left) /\ Tail(left)[i - 1] = left[i]
        BY <3>1, <3>3
      <4>2. QED
        BY <4>1
    <3>4. QED
      BY <3>2, <3>3
  <2>8. r \in Row /\ r \notin Product /\ DB!Visible(s, r) \in VariantRow
    BY <1>1, Tables, VisibleOK DEF RowOK
  <2>9. PICK version : version = [DB!Visible(s, r) EXCEPT !.deleted = TRUE]
    OBVIOUS
  <2>10. DB!Update(s, r, version) /\ version.deleted = TRUE
    BY <1>10, <2>2, <2>4, <2>8, <2>9 DEF RemoveProductVariant, VariantRow
  <2>11. \A i \in DOMAIN job[s].left :
           job[s].left[i] = r \/ \E j \in DOMAIN job'[s].left : job'[s].left[j] = job[s].left[i]
    BY <2>2, <2>6, <2>7
  <2>12. Kind(s)' = Kind(s)
    BY <2>6 DEF Kind
  <2>13. QED
    BY <1>10, <2>6, <2>8, <2>10, <2>11, <2>12, UpdateRemoves
<1>11. CASE Kind(s) = "removeProduct" /\ RemoveProduct(s)
  <2>1. job[s] \in ProductRemovalJob
    BY <1>1, <1>11, JobKinds DEF Kind
  <2>2. PICK p \in Product : p = job[s].row
    BY <2>1 DEF ProductRemovalJob
  <2>3. \A v \in Variant : ProductOf[v] = p => holder[v] = s /\ live[v].deleted
    <3>1. DOMAIN job[s].left = {}
      BY <1>11 DEF RemoveProduct
    <3>2. QED
      BY <1>1, <1>11, <2>2, <3>1 DEF KeepsRemovals
  <2>4. QED
    BY <1>11, <2>2, <2>3, ProductRemoves DEF RemoveProduct
<1>12. QED
  BY <1>2, <1>3, <1>4, <1>5, <1>6, <1>7, <1>8, <1>9, <1>10, <1>11
     DEF HandlerStep, VariantEditStep, VariantRemovalStep

\* Every step of a session.
LEMMA SessionRemoves ==
    ASSUME IInv, HInv, RInv, NEW s \in Session,
           Request(s) \/ HandlerStep(s) \/ DeadlockVictim(s) \/ ConnectionLost(s)
    PROVE  RInv'
<1>1. TasksOK /\ TablesOK /\ Fits(s) /\ job[s] \in Job
  BY TypeParts DEF IInv, EveryJobFits, TasksOK
<1>2. StepRemoves(s)
  <2>1. CASE Request(s)
    BY <2>1, RequestRemoves
  <2>2. CASE DeadlockVictim(s) \/ ConnectionLost(s)
    BY <2>2, ThrowRemoves DEF DeadlockVictim, ConnectionLost
  <2>3. CASE Kind(s) = "checkout" /\ CheckoutStep(s)
    <3>1. CASE InsertOrder(s)
      <4>1. s \in Order
        BY <1>1, <2>3 DEF Fits, Order
      <4>2. QED
        BY <3>1, <4>1, LastRowRemoves DEF InsertOrder
    <3>2. CASE OutOfStock(s) \/ NumberTaken(s)
      BY <3>2, ThrowRemoves DEF OutOfStock, NumberTaken
    <3>3. CASE TakeOrderNumber(s)
      <4>1. Store \in Row /\ Store \notin Variant /\ Store \notin Product
        BY Tables
      <4>2. \E version : DB!Update(s, Store, version)
        BY <3>3 DEF TakeOrderNumber
      <4>3. Kind(s)' = "checkout"
        <5>1. job[s] \in CheckoutJob
          BY <1>1, <2>3, JobKinds DEF Kind
        <5>2. QED
          BY <1>1, <3>3, <5>1 DEF TakeOrderNumber, TasksOK, Kind, CheckoutJob
      <4>4. QED
        BY <2>3, <4>1, <4>2, <4>3, UpdateRemoves
    <3>4. QED
      BY <2>3, <3>1, <3>2, <3>3, LineRemoves, RecalculateRemoves DEF CheckoutStep
  <2>4. CASE Kind(s) = "status" /\ StatusStep(s)
    <3>1. CASE ApplyStatus(s)
      <4>1. job[s].order \in Order
        BY <1>1, <2>4, JobKinds DEF Kind, StatusJob
      <4>2. QED
        BY <3>1, <4>1, LastRowRemoves DEF ApplyStatus
    <3>2. CASE StatusConflict(s)
      BY <3>2, ThrowRemoves DEF StatusConflict
    <3>3. QED
      BY <2>4, <3>1, <3>2, LineRemoves, RecalculateRemoves DEF StatusStep
  <2>5. CASE HandlerStep(s) /\ Kind(s) \notin {"checkout", "status"}
    BY <2>5, FormRemoves
  <2>6. QED
    BY <2>1, <2>2, <2>3, <2>4, <2>5 DEF HandlerStep
<1>3. OthersKept(s) /\ OthersLocksKept(s)
  BY <1>1, OneMoves, OneStatement, StatementKeepsLocks
<1>4. \A t \in Session : KeepsRemovals(t)'
  BY <1>2, <1>3, OthersKeepRemovals DEF StepRemoves
<1>5. RemovedTogether'
  BY <1>2, SavedStays DEF StepRemoves, RemovedTogether
<1>6. QED
  BY <1>4, <1>5 DEF RInv

\* The catalog is removed as one, throughout.
LEMMA RemovalInvariance == Spec => [](IInv /\ HInv /\ RInv)
<1>1. Init => RInv
  <2> SUFFICES ASSUME Init PROVE RInv
    OBVIOUS
  <2>1. \A s \in Session : Kind(s) = "none" /\ \A r \in Variant \cup Product : holder[r] # s
    BY Tables, SessionsAreReal DEF Init, Kind, NoJob
  <2>2. \A s \in Session : KeepsRemovals(s)
    BY <2>1 DEF KeepsRemovals
  <2>3. \A v \in Variant : ~disk[ProductOf[v]].deleted
    <3> TAKE v \in Variant
    <3>1. ProductOf[v] \in Product
      BY CatalogIsSound
    <3>2. \E p \in Product : p = ProductOf[v]
      BY <3>1
    <3>3. PICK p \in Product : p = ProductOf[v]
      BY <3>2
    <3>4. disk[p] = [aggregate |-> {<<w, InitialStock[w]>> : w \in {w \in Variant : ProductOf[w] = p}},
                     active |-> TRUE, deleted |-> FALSE]
      BY Tables DEF Init
    <3>5. QED
      BY <3>3, <3>4
  <2>4. QED
    BY <2>2, <2>3 DEF RInv, RemovedTogether
<1>2. (IInv /\ HInv) /\ RInv /\ [Next]_vars => RInv'
  <2> SUFFICES ASSUME IInv, HInv, RInv, [Next]_vars PROVE RInv'
    OBVIOUS
  <2>1. CASE Next
    BY <2>1, SessionRemoves DEF Next
  <2>2. CASE UNCHANGED vars
    BY <2>2 DEF vars, RInv, KeepsRemovals, RemovedTogether, VariantSaved, Kind
  <2>3. QED
    BY <2>1, <2>2
<1>3. QED
  BY <1>1, <1>2, HoldsInvariance, PTL DEF Spec

-----------------------------------------------------------------------------
\* The theorems.

\* Whatever mix of checkouts, status changes, cancellations and dashboard work
\* is served, cut off or aborted, and however their statements interleave, a
\* step that does not publish a stale save is one atomic step of the order book,
\* or leaves stock, orders and counter alone, or is the save of a store form that
\* gives back the counter it loaded and changes neither stock nor orders.
THEOREM OnlySavesLeaveTheBookHolds == Spec => OnlySavesLeaveTheBook
<1> DEFINE Kept == UNCHANGED <<Shelf, PlacedOrders, disk[Store]>>
           Atomic == (\A s \in Session : SavePublished(s) => Running(s)')
                       => PaidByStatus!Next \/ Kept \/ WritesCounterBack
<1>1. ASSUME IInv /\ HInv, [Next]_vars PROVE Atomic
  <2>1. CASE UNCHANGED vars
    BY <2>1 DEF vars, Shelf, PlacedOrders
  <2>2. ASSUME NEW s \in Session,
               Request(s) \/ HandlerStep(s) \/ DeadlockVictim(s) \/ ConnectionLost(s)
        PROVE  Atomic
    BY <1>1, <2>2, SessionPublishes DEF StepPublishes, BookKept
  <2>3. QED
    BY <1>1, <2>1, <2>2 DEF Next
<1>2. (IInv /\ HInv) /\ [Next]_vars => [Atomic]_vars
  BY <1>1
<1>3. QED
  BY HoldsInvariance, <1>2, PTL DEF Spec, OnlySavesLeaveTheBook

\* Nothing a checkout sells has left the catalog when its order appears, though it
\* was loaded before the transaction began: the handler holds every variant locked
\* since the UPDATE that found it there, and a product is removed with all its
\* variants, of which only a variant's form brings one back.
THEOREM SoldWhileOnSaleHolds == Spec => SoldWhileOnSale
<1> DEFINE Sold ==
      \A o \in Order :
         (disk[o].status = "absent" /\ disk'[o].status = "pending")
           => \A i \in DOMAIN disk'[o].cart :
                LET v == disk'[o].cart[i].variant
                IN  /\ ~disk[v].deleted
                    /\ disk[ProductOf[v]].deleted => \E s \in VariantEdits : pc[s] = "done"
<1>1. ASSUME IInv /\ HInv /\ RInv, [Next]_vars PROVE Sold
  <2>1. CASE UNCHANGED vars
    BY <2>1 DEF vars
  <2>2. ASSUME NEW s \in Session,
               Request(s) \/ HandlerStep(s) \/ DeadlockVictim(s) \/ ConnectionLost(s)
        PROVE  Sold
    <3> SUFFICES ASSUME NEW o \in Order, disk[o].status = "absent", disk'[o].status = "pending",
                        NEW i \in DOMAIN disk'[o].cart
                 PROVE  /\ ~disk[disk'[o].cart[i].variant].deleted
                        /\ disk[ProductOf[disk'[o].cart[i].variant]].deleted => VariantSaved
      BY DEF VariantSaved
    <3>1. PlacedOK(o)' /\ ~disk[disk'[o].cart[i].variant].deleted
      BY <1>1, <2>2, SessionPublishes DEF StepPublishes, NewOrdersOK
    <3>2. disk'[o].cart \in Seq(Line)
      BY <3>1, CartLines DEF PlacedOK
    <3>3. disk'[o].cart[i] \in Line
      BY <3>2, LenProperties, ElementOfSeq
    <3>4. disk'[o].cart[i].variant \in Variant
      BY <3>3 DEF Line
    <3>5. QED
      BY <1>1, <3>1, <3>4 DEF RInv, RemovedTogether
  <2>3. QED
    BY <1>1, <2>1, <2>2 DEF Next
<1>2. (IInv /\ HInv /\ RInv) /\ [Next]_vars => [Sold]_vars
  BY <1>1
<1>3. QED
  BY RemovalInvariance, <1>2, PTL DEF Spec, SoldWhileOnSale

\* In a shop whose owner saves no notes an order is paid exactly when it is
\* delivered: applyStatusChange writes both columns under one condition.
THEOREM PaidExactlyWhenDeliveredHolds ==
    ASSUME NoteRequests = {}
    PROVE  Spec => []PaidExactlyWhenDelivered
<1>1. Init => PaidInv
  <2> SUFFICES ASSUME Init PROVE PaidInv
    OBVIOUS
  <2>1. \A o \in Order : disk[o] = AbsentOrder
    BY Tables DEF Init
  <2>2. \A s \in Session : Kind(s) = "none"
    BY DEF Init, Kind, NoJob
  <2>3. QED
    BY <2>1, <2>2 DEF PaidInv, PaidExactlyWhenDelivered, AbsentOrder
<1>2. (IInv /\ HInv) /\ PaidInv /\ [Next]_vars => PaidInv'
  <2> SUFFICES ASSUME IInv, HInv, PaidInv, [Next]_vars PROVE PaidInv'
    OBVIOUS
  <2>1. CASE UNCHANGED vars
    BY <2>1 DEF vars, PaidInv, PaidExactlyWhenDelivered, Kind
  <2>2. CASE Next
    BY <2>2, PaidStep DEF Next
  <2>3. QED
    BY <2>1, <2>2
<1>3. PaidInv => PaidExactlyWhenDelivered
  BY DEF PaidInv
<1>4. QED
  BY HoldsInvariance, <1>1, <1>2, <1>3, PTL DEF Spec

\* A row whose payment column follows its status is the row the book shows.
LEMMA PaidColumn ==
    ASSUME NEW row \in OrderRow, row.paid <=> row.status = "delivered"
    PROVE  [row EXCEPT !.paid = row.status = "delivered"] = row
<1>1. CASE row \in PlacedRow
  <2>1. (row.status = "delivered") = row.paid
    BY <1>1 DEF PlacedRow
  <2>2. [row EXCEPT !.paid = row.paid] = row
    BY <1>1 DEF PlacedRow
  <2>3. QED
    BY <2>1, <2>2, Zenon
<1>2. CASE row = AbsentOrder
  <2>1. (row.status = "delivered") = FALSE
    BY <1>2 DEF AbsentOrder
  <2>2. AbsentOrder \in [status : {"absent"}, number : {0}, paid : BOOLEAN,
                         method : {"cod"}, cart : {<<>>}]
        /\ AbsentOrder.paid = FALSE
    BY DEF AbsentOrder
  <2>3. [AbsentOrder EXCEPT !.paid = FALSE] = AbsentOrder
    BY <2>2
  <2>4. QED
    BY <1>2, <2>1, <2>3, Zenon
<1>3. QED
  BY <1>1, <1>2 DEF OrderRow

\* The book with the payment column read off the status.
PaidOrders == [o \in Order |-> [disk[o] EXCEPT !.paid = disk[o].status = "delivered"]]

\* Both instances of the order book have the same rules.
LEMMA BookRules ==
    /\ \A from, to : Book!LegalTransition(from, to) = LegalTransition(from, to)
    /\ \A from, to : Book!RestoresStock(from, to) = RestoresStock(from, to)
    /\ \A order, to : Book!PaysOrder(order, to) = PaysOrder(order, to)
    /\ \A lines : Book!NoDuplicateVariants(lines) = NoDuplicateVariants(lines)
    /\ \A lines, v : Book!Units(lines, v) = Units(lines, v)
    /\ \A number, method, lines :
         Book!NewOrder(number, method, lines) = NewOrder(number, method, lines)
BY DEF Book!LegalTransition, LegalTransition, Book!RestoresStock, RestoresStock,
       Book!PaysOrder, PaysOrder, Book!NoDuplicateVariants, NoDuplicateVariants,
       Book!Units, Units, Book!NewOrder, NewOrder, Book!ORDER_STATUS_TRANSITIONS,
       ORDER_STATUS_TRANSITIONS, Book!STOCK_RESTORING_STATUSES,
       STOCK_RESTORING_STATUSES, Book!Status, Status

\* Where the payment column follows the status before and after, a step of the
\* one book is a step of the other.
LEMMA BooksAgree ==
    ASSUME PaidOrders = PlacedOrders, PaidOrders' = PlacedOrders', PaidByStatus!Next
    PROVE  Book!Next
<1>1. ASSUME NEW o \in Order, NEW lines \in Carts, PaidByStatus!Place(o, lines, "cod")
      PROVE  Book!Next
  <2>1. Book!Place(o, lines, "cod")
    BY <1>1, SameRules, BookRules
       DEF PaidByStatus!Place, Book!Place, PaidOrders
  <2>2. QED
    BY <2>1 DEF Book!Next
<1>2. ASSUME NEW o \in Order, NEW to \in PaidByStatus!Status, PaidByStatus!Move(o, to)
      PROVE  Book!Next
  <2>1. /\ LegalTransition(PaidOrders[o].status, to)
        /\ Shelf' = IF RestoresStock(PaidOrders[o].status, to)
                    THEN [v \in Variant |-> Shelf[v] + Units(PaidOrders[o].cart, v)]
                    ELSE Shelf
        /\ PaidOrders' = [PaidOrders EXCEPT
                            ![o].status = to,
                            ![o].paid = @ \/ PaysOrder(PaidOrders[o], to)]
        /\ UNCHANGED disk[Store]
    BY <1>2, Zenon
       DEF PaidByStatus!Move, PaidOrders, PaidByStatus!LegalTransition, LegalTransition,
           PaidByStatus!RestoresStock, RestoresStock, PaidByStatus!PaysOrder, PaysOrder,
           PaidByStatus!Units, Units, PaidByStatus!ORDER_STATUS_TRANSITIONS,
           ORDER_STATUS_TRANSITIONS, PaidByStatus!STOCK_RESTORING_STATUSES,
           STOCK_RESTORING_STATUSES, PaidByStatus!Status, Status
  <2>2. /\ LegalTransition(PlacedOrders[o].status, to)
        /\ Shelf' = IF RestoresStock(PlacedOrders[o].status, to)
                    THEN [v \in Variant |-> Shelf[v] + Units(PlacedOrders[o].cart, v)]
                    ELSE Shelf
        /\ PlacedOrders' = [PlacedOrders EXCEPT
                              ![o].status = to,
                              ![o].paid = @ \/ PaysOrder(PlacedOrders[o], to)]
        /\ UNCHANGED disk[Store]
    BY <2>1, Zenon
  <2>3. Book!Move(o, to)
    BY <2>2, Zenon
       DEF Book!Move, Book!LegalTransition, LegalTransition,
           Book!RestoresStock, RestoresStock, Book!PaysOrder, PaysOrder,
           Book!Units, Units, Book!ORDER_STATUS_TRANSITIONS,
           ORDER_STATUS_TRANSITIONS, Book!STOCK_RESTORING_STATUSES,
           STOCK_RESTORING_STATUSES, Book!Status, Status
  <2>4. QED
    BY <2>3 DEF Book!Next, PaidByStatus!Status, Book!Status
<1>3. QED
  BY <1>1, <1>2 DEF PaidByStatus!Next

\* As long as the dashboard saves neither notes nor variants nor the store, the
\* shop refines the atomic order book: its four to a dozen statements per request,
\* its deadlocks, conflicts and lost connections show no reader of stock, orders
\* and counter anything else.  Removals and product saves may go on.
THEOREM OrdersImplementTheBook ==
    ASSUME NoteRequests = {}, VariantEdits = {}, StoreEdits = {}
    PROVE  Spec => RefinesOrderBook
<1>1. Init => PaidInv /\ Book!Init
  <2> SUFFICES ASSUME Init PROVE PaidInv /\ Book!Init
    OBVIOUS
  <2>1. /\ \A o \in Order : disk[o] = AbsentOrder
        /\ \A v \in Variant : disk[v].stock = InitialStock[v]
        /\ disk[Store] = 1
    BY Tables DEF Init
  <2>2. \A s \in Session : Kind(s) = "none"
    BY DEF Init, Kind, NoJob
  <2>3. PaidInv
    BY <2>1, <2>2 DEF PaidInv, PaidExactlyWhenDelivered, AbsentOrder
  <2>4. Shelf = InitialStock
    BY <2>1, CatalogIsSound DEF Shelf
  <2>5. PlacedOrders = [o \in Order |-> AbsentOrder]
    BY <2>1 DEF PlacedOrders
  <2>6. Book!Init
    BY <2>1, <2>4, <2>5 DEF Book!Init, Book!AbsentOrder, AbsentOrder
  <2>7. QED
    BY <2>3, <2>6
<1>2. IInv /\ PaidInv => PaidOrders = PlacedOrders
  BY OrderRows, PaidColumn, TypeParts
     DEF IInv, PaidInv, PaidExactlyWhenDelivered, PaidOrders, PlacedOrders
<1>3. ASSUME IInv, HInv, PaidInv, [Next]_vars,
             PaidOrders = PlacedOrders, (PaidOrders = PlacedOrders)'
      PROVE  PaidInv' /\ [Book!Next]_<<Shelf, PlacedOrders, disk[Store]>>
  <2>1. CASE UNCHANGED vars
    <3>1. PaidInv'
      BY <1>3, <2>1 DEF vars, PaidInv, PaidExactlyWhenDelivered, Kind
    <3>2. UNCHANGED <<Shelf, PlacedOrders, disk[Store]>>
      BY <2>1 DEF vars, Shelf, PlacedOrders
    <3>3. QED
      BY <3>1, <3>2
  <2>2. ASSUME NEW s \in Session,
               Request(s) \/ HandlerStep(s) \/ DeadlockVictim(s) \/ ConnectionLost(s)
        PROVE  PaidInv' /\ [Book!Next]_<<Shelf, PlacedOrders, disk[Store]>>
    <3>1. PaidInv'
      BY <1>3, <2>2, PaidStep
    <3>2. ~SavePublished(s)
      BY <1>3 DEF SavePublished, IInv, EveryJobFits, Fits, HInv, Holds
    <3>3. PaidByStatus!Next \/ BookKept
      BY <1>3, <2>2, <3>2, SessionPublishes DEF StepPublishes, WritesCounterBack
    <3>4. QED
      BY <1>3, <3>1, <3>3, BooksAgree DEF BookKept
  <2>3. QED
    BY <1>3, <2>1, <2>2 DEF Next
<1>4. QED
  <2>1. (IInv /\ HInv) /\ PaidInv /\ [Next]_vars => PaidInv'
    BY PaidStep DEF Next, vars, PaidInv, PaidExactlyWhenDelivered, Kind
  <2>2. Spec => [](IInv /\ HInv /\ PaidInv)
    BY HoldsInvariance, <1>1, <2>1, PTL DEF Spec
  <2>3. (IInv /\ HInv /\ PaidInv) /\ (IInv /\ HInv /\ PaidInv)' /\ [Next]_vars
          => [Book!Next]_<<Shelf, PlacedOrders, disk[Store]>>
    <3>1. (IInv /\ PaidInv)' => (PaidOrders = PlacedOrders)'
      BY <1>2, PTL
    <3>2. QED
      BY <1>2, <1>3, <3>1
  <2>4. QED
    BY <1>1, <2>2, <2>3, PTL DEF Spec, RefinesOrderBook, Book!Spec

-----------------------------------------------------------------------------
\* The ledger of stock: the units on the shelf and those the orders keep add up
\* to what there was at first, since every step is one of the order book.

\* The orders that keep their units off the shelf.
Keeping == {o \in Order : Keeps(o)}

UnitsIn(v) == [o \in Order |-> Units(disk[o].cart, v)]

\* The history variable tells which orders have left the shop.
ShippedOnes ==
    \A o \in Order :
      /\ disk[o].status \in {"shipped", "delivered"} => o \in shipped
      /\ o \in shipped => disk[o].status \in {"shipped", "delivered", "cancelled"}

LedgerInv ==
    /\ IsFiniteSet(Keeping)
    /\ ShippedOnes
    /\ StockLedger

\* An order joins those that ever shipped as its status becomes "shipped".
ShippedFollows ==
    \A o \in Order :
      o \in shipped' <=> \/ o \in shipped
                         \/ disk[o].status # "shipped" /\ disk'[o].status = "shipped"

\* Only ApplyStatus writes the history.
LEMMA ShippedWriters ==
    ASSUME NEW s \in Session,
           Request(s) \/ HandlerStep(s) \/ DeadlockVictim(s) \/ ConnectionLost(s)
    PROVE  shipped' = shipped \/ (Kind(s) = "status" /\ ApplyStatus(s))
<1>1. ASSUME Request(s) PROVE shipped' = shipped
  BY <1>1 DEF Request, LoadLines, UpdateStatus, CancelMine, ChangeStatus, LoadForNote,
       LoadForVariantEdit, LoadForProductEdit, LoadForStoreEdit, LoadForVariantRemoval,
       LoadForProductRemoval, LoadToSave, Start
<1>2. ASSUME Throw(s) PROVE shipped' = shipped
  BY <1>2 DEF Throw
<1>3. ASSUME Recalculate(s) PROVE shipped' = shipped
  BY <1>3 DEF Recalculate, SelectSums, UpdateAggregate
<1>4. ASSUME CheckoutStep(s) PROVE shipped' = shipped
  BY <1>2, <1>3, <1>4 DEF CheckoutStep, ReserveLine, OutOfStock, TakeOrderNumber, InsertOrder,
       NumberTaken
<1>5. ASSUME StatusStep(s) PROVE shipped' = shipped \/ ApplyStatus(s)
  BY <1>2, <1>3, <1>5 DEF StatusStep, RestoreLine, StatusConflict
<1>6. ASSUME \/ SelectToSave(s) \/ SaveNote(s) \/ SaveProduct(s) \/ SaveVariant(s)
             \/ SaveStore(s) \/ RemoveVariant(s) \/ RemoveProductVariant(s) \/ RemoveProduct(s)
             \/ CommitHandler(s)
      PROVE  shipped' = shipped
  BY <1>6 DEF SelectToSave, SaveNote, SaveProduct, SaveVariant, SaveStore, RemoveVariant,
       RemoveProductVariant, RemoveProduct, CommitHandler
<1>7. ASSUME HandlerStep(s) PROVE shipped' = shipped \/ (Kind(s) = "status" /\ ApplyStatus(s))
  BY <1>3, <1>4, <1>5, <1>6, <1>7 DEF HandlerStep, VariantEditStep, VariantRemovalStep
<1>8. QED
  BY <1>1, <1>2, <1>7 DEF DeadlockVictim, ConnectionLost

LEMMA ShippedStep ==
    ASSUME IInv, HInv, NoteRequests = {}, NEW s \in Session,
           Request(s) \/ HandlerStep(s) \/ DeadlockVictim(s) \/ ConnectionLost(s)
    PROVE  ShippedFollows
<1>1. CASE Kind(s) = "status" /\ ApplyStatus(s)
  <2>1. /\ job[s].order \in Order
        /\ \A o \in Order \ {job[s].order} : disk'[o] = disk[o]
        /\ disk[job[s].order].status = job[s].seen.status
        /\ disk'[job[s].order].status = job[s].to
        /\ LegalTransition(job[s].seen.status, job[s].to)
    BY <1>1, ApplyStatusStep
  <2>2. job[s].seen.status # job[s].to
    BY <2>1 DEF LegalTransition, ORDER_STATUS_TRANSITIONS, Status
  <2>3. shipped' = IF job[s].to = "shipped" THEN shipped \cup {job[s].order} ELSE shipped
    BY <1>1 DEF ApplyStatus
  <2>4. QED
    BY <2>1, <2>2, <2>3 DEF ShippedFollows
<1>2. CASE ~(Kind(s) = "status" /\ ApplyStatus(s))
  <2>1. shipped' = shipped
    BY <1>2, ShippedWriters
  <2>2. Kind(s) # "note"
    BY DEF IInv, EveryJobFits, Fits
  <2>3. CASE \A o \in Order : disk'[o] = disk[o]
    BY <2>1, <2>3 DEF ShippedFollows
  <2>4. CASE Kind(s) = "checkout" /\ InsertOrder(s)
    BY <2>1, <2>4, InsertOrderStep DEF ShippedFollows
  <2>5. QED
    BY <1>2, <2>2, <2>3, <2>4, OrderWriters
<1>3. QED
  BY <1>1, <1>2

\* The units of every order in the table are numbers.
LEMMA UnitsAreNumbers ==
    ASSUME HInv, NEW v \in Variant, NEW o \in Order, disk[o].status # "absent"
    PROVE  UnitsIn(v)[o] \in Nat /\ UnitsIn(v)[o] = Units(disk[o].cart, v)
<1>1. disk[o].cart \in Seq(Line)
  BY CartLines DEF HInv, PlacedOK
<1>2. QED
  BY <1>1, UnitsOfLine DEF UnitsIn

\* A step that moves no order and no unit.
LEMMA LedgerQuiet ==
    ASSUME LedgerInv, UNCHANGED <<Shelf, PlacedOrders>>, shipped' = shipped
    PROVE  LedgerInv'
<1>1. \A o \in Order : disk'[o] = disk[o]
  BY DEF PlacedOrders
<1>2. \A v \in Variant : disk'[v].stock = disk[v].stock
  BY DEF Shelf
<1>3. \A o \in Order : Keeps(o)' <=> Keeps(o)
  BY <1>1 DEF Keeps
<1>4. Keeping' = Keeping
  BY <1>3 DEF Keeping
<1>5. ASSUME NEW v \in Variant PROVE UnitsIn(v)' = UnitsIn(v)
  BY <1>1 DEF UnitsIn
<1>6. \A v \in Variant : UnitsSold(v)' = UnitsSold(v)
  BY <1>4, <1>5 DEF UnitsSold, Keeping, UnitsIn
<1>7. QED
  BY <1>1, <1>2, <1>4, <1>6 DEF LedgerInv, ShippedOnes, StockLedger

\* What a kept order adds to the sum, and what it takes away.
LEMMA SumsOfUnits ==
    ASSUME HInv, LedgerInv, NEW v \in Variant
    PROVE  /\ \A o \in Keeping : UnitsIn(v)[o] \in Int
           /\ UnitsSold(v) = SumFunctionOnSet(UnitsIn(v), Keeping)
           /\ UnitsSold(v) \in Int
           /\ disk[v].stock + UnitsSold(v) = InitialStock[v]
<1>1. \A o \in Keeping : o \in Order /\ disk[o].status # "absent"
  BY DEF Keeping, Keeps
<1>2. \A o \in Keeping : UnitsIn(v)[o] \in Int
  BY <1>1, UnitsAreNumbers
<1>3. UnitsSold(v) = SumFunctionOnSet(UnitsIn(v), Keeping)
  BY DEF UnitsSold, UnitsIn, Keeping
<1>4. QED
  BY <1>2, <1>3, SumIsANumber DEF LedgerInv, StockLedger

\* An order is placed: its units leave the shelf with it.
LEMMA LedgerPlace ==
    ASSUME TablesOK, TablesOK', HInv, HInv', LedgerInv, ShippedFollows,
           NEW c \in Order, NEW lines \in Carts,
           disk[c].status = "absent",
           \A v \in Variant : disk'[v].stock = disk[v].stock - Units(lines, v),
           \A o \in Order \ {c} : disk'[o] = disk[o],
           disk'[c].status = "pending", disk'[c].cart = lines
    PROVE  LedgerInv'
<1>1. \A o \in Order : o \in shipped' <=> o \in shipped
  BY DEF ShippedFollows
<1>2. ShippedOnes'
  BY <1>1 DEF LedgerInv, ShippedOnes
<1>3. c \notin Keeping /\ Keeping' = Keeping \cup {c}
  BY <1>1 DEF Keeping, Keeps
<1>4. IsFiniteSet(Keeping')
  BY <1>3, FS_AddElement DEF LedgerInv
<1>5. ASSUME NEW v \in Variant
      PROVE  disk'[v].stock + UnitsSold(v)' = InitialStock[v]
  <2> DEFINE before == UnitsIn(v)
             after == UnitsIn(v)'
  <2>1. /\ \A o \in Keeping : before[o] \in Int
        /\ UnitsSold(v) = SumFunctionOnSet(before, Keeping)
        /\ UnitsSold(v) \in Int
        /\ disk[v].stock + UnitsSold(v) = InitialStock[v]
    BY SumsOfUnits
  <2>2. \A o \in Keeping : o \in Order /\ o # c
    BY <1>3 DEF Keeping
  <2>3. \A o \in Keeping : after[o] = before[o]
    BY <2>2 DEF UnitsIn
  <2>4. after[c] = Units(lines, v) /\ Units(lines, v) \in Int
    BY CartLines, UnitsOfLine DEF UnitsIn
  <2>5. UnitsSold(v)' = SumFunctionOnSet(after, Keeping')
    BY DEF UnitsSold, UnitsIn, Keeping
  <2> HIDE DEF before, after
  <2>6. SumFunctionOnSet(after, Keeping \cup {c}) = SumFunctionOnSet(after, Keeping) + after[c]
    BY <1>3, <2>1, <2>3, <2>4, SumAdds DEF LedgerInv
  <2>7. SumFunctionOnSet(before, Keeping) = SumFunctionOnSet(after, Keeping)
    BY <2>1, <2>3, SumOfTheSame DEF LedgerInv
  <2>8. UnitsSold(v)' = UnitsSold(v) + Units(lines, v)
    BY <1>3, <2>1, <2>4, <2>5, <2>6, <2>7
  <2>9. disk[v].stock \in Int
    BY Tables DEF TablesOK, RowOK, VariantRow
  <2>10. disk'[v].stock = disk[v].stock - Units(lines, v)
    OBVIOUS
  <2>11. QED
    BY <2>1, <2>4, <2>8, <2>9, <2>10
<1>6. QED
  BY <1>2, <1>4, <1>5 DEF LedgerInv, StockLedger

\* An order moves: it gives its units back when it is called off before it has
\* shipped, and keeps them otherwise.
LEMMA LedgerMove ==
    ASSUME TablesOK, TablesOK', HInv, HInv', LedgerInv, ShippedFollows,
           NEW m \in Order, NEW to,
           LegalTransition(disk[m].status, to),
           \A v \in Variant : disk'[v].stock =
             IF RestoresStock(disk[m].status, to)
             THEN disk[v].stock + Units(disk[m].cart, v) ELSE disk[v].stock,
           \A o \in Order \ {m} : disk'[o] = disk[o],
           disk'[m].status = to, disk'[m].cart = disk[m].cart
    PROVE  LedgerInv'
<1>1. /\ disk[m].status \in {"pending", "confirmed", "shipped"}
      /\ to \in {"confirmed", "shipped", "delivered", "cancelled"}
      /\ disk[m].status = "pending" => to \in {"confirmed", "cancelled"}
      /\ disk[m].status = "confirmed" => to \in {"shipped", "cancelled"}
      /\ disk[m].status = "shipped" => to \in {"delivered", "cancelled"}
  BY DEF LegalTransition, ORDER_STATUS_TRANSITIONS, Status
<1>2. \A o \in Order : o \in shipped' <=> (o \in shipped \/ (o = m /\ to = "shipped"))
  BY <1>1 DEF ShippedFollows
<1>3. m \in shipped <=> disk[m].status = "shipped"
  BY <1>1 DEF LedgerInv, ShippedOnes
<1>4. ShippedOnes'
  BY <1>1, <1>2, <1>3 DEF LedgerInv, ShippedOnes
<1>5. m \in Keeping
  BY <1>1 DEF Keeping, Keeps
<1>6. Keeping' = IF RestoresStock(disk[m].status, to) THEN Keeping \ {m} ELSE Keeping
  <2>1. \A o \in Order \ {m} : Keeps(o)' <=> Keeps(o)
    BY <1>2 DEF Keeps
  <2>2. Keeps(m)' <=> ~RestoresStock(disk[m].status, to)
    BY <1>1, <1>2, <1>3 DEF Keeps, RestoresStock, STOCK_RESTORING_STATUSES
  <2>3. \A o \in Order : o \in Keeping' <=> Keeps(o)'
    BY DEF Keeping
  <2>4. QED
    BY <1>5, <2>1, <2>2, <2>3 DEF Keeping
<1>7. IsFiniteSet(Keeping) /\ IsFiniteSet(Keeping \ {m}) /\ IsFiniteSet(Keeping')
  BY <1>6, FS_Subset DEF LedgerInv
<1>8. ASSUME NEW v \in Variant
      PROVE  disk'[v].stock + UnitsSold(v)' = InitialStock[v]
  <2> DEFINE before == UnitsIn(v)
             after == UnitsIn(v)'
  <2>1. /\ \A o \in Keeping : before[o] \in Int
        /\ UnitsSold(v) = SumFunctionOnSet(before, Keeping)
        /\ UnitsSold(v) \in Int
        /\ disk[v].stock + UnitsSold(v) = InitialStock[v]
    BY SumsOfUnits
  <2>2. \A o \in Order : after[o] = before[o]
    BY DEF UnitsIn
  <2>3. before[m] = Units(disk[m].cart, v)
    BY DEF UnitsIn
  <2>4. UnitsSold(v)' = SumFunctionOnSet(after, Keeping')
    BY DEF UnitsSold, UnitsIn, Keeping
  <2>5. disk[v].stock \in Int
    BY Tables DEF TablesOK, RowOK, VariantRow
  <2>6. Keeping \subseteq Order
    BY DEF Keeping
  <2> HIDE DEF before, after
  <2>7. CASE RestoresStock(disk[m].status, to)
    <3>1. /\ SumFunctionOnSet(before, Keeping) = SumFunctionOnSet(before, Keeping \ {m}) + before[m]
          /\ SumFunctionOnSet(before, Keeping \ {m}) \in Int
      BY <1>5, <1>7, <2>1, SumTakesAway
    <3>2. SumFunctionOnSet(before, Keeping \ {m}) = SumFunctionOnSet(after, Keeping \ {m})
      BY <1>7, <2>1, <2>2, <2>6, SumOfTheSame
    <3>3. UnitsSold(v) = UnitsSold(v)' + before[m] /\ UnitsSold(v)' \in Int
      BY <1>6, <2>1, <2>4, <2>7, <3>1, <3>2
    <3>4. disk'[v].stock = disk[v].stock + before[m] /\ before[m] \in Int
      BY <1>5, <2>1, <2>3, <2>7
    <3>5. QED
      BY <2>1, <2>5, <3>3, <3>4
  <2>8. CASE ~RestoresStock(disk[m].status, to)
    <3>1. SumFunctionOnSet(before, Keeping) = SumFunctionOnSet(after, Keeping)
      BY <1>7, <2>1, <2>2, <2>6, SumOfTheSame
    <3>2. disk'[v].stock = disk[v].stock /\ UnitsSold(v)' = UnitsSold(v)
      BY <1>6, <2>1, <2>4, <2>8, <3>1
    <3>3. QED
      BY <2>1, <3>2
  <2>9. QED
    BY <2>7, <2>8
<1>9. QED
  BY <1>4, <1>7, <1>8 DEF LedgerInv, StockLedger

\* Every step keeps the ledger: it is one of the order book, or touches neither
\* stock nor orders.
LEMMA LedgerStep ==
    ASSUME IInv, IInv', HInv, HInv', PaidInv, PaidInv', LedgerInv,
           PaidOrders = PlacedOrders, PaidOrders' = PlacedOrders',
           NoteRequests = {}, VariantEdits = {}, NEW s \in Session,
           Request(s) \/ HandlerStep(s) \/ DeadlockVictim(s) \/ ConnectionLost(s)
    PROVE  LedgerInv'
<1>1. ShippedFollows
  BY ShippedStep
<1>2. ~SavePublished(s)
  BY DEF SavePublished, IInv, EveryJobFits, Fits, HInv, Holds
<1>3. PaidByStatus!Next \/ UNCHANGED <<Shelf, PlacedOrders>>
  BY <1>2, SessionPublishes DEF StepPublishes, BookKept, WritesCounterBack
<1>4. Book!Next \/ UNCHANGED <<Shelf, PlacedOrders>>
  BY <1>3, BooksAgree
<1>5. TablesOK /\ TablesOK'
  BY DEF IInv, TypeOK, TablesOK
<1>6. /\ \A o \in Order : PlacedOrders[o] = disk[o] /\ PlacedOrders'[o] = disk'[o]
      /\ \A v \in Variant : Shelf[v] = disk[v].stock /\ Shelf'[v] = disk'[v].stock
      /\ DOMAIN PlacedOrders = Order
  BY DEF PlacedOrders, Shelf
<1>7. CASE UNCHANGED <<Shelf, PlacedOrders>>
  <2>2. \A o \in Order : disk'[o] = disk[o]
    BY <1>6, <1>7
  <2>3. shipped' = shipped
    <3>1. shipped \subseteq Order /\ shipped' \subseteq Order
      BY DEF IInv, TypeOK
    <3>2. \A o \in Order : o \in shipped' <=> o \in shipped
      BY <1>1, <2>2 DEF ShippedFollows
    <3>3. QED
      BY <3>1, <3>2
  <2>4. QED
    BY <1>7, <2>3, LedgerQuiet
<1>8. ASSUME NEW c \in Order, NEW lines \in Carts, Book!Place(c, lines, "cod")
      PROVE  LedgerInv'
  <2>1. /\ PlacedOrders[c].status = "absent"
        /\ Shelf' = [v \in Variant |-> Shelf[v] - Units(lines, v)]
        /\ PlacedOrders' = [PlacedOrders EXCEPT ![c] = NewOrder(disk[Store], "cod", lines)]
    BY <1>8, BookRules DEF Book!Place
  <2>2. /\ disk[c].status = "absent"
        /\ \A v \in Variant : disk'[v].stock = disk[v].stock - Units(lines, v)
        /\ \A o \in Order \ {c} : disk'[o] = disk[o]
        /\ disk'[c] = NewOrder(disk[Store], "cod", lines)
    BY <1>6, <2>1
  <2>3. disk'[c].status = "pending" /\ disk'[c].cart = lines
    BY <2>2 DEF NewOrder
  <2>4. QED
    BY <1>1, <1>5, <2>2, <2>3, LedgerPlace
<1>9. ASSUME NEW m \in Order, NEW to \in Status, Book!Move(m, to)
      PROVE  LedgerInv'
  <2>1. /\ LegalTransition(PlacedOrders[m].status, to)
        /\ Shelf' = IF RestoresStock(PlacedOrders[m].status, to)
                    THEN [v \in Variant |-> Shelf[v] + Units(PlacedOrders[m].cart, v)]
                    ELSE Shelf
        /\ PlacedOrders' = [PlacedOrders EXCEPT
                              ![m].status = to,
                              ![m].paid = @ \/ PaysOrder(PlacedOrders[m], to)]
    BY <1>9, Zenon
       DEF Book!Move, Book!LegalTransition, LegalTransition,
           Book!RestoresStock, RestoresStock, Book!PaysOrder, PaysOrder,
           Book!Units, Units, Book!ORDER_STATUS_TRANSITIONS,
           ORDER_STATUS_TRANSITIONS, Book!STOCK_RESTORING_STATUSES,
           STOCK_RESTORING_STATUSES, Book!Status, Status
  <2>2. LegalTransition(disk[m].status, to)
    BY <1>6, <2>1
  <2>3. disk[m] \in PlacedRow
    BY <1>5, <2>2, OrderRows DEF LegalTransition, Status
  <2>4. \A v \in Variant : disk'[v].stock =
             IF RestoresStock(disk[m].status, to)
             THEN disk[v].stock + Units(disk[m].cart, v) ELSE disk[v].stock
    BY <1>6, <2>1
  <2>5. \A o \in Order \ {m} : disk'[o] = disk[o]
    BY <1>6, <2>1
  <2>6. disk'[m].status = to /\ disk'[m].cart = disk[m].cart
    <3> DEFINE paid == disk[m].paid \/ PaysOrder(disk[m], to)
    <3>1. PlacedOrders'[m] = [PlacedOrders[m] EXCEPT
                                !.status = to, !.paid = @ \/ PaysOrder(PlacedOrders[m], to)]
      BY <1>6, <2>1
    <3>2. disk'[m] = [disk[m] EXCEPT !.status = to, !.paid = paid]
      BY <1>6, <2>3, <3>1 DEF PlacedRow
    <3> HIDE DEF paid
    <3>3. QED
      BY <2>3, <3>2 DEF PlacedRow
  <2>7. QED
    BY <1>1, <1>5, <2>2, <2>4, <2>5, <2>6, LedgerMove
<1>10. QED
  BY <1>4, <1>7, <1>8, <1>9 DEF Book!Next, Book!Status, Status

\* The ledger holds throughout.
LEMMA LedgerInvariance ==
    ASSUME NoteRequests = {}, VariantEdits = {}
    PROVE  Spec => [](IInv /\ HInv /\ PaidInv /\ LedgerInv)
<1>1. Init => PaidInv /\ LedgerInv
  <2> SUFFICES ASSUME Init PROVE PaidInv /\ LedgerInv
    OBVIOUS
  <2>1. /\ \A o \in Order : disk[o] = AbsentOrder
        /\ \A v \in Variant : disk[v].stock = InitialStock[v]
        /\ shipped = {}
    BY Tables DEF Init
  <2>2. \A s \in Session : Kind(s) = "none"
    BY DEF Init, Kind, NoJob
  <2>3. PaidInv
    BY <2>1, <2>2 DEF PaidInv, PaidExactlyWhenDelivered, AbsentOrder
  <2>4. Keeping = {}
    BY <2>1 DEF Keeping, Keeps, AbsentOrder
  <2>5. IsFiniteSet(Keeping) /\ ShippedOnes
    BY <2>1, <2>4, FS_EmptySet DEF ShippedOnes, AbsentOrder
  <2>6. ASSUME NEW v \in Variant PROVE disk[v].stock + UnitsSold(v) = InitialStock[v]
    <3>1. UnitsSold(v) = SumFunctionOnSet(UnitsIn(v), Keeping)
      BY DEF UnitsSold, UnitsIn, Keeping
    <3>2. UnitsSold(v) = 0
      BY <2>4, <3>1, SumOfNothing
    <3>3. InitialStock[v] \in Nat
      BY CatalogIsSound
    <3>4. QED
      BY <2>1, <3>2, <3>3
  <2>7. QED
    BY <2>3, <2>5, <2>6 DEF LedgerInv, StockLedger
<1>2. IInv /\ PaidInv => PaidOrders = PlacedOrders
  BY OrderRows, PaidColumn, TypeParts
     DEF IInv, PaidInv, PaidExactlyWhenDelivered, PaidOrders, PlacedOrders
<1>3. (IInv /\ PaidInv)' => (PaidOrders = PlacedOrders)'
  BY <1>2, PTL
<1>4. ASSUME IInv, HInv, PaidInv, [Next]_vars PROVE PaidInv'
  <2>1. CASE UNCHANGED vars
    BY <1>4, <2>1 DEF vars, PaidInv, PaidExactlyWhenDelivered, Kind
  <2>2. CASE Next
    BY <1>4, <2>2, PaidStep DEF Next
  <2>3. QED
    BY <1>4, <2>1, <2>2
<1>5. ASSUME IInv, HInv, PaidInv, LedgerInv, [Next]_vars, IInv', HInv', PaidInv'
      PROVE  LedgerInv'
  <2>1. CASE UNCHANGED vars
    <3>1. UNCHANGED <<Shelf, PlacedOrders>> /\ shipped' = shipped
      BY <2>1 DEF vars, Shelf, PlacedOrders
    <3>2. QED
      BY <1>5, <3>1, LedgerQuiet
  <2>2. ASSUME NEW s \in Session,
               Request(s) \/ HandlerStep(s) \/ DeadlockVictim(s) \/ ConnectionLost(s)
        PROVE  LedgerInv'
    BY <1>2, <1>3, <1>5, <2>2, LedgerStep
  <2>3. QED
    BY <1>5, <2>1, <2>2 DEF Next
<1>6. QED
  BY <1>1, <1>4, <1>5, HoldsInvariance, PTL DEF Spec

\* No unit is lost or invented: in a shop whose owner types no stock and saves
\* no note, every unit that was ever on the shelf is there or in an order that
\* keeps it, and an order has brought money exactly when it is delivered,
\* whatever was placed, cancelled, shipped, cut off or aborted at the same time.
THEOREM StatusTellsStockAndMoneyHolds ==
    ASSUME NoteRequests = {}, VariantEdits = {}
    PROVE  Spec => []StatusTellsStockAndMoney
<1>1. Spec => [](IInv /\ HInv /\ PaidInv /\ LedgerInv)
  BY LedgerInvariance
<1>2. PaidInv /\ LedgerInv => StatusTellsStockAndMoney
  BY DEF PaidInv, LedgerInv, StatusTellsStockAndMoney
<1>3. QED
  BY <1>1, <1>2, PTL

\* Nor is stock ever oversold in such a shop: what the run orders_oversell finds
\* takes the save of a variant's form.
THEOREM NoOversellWithoutForms ==
    ASSUME NoteRequests = {}, VariantEdits = {}
    PROVE  Spec => []NoOversell
<1>1. Spec => [](IInv /\ HInv /\ PaidInv /\ LedgerInv)
  BY LedgerInvariance
<1>2. ASSUME IInv, HInv, LedgerInv PROVE NoOversell
  <2>1. TablesOK
    BY <1>2, TypeParts DEF IInv
  <2>2. ASSUME NEW v \in Variant PROVE UnitsSold(v) <= InitialStock[v]
    <3>1. disk[v].stock \in Nat
      BY <2>1, Tables DEF TablesOK, RowOK, VariantRow
    <3>2. UnitsSold(v) \in Int /\ disk[v].stock + UnitsSold(v) = InitialStock[v]
      BY <1>2, SumsOfUnits
    <3>3. InitialStock[v] \in Nat
      BY CatalogIsSound
    <3>4. QED
      BY <3>1, <3>2, <3>3
  <2>3. QED
    BY <2>2 DEF NoOversell
<1>3. QED
  BY <1>1, <1>2, PTL

-----------------------------------------------------------------------------
\* The derived columns of the products, in a shop of simple products, each sold
\* in one form, while the owner saves no form of the catalog.
\*
\* recalculateAggregates selects the variants without locking them.  What it
\* selects is still true when it is committed because the handler holds the
\* product's only variant since it wrote its stock.  With two variants to a
\* product that argument fails, and so does the invariant: see the run
\* orders_drift.

\* Each product is sold in one form at most.
OneVariantEach == \A v, w \in Variant : ProductOf[v] = ProductOf[w] => v = w

\* The owner saves and removes nothing in the catalog.
NoCatalogForms ==
    VariantEdits = {} /\ VariantRemovals = {} /\ ProductEdits = {} /\ ProductRemovals = {}

\* What a simple product counts of the table of its variant.
Count(v, table) == {<<v, table[v].stock>>}

\* The product of a variant a handler has written is either still stale, or
\* counts what the handler has written.
ProductsFollow(s) ==
    \A v \in Variant : holder[v] = s =>
      LET p == ProductOf[v]
      IN  IF pc[s] = "lines" \/ p \in stale[s] THEN holder[p] # s
          ELSE holder[p] = s /\ live[p].aggregate = Count(v, live)

\* A handler that holds a product, or still has to recalculate it, has written a
\* variant of it; past its aggregates it has none left.
WroteItsVariant(s) ==
    /\ \A p \in Product :
         holder[p] = s \/ (p \in stale[s] /\ pc[s] \in {"select", "aggregate"})
           => \E v \in Variant : holder[v] = s /\ ProductOf[v] = p
    /\ pc[s] \notin {"select", "aggregate"} => stale[s] = {}

\* What a handler has selected of its next product is what it will be.
SumsAreTrue(s) ==
    pc[s] = "aggregate" =>
      \A v \in Variant : IsNextProduct(s, ProductOf[v]) => sums[s] = Count(v, live)

Recalculates(s) == ProductsFollow(s) /\ WroteItsVariant(s) /\ SumsAreTrue(s)

\* Nothing is taken off sale, and the committed products count their variants.
CatalogHonest ==
    /\ \A v \in Variant : ~disk[v].deleted /\ ~live[v].deleted
    /\ \A v \in Variant : disk[ProductOf[v]].aggregate = Count(v, disk)
    /\ \A p \in Product : (\A v \in Variant : ProductOf[v] # p) => disk[p].aggregate = {}

\* No session serves a form of the catalog.
OrdersOnly(s) == Kind(s) \in {"none", "checkout", "status", "note", "store"}

AInv ==
    /\ \A s \in Session : OrdersOnly(s)
    /\ \A s \in Session : Recalculates(s)
    /\ CatalogHonest

-----------------------------------------------------------------------------
\* A session that takes no step.

\* The products the others have to recalculate, and what they selected, stay theirs.
OthersSumsKept(s) ==
    \A t \in Session \ {s} : stale'[t] = stale[t] /\ sums'[t] = sums[t]

\* Recalculating or not, a step changes the sums of its own session only.
LEMMA OneSelects ==
    ASSUME TasksOK, NEW s \in Session, OrdersOnly(s),
           Request(s) \/ HandlerStep(s) \/ DeadlockVictim(s) \/ ConnectionLost(s)
    PROVE  OthersSumsKept(s)
<1>1. ASSUME stale' = stale, sums' = sums PROVE OthersSumsKept(s)
  BY <1>1 DEF OthersSumsKept
<1>2. ASSUME Finish(s) PROVE OthersSumsKept(s)
  BY <1>2 DEF Finish, TasksOK, OthersSumsKept
<1>3. ASSUME Request(s) PROVE OthersSumsKept(s)
  BY <1>1, <1>3 DEF Request, LoadLines, UpdateStatus, CancelMine, ChangeStatus, LoadForNote,
       LoadForVariantEdit, LoadForProductEdit, LoadForStoreEdit, LoadForVariantRemoval,
       LoadForProductRemoval, LoadToSave, Start
<1>4. ASSUME Recalculate(s) PROVE OthersSumsKept(s)
  BY <1>4 DEF Recalculate, SelectSums, UpdateAggregate, TasksOK, OthersSumsKept
<1>5. ASSUME NEW lines, LineDone(s, lines), sums' = sums PROVE OthersSumsKept(s)
  BY <1>5 DEF LineDone, TasksOK, OthersSumsKept
<1>6. ASSUME CheckoutStep(s) \/ StatusStep(s) PROVE OthersSumsKept(s)
  BY <1>1, <1>2, <1>4, <1>5, <1>6
     DEF CheckoutStep, StatusStep, ReserveLine, OutOfStock, Throw, TakeOrderNumber, InsertOrder,
         NumberTaken, RestoreLine, ApplyStatus, StatusConflict
<1>7. ASSUME DeadlockVictim(s) \/ ConnectionLost(s) PROVE OthersSumsKept(s)
  BY <1>2, <1>7 DEF DeadlockVictim, ConnectionLost, Throw
<1>8. ASSUME HandlerStep(s) PROVE OthersSumsKept(s)
  BY <1>1, <1>2, <1>6, <1>8 DEF HandlerStep, OrdersOnly, SelectToSave, SaveNote, SaveStore
<1>9. QED
  BY <1>3, <1>7, <1>8

\* A step of one session leaves true what the others recalculate.
LEMMA OthersRecalculate ==
    ASSUME OneVariantEach, NEW s \in Session,
           OthersKept(s), OthersSumsKept(s), OthersLocksKept(s),
           NEW t \in Session \ {s}, Recalculates(t), OrdersOnly(t)
    PROVE  Recalculates(t)' /\ OrdersOnly(t)'
<1>1. /\ pc'[t] = pc[t] /\ job'[t] = job[t] /\ stale'[t] = stale[t] /\ sums'[t] = sums[t]
      /\ \A r \in Variant \cup Product :
           /\ holder'[r] = t <=> holder[r] = t
           /\ holder[r] = t => live'[r] = live[r]
  BY DEF OthersKept, OthersSumsKept, OthersLocksKept
<1>2. \A v \in Variant : ProductOf[v] \in Product
  BY CatalogIsSound
<1>3. ProductsFollow(t)'
  BY <1>1, <1>2 DEF Recalculates, ProductsFollow, Count
<1>4. WroteItsVariant(t)'
  BY <1>1 DEF Recalculates, WroteItsVariant
<1>5. SumsAreTrue(t)'
  <2>1. SUFFICES ASSUME pc[t] = "aggregate", NEW v \in Variant, IsNextProduct(t, ProductOf[v])'
                 PROVE  sums'[t] = Count(v, live)'
    BY <1>1 DEF SumsAreTrue
  <2>2. IsNextProduct(t, ProductOf[v])
    BY <1>1, <2>1 DEF IsNextProduct, Kind
  <2>3. sums[t] = Count(v, live)
    BY <2>1, <2>2 DEF Recalculates, SumsAreTrue
  <2>4. holder[v] = t
    BY <1>2, <2>1, <2>2 DEF OneVariantEach, Recalculates, WroteItsVariant, IsNextProduct
  <2>5. QED
    BY <1>1, <2>3, <2>4 DEF Count
<1>6. QED
  BY <1>1, <1>3, <1>4, <1>5 DEF Recalculates, OrdersOnly, Kind

-----------------------------------------------------------------------------
\* The session that takes a step.

\* What the step lemmas show.
StepCounts(s) == Recalculates(s)' /\ OrdersOnly(s)' /\ CatalogHonest'

\* A handler at its lines has recalculated nothing, and holds no product.
LEMMA NoProductYet ==
    ASSUME NEW s \in Session, Recalculates(s), NEW p \in Product,
           pc[s] = "lines" \/ \A v \in Variant : holder[v] # s
    PROVE  holder[p] # s
BY DEF Recalculates, ProductsFollow, WroteItsVariant

\* A request starts with no lock and nothing to recalculate.
LEMMA RequestCounts ==
    ASSUME NoCatalogForms, IInv, HInv, AInv, NEW s \in Session, Request(s)
    PROVE  StepCounts(s)
<1>1. pc[s] = "idle" /\ UNCHANGED <<disk, live, holder, stale>>
  BY DEF Request, LoadLines, UpdateStatus, CancelMine, ChangeStatus, LoadForNote,
     LoadForVariantEdit, LoadForProductEdit, LoadForStoreEdit, LoadForVariantRemoval,
     LoadForProductRemoval, LoadToSave, Start
<1>2. HoldsNothing(s) /\ TasksOK /\ Recalculates(s) /\ CatalogHonest
  BY <1>1, IdleHoldsNothing, TypeParts DEF IInv, AInv
<1>3. pc'[s] \in {"lines", "apply", "diff"} /\ OrdersOnly(s)'
  <2>1. \/ s \in Checkouts /\ LoadLines(s)
        \/ UpdateStatus(s) \/ CancelMine(s) \/ LoadForNote(s) \/ LoadForStoreEdit(s)
    BY DEF Request, NoCatalogForms
  <2>2. \E label \in {"lines", "apply", "diff"} : \E loaded, lines :
          Start(s, label, loaded, lines)
            /\ loaded.kind \in {"checkout", "status", "note", "store"}
    <3>1. CASE LoadLines(s)
      BY <3>1 DEF LoadLines
    <3>2. ASSUME NEW o \in Order, NEW to \in Status, ChangeStatus(s, o, to)
          PROVE  \E label \in {"lines", "apply"} : \E loaded, lines :
                   Start(s, label, loaded, lines) /\ loaded.kind \in {"checkout", "status"}
      BY <3>2 DEF ChangeStatus
    <3>3. CASE LoadForNote(s)
      BY <3>3 DEF LoadForNote, LoadToSave
    <3>5. CASE LoadForStoreEdit(s)
      <4> DEFINE loaded == [kind |-> "store", row |-> Store,
                            entity |-> disk[Store], selected |-> disk[Store]]
      <4>1. Start(s, "diff", loaded, <<>>) /\ loaded.kind = "store"
        BY <3>5 DEF LoadForStoreEdit, LoadToSave
      <4>2. QED
        BY <4>1
    <3>4. QED
      BY <2>1, <3>1, <3>2, <3>3, <3>5 DEF UpdateStatus, CancelMine, Status
  <2>3. QED
    BY <1>2, <2>2 DEF Start, Goto, TasksOK, OrdersOnly, Kind
<1>4. stale[s] = {}
  BY <1>1, <1>2 DEF Recalculates, WroteItsVariant
<1>5. \A r \in Variant \cup Product : holder'[r] # s
  BY <1>1, <1>2, NoProductYet DEF HoldsNothing
<1>6. Recalculates(s)'
  BY <1>1, <1>3, <1>4, <1>5 DEF Recalculates, ProductsFollow, WroteItsVariant, SumsAreTrue
<1>7. QED
  BY <1>1, <1>2, <1>3, <1>6 DEF StepCounts, CatalogHonest, Count

\* A handler that ends has no lock and nothing left to recalculate.
LEMMA FinishCounts ==
    ASSUME TasksOK, NEW s \in Session, Finish(s), DB!Release(s)
    PROVE  Recalculates(s)' /\ OrdersOnly(s)'
<1>1. job'[s] = NoJob /\ pc'[s] \in {"idle", "done"} /\ stale'[s] = {}
  BY DEF TasksOK, Finish
<1>2. \A r \in Variant \cup Product : holder'[r] # s
  BY Tables, SessionsAreReal DEF DB!Release
<1>3. Recalculates(s)'
  BY <1>1, <1>2 DEF Recalculates, ProductsFollow, WroteItsVariant, SumsAreTrue
<1>4. QED
  BY <1>1, <1>3 DEF OrdersOnly, Kind, NoJob

\* A rollback brings the committed versions back, which were not taken off sale.
LEMMA ThrowCounts ==
    ASSUME IInv, AInv, NEW s \in Session, Throw(s)
    PROVE  StepCounts(s)
<1>1. TasksOK /\ TablesOK /\ CatalogHonest
  BY TypeParts DEF IInv, AInv
<1>2. disk' = disk /\ \A v \in Variant : live'[v] \in {disk[v], live[v]}
  BY <1>1, Tables DEF Throw, DB!Rollback, TablesOK
<1>3. CatalogHonest'
  BY <1>1, <1>2 DEF CatalogHonest, Count
<1>4. QED
  BY <1>1, <1>3, FinishCounts DEF Throw, DB!Rollback, StepCounts

\* A line that is written leaves its product stale: the handler does not hold it.
LEMMA LineCounts ==
    ASSUME OneVariantEach, IInv, AInv, NEW s \in Session, pc[s] = "lines",
           job[s].cart \in Seq(Line), HoldsWrittenLines(s),
           NEW u \in Variant, u = Head(todo[s]).variant, NEW n,
           DB!Update(s, u, [DB!Visible(s, u) EXCEPT !.stock = n]),
           LineDone(s, job[s].cart), UNCHANGED <<job, sums>>
    PROVE  StepCounts(s)
<1> DEFINE cart == job[s].cart
<1>1. TasksOK /\ TablesOK /\ CatalogHonest /\ Recalculates(s) /\ OrdersOnly(s)
  BY TypeParts DEF IInv, AInv
<1>2. /\ holder' = [holder EXCEPT ![u] = s] /\ disk' = disk
      /\ \A r \in Row : live'[r] = (IF r = u THEN [DB!Visible(s, u) EXCEPT !.stock = n] ELSE live[r])
      /\ \A r \in Row : holder'[r] = (IF r = u THEN s ELSE holder[r])
  BY <1>1, Tables DEF DB!Update, TablesOK
<1>3. HoldsWrittenLines(s)' /\ holder[u] # s
  BY <1>2, LineWritten
<1>4. \A p \in Product : holder[p] # s /\ holder'[p] # s
  BY <1>1, <1>2, NoProductYet, Tables
<1>5. \/ pc'[s] = "lines" /\ stale'[s] = stale[s]
      \/ /\ pc'[s] = "select" /\ todo'[s] = <<>>
         /\ stale'[s] = {ProductOf[cart[i].variant] : i \in DOMAIN cart}
  BY <1>1 DEF LineDone, Goto, TasksOK
<1>6. \A v \in Variant : ProductOf[v] \in Product
  BY CatalogIsSound
<1>7. pc'[s] = "select" => \A v \in Variant : holder'[v] = s <=> v \in VariantsOf(cart)
  BY <1>3, <1>5 DEF HoldsWrittenLines, VariantsOf
<1>8. ProductsFollow(s)'
  BY <1>4, <1>5, <1>6, <1>7 DEF ProductsFollow, VariantsOf
<1>9. WroteItsVariant(s)'
  <2>1. CASE pc'[s] = "lines" /\ stale'[s] = stale[s]
    BY <1>1, <1>4, <2>1 DEF WroteItsVariant, Recalculates
  <2>2. CASE /\ pc'[s] = "select"
             /\ stale'[s] = {ProductOf[cart[i].variant] : i \in DOMAIN cart}
    <3>0. \A i \in DOMAIN cart : cart[i] \in Line
      BY ElementOfSeq, LenProperties
    <3>1. \A i \in DOMAIN cart : cart[i].variant \in Variant
      BY <3>0 DEF Line
    <3>2. \A i \in DOMAIN cart : holder'[cart[i].variant] = s
      BY <1>7, <2>2, <3>1 DEF VariantsOf
    <3>3. QED
      BY <1>4, <2>2, <3>1, <3>2 DEF WroteItsVariant
  <2>3. QED
    BY <1>5, <2>1, <2>2
<1>10. SumsAreTrue(s)'
  BY <1>5 DEF SumsAreTrue
<1>11. ~live'[u].deleted
  <2>1. DB!Visible(s, u) \in VariantRow /\ ~DB!Visible(s, u).deleted
    BY <1>1, VisibleOK, Tables DEF RowOK, DB!Visible, CatalogHonest
  <2>2. QED
    BY <1>2, <2>1, Tables DEF VariantRow
<1>12. CatalogHonest'
  BY <1>1, <1>2, <1>11, Tables DEF CatalogHonest, Count
<1>13. QED
  BY <1>1, <1>8, <1>9, <1>10, <1>12 DEF StepCounts, Recalculates, OrdersOnly, Kind

\* The next product of a handler is one product.
LEMMA OneNextProduct ==
    ASSUME IInv, NEW s \in Session, Kind(s) \in {"checkout", "status"},
           NEW p, NEW q, IsNextProduct(s, p), IsNextProduct(s, q)
    PROVE  p = q
<1> DEFINE lines == job[s].cart
           Ahead(i) == \A j \in 1..(i - 1) : ProductOf[lines[j].variant] \notin stale[s]
<1>1. DOMAIN lines \subseteq Nat /\ \A i \in DOMAIN lines : i >= 1
  <2>1. lines \in Seq(Line)
    BY JobKinds, TypeParts DEF IInv, TasksOK, Kind, CheckoutJob, StatusJob
  <2>2. QED
    BY <2>1, LenProperties
<1>2. PICK i \in DOMAIN lines : ProductOf[lines[i].variant] = p /\ Ahead(i) /\ p \in stale[s]
  BY DEF IsNextProduct
<1>3. PICK j \in DOMAIN lines : ProductOf[lines[j].variant] = q /\ Ahead(j) /\ q \in stale[s]
  BY DEF IsNextProduct
<1>4. ~(i < j) /\ ~(j < i)
  BY <1>1, <1>2, <1>3
<1>5. QED
  BY <1>1, <1>2, <1>3, <1>4

\* The SELECT of a product reads the variant the handler holds.
LEMMA SelectSumsCounts ==
    ASSUME OneVariantEach, IInv, AInv, NEW s \in Session, Kind(s) \in {"checkout", "status"},
           SelectSums(s)
    PROVE  StepCounts(s)
<1>1. TasksOK /\ CatalogHonest /\ Recalculates(s) /\ OrdersOnly(s)
  BY TypeParts DEF IInv, AInv
<1>2. PICK p \in Product : IsNextProduct(s, p) /\ sums' = [sums EXCEPT ![s] = SelectAggregate(s, p)]
  BY DEF SelectSums
<1>3. /\ pc[s] = "select" /\ pc'[s] = "aggregate" /\ sums'[s] = SelectAggregate(s, p)
      /\ UNCHANGED <<disk, live, holder, job, stale>>
  BY <1>1, <1>2 DEF SelectSums, Goto, TasksOK
<1>4. ASSUME NEW v \in Variant, IsNextProduct(s, ProductOf[v])
      PROVE  sums'[s] = Count(v, live)
  <2>1. ProductOf[v] = p
    BY <1>2, <1>4, OneNextProduct
  <2>2. holder[v] = s
    BY <1>1, <1>2, <1>3, <2>1 DEF Recalculates, WroteItsVariant, IsNextProduct, OneVariantEach
  <2>3. {w \in Variant : ProductOf[w] = p /\ ~DB!Visible(s, w).deleted} = {v}
    BY <1>1, <2>1, <2>2 DEF OneVariantEach, DB!Visible, CatalogHonest
  <2>4. SelectAggregate(s, p) = {<<v, DB!Visible(s, v).stock>>}
    BY <2>3 DEF SelectAggregate
  <2>5. QED
    BY <1>3, <2>2, <2>4 DEF Count, DB!Visible
<1>5. SumsAreTrue(s)'
  BY <1>3, <1>4 DEF SumsAreTrue, IsNextProduct, Kind, Count
<1>6. ProductsFollow(s)' /\ WroteItsVariant(s)'
  BY <1>1, <1>3 DEF Recalculates, ProductsFollow, WroteItsVariant, Count
<1>7. QED
  BY <1>1, <1>3, <1>5, <1>6 DEF StepCounts, Recalculates, OrdersOnly, Kind, CatalogHonest, Count

\* The UPDATE of a product writes what is still true of the variant.
LEMMA UpdateAggregateCounts ==
    ASSUME OneVariantEach, IInv, AInv, NEW s \in Session, Kind(s) \in {"checkout", "status"},
           UpdateAggregate(s)
    PROVE  StepCounts(s)
<1>1. TasksOK /\ TablesOK /\ CatalogHonest /\ Recalculates(s) /\ OrdersOnly(s)
  BY TypeParts DEF IInv, AInv
<1>2. PICK p \in Product :
        /\ IsNextProduct(s, p)
        /\ DB!Update(s, p, [DB!Visible(s, p) EXCEPT !.aggregate = sums[s]])
        /\ stale' = [stale EXCEPT ![s] = @ \ {p}]
        /\ Goto(s, IF stale[s] = {p} THEN AfterAggregates(s) ELSE "select")
  BY DEF UpdateAggregate
<1> DEFINE row == [DB!Visible(s, p) EXCEPT !.aggregate = sums[s]]
<1>3. /\ pc[s] = "aggregate" /\ disk' = disk /\ job' = job
      /\ \A r \in Row : /\ live'[r] = (IF r = p THEN row ELSE live[r])
                        /\ holder'[r] = (IF r = p THEN s ELSE holder[r])
  BY <1>1, <1>2, Tables DEF UpdateAggregate, DB!Update, TablesOK
<1>4. /\ stale'[s] = stale[s] \ {p} /\ p \in stale[s]
      /\ pc'[s] \in {"number", "apply", "commit", "select"}
      /\ pc'[s] # "select" => stale'[s] = {}
  BY <1>1, <1>2 DEF Goto, AfterAggregates, TasksOK, IsNextProduct
<1>5. row.aggregate = sums[s]
  BY <1>1, VisibleOK, Tables DEF RowOK, ProductRow
<1>6. PICK v \in Variant : holder[v] = s /\ ProductOf[v] = p
  BY <1>1, <1>3, <1>4 DEF Recalculates, WroteItsVariant
<1>7. sums[s] = Count(v, live)
  BY <1>1, <1>2, <1>3, <1>6 DEF Recalculates, SumsAreTrue
<1>8. \A w \in Variant : live'[w] = live[w] /\ holder'[w] = holder[w]
  BY <1>3, Tables
<1>9. ProductsFollow(s)'
  <2>1. SUFFICES ASSUME NEW w \in Variant, holder'[w] = s
                 PROVE  IF ProductOf[w] \in stale'[s] THEN holder'[ProductOf[w]] # s
                        ELSE /\ holder'[ProductOf[w]] = s
                             /\ live'[ProductOf[w]].aggregate = {<<w, live'[w].stock>>}
    BY <1>4 DEF ProductsFollow, Count
  <2>2. ProductOf[w] \in Product /\ ProductOf[w] \in Row /\ p \in Row
    BY CatalogIsSound, Tables
  <2>3. CASE w = v
    <3>1. live'[p].aggregate = {<<v, live'[v].stock>>}
      BY <1>3, <1>5, <1>7, <1>8, <2>2 DEF Count
    <3>2. QED
      BY <1>3, <1>4, <1>6, <2>2, <2>3, <3>1
  <2>4. CASE w # v
    <3>1. ProductOf[w] # p
      BY <1>6, <2>4 DEF OneVariantEach
    <3>2. IF ProductOf[w] \in stale[s] THEN holder[ProductOf[w]] # s
          ELSE holder[ProductOf[w]] = s /\ live[ProductOf[w]].aggregate = {<<w, live[w].stock>>}
      BY <1>1, <1>3, <1>8, <2>1 DEF Recalculates, ProductsFollow, Count
    <3>3. /\ live'[ProductOf[w]] = live[ProductOf[w]] /\ live'[w] = live[w]
          /\ holder'[ProductOf[w]] = holder[ProductOf[w]]
      BY <1>3, <1>8, <2>2, <3>1
    <3>4. ProductOf[w] \in stale'[s] <=> ProductOf[w] \in stale[s]
      BY <1>4, <3>1
    <3>5. QED
      BY <3>2, <3>3, <3>4
  <2>5. QED
    BY <2>3, <2>4
<1>10. WroteItsVariant(s)'
  <2>1. SUFFICES ASSUME NEW q \in Product, holder'[q] = s \/ q \in stale'[s]
                 PROVE  \E w \in Variant : holder'[w] = s /\ ProductOf[w] = q
    BY <1>4 DEF WroteItsVariant
  <2>2. q = p \/ holder[q] = s \/ q \in stale[s]
    BY <1>3, <1>4, <2>1, Tables
  <2>3. \E w \in Variant : holder[w] = s /\ ProductOf[w] = q
    BY <1>1, <1>3, <1>6, <2>2 DEF Recalculates, WroteItsVariant
  <2>4. QED
    BY <1>8, <2>3
<1>11. SumsAreTrue(s)'
  BY <1>4 DEF SumsAreTrue
<1>12. CatalogHonest'
  BY <1>1, <1>3, <1>8 DEF CatalogHonest, Count
<1>13. QED
  BY <1>1, <1>3, <1>9, <1>10, <1>11, <1>12 DEF StepCounts, Recalculates, OrdersOnly, Kind

\* The order number is taken once every product is recalculated.
LEMMA TakeOrderNumberCounts ==
    ASSUME IInv, AInv, NEW c \in Session, Kind(c) = "checkout", TakeOrderNumber(c)
    PROVE  StepCounts(c)
<1>1. TasksOK /\ TablesOK /\ CatalogHonest /\ Recalculates(c) /\ job[c] \in CheckoutJob
  BY TypeParts, JobKinds DEF IInv, AInv, TasksOK, Kind
<1>2. /\ disk' = disk /\ stale' = stale /\ pc[c] = "number" /\ pc'[c] = "insert"
      /\ job'[c].kind = "checkout"
  BY <1>1 DEF TakeOrderNumber, DB!Update, Goto, TasksOK, CheckoutJob
<1>3. \A r \in Variant \cup Product : live'[r] = live[r] /\ holder'[r] = holder[r]
  BY <1>1, Tables DEF TakeOrderNumber, DB!Update, TablesOK
<1>4. \A v \in Variant : ProductOf[v] \in Product
  BY CatalogIsSound
<1>5. Recalculates(c)'
  BY <1>1, <1>2, <1>3, <1>4 DEF Recalculates, ProductsFollow, WroteItsVariant, SumsAreTrue, Count
<1>6. QED
  BY <1>1, <1>2, <1>3, <1>5 DEF StepCounts, OrdersOnly, Kind, CatalogHonest, Count


\* The commit of an order or of the store publishes a variant with its product, or
\* neither of them.
LEMMA PublishCounts ==
    ASSUME OneVariantEach, IInv, AInv, NEW s \in Session,
           NEW o \in Order \cup {Store}, NEW version, pc[s] \notin {"lines", "select", "aggregate"},
           DB!UpdateAndCommit(s, o, version), Finish(s)
    PROVE  StepCounts(s)
<1>1. TasksOK /\ TablesOK /\ CatalogHonest /\ Recalculates(s)
  BY TypeParts DEF IInv, AInv
<1>2. \A r \in Variant \cup Product :
        /\ disk'[r] = (IF holder[r] = s THEN live[r] ELSE disk[r])
        /\ live'[r] = live[r]
  <2>1. \A r \in Variant \cup Product : r \in Row /\ r # o
    BY Tables
  <2>2. o \in Row
    BY Tables
  <2>3. \A q \in Row : disk'[q] = (IF q = o THEN version
                                  ELSE IF holder[q] = s THEN live[q] ELSE disk[q])
    BY <2>2, Published
  <2>4. \A q \in Row : q # o => live'[q] = live[q]
    BY <1>1 DEF DB!UpdateAndCommit, TablesOK
  <2>5. QED
    BY <2>1, <2>3, <2>4
<1>3. stale[s] = {}
  BY <1>1 DEF Recalculates, WroteItsVariant
<1>4. \A v \in Variant : ProductOf[v] \in Product
  BY CatalogIsSound
<1>5. ASSUME NEW v \in Variant
      PROVE  disk'[ProductOf[v]].aggregate = Count(v, disk)'
  <2>1. CASE holder[v] = s
    <3>1. holder[ProductOf[v]] = s /\ live[ProductOf[v]].aggregate = Count(v, live)
      BY <1>1, <1>3, <2>1 DEF Recalculates, ProductsFollow
    <3>2. QED
      BY <1>2, <1>4, <2>1, <3>1 DEF Count
  <2>2. CASE holder[v] # s
    <3>1. holder[ProductOf[v]] # s
      BY <1>1, <1>4, <2>2 DEF Recalculates, WroteItsVariant, OneVariantEach
    <3>2. QED
      BY <1>1, <1>2, <1>4, <2>2, <3>1 DEF Count, CatalogHonest
  <2>3. QED
    BY <2>1, <2>2
<1>6. ASSUME NEW p \in Product, \A v \in Variant : ProductOf[v] # p
      PROVE  disk'[p].aggregate = {}
  <2>1. holder[p] # s
    BY <1>1, <1>6 DEF Recalculates, WroteItsVariant
  <2>2. QED
    BY <1>1, <1>2, <1>6, <2>1 DEF CatalogHonest
<1>7. \A v \in Variant : ~disk'[v].deleted /\ ~live'[v].deleted
  BY <1>1, <1>2 DEF CatalogHonest
<1>8. CatalogHonest'
  BY <1>5, <1>6, <1>7 DEF CatalogHonest
<1>9. QED
  BY <1>1, <1>8, FinishCounts DEF StepCounts, DB!UpdateAndCommit

\* A line of a checkout, or of an order that is called off.
LEMMA WriteLineCounts ==
    ASSUME OneVariantEach, IInv, HInv, AInv, NEW s \in Session,
           \/ Kind(s) = "checkout" /\ ReserveLine(s)
           \/ Kind(s) = "status" /\ RestoreLine(s)
    PROVE  StepCounts(s)
<1> DEFINE line == Head(todo[s])
<1>1. TasksOK /\ pc[s] = "lines" /\ todo[s] # <<>> /\ Holds(s) /\ job[s] \in Job
  BY TypeParts DEF IInv, HInv, EveryJobFits, Fits, ReserveLine, RestoreLine, TasksOK
<1>2. line.variant \in Variant
  BY <1>1, NextLine
<1>3. /\ \E n : DB!Update(s, line.variant, [DB!Visible(s, line.variant) EXCEPT !.stock = n])
      /\ LineDone(s, job[s].cart) /\ UNCHANGED <<job, sums>>
  <2>1. DB!Visible(s, line.variant) \in VariantRow
    BY <1>2, VisibleOK, Tables, TypeParts DEF IInv, RowOK
  <2>2. CASE ReserveLine(s)
    <3>1. [DB!Visible(s, line.variant) EXCEPT !.stock = @ - line.quantity]
            = [DB!Visible(s, line.variant) EXCEPT
                 !.stock = DB!Visible(s, line.variant).stock - line.quantity]
      BY <2>1 DEF VariantRow
    <3>2. QED
      BY <2>2, <3>1 DEF ReserveLine
  <2>3. CASE RestoreLine(s)
    <3>1. [DB!Visible(s, line.variant) EXCEPT !.stock = @ + line.quantity]
            = [DB!Visible(s, line.variant) EXCEPT
                 !.stock = DB!Visible(s, line.variant).stock + line.quantity]
      BY <2>1 DEF VariantRow
    <3>2. QED
      BY <2>3, <3>1 DEF RestoreLine
  <2>4. QED
    BY <2>2, <2>3
<1>4. HoldsWrittenLines(s) /\ job[s].cart \in Seq(Line)
  <2>1. CASE Kind(s) = "checkout"
    BY <1>1, <2>1, CartLines DEF Holds, CheckoutHolds
  <2>2. CASE Kind(s) = "status"
    BY <1>1, <2>2, JobKinds DEF Holds, StatusHolds, Kind, StatusJob
  <2>3. QED
    BY <2>1, <2>2
<1>5. QED
  BY <1>1, <1>2, <1>3, <1>4, LineCounts

\* What a save selects of its order or of the store is nothing of the catalog.
LEMMA SelectToSaveCounts ==
    ASSUME IInv, AInv, NEW s \in Session, Kind(s) \in {"note", "store"}, SelectToSave(s)
    PROVE  StepCounts(s)
<1>1. TasksOK /\ CatalogHonest /\ Recalculates(s) /\ job[s] \in NoteJob \cup StoreJob
  BY TypeParts, JobKinds DEF IInv, AInv, TasksOK, Kind
<1>2. /\ UNCHANGED <<disk, live, holder, stale>>
      /\ pc[s] = "diff" /\ pc'[s] = "save" /\ job'[s].kind = job[s].kind
  BY <1>1 DEF SelectToSave, Goto, TasksOK, NoteJob, StoreJob
<1>3. Recalculates(s)'
  BY <1>1, <1>2 DEF Recalculates, ProductsFollow, WroteItsVariant, SumsAreTrue, Count
<1>4. QED
  BY <1>1, <1>2, <1>3 DEF StepCounts, OrdersOnly, Kind, CatalogHonest, Count

\* Every step of a session of the order handlers.
LEMMA SessionCounts ==
    ASSUME OneVariantEach, NoCatalogForms, IInv, HInv, AInv, NEW s \in Session,
           Request(s) \/ HandlerStep(s) \/ DeadlockVictim(s) \/ ConnectionLost(s)
    PROVE  AInv'
<1>1. TasksOK /\ TablesOK /\ OrdersOnly(s) /\ Fits(s) /\ job[s] \in Job
  BY TypeParts DEF IInv, AInv, EveryJobFits, TasksOK
<1>2. StepCounts(s)
  <2>1. CASE Request(s)
    BY <2>1, RequestCounts
  <2>2. CASE DeadlockVictim(s) \/ ConnectionLost(s)
    BY <2>2, ThrowCounts DEF DeadlockVictim, ConnectionLost
  <2>3. ASSUME Kind(s) \in {"checkout", "status"}, Recalculate(s) PROVE StepCounts(s)
    BY <2>3, SelectSumsCounts, UpdateAggregateCounts DEF Recalculate
  <2>4. CASE Kind(s) = "checkout" /\ CheckoutStep(s)
    <3>1. CASE InsertOrder(s)
      <4>1. s \in Order
        BY <1>1, <2>4 DEF Fits, Order
      <4>2. QED
        BY <3>1, <4>1, PublishCounts DEF InsertOrder
    <3>2. CASE OutOfStock(s) \/ NumberTaken(s)
      BY <3>2, ThrowCounts DEF OutOfStock, NumberTaken
    <3>3. QED
      BY <2>3, <2>4, <3>1, <3>2, WriteLineCounts, TakeOrderNumberCounts DEF CheckoutStep
  <2>5. CASE Kind(s) = "status" /\ StatusStep(s)
    <3>1. CASE ApplyStatus(s)
      <4>1. job[s].order \in Order
        BY <1>1, <2>5, JobKinds DEF Kind, StatusJob
      <4>2. QED
        BY <3>1, <4>1, PublishCounts DEF ApplyStatus
    <3>2. CASE StatusConflict(s)
      BY <3>2, ThrowCounts DEF StatusConflict
    <3>3. QED
      BY <2>3, <2>5, <3>1, <3>2, WriteLineCounts DEF StatusStep
  <2>6. CASE Kind(s) = "note" /\ (SelectToSave(s) \/ SaveNote(s))
    <3>1. job[s].row \in Order
      BY <1>1, <2>6, JobKinds DEF Kind, NoteJob
    <3>2. CASE SaveNote(s)
      BY <3>1, <3>2, PublishCounts DEF SaveNote
    <3>3. CASE SelectToSave(s)
      BY <2>6, <3>3, SelectToSaveCounts
    <3>4. QED
      BY <2>6, <3>2, <3>3
  <2>7. CASE Kind(s) = "store" /\ (SelectToSave(s) \/ SaveStore(s))
    <3>1. CASE SaveStore(s)
      BY <3>1, PublishCounts DEF SaveStore
    <3>2. CASE SelectToSave(s)
      BY <2>7, <3>2, SelectToSaveCounts
    <3>3. QED
      BY <2>7, <3>1, <3>2
  <2>8. HandlerStep(s) => \/ Kind(s) = "checkout" /\ CheckoutStep(s)
                          \/ Kind(s) = "status" /\ StatusStep(s)
                          \/ Kind(s) = "note" /\ (SelectToSave(s) \/ SaveNote(s))
                          \/ Kind(s) = "store" /\ (SelectToSave(s) \/ SaveStore(s))
    BY <1>1 DEF HandlerStep, OrdersOnly
  <2>9. QED
    BY <2>1, <2>2, <2>4, <2>5, <2>6, <2>7, <2>8
<1>3. OthersKept(s) /\ OthersSumsKept(s) /\ OthersLocksKept(s)
  BY <1>1, OneMoves, OneSelects, OneStatement, StatementKeepsLocks
<1>4. ASSUME NEW t \in Session, t # s PROVE Recalculates(t)' /\ OrdersOnly(t)'
  <2>1. Recalculates(t) /\ OrdersOnly(t) /\ t \in Session \ {s}
    BY <1>4 DEF AInv
  <2>2. QED
    BY <1>3, <2>1, OthersRecalculate
<1>5. QED
  BY <1>2, <1>4 DEF AInv, StepCounts

\* The invariant holds of a shop as it opens.
LEMMA InitAInv ==
    ASSUME OneVariantEach, Init
    PROVE  AInv
<1>1. \A s \in Session : /\ Kind(s) = "none" /\ pc[s] = "idle" /\ stale[s] = {}
                         /\ \A r \in Row : holder[r] # s
  BY SessionsAreReal DEF Init, Kind, NoJob
<1>2. \A s \in Session : Recalculates(s) /\ OrdersOnly(s)
  BY <1>1, Tables DEF Recalculates, OrdersOnly, ProductsFollow, WroteItsVariant, SumsAreTrue
<1>3. /\ \A v \in Variant : disk[v].stock = InitialStock[v] /\ ~disk[v].deleted
      /\ \A p \in Product : disk[p].aggregate =
           {<<v, InitialStock[v]>> : v \in {w \in Variant : ProductOf[w] = p}}
      /\ live = disk
  <2>1. live = disk
    BY DEF Init
  <2>2. ASSUME NEW v \in Variant PROVE disk[v].stock = InitialStock[v] /\ ~disk[v].deleted
    <3>1. disk[v] = [stock |-> InitialStock[v], deleted |-> FALSE]
      BY Tables DEF Init
    <3>2. QED
      BY <3>1
  <2>3. ASSUME NEW p \in Product
        PROVE  disk[p].aggregate =
                 {<<v, InitialStock[v]>> : v \in {w \in Variant : ProductOf[w] = p}}
    <3>1. disk[p] =
            [aggregate |-> {<<v, InitialStock[v]>> : v \in {w \in Variant : ProductOf[w] = p}},
             active |-> TRUE, deleted |-> FALSE]
      BY Tables DEF Init
    <3>2. QED
      BY <3>1
  <2>4. QED
    BY <2>1, <2>2, <2>3
<1>4. ASSUME NEW v \in Variant PROVE disk[ProductOf[v]].aggregate = Count(v, disk)
  <2>1. ProductOf[v] \in Product
    BY CatalogIsSound
  <2>2. {w \in Variant : ProductOf[w] = ProductOf[v]} = {v}
    BY DEF OneVariantEach
  <2>3. disk[ProductOf[v]].aggregate = {<<w, InitialStock[w]>> : w \in {v}}
    BY <1>3, <2>1, <2>2
  <2>4. QED
    BY <1>3, <2>3 DEF Count
<1>5. ASSUME NEW p \in Product, \A v \in Variant : ProductOf[v] # p
      PROVE  disk[p].aggregate = {}
  BY <1>3, <1>5
<1>6. \A v \in Variant : ~disk[v].deleted /\ ~live[v].deleted
  BY <1>3
<1>7. QED
  BY <1>2, <1>4, <1>5, <1>6 DEF AInv, CatalogHonest

\* It says what the derived columns promise.
LEMMA AInvIsHonest ==
    ASSUME OneVariantEach, AInv
    PROVE  AggregatesHonest
<1> SUFFICES ASSUME NEW p \in Product
             PROVE  disk[p].aggregate = {<<v, disk[v].stock>> : v \in LiveVariants(p)}
  BY DEF AggregatesHonest
<1>1. CASE \A v \in Variant : ProductOf[v] # p
  BY <1>1 DEF AInv, CatalogHonest, LiveVariants
<1>2. ASSUME NEW v \in Variant, ProductOf[v] = p
      PROVE  disk[p].aggregate = {<<w, disk[w].stock>> : w \in LiveVariants(p)}
  <2>1. LiveVariants(p) = {v}
    BY <1>2 DEF AInv, CatalogHonest, LiveVariants, OneVariantEach
  <2>2. QED
    BY <1>2, <2>1 DEF AInv, CatalogHonest, Count
<1>3. QED
  BY <1>1, <1>2

-----------------------------------------------------------------------------
\* The result.

\* In a shop whose products are sold in one form each, the derived columns of
\* every product are those of its live variants, however many checkouts,
\* cancellations, conflicts, deadlocks and lost connections interleave, as
\* long as the owner saves no form of the catalog.
THEOREM AggregatesStayHonest ==
    ASSUME OneVariantEach, NoCatalogForms
    PROVE  Spec => []AggregatesHonest
<1>1. Init => AInv
  BY InitAInv
<1>2. (IInv /\ HInv) /\ AInv /\ [Next]_vars => AInv'
  <2> SUFFICES ASSUME IInv, HInv, AInv, [Next]_vars PROVE AInv'
    OBVIOUS
  <2>1. CASE Next
    BY <2>1, SessionCounts DEF Next
  <2>2. CASE UNCHANGED vars
    BY <2>2 DEF vars, AInv, OrdersOnly, Kind, Recalculates, ProductsFollow,
                WroteItsVariant, SumsAreTrue, IsNextProduct, CatalogHonest, Count
  <2>3. QED
    BY <2>1, <2>2
<1>3. AInv => AggregatesHonest
  BY AInvIsHonest
<1>4. QED
  BY <1>1, <1>2, <1>3, HoldsInvariance, PTL DEF Spec
=============================================================================
