------------------------------ MODULE RowStore ------------------------------
(***************************************************************************)
(* The part of PostgreSQL the application relies on, at its default READ   *)
(* COMMITTED isolation.  Nothing of it is under src/: it is modelled from  *)
(* how the services use it through TypeORM.                                *)
(*                                                                         *)
(*   - a SELECT sees the last committed version of a row, or the           *)
(*     transaction's own uncommitted one;                                  *)
(*   - an UPDATE takes the row's lock and keeps it until the transaction   *)
(*     ends, so another transaction's UPDATE of the row waits;             *)
(*   - COMMIT publishes every version the transaction wrote, ROLLBACK      *)
(*     discards them, and both release its locks.                          *)
(*                                                                         *)
(* disk[r] is the committed version of row r, live[r] its newest version   *)
(* and holder[r] the transaction that holds the lock of r.                 *)
(***************************************************************************)

CONSTANTS Row, Session, NoSession

VARIABLES disk, live, holder

dbVars == <<disk, live, holder>>

\* The version of row r that a statement of session s reads.
Visible(s, r) == IF holder[r] = s THEN live[r] ELSE disk[r]

\* Session s need not wait for row r.
Free(s, r) == holder[r] \in {s, NoSession}

\* An UPDATE of row r by s: it waits for the lock, then keeps it.
Update(s, r, version) ==
    /\ Free(s, r)
    /\ live' = [live EXCEPT ![r] = version]
    /\ holder' = [holder EXCEPT ![r] = s]
    /\ UNCHANGED disk

Release(s) ==
    holder' = [r \in Row |-> IF holder[r] = s THEN NoSession ELSE holder[r]]

Commit(s) ==
    /\ disk' = [r \in Row |-> Visible(s, r)]
    /\ UNCHANGED live
    /\ Release(s)

\* The last UPDATE of a transaction and its COMMIT: what lies between the two
\* is visible to nobody else.
UpdateAndCommit(s, r, version) ==
    /\ Free(s, r)
    /\ live' = [live EXCEPT ![r] = version]
    /\ disk' = [q \in Row |-> IF q = r THEN version ELSE Visible(s, q)]
    /\ Release(s)

Rollback(s) ==
    /\ live' = [r \in Row |-> IF holder[r] = s THEN disk[r] ELSE live[r]]
    /\ UNCHANGED disk
    /\ Release(s)

=============================================================================
