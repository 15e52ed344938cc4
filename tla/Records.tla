------------------------------ MODULE Records ------------------------------
(***************************************************************************)
(* The object literal { ...record, ...columns } of the services, and what  *)
(* Map.set does: a record or a table, with some of its columns or rows     *)
(* replaced and others new.  It is written out, because the provers know   *)
(* nothing of the operator of the module TLC for it.                       *)
(***************************************************************************)

Spread(columns, record) ==
    [c \in DOMAIN columns \cup DOMAIN record |->
       IF c \in DOMAIN columns THEN columns[c] ELSE record[c]]
=============================================================================
