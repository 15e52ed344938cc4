--------------------------- MODULE MCMailboxSync ---------------------------
(***************************************************************************)
(* A small instance of MailboxSync for TLC.                                *)
(***************************************************************************)
EXTENDS MailboxSync

CONSTANTS a1, b1, t1, i1, i2

OneList == {{a1}}

\* The owner's pass meets an instance that is set to read one reply at a time.
MCMaxPerSync == [i \in Syncs |-> IF i \in Manual THEN 1 ELSE 2]
=============================================================================
