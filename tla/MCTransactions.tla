--------------------------- MODULE MCTransactions ---------------------------
(***************************************************************************)
(* Small instances of Transactions for TLC.  c1 has room for WATCH, MULTI, *)
(* a command and EXEC or for two commands in EXEC; c2 for a short          *)
(* transaction or plain commands.                                          *)
(***************************************************************************)
EXTENDS Transactions, TLC

CONSTANTS c1, c2

Budget == (c1 :> 4) @@ (c2 :> 3)
=============================================================================
