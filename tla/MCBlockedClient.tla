-------------------------- MODULE MCBlockedClient ---------------------------
(***************************************************************************)
(* The two sides of a blocked client: its connection, which CLIENT UNBLOCK *)
(* reaches (ConnBlock), and its waiter, which data reaches (Blocking).     *)
(* They meet only in the context that ends a wait, which is ctxDone in the *)
(* one and CtxDone in the other, so each behaviour follows one side.       *)
(***************************************************************************)
EXTENDS ConnBlock, Blocking

CONSTANTS k1, k2

VARIABLES
    side     \* the side this behaviour follows

Cmd(op, keys, dst, n) ==
    [op |-> op, keys |-> keys, dst |-> dst, from |-> "first",
     to |-> "last", count |-> n, timeout |-> FALSE]

\* Commands without a timeout: only data ends them.
LoneCommands ==
    {Cmd("zpop", <<k1, k2>>, k1, 1), Cmd("lmpop", <<k2, k1>>, k1, 2),
     Cmd("lmove", <<k1>>, k2, 1)}

BothInit == ConnInit /\ Init /\ side \in {"connection", "waiter"}

BothNext ==
    \/ side = "connection" /\ ConnNext /\ UNCHANGED <<side, vars>>
    \/ side = "waiter" /\ Next /\ UNCHANGED <<side, connVars>>

\* A side that is not followed stays idle, where its fairness asks for nothing.
BothSpec ==
    /\ BothInit /\ [][BothNext]_<<side, connVars, vars>>
    /\ ConnFairness /\ Fairness
=============================================================================
