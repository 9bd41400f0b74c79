------------------------------- MODULE MCSql --------------------------------
(***************************************************************************)
(* The SQL server on small instances: the catalog its sessions synchronise *)
(* with (SqlCatalog), and the rows, index and transactions of one table    *)
(* (SqlRows).  The row writes load the schema from the store and not from  *)
(* the session's copy of the catalog, so each behaviour follows one side.  *)
(***************************************************************************)
EXTENDS SqlCatalog, SqlRows, TLC

CONSTANTS w1, w2, i1, i2, n1

VARIABLE side

OneTable   == [n \in {n1} |-> <<"a">>]
OneBody    == {<<"q">>}
IssuersSym == Permutations({i1, i2})

Unindexed == [id |-> 0, unique |-> FALSE]
Unique    == [id |-> 1, unique |-> TRUE]

Scene(ops1, n1st, ops2, n2nd, plans, found, index) ==
    [ops |-> w1 :> ops1 @@ w2 :> ops2, left |-> w1 :> n1st @@ w2 :> n2nd,
     plans |-> plans, rows |-> found, schema |-> index]

RowWrites == {"write", "insert", "update", "move", "delete"}

\* In turn: two transactions, a transaction beside index DDL on an indexed and
\* on an unindexed table, auto-committed writers, savepoints, reads, and a move
\* that fails beside a reader.
SqlScenarios ==
    {Scene({"begin", "write", "insert", "update"}, 3, {"begin", "write", "insert", "update"}, 2,
           {"pk"}, 1 :> 1, Unique),
     Scene({"begin", "write", "insert", "move"}, 3, {"index"}, 2, {"pk"}, 1 :> 1, Unique),
     Scene({"begin", "write", "insert", "update", "delete"}, 3, {"index"}, 2,
           {"pk"}, 1 :> 1, Unindexed),
     Scene({"write", "update", "delete"}, 1, RowWrites, 2, {}, 1 :> 1, Unique),
     Scene({"begin", "savepoint", "write", "insert", "move"}, 5, {"write", "delete"}, 1,
           {"all"}, 1 :> 1, Unindexed),
     Scene({"begin", "select"}, 3, RowWrites, 2, {"all", "pk", "eq", "from"}, 1 :> 1, Unique),
     Scene({"begin", "write", "insert", "move"}, 3, {"begin", "select"}, 2,
           {"pk"}, 1 :> 1, Unique)}

\* A transaction whose UPDATE fails, beside a second writer.
FailedUpdate ==
    {Scene({"begin", "write", "update"}, 2, {"write", "update"}, 1,
           {"pk"}, 1 :> 1 @@ 2 :> 2, Unique)}

\* The side not followed stays in its initial state, one scenario for all.
SqlInit == /\ Init /\ RowsInit
           /\ \/ side = "rows"
              \/ side = "catalog" /\ scenario = CHOOSE c \in Scenarios : TRUE

SqlNext == \/ side = "catalog" /\ Next /\ UNCHANGED <<side, rowVars>>
           \/ side = "rows" /\ RowsNext /\ UNCHANGED <<side, vars>>

SqlSpec == SqlInit /\ [][SqlNext]_<<side, vars, rowVars>>
=============================================================================
