------------------------------ MODULE SqlRows -------------------------------
(***************************************************************************)
(* Rows, secondary index and transactions of one SQL table (src/sql).      *)
(* Outside BEGIN ... COMMIT each row written has a Context of its own,     *)
(* retried when the flush is aborted; inside, the statements share the     *)
(* session's.  CREATE INDEX and DROP INDEX run beside them and change the  *)
(* schema that the writes maintain the index by.  What keeps all this      *)
(* consistent is which keys a Context pins, which predicates its reads     *)
(* leave behind, and the engine's refusal to flush a Context that another  *)
(* commit has overtaken there (SqlContext).                                *)
(***************************************************************************)
EXTENDS SqlContext, Sequences

CONSTANTS Writers,      \* sessions
          MaxIds,       \* bound: indexes created, the initial one included
          MaxRetries,   \* maxRMWRetries
          Savepoints,   \* names of savepoints
          Scenarios     \* what the sessions do, and the table they find

VARIABLES lastId,     \* index ids handed out
          tx,         \* session.txContext
          dirty,      \* session.txDirtyRows
          saves,      \* session.savepoints
          work,       \* the auto-committed row write or DDL a session runs
          left,       \* statements a session still issues
          scenario

rowVars == <<data, lastId, tx, dirty, saves, work, left, scenario>>

Ids == 1 .. MaxIds

(***************************************************************************)
(* Reads: the access plans of BestIndex, and the rows each yields.         *)
(***************************************************************************)
FullScan == [kind |-> "all", arg |-> 0]
Plans == {plan \in {FullScan} \cup [kind : {"pk"}, arg : PKs]
                       \cup (IF schema.id = 0 THEN {} ELSE [kind : {"eq", "from"}, arg : Vals]) :
              plan.kind \in scenario.plans}

(* A full scan visits the committed rows and the transaction's dirty ones; *)
(* a range scan the entry keys that are committed, and its rows are        *)
(* compared again (Omit is FALSE).                                         *)
filterFullScan(s)    == {p \in {q \in PKs : Exists(rows[q])} \cup dirty[s] :
                            Exists(RowIn(tx[s], p))}
filterIndex(c, vs)   ==
    {p \in PKs : Exists(RowIn(c, p)) /\ \E v \in vs : p \in PKsAt(c, schema.id, v)}
rangeKeys(low)       == {v \in Vals : v >= low /\ \E p \in PKs : <<schema.id, v, p>> \in entries}

Scan(s, plan) ==
    CASE plan.kind = "all"  -> filterFullScan(s)
      [] plan.kind = "pk"   -> {p \in {plan.arg} : Exists(RowIn(tx[s], p))}
      [] plan.kind = "eq"   -> filterIndex(tx[s], {plan.arg})
      [] plan.kind = "from" -> {p \in filterIndex(tx[s], rangeKeys(plan.arg)) :
                                   RowIn(tx[s], p).v >= plan.arg}

(***************************************************************************)
(* Sessions.                                                               *)
(***************************************************************************)
NoWrite == [op |-> "none", pk |-> 0, to |-> 0, v |-> Null]
NoWork  == [at |-> "none", write |-> NoWrite, id |-> 0, unique |-> FALSE, tries |-> 0,
            ctx |-> NoContext]

Inserts == {[op |-> "insert", pk |-> p, to |-> p, v |-> v] : p \in PKs, v \in Vals \cup {Null}}
Updates(p) == {[op |-> "update", pk |-> p, to |-> p, v |-> v] : v \in Vals \cup {Null}}
Moves(p)   == {[op |-> "update", pk |-> p, to |-> q, v |-> v] :
                   q \in PKs \ {p}, v \in Vals \cup {Null, Unchanged}}
Deletes(p) == {[op |-> "delete", pk |-> p, to |-> p, v |-> Null]}

May(s, op) == op \in scenario.ops[s]

IssueStmt(s, op) == /\ May(s, op)
                    /\ work[s].at = "none"
                    /\ left[s] > 0
                    /\ left' = [left EXCEPT ![s] = @ - 1]
                    /\ UNCHANGED scenario

(* The writes a session may issue next, with the plan that finds the row.  *)
Writes(s, plan) ==
    (IF May(s, "insert") THEN Inserts ELSE {}) \cup
    UNION {(IF May(s, "update") THEN Updates(p) ELSE {}) \cup
           (IF May(s, "move") THEN Moves(p) ELSE {}) \cup
           (IF May(s, "delete") THEN Deletes(p) ELSE {}) : p \in Scan(s, plan)}

(* The table found is one that earlier statements left: its column holds   *)
(* values, and a unique index has no two rows of one.                      *)
ASSUME ScenariosAssumption ==
    /\ MaxIds \in Nat
    /\ \A x \in Scenarios :
          /\ x.schema.id \in {0} \cup Ids
          /\ x.schema.unique \in (IF x.schema.id = 0 THEN {FALSE} ELSE BOOLEAN)
          /\ \A p \in DOMAIN x.rows : x.rows[p] \in Vals \cup {Null}
          /\ x.schema.unique => \A p, q \in DOMAIN x.rows :
                                   x.rows[p] = x.rows[q] /\ x.rows[p] # Null => p = q

RowsInit == /\ scenario \in Scenarios
            /\ rows = [p \in PKs |-> IF p \in DOMAIN scenario.rows
                                     THEN [here |-> TRUE, v |-> scenario.rows[p]] ELSE NoRow]
            /\ schema = scenario.schema
            /\ entries = {e \in Ids \X Vals \X PKs : e[1] = schema.id /\ rows[e[3]].v = e[2]}
            /\ lost = {}
            /\ silent = {}
            /\ lastId = schema.id
            /\ tx = [s \in Writers |-> NoContext]
            /\ dirty = [s \in Writers |-> {}]
            /\ saves = [s \in Writers |-> <<>>]
            /\ work = [s \in Writers |-> NoWork]
            /\ left = scenario.left

(* A successful Flush of c, with what the session's own state becomes.     *)
Flush(c, txs, frames, jobs) ==
    /\ rows' = [p \in PKs |-> RowIn(c, p)]
    /\ entries' = EntriesIn(c)
    /\ lost' = (lost \cup c.lost) \ c.put
    /\ silent' = (silent \cup c.silent) \ Recorded(c)
    /\ schema' = IF c.sch = NoSchema THEN schema ELSE c.sch
    /\ tx' = [t \in Writers |-> Overtaken(c, txs[t])]
    /\ saves' = [t \in Writers |-> [i \in DOMAIN frames[t] |->
                    [frames[t][i] EXCEPT !.ctx = Overtaken(c, @)]]]
    /\ work' = [t \in Writers |-> [jobs[t] EXCEPT !.ctx = Overtaken(c, @)]]

(* BEGIN.                                                                  *)
handleBegin(s) == /\ IssueStmt(s, "begin")
                  /\ ~tx[s].open
                  /\ tx' = [tx EXCEPT ![s] = NewContext]
                  /\ UNCHANGED <<data, lastId, dirty, saves, work>>

(* The rest of clearTxState: the session's dirty rows.                     *)
clearTxState(s) == /\ dirty' = [dirty EXCEPT ![s] = {}]
                   /\ UNCHANGED <<lastId, left, scenario>>

(* COMMIT: flushed, or a serialization failure; either way it is over.     *)
handleCommit(s) ==
    /\ tx[s].open
    /\ work[s].at = "none"
    /\ clearTxState(s)
    /\ LET txs    == [tx EXCEPT ![s] = NoContext]
           frames == [saves EXCEPT ![s] = <<>>]
       IN IF tx[s].stale THEN tx' = txs /\ saves' = frames /\ UNCHANGED <<data, work>>
          ELSE Flush(tx[s], txs, frames, work)

handleRollback(s) ==
    /\ tx[s].open
    /\ work[s].at = "none"
    /\ clearTxState(s)
    /\ tx' = [tx EXCEPT ![s] = NoContext]
    /\ saves' = [saves EXCEPT ![s] = <<>>]
    /\ UNCHANGED <<data, work>>

(* SAVEPOINT n: a later frame shadows an earlier one of its name.          *)
handleSavepoint(s, n) ==
    /\ IssueStmt(s, "savepoint")
    /\ tx[s].open
    /\ saves' = [saves EXCEPT ![s] = Append(@, [name |-> n, ctx |-> tx[s], dirty |-> dirty[s]])]
    /\ UNCHANGED <<data, lastId, tx, dirty, work>>

(* The last frame of the name, if there is one.                            *)
findSavepoint(s, n) == {i \in DOMAIN saves[s] : /\ saves[s][i].name = n
                                                /\ \A j \in DOMAIN saves[s] :
                                                      j > i => saves[s][j].name # n}

(* RELEASE n: the frame and those above it go, the writes stay.            *)
handleReleaseSavepoint(s, n) ==
    /\ IssueStmt(s, "savepoint")
    /\ tx[s].open
    /\ \E i \in findSavepoint(s, n) : saves' = [saves EXCEPT ![s] = SubSeq(@, 1, i - 1)]
    /\ UNCHANGED <<data, lastId, tx, dirty, work>>

(* Faulty form: the rows written since the savepoint are forgotten but     *)
(* their effects stay.                                                     *)
RestoreRowsOnly(s, i) ==
    /\ UNCHANGED tx
    /\ dirty' = [dirty EXCEPT ![s] = saves[s][i].dirty]
    /\ saves' = [saves EXCEPT ![s] = SubSeq(@, 1, i)]

rollbackToSavepoint(s, i) ==
    /\ tx' = [tx EXCEPT ![s] = saves[s][i].ctx]
    /\ dirty' = [dirty EXCEPT ![s] = saves[s][i].dirty]
    /\ saves' = [saves EXCEPT ![s] = SubSeq(@, 1, i)]

(* ROLLBACK TO n: the named frame stays.                                   *)
handleRollbackTo(s, n) ==
    /\ IssueStmt(s, "savepoint")
    /\ tx[s].open
    /\ \E i \in findSavepoint(s, n) : rollbackToSavepoint(s, i)
    /\ UNCHANGED <<data, lastId, work>>

(* A SELECT in a transaction.                                              *)
Filter(s, plan) == /\ IssueStmt(s, "select")
                   /\ tx[s].open
                   /\ tx' = [tx EXCEPT ![s] = Observe(@, plan)]
                   /\ UNCHANGED <<data, lastId, dirty, saves, work>>

(* A write in a transaction, whose effects stay pending when it fails.     *)
runWrite(s, plan, w) ==
    /\ IssueStmt(s, "write")
    /\ tx[s].open
    /\ LET r == Write(IF w.op = "insert" THEN tx[s] ELSE Observe(tx[s], plan), w)
       IN /\ tx' = [tx EXCEPT ![s] = r.ctx]
          /\ dirty' = IF r.ok THEN [dirty EXCEPT ![s] = @ \cup Dirtied(w)] ELSE dirty
    /\ UNCHANGED <<data, lastId, saves, work>>

(* An auto-committed write: the row is found, then runRMW.                 *)
autoWrite(s, w) ==
    /\ IssueStmt(s, "write")
    /\ ~tx[s].open
    /\ work' = [work EXCEPT ![s] = [NoWork EXCEPT !.at = "body", !.write = w]]
    /\ UNCHANGED <<data, lastId, tx, dirty, saves>>

(* CREATE [UNIQUE] INDEX, DROP INDEX: the preflight reads; an open         *)
(* transaction plays no part.                                              *)
startCreateIndex(s, unique) ==
    /\ IssueStmt(s, "index")
    /\ schema.id = 0
    /\ lastId < MaxIds
    /\ lastId' = lastId + 1
    /\ work' = [work EXCEPT ![s] = [NoWork EXCEPT !.at = "body", !.write.op = "create",
                                              !.id = lastId + 1, !.unique = unique]]
    /\ UNCHANGED <<data, tx, dirty, saves>>

startDropIndex(s) ==
    /\ IssueStmt(s, "index")
    /\ schema.id # 0
    /\ work' = [work EXCEPT ![s] = [NoWork EXCEPT !.at = "body", !.write.op = "drop",
                                                  !.id = schema.id]]
    /\ UNCHANGED <<data, lastId, tx, dirty, saves>>

(* runRMW: the body on a fresh Context, then its Flush, again when it is   *)
(* aborted; a body that fails is abandoned with all it emitted.            *)
runBody(s) ==
    LET j == work[s]
        r == CASE j.write.op = "create" -> createIndexEffects(NewContext, j.id, j.unique)
               [] j.write.op = "drop"   -> dropIndexEffects(NewContext, j.id)
               [] OTHER                 -> Write(NewContext, j.write)
    IN /\ j.at = "body"
       /\ work' = [work EXCEPT ![s] = IF r.ok THEN [j EXCEPT !.at = "flush", !.ctx = r.ctx]
                                             ELSE NoWork]
       /\ UNCHANGED <<data, lastId, tx, dirty, saves, left, scenario>>

runFlush(s) ==
    /\ work[s].at = "flush"
    /\ UNCHANGED <<lastId, dirty, left, scenario>>
    /\ IF work[s].ctx.stale
       THEN /\ work' = [work EXCEPT ![s] =
                IF work[s].tries + 1 < MaxRetries
                THEN [work[s] EXCEPT !.at = "body", !.tries = work[s].tries + 1, !.ctx = NoContext]
                ELSE NoWork]
            /\ UNCHANGED <<data, tx, saves>>
       ELSE Flush(work[s].ctx, tx, saves, [work EXCEPT ![s] = NoWork])

RowsNext == \E s \in Writers :
            \/ handleBegin(s)
            \/ handleCommit(s)
            \/ handleRollback(s)
            \/ \E n \in Savepoints : \/ handleSavepoint(s, n)
                                     \/ handleReleaseSavepoint(s, n)
                                     \/ handleRollbackTo(s, n)
            \/ \E plan \in Plans : \/ Filter(s, plan)
                                   \/ \E w \in Writes(s, plan) : runWrite(s, plan, w)
            \/ \E w \in Writes(s, FullScan) : autoWrite(s, w)
            \/ \E unique \in BOOLEAN : startCreateIndex(s, unique)
            \/ startDropIndex(s)
            \/ runBody(s)
            \/ runFlush(s)

RowsSpec == RowsInit /\ [][RowsNext]_rowVars

(***************************************************************************)
(* Properties.                                                             *)
(***************************************************************************)

(* The views a client can be shown or can commit: the committed one and    *)
(* those of transactions no commit has overtaken.                          *)
Views == {NoContext} \cup {tx[s] : s \in {t \in Writers : ~tx[t].stale}}

(* Every row with a value is found through the index, whatever CREATE      *)
(* INDEX, DROP INDEX and the other writers did while it was written; only  *)
(* an entry that a failed UPDATE of its transaction removed is missing.    *)
EntriesCoverRows ==
    schema.id # 0 => \A c \in Views : \A p \in PKs :
        LET e == <<schema.id, RowIn(c, p).v, p>>
        IN e[2] # Null => e \in EntriesIn(c) \cup lost \cup c.lost

(* No two rows share a value under a unique index, however their writers   *)
(* interleave, unless one has lost its entry to a failed UPDATE.           *)
UniqueHolds ==
    schema.unique => \A c \in Views : \A p, q \in PKs :
        LET v == RowIn(c, p).v
        IN p # q /\ v # Null /\ RowIn(c, q).v = v
               => {<<schema.id, v, p>>, <<schema.id, v, q>>} \cap (lost \cup c.lost) # {}

(* A full scan in a transaction yields exactly the rows of its view: its   *)
(* own uncommitted writes are found and those rolled back to a savepoint   *)
(* are not.                                                                *)
ScansSeeOwnWrites ==
    \A s \in Writers : tx[s].open =>
        filterFullScan(s) = {p \in PKs : Exists(RowIn(tx[s], p))}

(* Until another commit overtakes a transaction its reads can be repeated: *)
(* a row read by key or by a full scan is unchanged, unless a failed       *)
(* UPDATE of another transaction has removed it, and no row has come to    *)
(* match the predicate of an index scan that it did not match then.        *)
ReadsHold ==
    \A s \in Writers : tx[s].open /\ ~tx[s].stale =>
        \A o \in tx[s].seen : \A p \in PKs :
            /\ {p} \X (Vals \cup {Null}) \subseteq o.pred /\ p \notin silent => rows[p] = o.was[p]
            /\ Matches(rows[p], p, o.pred) => Matches(o.was[p], p, o.pred)

(* What the comment on Update promises without exception: the entries are  *)
(* kept in lock-step with the rows, so a unique index keeps values unique. *)
UniqueAlways ==
    schema.unique => \A p, q \in PKs : rows[p].v # Null /\ rows[p].v = rows[q].v => p = q

=============================================================================
