----------------------------- MODULE SqlCatalog -----------------------------
(***************************************************************************)
(* The schema registry of the SQL server (src/sql) and the copies of it    *)
(* that its sessions hold.  The replicated registry says which tables and  *)
(* views exist; every session owns a SQLite connection in which the same   *)
(* names are declared.  A DDL statement commits to the registry, changes   *)
(* the issuing session's connection, and only then bumps a server-wide     *)
(* epoch; another session compares the epoch with the one it last synced   *)
(* at when its next query starts, and re-declares what has drifted.  None  *)
(* of this is one step: commits, bumps and syncs of the sessions           *)
(* interleave, and another node of the cluster changes the registry        *)
(* without bumping anything here.                                          *)
(***************************************************************************)
EXTENDS Naturals, Sequences, FiniteSets

CONSTANTS Sessions,     \* connections of pg clients
          Issuers,      \* those whose clients issue DDL; the others only query
          Connected,    \* those that stay open; the others are opened and closed
          Names,        \* the names of tables and views
          Columns,      \* column names; a table's first column is its key
          Bodies,       \* view bodies, non-empty tuples
          MaxColumns,   \* bound: columns of a table
          Registered,   \* tables a restarted server finds in the registry
          MaxDDL        \* bound: DDL statements, remote ones included

VARIABLES tables,      \* L and s/<name>: name -> column names, None if absent
          views,       \* V and v/<name>: name -> body, None if absent
          epoch,       \* Server.schemaEpoch
          at,          \* session -> where its goroutine stands
          local,       \* session -> name -> what its SQLite connection declares
          sessEpoch,   \* session.schemaEpoch
          sync,        \* session -> the locals of its ensureFreshVTabs
          job,         \* session -> the DDL statement it runs
          pub,         \* history: name -> the epoch that publishes its last change
          budget       \* DDL statements the clients still issue

registry == <<tables, views, pub>>
vars == <<tables, views, epoch, at, local, sessEpoch, sync, job, pub, budget>>

None == <<>>

Undeclared == [kind |-> "none", def |-> None]
Table(cols) == [kind |-> "table", def |-> cols]
View(body)  == [kind |-> "view", def |-> body]

(* What a session that reads the registry declares under a name.           *)
Object(n) == IF tables[n] # None THEN Table(tables[n])
             ELSE IF views[n] # None THEN View(views[n])
             ELSE Undeclared

(* CREATE TABLE and RENAME TABLE look only at the table list, so a name    *)
(* can come to stand for a table and a view.                               *)
Clash(n) == tables[n] # None /\ views[n] # None

NoSync == [ep |-> 0, snap |-> [n \in Names |-> Undeclared],
           tbls |-> {}, vws |-> {}, todoT |-> {}, todoV |-> {}]
NoJob  == [op |-> "none", name |-> CHOOSE n \in Names : TRUE,
           to |-> CHOOSE n \in Names : TRUE, def |-> None]

Init == /\ tables = [n \in Names |-> IF n \in DOMAIN Registered THEN Registered[n] ELSE None]
        /\ views = [n \in Names |-> None]
        /\ epoch = 0
        /\ at = [s \in Sessions |-> IF s \in Connected THEN "idle" ELSE "closed"]
        /\ local = [s \in Sessions |-> [n \in Names |->
                        IF s \in Connected THEN Object(n) ELSE Undeclared]]
        /\ sessEpoch = [s \in Sessions |-> 0]
        /\ sync = [s \in Sessions |-> NoSync]
        /\ job = [s \in Sessions |-> NoJob]
        /\ pub = [n \in Names |-> 0]
        /\ budget = MaxDDL

Goto(s, p) == at' = [at EXCEPT ![s] = p]

(***************************************************************************)
(* Sessions open and close.                                                *)
(***************************************************************************)

(* newSession, replayTables: every registered table is declared on the     *)
(* fresh connection.  The names are read one by one; a change between two  *)
(* of the reads leaves the session behind, as one after them does.         *)
replayTables(s) ==
    /\ at[s] = "closed"
    /\ local' = [local EXCEPT ![s] =
           [n \in Names |-> IF tables[n] # None THEN Table(tables[n]) ELSE Undeclared]]
    /\ sessEpoch' = [sessEpoch EXCEPT ![s] = 0]
    /\ Goto(s, "replay")
    /\ UNCHANGED <<registry, epoch, sync, job, budget>>

(* A view whose name a table of the connection already has fails to        *)
(* register, and initSession refuses the connection.                       *)
replayViews(s) ==
    /\ at[s] = "replay"
    /\ IF \E n \in Names : views[n] # None /\ local[s][n].kind # "none"
       THEN /\ Goto(s, "closed")
            /\ local' = [local EXCEPT ![s] = [n \in Names |-> Undeclared]]
       ELSE /\ Goto(s, "idle")
            /\ local' = [local EXCEPT ![s] =
                   [n \in Names |-> IF views[n] # None THEN View(views[n]) ELSE @[n]]]
    /\ UNCHANGED <<registry, epoch, sessEpoch, sync, job, budget>>

closeSession(s) ==
    /\ s \notin Connected
    /\ at[s] = "idle"
    /\ Goto(s, "closed")
    /\ local' = [local EXCEPT ![s] = [n \in Names |-> Undeclared]]
    /\ UNCHANGED <<registry, epoch, sessEpoch, sync, job, budget>>

(***************************************************************************)
(* ensureFreshVTabs: the first thing a query does.                         *)
(***************************************************************************)

(* The epoch is loaded before anything else and is what the session will   *)
(* record at the end, whatever is bumped meanwhile.                        *)
loadEpoch(s) ==
    /\ at[s] = "idle"
    /\ sessEpoch[s] < epoch
    /\ sync' = [sync EXCEPT ![s] = [NoSync EXCEPT !.ep = epoch, !.snap = local[s]]]
    /\ Goto(s, "tables")
    /\ UNCHANGED <<registry, epoch, local, sessEpoch, job, budget>>

listTables(s) ==
    /\ at[s] = "tables"
    /\ LET found == {n \in Names : tables[n] # None}
       IN sync' = [sync EXCEPT ![s].tbls = found, ![s].todoT = found]
    /\ Goto(s, "views")
    /\ UNCHANGED <<registry, epoch, local, sessEpoch, job, budget>>

listViews(s) ==
    /\ at[s] = "views"
    /\ LET found == {n \in Names : views[n] # None}
       IN sync' = [sync EXCEPT ![s].vws = found, ![s].todoV = found]
    /\ Goto(s, "each")
    /\ UNCHANGED <<registry, epoch, local, sessEpoch, job, budget>>

(* A listed table: its live schema is declared where the snapshot of the   *)
(* connection has nothing, another kind, or other column names.  A table   *)
(* that has gone meanwhile is skipped.                                     *)
reconcileTable(s, n) ==
    /\ at[s] = "each"
    /\ n \in sync[s].todoT
    /\ sync' = [sync EXCEPT ![s].todoT = @ \ {n}]
    /\ local' = IF tables[n] # None /\ sync[s].snap[n] # Table(tables[n])
                THEN [local EXCEPT ![s][n] = Table(tables[n])]
                ELSE local
    /\ UNCHANGED <<registry, epoch, at, sessEpoch, job, budget>>

(* A listed view, after the tables.  Where the name is a table's too, the  *)
(* statements issued from the snapshot can fail on the connection, and     *)
(* the query with them; the epoch then stays behind.                       *)
viewFails(s, n) ==
    LET entry == sync[s].snap[n]
    IN IF entry.kind = "none" THEN local[s][n].kind # "none"
       ELSE entry # View(views[n]) /\ entry.kind # local[s][n].kind

reconcileView(s, n) ==
    /\ at[s] = "each"
    /\ sync[s].todoT = {}
    /\ n \in sync[s].todoV
    /\ IF views[n] # None /\ viewFails(s, n)
       THEN /\ Goto(s, "idle")
            /\ sync' = [sync EXCEPT ![s] = NoSync]
            /\ UNCHANGED local
       ELSE /\ UNCHANGED at
            /\ sync' = [sync EXCEPT ![s].todoV = @ \ {n}]
            /\ local' = IF views[n] # None /\ sync[s].snap[n] # View(views[n])
                        THEN [local EXCEPT ![s][n] = View(views[n])]
                        ELSE local
    /\ UNCHANGED <<registry, epoch, sessEpoch, job, budget>>

(* Faulty form: the session records the epoch of the end of the sync.      *)
dropVanishedLate(s) ==
    /\ at[s] = "each"
    /\ sync[s].todoT = {}
    /\ sync[s].todoV = {}
    /\ local' = [local EXCEPT ![s] = [n \in Names |->
           IF n \in sync[s].tbls \cup sync[s].vws THEN @[n] ELSE Undeclared]]
    /\ sessEpoch' = [sessEpoch EXCEPT ![s] = epoch]
    /\ sync' = [sync EXCEPT ![s] = NoSync]
    /\ Goto(s, "idle")
    /\ UNCHANGED <<registry, epoch, job, budget>>

(* Names the listings did not have are dropped from the connection, and    *)
(* the session is at the epoch loaded first.                               *)
dropVanished(s) ==
    /\ at[s] = "each"
    /\ sync[s].todoT = {}
    /\ sync[s].todoV = {}
    /\ local' = [local EXCEPT ![s] = [n \in Names |->
           IF n \in sync[s].tbls \cup sync[s].vws THEN @[n] ELSE Undeclared]]
    /\ sessEpoch' = [sessEpoch EXCEPT ![s] = sync[s].ep]
    /\ sync' = [sync EXCEPT ![s] = NoSync]
    /\ Goto(s, "idle")
    /\ UNCHANGED <<registry, epoch, job, budget>>

ensureFreshVTabs(s) ==
    \/ loadEpoch(s) \/ listTables(s) \/ listViews(s) \/ dropVanished(s)
    \/ \E n \in Names : reconcileTable(s, n) \/ reconcileView(s, n)

(***************************************************************************)
(* DDL.  A statement does not sync first.  It may read the registry before *)
(* its transaction (the preflight), commits through runRMW, which retries  *)
(* the body until its reads and writes are of one moment, then changes the *)
(* session's own connection, where it can still fail, and bumps the epoch  *)
(* last.                                                                   *)
(***************************************************************************)

(* The commit changes these names: each is published by the next bump.     *)
Publish(ns) == pub' = [n \in Names |-> IF n \in ns THEN epoch + 1 ELSE pub[n]]

Issue(s, j) ==
    /\ s \in Issuers
    /\ at[s] = "idle"
    /\ budget > 0
    /\ budget' = budget - 1
    /\ job' = [job EXCEPT ![s] = j]
    /\ Goto(s, "rmw")
    /\ UNCHANGED <<registry, epoch, local, sessEpoch, sync>>

(* A body that commits, with the names it changes.                         *)
Committed(s, ns) ==
    /\ Publish(ns)
    /\ Goto(s, "local")
    /\ UNCHANGED <<epoch, local, sessEpoch, sync, job, budget>>

(* A body that returns an error, or commits nothing.                       *)
Refused(s) ==
    /\ Goto(s, "idle")
    /\ job' = [job EXCEPT ![s] = NoJob]
    /\ UNCHANGED <<registry, epoch, local, sessEpoch, sync, budget>>

Running(s, op) == at[s] = "rmw" /\ job[s].op = op

(* The statement's change to the issuing connection: the names now         *)
(* declared, and whether every SQLite statement of it succeeded.           *)
Declared(s, decl, ok) ==
    /\ local' = [local EXCEPT ![s] = decl]
    /\ Goto(s, IF ok THEN "bump" ELSE "idle")
    /\ job' = [job EXCEPT ![s] = NoJob]
    /\ UNCHANGED <<registry, epoch, sessEpoch, sync, budget>>

Declaring(s, op) == at[s] = "local" /\ job[s].op = op

registerVTable(decl, n, cols) == [decl EXCEPT ![n] = Table(cols)]

bumpSchemaEpoch(s) ==
    /\ at[s] = "bump"
    /\ epoch' = epoch + 1
    /\ sessEpoch' = [sessEpoch EXCEPT ![s] = epoch + 1]
    /\ Goto(s, "idle")
    /\ UNCHANGED <<registry, local, sync, job, budget>>

(* CREATE TABLE: only the table list is looked at and pinned.              *)
handleCreateTable(s, n, cols) ==
    Issue(s, [op |-> "create table", name |-> n, to |-> n, def |-> cols])

createTableBody(s) ==
    /\ Running(s, "create table")
    /\ LET n == job[s].name
       IN IF tables[n] # None THEN Refused(s)
          ELSE /\ tables' = [tables EXCEPT ![n] = job[s].def]
               /\ UNCHANGED views
               /\ Committed(s, {n})

createTableLocal(s) ==
    /\ Declaring(s, "create table")
    /\ LET n == job[s].name
           ok == local[s][n].kind = "none"
       IN Declared(s, IF ok THEN registerVTable(local[s], n, job[s].def) ELSE local[s], ok)

(* DROP TABLE: the preflight needs the table; the body does not look       *)
(* whether it is still there.                                              *)
handleDropTable(s, n) ==
    /\ tables[n] # None
    /\ Issue(s, [op |-> "drop table", name |-> n, to |-> n, def |-> None])

dropTableBody(s) ==
    /\ Running(s, "drop table")
    /\ tables' = [tables EXCEPT ![job[s].name] = None]
    /\ UNCHANGED views
    /\ Committed(s, {job[s].name})

dropTableLocal(s) ==
    /\ Declaring(s, "drop table")
    /\ LET n == job[s].name
           ok == local[s][n].kind = "table"
       IN Declared(s, IF ok THEN [local[s] EXCEPT ![n] = Undeclared] ELSE local[s], ok)

(* ALTER TABLE ADD, DROP and RENAME COLUMN: what the body makes of the     *)
(* columns it reads; None where it refuses.                                *)
Has(cols, c) == \E i \in DOMAIN cols : cols[i] = c

addColumn(cols, c) ==
    IF Has(cols, c) \/ Len(cols) = MaxColumns THEN None ELSE Append(cols, c)

dropColumn(cols, c) ==
    IF ~Has(cols, c) \/ cols[1] = c THEN None
    ELSE SelectSeq(cols, LAMBDA x : x # c)

renameColumn(cols, c, d) ==
    IF ~Has(cols, c) \/ Has(cols, d) THEN None
    ELSE [i \in DOMAIN cols |-> IF cols[i] = c THEN d ELSE cols[i]]

Altered(cols, alter) ==
    CASE alter[1] = "add"    -> addColumn(cols, alter[2])
      [] alter[1] = "drop"   -> dropColumn(cols, alter[2])
      [] alter[1] = "rename" -> renameColumn(cols, alter[2], alter[3])

handleAlterTable(s, n, alter) ==
    Issue(s, [op |-> "alter", name |-> n, to |-> n, def |-> alter])

alterBody(s) ==
    /\ Running(s, "alter")
    /\ LET n    == job[s].name
           cols == IF tables[n] = None THEN None ELSE Altered(tables[n], job[s].def)
       IN IF cols = None THEN Refused(s)
          ELSE /\ tables' = [tables EXCEPT ![n] = cols]
               /\ UNCHANGED views
               /\ Committed(s, {n})

(* redeclareVTable: drop, load the live schema, register it.               *)
redeclareVTable(s) ==
    /\ Declaring(s, "alter")
    /\ LET n == job[s].name
       IN IF local[s][n].kind # "table" THEN Declared(s, local[s], FALSE)
          ELSE IF tables[n] = None THEN Declared(s, [local[s] EXCEPT ![n] = Undeclared], FALSE)
          ELSE Declared(s, registerVTable(local[s], n, tables[n]), TRUE)

(* ALTER TABLE RENAME TO: like CREATE TABLE, blind to the views.           *)
handleAlterRenameTable(s, n, m) ==
    /\ n # m
    /\ Issue(s, [op |-> "rename table", name |-> n, to |-> m, def |-> None])

renameTableBody(s) ==
    /\ Running(s, "rename table")
    /\ LET n == job[s].name
           m == job[s].to
       IN IF tables[m] # None \/ tables[n] = None THEN Refused(s)
          ELSE /\ tables' = [tables EXCEPT ![n] = None, ![m] = tables[n]]
               /\ UNCHANGED views
               /\ Committed(s, {n, m})

renameTableLocal(s) ==
    /\ Declaring(s, "rename table")
    /\ LET n    == job[s].name
           m    == job[s].to
           gone == [local[s] EXCEPT ![n] = Undeclared]
       IN IF local[s][n].kind # "table" THEN Declared(s, local[s], FALSE)
          ELSE IF tables[m] = None \/ gone[m].kind # "none" THEN Declared(s, gone, FALSE)
          ELSE Declared(s, registerVTable(gone, m, tables[m]), TRUE)

(* CREATE INDEX writes back the table schema that the preflight read, with *)
(* the index added: a change of the columns, or a drop, committed between  *)
(* the two is undone.                                                      *)
handleCreateIndex(s, n) ==
    /\ tables[n] # None
    /\ Issue(s, [op |-> "create index", name |-> n, to |-> n, def |-> tables[n]])

createIndexBody(s) ==
    /\ Running(s, "create index")
    /\ tables' = [tables EXCEPT ![job[s].name] = job[s].def]
    /\ UNCHANGED views
    /\ Committed(s, {job[s].name})

(* DROP INDEX re-reads the parent's schema and writes it back.             *)
handleDropIndex(s, n) ==
    /\ tables[n] # None
    /\ Issue(s, [op |-> "drop index", name |-> n, to |-> n, def |-> None])

dropIndexBody(s) ==
    /\ Running(s, "drop index")
    /\ IF tables[job[s].name] = None THEN Refused(s)
       ELSE UNCHANGED <<tables, views>> /\ Committed(s, {job[s].name})

(* Indexes are not declared on the connection.                             *)
indexLocal(s) ==
    /\ Declaring(s, "create index") \/ Declaring(s, "drop index")
    /\ Declared(s, local[s], TRUE)

(* CREATE VIEW looks at both lists, before and in its transaction.         *)
handleCreateView(s, n, body) ==
    /\ ~(views[n] # None \/ tables[n] # None)
    /\ Issue(s, [op |-> "create view", name |-> n, to |-> n, def |-> body])

createViewBody(s) ==
    /\ Running(s, "create view")
    /\ LET n == job[s].name
       IN IF views[n] # None \/ tables[n] # None THEN Refused(s)
          ELSE /\ views' = [views EXCEPT ![n] = job[s].def]
               /\ UNCHANGED tables
               /\ Committed(s, {n})

createViewLocal(s) ==
    /\ Declaring(s, "create view")
    /\ LET n == job[s].name
           ok == local[s][n].kind = "none"
       IN Declared(s, IF ok THEN [local[s] EXCEPT ![n] = View(job[s].def)] ELSE local[s], ok)

handleDropView(s, n) ==
    /\ views[n] # None
    /\ Issue(s, [op |-> "drop view", name |-> n, to |-> n, def |-> None])

dropViewBody(s) ==
    /\ Running(s, "drop view")
    /\ views' = [views EXCEPT ![job[s].name] = None]
    /\ UNCHANGED tables
    /\ Committed(s, {job[s].name})

dropViewLocal(s) ==
    /\ Declaring(s, "drop view")
    /\ LET n == job[s].name
           ok == local[s][n].kind = "view"
       IN Declared(s, IF ok THEN [local[s] EXCEPT ![n] = Undeclared] ELSE local[s], ok)

Alters == ({"add", "drop"} \X Columns) \cup ({"rename"} \X Columns \X Columns)

maybeInterceptDDL(s) == \E n \in Names :
    \/ \E c \in Columns : handleCreateTable(s, n, <<c>>)
    \/ handleDropTable(s, n)
    \/ \E alter \in Alters : handleAlterTable(s, n, alter)
    \/ \E m \in Names : handleAlterRenameTable(s, n, m)
    \/ handleCreateIndex(s, n)
    \/ handleDropIndex(s, n)
    \/ \E body \in Bodies : handleCreateView(s, n, body)
    \/ handleDropView(s, n)

runRMW(s) ==
    \/ createTableBody(s) \/ dropTableBody(s) \/ alterBody(s) \/ renameTableBody(s)
    \/ createIndexBody(s) \/ dropIndexBody(s) \/ createViewBody(s) \/ dropViewBody(s)

applyLocal(s) ==
    \/ createTableLocal(s) \/ dropTableLocal(s) \/ redeclareVTable(s) \/ renameTableLocal(s)
    \/ indexLocal(s) \/ createViewLocal(s) \/ dropViewLocal(s)

(* A DDL statement of another node reaches the registry by replication;    *)
(* that node bumps an epoch of its own.                                    *)
remoteDDL(n) ==
    /\ budget > 0
    /\ budget' = budget - 1
    /\ \/ /\ \E cols \in {None} \cup {<<c>> : c \in Columns} :
                 tables' = [tables EXCEPT ![n] = cols]
          /\ UNCHANGED views
       \/ /\ \E body \in {None} \cup Bodies : views' = [views EXCEPT ![n] = body]
          /\ UNCHANGED tables
    /\ Publish({n})
    /\ UNCHANGED <<epoch, at, local, sessEpoch, sync, job>>

Session(s) == \/ replayTables(s) \/ replayViews(s) \/ closeSession(s)
              \/ ensureFreshVTabs(s)
              \/ maybeInterceptDDL(s) \/ runRMW(s) \/ applyLocal(s) \/ bumpSchemaEpoch(s)

Next == (\E s \in Sessions : Session(s)) \/ (\E n \in Names : remoteDDL(n))

Spec == Init /\ [][Next]_vars

(***************************************************************************)
(* Properties.                                                             *)
(***************************************************************************)

Open(s) == at[s] \notin {"closed", "replay"}

(* A session that only queries and has reached the epoch that published a  *)
(* name's last change declares the name as the registry has it, whatever   *)
(* DDL commits, bumps and other syncs ran while it read the registry name  *)
(* by name (ensureFreshVTabs); names that are a table and a view at once   *)
(* excepted.                                                               *)
ReadersFresh == \A s \in Sessions \ Issuers : Open(s) =>
    \A n \in Names : pub[n] <= sessEpoch[s] /\ ~Clash(n) => local[s][n] = Object(n)

=============================================================================
