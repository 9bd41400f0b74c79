-------------------------- MODULE SqlCatalog_proofs --------------------------
(***************************************************************************)
(* ReadersFresh, proved for every number of sessions, names and DDL        *)
(* statements.  The argument is about the moment a session loads the       *)
(* epoch: a change that this epoch publishes was committed before the      *)
(* load, so all the reads of the sync that follow see it; a change         *)
(* committed later is published by a later epoch, and the session does not *)
(* claim to have it.                                                       *)
(***************************************************************************)
EXTENDS TLAPS, SqlCatalog

SyncFields == {"ep", "snap", "tbls", "vws", "todoT", "todoV"}

(* The shapes the steps below rely on.                                     *)
Shapes == /\ epoch \in Nat
          /\ pub \in [Names -> Nat]
          /\ DOMAIN tables = Names
          /\ DOMAIN views = Names
          /\ DOMAIN at = Sessions
          /\ DOMAIN local = Sessions
          /\ DOMAIN sessEpoch = Sessions
          /\ DOMAIN sync = Sessions
          /\ \A s \in Sessions : /\ sessEpoch[s] \in Nat
                                 /\ DOMAIN local[s] = Names
                                 /\ DOMAIN sync[s] = SyncFields
                                 /\ sync[s].ep \in Nat

(* A session that only queries is never inside a DDL statement.            *)
Queries(s) == at[s] \in {"closed", "replay", "idle", "tables", "views", "each"}

Fresh(s) == Open(s) =>
    \A n \in Names : pub[n] <= sessEpoch[s] /\ ~Clash(n) => local[s][n] = Object(n)

(* Between the replay of the tables and that of the views.                 *)
Replaying(s) == at[s] = "replay" =>
    /\ sessEpoch[s] = 0
    /\ \A n \in Names : pub[n] <= 0 =>
           local[s][n] = IF tables[n] # None THEN Table(tables[n]) ELSE Undeclared

(* The listings of a sync are right about the names its epoch publishes.   *)
TablesListed(s) == \A n \in Names :
    pub[n] <= sync[s].ep => (n \in sync[s].tbls <=> tables[n] # None)
ViewsListed(s) == \A n \in Names :
    pub[n] <= sync[s].ep => (n \in sync[s].vws <=> views[n] # None)

(* A name still to be reconciled, or in neither listing, is as it was when *)
(* the sync began; one that is done is as the registry has it.             *)
Waiting(s, n) == \/ n \in sync[s].todoT \/ n \in sync[s].todoV
                 \/ (n \notin sync[s].tbls /\ n \notin sync[s].vws)

Reconciled(s) == \A n \in Names : pub[n] <= sync[s].ep /\ ~Clash(n) =>
    local[s][n] = IF Waiting(s, n) THEN sync[s].snap[n] ELSE Object(n)

Syncing(s) == at[s] \in {"tables", "views", "each"} =>
    /\ sessEpoch[s] <= sync[s].ep
    /\ sync[s].ep <= epoch
    /\ at[s] = "tables" => local[s] = sync[s].snap
    /\ at[s] = "views" => /\ local[s] = sync[s].snap
                          /\ sync[s].todoT = sync[s].tbls
                          /\ TablesListed(s)
    /\ at[s] = "each" => /\ sync[s].todoT \subseteq sync[s].tbls
                         /\ sync[s].todoV \subseteq sync[s].vws
                         /\ TablesListed(s)
                         /\ ViewsListed(s)
                         /\ Reconciled(s)

Reader(s) == /\ Queries(s)
             /\ sessEpoch[s] <= epoch
             /\ Fresh(s)
             /\ Replaying(s)
             /\ Syncing(s)

(* The inductive invariant.                                                *)
FreshInv == Shapes /\ \A s \in Sessions \ Issuers : Reader(s)

(* What a step may do to the registry: a name changes only if it will be   *)
(* published by an epoch that nobody has reached.                          *)
RegistryStep == \A n \in Names :
    \/ pub'[n] = epoch + 1
    \/ pub'[n] = pub[n] /\ tables'[n] = tables[n] /\ views'[n] = views[n]

SameReader(s) == /\ at'[s] = at[s] /\ local'[s] = local[s]
                 /\ sessEpoch'[s] = sessEpoch[s] /\ sync'[s] = sync[s]

(* A session that a step leaves alone keeps its part of the invariant,     *)
(* whatever the step commits or bumps.                                     *)
LEMMA OthersKeep ==
    ASSUME Shapes, NEW s \in Sessions, Reader(s),
           RegistryStep, SameReader(s), epoch' \in Nat, epoch' >= epoch,
           pub' \in [Names -> Nat]
    PROVE  Reader(s)'
<1>a. \A n \in Names : pub'[n] <= epoch => /\ pub'[n] = pub[n] /\ tables'[n] = tables[n]
                                           /\ views'[n] = views[n]
  BY DEF RegistryStep, Shapes
<1>o. \A n \in Names : pub'[n] <= epoch => (Clash(n)' <=> Clash(n)) /\ Object(n)' = Object(n)
  BY <1>a, Zenon DEF Clash, Object
<1>e. sessEpoch[s] \in Nat /\ sync[s].ep \in Nat /\ epoch \in Nat
      /\ \A n \in Names : pub'[n] \in Nat /\ pub[n] \in Nat
  BY Zenon DEF Shapes
<1>1. Queries(s)'
  BY Zenon DEF SameReader, Reader, Queries
<1>2. (sessEpoch[s] <= epoch)'
  BY <1>e DEF SameReader, Reader
<1>3. Fresh(s)'
  <2> SUFFICES ASSUME Open(s)', NEW n \in Names, pub'[n] <= sessEpoch'[s], ~Clash(n)'
               PROVE  local'[s][n] = Object(n)'
    BY Zenon DEF Fresh
  <2>1. pub'[n] <= epoch
    BY <1>e DEF SameReader, Reader
  <2>2. Open(s)
    BY Zenon DEF Open, SameReader
  <2> QED BY <1>a, <1>o, <2>1, <2>2, Zenon DEF Reader, Fresh, SameReader
<1>4. Replaying(s)'
  <2> SUFFICES ASSUME at'[s] = "replay"
               PROVE  /\ sessEpoch'[s] = 0
                      /\ \A n \in Names : pub'[n] <= 0 =>
                             local'[s][n] = IF tables'[n] # None THEN Table(tables'[n])
                                            ELSE Undeclared
    BY Zenon DEF Replaying, Table, Undeclared
  <2>1. \A n \in Names : pub'[n] <= 0 => pub'[n] <= epoch
    BY <1>e
  <2> QED BY <1>a, <2>1, Zenon DEF Reader, Replaying, SameReader
<1>5. Syncing(s)'
  <2> SUFFICES ASSUME at'[s] \in {"tables", "views", "each"}
               PROVE  /\ sessEpoch'[s] <= sync'[s].ep
                      /\ sync'[s].ep <= epoch'
                      /\ at'[s] = "tables" => local'[s] = sync'[s].snap
                      /\ at'[s] = "views" => /\ local'[s] = sync'[s].snap
                                             /\ sync'[s].todoT = sync'[s].tbls
                                             /\ TablesListed(s)'
                      /\ at'[s] = "each" => /\ sync'[s].todoT \subseteq sync'[s].tbls
                                            /\ sync'[s].todoV \subseteq sync'[s].vws
                                            /\ TablesListed(s)'
                                            /\ ViewsListed(s)'
                                            /\ Reconciled(s)'
    BY Zenon DEF Syncing
  <2>0. Syncing(s) /\ at[s] \in {"tables", "views", "each"} /\ sync[s].ep <= epoch
    BY Zenon DEF Reader, Syncing, SameReader
  <2>1. \A n \in Names : pub'[n] <= sync[s].ep => pub'[n] <= epoch
    BY <1>e, <2>0
  <2>2. sync'[s] = sync[s] /\ at'[s] = at[s] /\ local'[s] = local[s]
        /\ sessEpoch'[s] = sessEpoch[s]
    BY Zenon DEF SameReader
  <2>3. TablesListed(s) => TablesListed(s)'
    BY <1>a, <2>1, <2>2, Zenon DEF TablesListed
  <2>4. ViewsListed(s) => ViewsListed(s)'
    BY <1>a, <2>1, <2>2, Zenon DEF ViewsListed
  <2>5. Reconciled(s) => Reconciled(s)'
    BY <1>a, <1>o, <2>1, <2>2, Zenon DEF Reconciled, Waiting
  <2>6. sync'[s].ep <= epoch'
    BY <1>e, <2>0, <2>2
  <2> QED BY <2>0, <2>2, <2>3, <2>4, <2>5, <2>6, Zenon DEF Syncing
<1> QED BY <1>1, <1>2, <1>3, <1>4, <1>5, Zenon DEF Reader

(* The sync of a session that only queries keeps its part.                 *)
LEMMA SyncKeeps ==
    ASSUME Shapes, NEW s \in Sessions, Reader(s), ensureFreshVTabs(s)
    PROVE  Reader(s)'
<1>0. /\ tables' = tables /\ views' = views /\ pub' = pub /\ epoch' = epoch
      /\ \A n \in Names : (Clash(n)' <=> Clash(n)) /\ Object(n)' = Object(n)
      /\ \A n \in Names : pub[n] \in Nat
      /\ epoch \in Nat /\ sessEpoch[s] \in Nat /\ sync[s].ep \in Nat
  BY Zenon
  DEF Shapes, ensureFreshVTabs, loadEpoch, listTables, listViews, dropVanished,
      reconcileTable, reconcileView, registry, Clash, Object
<1>1. CASE loadEpoch(s)
  <2>1. /\ at[s] = "idle" /\ at'[s] = "tables" /\ local' = local /\ sessEpoch' = sessEpoch
        /\ sync'[s].ep = epoch /\ sync'[s].snap = local[s] /\ sessEpoch[s] < epoch
    BY <1>1, Zenon DEF loadEpoch, Shapes, Goto, NoSync, SyncFields
  <2>2. Fresh(s)'
    BY <1>0, <2>1, Zenon DEF Reader, Fresh, Open
  <2> QED BY <1>0, <2>1, <2>2 DEF Reader, Queries, Replaying, Syncing
<1>2. CASE listTables(s)
  <2>1. /\ at[s] = "tables" /\ at'[s] = "views" /\ local' = local /\ sessEpoch' = sessEpoch
        /\ sync'[s].ep = sync[s].ep /\ sync'[s].snap = sync[s].snap
        /\ sync'[s].tbls = {n \in Names : tables[n] # None}
        /\ sync'[s].todoT = {n \in Names : tables[n] # None}
    BY <1>2, Zenon DEF listTables, Shapes, Goto, SyncFields
  <2>2. Fresh(s)'
    BY <1>0, <2>1, Zenon DEF Reader, Fresh, Open
  <2>3. TablesListed(s)'
    BY <1>0, <2>1, Zenon DEF TablesListed
  <2> QED BY <1>0, <2>1, <2>2, <2>3, Zenon DEF Reader, Queries, Replaying, Syncing
<1>3. CASE listViews(s)
  <2>1. /\ at[s] = "views" /\ at'[s] = "each" /\ local' = local /\ sessEpoch' = sessEpoch
        /\ sync'[s].ep = sync[s].ep /\ sync'[s].snap = sync[s].snap
        /\ sync'[s].tbls = sync[s].tbls /\ sync'[s].todoT = sync[s].todoT
        /\ sync'[s].vws = {n \in Names : views[n] # None}
        /\ sync'[s].todoV = {n \in Names : views[n] # None}
    BY <1>3, Zenon DEF listViews, Shapes, Goto, SyncFields
  <2>2. Fresh(s)'
    BY <1>0, <2>1, Zenon DEF Reader, Fresh, Open
  <2>3. TablesListed(s)' /\ ViewsListed(s)'
    BY <1>0, <2>1, Zenon DEF Reader, Syncing, TablesListed, ViewsListed
  <2>4. Reconciled(s)'
    <3>1. local[s] = sync[s].snap /\ sync[s].todoT = sync[s].tbls
      BY <2>1, Zenon DEF Reader, Syncing
    <3>2. \A n \in Names : Waiting(s, n)'
      BY <2>1, <3>1, Zenon DEF Waiting
    <3> QED BY <2>1, <3>1, <3>2, Zenon DEF Reconciled
  <2>5. sync[s].todoT = sync[s].tbls
    BY <2>1, Zenon DEF Reader, Syncing
  <2> QED BY <1>0, <2>1, <2>2, <2>3, <2>4, <2>5, Zenon DEF Reader, Queries, Replaying,
     Syncing
<1>4. ASSUME NEW m \in Names, reconcileTable(s, m) PROVE Reader(s)'
  <2>1. /\ at[s] = "each" /\ at' = at /\ sessEpoch' = sessEpoch
        /\ sync'[s].ep = sync[s].ep /\ sync'[s].snap = sync[s].snap
        /\ sync'[s].tbls = sync[s].tbls /\ sync'[s].vws = sync[s].vws
        /\ sync'[s].todoT = sync[s].todoT \ {m} /\ sync'[s].todoV = sync[s].todoV
        /\ m \in sync[s].todoT
    BY <1>4, Zenon DEF reconcileTable, Shapes, SyncFields
  <2>2. \A n \in Names : n # m => local'[s][n] = local[s][n]
    BY <1>4, Zenon DEF reconcileTable, Shapes
  <2>3. local'[s][m] = IF tables[m] # None /\ sync[s].snap[m] # Table(tables[m])
                       THEN Table(tables[m]) ELSE local[s][m]
    BY <1>4, Zenon DEF reconcileTable, Shapes, Table
  <2>4. /\ TablesListed(s) /\ ViewsListed(s) /\ Reconciled(s) /\ Fresh(s)
        /\ sessEpoch[s] <= sync[s].ep /\ sync[s].ep <= epoch
        /\ sync[s].todoT \subseteq sync[s].tbls /\ sync[s].todoV \subseteq sync[s].vws
    BY <2>1, Zenon DEF Reader, Syncing
  <2>5. TablesListed(s)' /\ ViewsListed(s)'
    BY <1>0, <2>1, <2>4, Zenon DEF TablesListed, ViewsListed
  <2>6. ASSUME pub[m] <= sync[s].ep, ~Clash(m)
        PROVE  local'[s][m] = Object(m) /\ ~Waiting(s, m)'
    <3>1. tables[m] # None /\ views[m] = None /\ Object(m) = Table(tables[m])
      BY <2>1, <2>4, <2>6, Zenon DEF TablesListed, Clash, Object
    <3>2. m \notin sync[s].vws /\ m \in sync[s].tbls
      BY <2>1, <2>4, <2>6, <3>1, Zenon DEF ViewsListed
    <3>3. local[s][m] = sync[s].snap[m]
      BY <2>1, <2>4, <2>6, Zenon DEF Reconciled, Waiting
    <3>4. local'[s][m] = Object(m)
      BY <2>3, <3>1, <3>3, Zenon
    <3>5. ~Waiting(s, m)'
      BY <2>1, <2>4, <3>2, Zenon DEF Waiting
    <3> QED BY <3>4, <3>5, Zenon
  <2>7. Reconciled(s)'
    <3> SUFFICES ASSUME NEW n \in Names, pub[n] <= sync[s].ep, ~Clash(n)
                 PROVE  local'[s][n] = IF Waiting(s, n)' THEN sync[s].snap[n] ELSE Object(n)
      BY <1>0, <2>1, Zenon DEF Reconciled
    <3>1. CASE n = m
      BY <2>6, <3>1, Zenon
    <3>2. CASE n # m
      <4>1. Waiting(s, n)' <=> Waiting(s, n)
        BY <2>1, <3>2, Zenon DEF Waiting
      <4> QED BY <2>2, <2>4, <3>2, <4>1, Zenon DEF Reconciled
    <3> QED BY <3>1, <3>2, Zenon
  <2>8. Fresh(s)'
    <3> SUFFICES ASSUME NEW n \in Names, pub[n] <= sessEpoch[s], ~Clash(n)
                 PROVE  local'[s][n] = Object(n)
      BY <1>0, <2>1, Zenon DEF Fresh
    <3>1. pub[n] <= sync[s].ep
      BY <1>0, <2>4
    <3>2. CASE n = m
      BY <2>6, <3>1, <3>2, Zenon
    <3>3. CASE n # m
      BY <2>1, <2>2, <2>4, <3>3, Zenon DEF Fresh, Open
    <3> QED BY <3>2, <3>3, Zenon
  <2>9. sync'[s].todoT \subseteq sync'[s].tbls /\ sync'[s].todoV \subseteq sync'[s].vws
    BY <2>1, <2>4, Zenon
  <2> QED BY <1>0, <2>1, <2>4, <2>5, <2>7, <2>8, <2>9, Zenon DEF Reader, Queries,
     Replaying, Syncing
<1>5. ASSUME NEW m \in Names, reconcileView(s, m) PROVE Reader(s)'
  <2>0. /\ at[s] = "each" /\ sessEpoch' = sessEpoch
        /\ TablesListed(s) /\ ViewsListed(s) /\ Reconciled(s) /\ Fresh(s)
        /\ sessEpoch[s] <= sync[s].ep /\ sync[s].ep <= epoch
        /\ sync[s].todoT \subseteq sync[s].tbls /\ sync[s].todoV \subseteq sync[s].vws
        /\ sync[s].todoT = {} /\ m \in sync[s].todoV
    BY <1>5, Zenon DEF reconcileView, Reader, Syncing
  <2>a. CASE views[m] # None /\ viewFails(s, m)
    <3>1. at'[s] = "idle" /\ local' = local
      BY <1>5, <2>a, Zenon DEF reconcileView, Goto, Shapes
    <3>2. Fresh(s)'
      BY <1>0, <2>0, <3>1, Zenon DEF Fresh, Open
    <3> QED BY <1>0, <2>0, <3>1, <3>2, Zenon DEF Reader, Queries, Replaying, Syncing
  <2>b. CASE ~(views[m] # None /\ viewFails(s, m))
    <3>1. /\ at' = at
          /\ sync' = [sync EXCEPT ![s].todoV = @ \ {m}]
          /\ local' = IF views[m] # None /\ sync[s].snap[m] # View(views[m])
                      THEN [local EXCEPT ![s][m] = View(views[m])]
                      ELSE local
      BY <1>5, <2>b, Zenon DEF reconcileView
    <3>2. /\ sync'[s].ep = sync[s].ep /\ sync'[s].snap = sync[s].snap
          /\ sync'[s].tbls = sync[s].tbls /\ sync'[s].vws = sync[s].vws
          /\ sync'[s].todoV = sync[s].todoV \ {m} /\ sync'[s].todoT = sync[s].todoT
      BY <3>1, Zenon DEF Shapes, SyncFields
    <3>3. \A n \in Names : n # m => local'[s][n] = local[s][n]
      BY <3>1, Zenon DEF Shapes
    <3>4. local'[s][m] = IF views[m] # None /\ sync[s].snap[m] # View(views[m])
                         THEN View(views[m]) ELSE local[s][m]
      BY <3>1, Zenon DEF Shapes, View
    <3>5. TablesListed(s)' /\ ViewsListed(s)'
      BY <1>0, <2>0, <3>2, Zenon DEF TablesListed, ViewsListed
    <3>6. ASSUME pub[m] <= sync[s].ep, ~Clash(m)
          PROVE  local'[s][m] = Object(m) /\ ~Waiting(s, m)'
      <4>1. views[m] # None /\ tables[m] = None /\ Object(m) = View(views[m])
        BY <2>0, <3>6, Zenon DEF ViewsListed, Clash, Object
      <4>2. local[s][m] = sync[s].snap[m]
        BY <2>0, <3>6, Zenon DEF Reconciled, Waiting
      <4>3. local'[s][m] = Object(m)
        BY <3>4, <4>1, <4>2, Zenon
      <4>4. ~Waiting(s, m)'
        BY <2>0, <3>2, Zenon DEF Waiting
      <4> QED BY <4>3, <4>4, Zenon
    <3>7. Reconciled(s)'
      <4> SUFFICES ASSUME NEW n \in Names, pub[n] <= sync[s].ep, ~Clash(n)
                   PROVE  local'[s][n] = IF Waiting(s, n)' THEN sync[s].snap[n] ELSE Object(n)
        BY <1>0, <3>2, Zenon DEF Reconciled
      <4>1. CASE n = m
        BY <3>6, <4>1, Zenon
      <4>2. CASE n # m
        <5>1. Waiting(s, n)' <=> Waiting(s, n)
          BY <3>2, <4>2, Zenon DEF Waiting
        <5> QED BY <2>0, <3>3, <4>2, <5>1, Zenon DEF Reconciled
      <4> QED BY <4>1, <4>2, Zenon
    <3>8. Fresh(s)'
      <4> SUFFICES ASSUME NEW n \in Names, pub[n] <= sessEpoch[s], ~Clash(n)
                   PROVE  local'[s][n] = Object(n)
        BY <1>0, <2>0, <3>1, Zenon DEF Fresh
      <4>1. pub[n] <= sync[s].ep
        BY <1>0, <2>0
      <4>2. CASE n = m
        BY <3>6, <4>1, <4>2, Zenon
      <4>3. CASE n # m
        BY <2>0, <3>3, <4>3, Zenon DEF Fresh, Open
      <4> QED BY <4>2, <4>3, Zenon
    <3>9. sync'[s].todoT \subseteq sync'[s].tbls /\ sync'[s].todoV \subseteq sync'[s].vws
      BY <2>0, <3>2, Zenon
    <3> QED BY <1>0, <2>0, <3>1, <3>2, <3>5, <3>7, <3>8, <3>9, Zenon DEF Reader, Queries,
       Replaying, Syncing
  <2> QED BY <2>a, <2>b, Zenon
<1>6. CASE dropVanished(s)
  <2>0. /\ at[s] = "each" /\ at'[s] = "idle" /\ sync[s].todoT = {} /\ sync[s].todoV = {}
        /\ TablesListed(s) /\ ViewsListed(s) /\ Reconciled(s)
        /\ sync[s].ep <= epoch /\ sessEpoch'[s] = sync[s].ep
    BY <1>6, Zenon DEF dropVanished, Reader, Syncing, Goto, Shapes
  <2>1. \A n \in Names : local'[s][n] =
            IF n \in sync[s].tbls \cup sync[s].vws THEN local[s][n] ELSE Undeclared
    BY <1>6, Zenon DEF dropVanished, Shapes, Undeclared
  <2>2. Fresh(s)'
    <3> SUFFICES ASSUME NEW n \in Names, pub[n] <= sync[s].ep, ~Clash(n)
                 PROVE  local'[s][n] = Object(n)
      BY <1>0, <2>0, Zenon DEF Fresh
    <3>1. CASE n \in sync[s].tbls \cup sync[s].vws
      <4>1. ~Waiting(s, n)
        BY <2>0, <3>1, Zenon DEF Waiting
      <4> QED BY <2>0, <2>1, <3>1, <4>1, Zenon DEF Reconciled
    <3>2. CASE n \notin sync[s].tbls \cup sync[s].vws
      <4>1. tables[n] = None /\ views[n] = None
        BY <2>0, <3>2, Zenon DEF TablesListed, ViewsListed
      <4> QED BY <2>1, <3>2, <4>1, Zenon DEF Object
    <3> QED BY <3>1, <3>2, Zenon
  <2> QED BY <1>0, <2>0, <2>2, Zenon DEF Reader, Queries, Replaying, Syncing
<1> QED BY <1>1, <1>2, <1>3, <1>4, <1>5, <1>6, Zenon DEF ensureFreshVTabs

(* So does opening or closing it.                                          *)
LEMMA OpenKeeps ==
    ASSUME Shapes, NEW s \in Sessions, Reader(s),
           replayTables(s) \/ replayViews(s) \/ closeSession(s)
    PROVE  Reader(s)'
<1>0. /\ tables' = tables /\ views' = views /\ pub' = pub /\ epoch' = epoch
      /\ \A n \in Names : (Clash(n)' <=> Clash(n)) /\ Object(n)' = Object(n)
      /\ \A n \in Names : pub[n] \in Nat
      /\ epoch \in Nat /\ sessEpoch[s] \in Nat
  BY Zenon DEF Shapes, replayTables, replayViews, closeSession, registry, Clash, Object
<1>1. CASE replayTables(s)
  <2>1. at'[s] = "replay" /\ sessEpoch'[s] = 0
    BY <1>1, Zenon DEF replayTables, Goto, Shapes
  <2>2. \A n \in Names :
            local'[s][n] = IF tables[n] # None THEN Table(tables[n]) ELSE Undeclared
    BY <1>1, Zenon DEF replayTables, Shapes, Table, Undeclared
  <2>3. Replaying(s)'
    BY <1>0, <2>1, <2>2, Zenon DEF Replaying
  <2>4. Queries(s)' /\ Fresh(s)' /\ Syncing(s)'
    BY <2>1, Zenon DEF Queries, Fresh, Open, Syncing
  <2>5. (sessEpoch[s] <= epoch)'
    BY <1>0, <2>1
  <2> QED BY <2>3, <2>4, <2>5, Zenon DEF Reader
<1>2. CASE replayViews(s)
  <2>0. at[s] = "replay" /\ sessEpoch' = sessEpoch /\ Replaying(s) /\ sessEpoch[s] = 0
    BY <1>2, Zenon DEF replayViews, Reader, Replaying
  <2>1. CASE \E n \in Names : views[n] # None /\ local[s][n].kind # "none"
    <3>1. at'[s] = "closed"
      BY <1>2, <2>1, Zenon DEF replayViews, Goto, Shapes
    <3> QED BY <1>0, <2>0, <3>1, Zenon DEF Reader, Queries, Fresh, Open, Replaying, Syncing
  <2>2. CASE ~\E n \in Names : views[n] # None /\ local[s][n].kind # "none"
    <3>1. at'[s] = "idle"
      BY <1>2, <2>2, Zenon DEF replayViews, Goto, Shapes
    <3>2. \A n \in Names :
              local'[s][n] = IF views[n] # None THEN View(views[n]) ELSE local[s][n]
      <4>1. local' = [local EXCEPT ![s] =
                         [n \in Names |-> IF views[n] # None THEN View(views[n]) ELSE @[n]]]
        BY <1>2, <2>2, Zenon DEF replayViews
      <4>2. s \in DOMAIN local
        BY Zenon DEF Shapes
      <4>3. local'[s] = [n \in Names |-> IF views[n] # None THEN View(views[n]) ELSE local[s][n]]
        BY <4>1, <4>2, Zenon
      <4> QED BY <4>3, Zenon
    <3>3. Fresh(s)'
      <4> SUFFICES ASSUME NEW n \in Names, pub[n] <= 0, ~Clash(n)
                   PROVE  local'[s][n] = Object(n)
        BY <1>0, <2>0, Zenon DEF Fresh
      <4>1. local[s][n] = IF tables[n] # None THEN Table(tables[n]) ELSE Undeclared
        BY <2>0, Zenon DEF Replaying
      <4> QED BY <3>2, <4>1, Zenon DEF Object, Clash
    <3> QED BY <1>0, <2>0, <3>1, <3>3, Zenon DEF Reader, Queries, Replaying, Syncing
  <2> QED BY <2>1, <2>2, Zenon
<1>3. CASE closeSession(s)
  <2>1. at'[s] = "closed" /\ sessEpoch' = sessEpoch
    BY <1>3, Zenon DEF closeSession, Goto, Shapes
  <2> QED BY <1>0, <2>1, Zenon DEF Reader, Queries, Fresh, Open, Replaying, Syncing
<1> QED BY <1>1, <1>2, <1>3, Zenon

(* The transaction of a DDL statement: what it may do to the registry, and *)
(* that it touches no session but its own.                                 *)
LEMMA BodyEffect ==
    ASSUME Shapes, NEW s \in Sessions, runRMW(s)
    PROVE  /\ at[s] = "rmw"
           /\ RegistryStep /\ pub' \in [Names -> Nat]
           /\ DOMAIN tables' = Names /\ DOMAIN views' = Names
           /\ \E p \in {"local", "idle"} : at' = [at EXCEPT ![s] = p]
           /\ UNCHANGED <<epoch, local, sessEpoch, sync>>
<1>r. ASSUME Refused(s)
      PROVE  /\ RegistryStep /\ pub' \in [Names -> Nat]
             /\ DOMAIN tables' = Names /\ DOMAIN views' = Names
             /\ \E p \in {"local", "idle"} : at' = [at EXCEPT ![s] = p]
             /\ UNCHANGED <<epoch, local, sessEpoch, sync>>
  BY <1>r, Zenon DEF Refused, Goto, registry, RegistryStep, Shapes
<1>c. ASSUME NEW ns, Committed(s, ns),
             \A n \in Names \ ns : tables'[n] = tables[n] /\ views'[n] = views[n]
      PROVE  /\ RegistryStep /\ pub' \in [Names -> Nat]
             /\ \E p \in {"local", "idle"} : at' = [at EXCEPT ![s] = p]
             /\ UNCHANGED <<epoch, local, sessEpoch, sync>>
  <2>1. pub' = [n \in Names |-> IF n \in ns THEN epoch + 1 ELSE pub[n]]
    BY <1>c, Zenon DEF Committed, Publish
  <2>2. RegistryStep
    BY <1>c, <2>1, Zenon DEF RegistryStep
  <2>3. pub' \in [Names -> Nat]
    BY <2>1 DEF Shapes
  <2> QED BY <1>c, <2>2, <2>3, Zenon DEF Committed, Goto
<1>1. CASE createTableBody(s)
  <2>1. CASE tables[job[s].name] # None
    BY <1>1, <2>1, <1>r, Zenon DEF createTableBody, Running
  <2>2. CASE tables[job[s].name] = None
    <3>1. /\ Committed(s, {job[s].name}) /\ views' = views
          /\ tables' = [tables EXCEPT ![job[s].name] = job[s].def]
      BY <1>1, <2>2, Zenon DEF createTableBody
    <3>2. \A n \in Names \ {job[s].name} : tables'[n] = tables[n] /\ views'[n] = views[n]
      BY <3>1, Zenon DEF Shapes
    <3> QED BY <1>1, <1>c, <3>1, <3>2, Zenon DEF createTableBody, Running, Shapes
  <2> QED BY <2>1, <2>2, Zenon
<1>2. CASE dropTableBody(s)
  <2>1. /\ Committed(s, {job[s].name}) /\ views' = views
        /\ tables' = [tables EXCEPT ![job[s].name] = None]
    BY <1>2, Zenon DEF dropTableBody
  <2>2. \A n \in Names \ {job[s].name} : tables'[n] = tables[n] /\ views'[n] = views[n]
    BY <2>1, Zenon DEF Shapes
  <2> QED BY <1>2, <1>c, <2>1, <2>2, Zenon DEF dropTableBody, Running, Shapes
<1>3. CASE alterBody(s)
  <2> DEFINE cols == IF tables[job[s].name] = None THEN None
                     ELSE Altered(tables[job[s].name], job[s].def)
  <2>1. CASE cols = None
    BY <1>3, <2>1, <1>r, Zenon DEF alterBody, Running
  <2>2. CASE cols # None
    <3>1. /\ Committed(s, {job[s].name}) /\ views' = views
          /\ tables' = [tables EXCEPT ![job[s].name] = cols]
      BY <1>3, <2>2, Zenon DEF alterBody
    <3> HIDE DEF cols
    <3>2. \A n \in Names \ {job[s].name} : tables'[n] = tables[n] /\ views'[n] = views[n]
      BY <3>1, Zenon DEF Shapes
    <3> QED BY <1>3, <1>c, <3>1, <3>2, Zenon DEF alterBody, Running, Shapes
  <2> QED BY <2>1, <2>2, Zenon
<1>4. CASE renameTableBody(s)
  <2> DEFINE n == job[s].name
             m == job[s].to
  <2>1. CASE tables[m] # None \/ tables[n] = None
    BY <1>4, <2>1, <1>r, Zenon DEF renameTableBody, Running
  <2>2. CASE ~(tables[m] # None \/ tables[n] = None)
    <3>1. /\ Committed(s, {n, m}) /\ views' = views
          /\ tables' = [tables EXCEPT ![n] = None, ![m] = tables[n]]
      BY <1>4, <2>2, Zenon DEF renameTableBody
    <3> HIDE DEF n, m
    <3>2. \A x \in Names \ {n, m} : tables'[x] = tables[x] /\ views'[x] = views[x]
      BY <3>1, Zenon DEF Shapes
    <3> QED BY <1>4, <1>c, <3>1, <3>2, Zenon DEF renameTableBody, Running, Shapes
  <2> QED BY <2>1, <2>2, Zenon
<1>5. CASE createIndexBody(s)
  <2>1. /\ Committed(s, {job[s].name}) /\ views' = views
        /\ tables' = [tables EXCEPT ![job[s].name] = job[s].def]
    BY <1>5, Zenon DEF createIndexBody
  <2>2. \A n \in Names \ {job[s].name} : tables'[n] = tables[n] /\ views'[n] = views[n]
    BY <2>1, Zenon DEF Shapes
  <2> QED BY <1>5, <1>c, <2>1, <2>2, Zenon DEF createIndexBody, Running, Shapes
<1>6. CASE dropIndexBody(s)
  <2>1. CASE tables[job[s].name] = None
    BY <1>6, <2>1, <1>r, Zenon DEF dropIndexBody, Running
  <2>2. CASE tables[job[s].name] # None
    BY <1>6, <2>2, <1>c, Zenon DEF dropIndexBody, Running, Shapes
  <2> QED BY <2>1, <2>2, Zenon
<1>7. CASE createViewBody(s)
  <2>1. CASE views[job[s].name] # None \/ tables[job[s].name] # None
    BY <1>7, <2>1, <1>r, Zenon DEF createViewBody, Running
  <2>2. CASE ~(views[job[s].name] # None \/ tables[job[s].name] # None)
    <3>1. /\ Committed(s, {job[s].name}) /\ tables' = tables
          /\ views' = [views EXCEPT ![job[s].name] = job[s].def]
      BY <1>7, <2>2, Zenon DEF createViewBody
    <3>2. \A n \in Names \ {job[s].name} : tables'[n] = tables[n] /\ views'[n] = views[n]
      BY <3>1, Zenon DEF Shapes
    <3> QED BY <1>7, <1>c, <3>1, <3>2, Zenon DEF createViewBody, Running, Shapes
  <2> QED BY <2>1, <2>2, Zenon
<1>8. CASE dropViewBody(s)
  <2>1. /\ Committed(s, {job[s].name}) /\ tables' = tables
        /\ views' = [views EXCEPT ![job[s].name] = None]
    BY <1>8, Zenon DEF dropViewBody
  <2>2. \A n \in Names \ {job[s].name} : tables'[n] = tables[n] /\ views'[n] = views[n]
    BY <2>1, Zenon DEF Shapes
  <2> QED BY <1>8, <1>c, <2>1, <2>2, Zenon DEF dropViewBody, Running, Shapes
<1> QED BY <1>1, <1>2, <1>3, <1>4, <1>5, <1>6, <1>7, <1>8, Zenon DEF runRMW

(* The statement's change to its own connection: nothing else moves.       *)
LEMMA LocalEffect ==
    ASSUME Shapes, NEW s \in Sessions, applyLocal(s)
    PROVE  /\ at[s] = "local"
           /\ \E p \in {"bump", "idle"} : at' = [at EXCEPT ![s] = p]
           /\ \E decl : DOMAIN decl = Names /\ local' = [local EXCEPT ![s] = decl]
           /\ UNCHANGED <<tables, views, pub, epoch, sessEpoch, sync>>
<1>d. ASSUME NEW decl, NEW ok, Declared(s, decl, ok), DOMAIN decl = Names
      PROVE  /\ \E p \in {"bump", "idle"} : at' = [at EXCEPT ![s] = p]
             /\ \E d : DOMAIN d = Names /\ local' = [local EXCEPT ![s] = d]
             /\ UNCHANGED <<tables, views, pub, epoch, sessEpoch, sync>>
  BY <1>d, Zenon DEF Declared, Goto, registry
<1>l. DOMAIN local[s] = Names
  BY Zenon DEF Shapes
<1> DEFINE n == job[s].name
           m == job[s].to
           gone == [local[s] EXCEPT ![n] = Undeclared]
<1>g. DOMAIN gone = Names
  BY <1>l, Zenon
<1>v. \A k, cols : /\ DOMAIN registerVTable(local[s], k, cols) = Names
                   /\ DOMAIN registerVTable(gone, k, cols) = Names
                   /\ DOMAIN [local[s] EXCEPT ![k] = View(cols)] = Names
  BY <1>l, <1>g, Zenon DEF registerVTable
<1>1. CASE createTableLocal(s)
  <2>1. \E ok : Declared(s, IF local[s][n].kind = "none"
                            THEN registerVTable(local[s], n, job[s].def) ELSE local[s], ok)
    BY <1>1, Zenon DEF createTableLocal
  <2>2. DOMAIN (IF local[s][n].kind = "none"
                THEN registerVTable(local[s], n, job[s].def) ELSE local[s]) = Names
    BY <1>l, <1>v, Zenon
  <2> QED BY <1>1, <1>d, <2>1, <2>2, Zenon DEF createTableLocal, Declaring
<1>2. CASE dropTableLocal(s)
  <2>1. \E ok : Declared(s, IF local[s][n].kind = "table" THEN gone ELSE local[s], ok)
    BY <1>2, Zenon DEF dropTableLocal
  <2>2. DOMAIN (IF local[s][n].kind = "table" THEN gone ELSE local[s]) = Names
    BY <1>l, <1>g, Zenon
  <2> QED BY <1>2, <1>d, <2>1, <2>2, Zenon DEF dropTableLocal, Declaring
<1>3. CASE redeclareVTable(s)
  <2>1. \/ Declared(s, local[s], FALSE) \/ Declared(s, gone, FALSE)
        \/ Declared(s, registerVTable(local[s], n, tables[n]), TRUE)
    BY <1>3, Zenon DEF redeclareVTable
  <2> QED BY <1>3, <1>d, <1>l, <1>g, <1>v, <2>1, ZenonT(60) DEF redeclareVTable, Declaring
<1>4. CASE renameTableLocal(s)
  <2>1. \/ Declared(s, local[s], FALSE) \/ Declared(s, gone, FALSE)
        \/ Declared(s, registerVTable(gone, m, tables[m]), TRUE)
    BY <1>4, Zenon DEF renameTableLocal
  <2> QED BY <1>4, <1>d, <1>l, <1>g, <1>v, <2>1, ZenonT(60) DEF renameTableLocal, Declaring
<1>5. CASE indexLocal(s)
  BY <1>5, <1>d, <1>l, Zenon DEF indexLocal, Declaring
<1>6. CASE createViewLocal(s)
  <2>1. \E ok : Declared(s, IF local[s][n].kind = "none"
                            THEN [local[s] EXCEPT ![n] = View(job[s].def)] ELSE local[s], ok)
    BY <1>6, Zenon DEF createViewLocal
  <2>2. DOMAIN (IF local[s][n].kind = "none"
                THEN [local[s] EXCEPT ![n] = View(job[s].def)] ELSE local[s]) = Names
    BY <1>l, <1>v, Zenon
  <2> QED BY <1>6, <1>d, <2>1, <2>2, Zenon DEF createViewLocal, Declaring
<1>7. CASE dropViewLocal(s)
  <2>1. \E ok : Declared(s, IF local[s][n].kind = "view" THEN gone ELSE local[s], ok)
    BY <1>7, Zenon DEF dropViewLocal
  <2>2. DOMAIN (IF local[s][n].kind = "view" THEN gone ELSE local[s]) = Names
    BY <1>l, <1>g, Zenon
  <2> QED BY <1>7, <1>d, <2>1, <2>2, Zenon DEF dropViewLocal, Declaring
<1> QED BY <1>1, <1>2, <1>3, <1>4, <1>5, <1>6, <1>7, Zenon DEF applyLocal

(* Issuing a statement changes only where the issuer stands.               *)
LEMMA IssueEffect ==
    ASSUME NEW s \in Sessions, maybeInterceptDDL(s)
    PROVE  /\ s \in Issuers
           /\ at' = [at EXCEPT ![s] = "rmw"]
           /\ UNCHANGED <<tables, views, pub, epoch, local, sessEpoch, sync>>
<1>1. \E j : Issue(s, j)
  BY Zenon
  DEF maybeInterceptDDL, handleCreateTable, handleDropTable, handleAlterTable,
      handleAlterRenameTable, handleCreateIndex, handleDropIndex, handleCreateView,
      handleDropView
<1> QED BY <1>1, Zenon DEF Issue, Goto, registry

(* Opening, closing and syncing: the shapes, and what they leave alone.    *)
LEMMA SessionEffect ==
    ASSUME Shapes, NEW s \in Sessions,
           replayTables(s) \/ replayViews(s) \/ closeSession(s) \/ ensureFreshVTabs(s)
    PROVE  /\ Shapes'
           /\ UNCHANGED <<tables, views, pub, epoch>>
           /\ \A r \in Sessions \ {s} : SameReader(r)
<1>n. DOMAIN NoSync = SyncFields /\ NoSync.ep = 0
  BY Zenon DEF NoSync, SyncFields
<1>1. CASE replayTables(s)
  BY <1>1, Zenon DEF replayTables, Goto, registry, Shapes, SameReader
<1>2. CASE replayViews(s)
  BY <1>2, Zenon DEF replayViews, Goto, registry, Shapes, SameReader
<1>3. CASE closeSession(s)
  BY <1>3, Zenon DEF closeSession, Goto, registry, Shapes, SameReader
<1>4. CASE loadEpoch(s)
  <2> DEFINE new == [NoSync EXCEPT !.ep = epoch, !.snap = local[s]]
  <2>1. DOMAIN new = SyncFields /\ new.ep = epoch
    BY <1>n, Zenon DEF SyncFields, NoSync
  <2>2. sync' = [sync EXCEPT ![s] = new]
    BY <1>4, Zenon DEF loadEpoch
  <2> HIDE DEF new
  <2> QED BY <1>4, <2>1, <2>2, Zenon DEF loadEpoch, Goto, registry, Shapes, SameReader
<1>5. CASE listTables(s)
  <2>1. /\ DOMAIN sync' = Sessions /\ DOMAIN sync'[s] = SyncFields /\ sync'[s].ep = sync[s].ep
        /\ \A r \in Sessions \ {s} : sync'[r] = sync[r]
    BY <1>5, Zenon DEF listTables, Shapes, SyncFields
  <2> QED BY <1>5, <2>1, Zenon DEF listTables, Goto, registry, Shapes, SameReader
<1>6. CASE listViews(s)
  <2>1. /\ DOMAIN sync' = Sessions /\ DOMAIN sync'[s] = SyncFields /\ sync'[s].ep = sync[s].ep
        /\ \A r \in Sessions \ {s} : sync'[r] = sync[r]
    BY <1>6, Zenon DEF listViews, Shapes, SyncFields
  <2> QED BY <1>6, <2>1, Zenon DEF listViews, Goto, registry, Shapes, SameReader
<1>7. ASSUME NEW m \in Names, reconcileTable(s, m)
      PROVE  /\ Shapes'
             /\ UNCHANGED <<tables, views, pub, epoch>>
             /\ \A r \in Sessions \ {s} : SameReader(r)
  <2>1. /\ DOMAIN sync' = Sessions /\ DOMAIN sync'[s] = SyncFields /\ sync'[s].ep = sync[s].ep
        /\ \A r \in Sessions \ {s} : sync'[r] = sync[r]
    BY <1>7, Zenon DEF reconcileTable, Shapes, SyncFields
  <2> QED BY <1>7, <2>1, Zenon DEF reconcileTable, registry, Shapes, SameReader
<1>8. ASSUME NEW m \in Names, reconcileView(s, m)
      PROVE  /\ Shapes'
             /\ UNCHANGED <<tables, views, pub, epoch>>
             /\ \A r \in Sessions \ {s} : SameReader(r)
  <2>1. CASE views[m] # None /\ viewFails(s, m)
    BY <1>8, <1>n, <2>1 DEF reconcileView, Goto, registry, Shapes, SameReader
  <2>2. CASE ~(views[m] # None /\ viewFails(s, m))
    <3>1. /\ at' = at /\ sync' = [sync EXCEPT ![s].todoV = @ \ {m}]
      BY <1>8, <2>2, Zenon DEF reconcileView
    <3>2. /\ DOMAIN sync' = Sessions /\ DOMAIN sync'[s] = SyncFields
          /\ sync'[s].ep = sync[s].ep
          /\ \A r \in Sessions \ {s} : sync'[r] = sync[r]
      BY <3>1, Zenon DEF Shapes, SyncFields
    <3> QED BY <1>8, <2>2, <3>1, <3>2, ZenonT(60) DEF reconcileView, registry, Shapes,
       SameReader
  <2> QED BY <2>1, <2>2, Zenon
<1>9. CASE dropVanished(s)
  BY <1>9, <1>n DEF dropVanished, Goto, registry, Shapes, SameReader
<1> QED BY <1>1, <1>2, <1>3, <1>4, <1>5, <1>6, <1>7, <1>8, <1>9, Zenon DEF ensureFreshVTabs

(* The invariant holds at the start: a restarted server's registry is      *)
(* published by epoch 0, and the connected sessions have replayed it.      *)
LEMMA FreshInit == Init => FreshInv
<1> SUFFICES ASSUME Init PROVE FreshInv
  BY Zenon
<1>n. DOMAIN NoSync = SyncFields /\ NoSync.ep = 0
  BY Zenon DEF NoSync, SyncFields
<1>1. Shapes
  BY <1>n DEF Init, Shapes
<1>2. ASSUME NEW s \in Sessions PROVE Reader(s)
  <2>1. sessEpoch[s] = 0 /\ epoch = 0 /\ at[s] \in {"idle", "closed"}
        /\ at[s] = IF s \in Connected THEN "idle" ELSE "closed"
    BY Zenon DEF Init
  <2>2. s \in Connected => \A n \in Names : local[s][n] = Object(n)
    BY Zenon DEF Init
  <2>3. Queries(s) /\ sessEpoch[s] <= epoch
    BY <2>1 DEF Queries
  <2>4. Fresh(s)
    BY <2>1, <2>2, Zenon DEF Fresh, Open
  <2>5. Replaying(s) /\ Syncing(s)
    BY <2>1, Zenon DEF Replaying, Syncing
  <2> QED BY <2>3, <2>4, <2>5, Zenon DEF Reader
<1> QED BY <1>1, <1>2, Zenon DEF FreshInv

(* And every step keeps it.                                                *)
LEMMA FreshStep == FreshInv /\ [Next]_vars => FreshInv'
<1> SUFFICES ASSUME FreshInv, [Next]_vars PROVE FreshInv'
  BY Zenon
<1>s. Shapes
  BY Zenon DEF FreshInv
<1>e. epoch \in Nat /\ epoch >= epoch /\ epoch + 1 \in Nat /\ epoch + 1 >= epoch
  BY <1>s DEF Shapes
<1>1. ASSUME NEW s \in Sessions,
             replayTables(s) \/ replayViews(s) \/ closeSession(s) \/ ensureFreshVTabs(s)
      PROVE  FreshInv'
  <2>1. /\ Shapes' /\ UNCHANGED <<tables, views, pub, epoch>>
        /\ \A r \in Sessions \ {s} : SameReader(r)
    BY <1>s, <1>1, SessionEffect, Zenon
  <2>2. RegistryStep /\ pub' \in [Names -> Nat]
    BY <1>s, <2>1, Zenon DEF RegistryStep, Shapes
  <2>3. ASSUME NEW r \in Sessions \ Issuers PROVE Reader(r)'
    <3>1. Reader(r)
      BY Zenon DEF FreshInv
    <3>2. CASE r = s
      BY <1>s, <1>1, <3>1, <3>2, SyncKeeps, OpenKeeps, Zenon
    <3>3. CASE r # s
      BY <1>s, <1>e, <2>1, <2>2, <3>1, <3>3, OthersKeep, Zenon
    <3> QED BY <3>2, <3>3, Zenon
  <2> QED BY <2>1, <2>3, Zenon DEF FreshInv
<1>2. ASSUME NEW s \in Sessions, maybeInterceptDDL(s) PROVE FreshInv'
  <2>1. /\ s \in Issuers /\ at' = [at EXCEPT ![s] = "rmw"]
        /\ UNCHANGED <<tables, views, pub, epoch, local, sessEpoch, sync>>
    BY <1>2, IssueEffect, Zenon
  <2>2. Shapes' /\ RegistryStep /\ pub' \in [Names -> Nat]
    BY <1>s, <2>1, Zenon DEF Shapes, RegistryStep
  <2>3. \A r \in Sessions \ Issuers : SameReader(r)
    BY <1>s, <2>1, Zenon DEF SameReader, Shapes
  <2> QED BY <1>s, <1>e, <2>1, <2>2, <2>3, OthersKeep, Zenon DEF FreshInv
<1>3. ASSUME NEW s \in Sessions, runRMW(s) PROVE FreshInv'
  <2>1. /\ at[s] = "rmw" /\ RegistryStep /\ pub' \in [Names -> Nat]
        /\ DOMAIN tables' = Names /\ DOMAIN views' = Names
        /\ \E p \in {"local", "idle"} : at' = [at EXCEPT ![s] = p]
        /\ UNCHANGED <<epoch, local, sessEpoch, sync>>
    BY <1>s, <1>3, BodyEffect, Zenon
  <2>2. Shapes'
    BY <1>s, <2>1, Zenon DEF Shapes
  <2>3. \A r \in Sessions \ Issuers : SameReader(r)
    BY <1>s, <2>1, Zenon DEF SameReader, Shapes, FreshInv, Reader, Queries
  <2> QED BY <1>s, <1>e, <2>1, <2>2, <2>3, OthersKeep, Zenon DEF FreshInv
<1>4. ASSUME NEW s \in Sessions, applyLocal(s) PROVE FreshInv'
  <2>1. /\ at[s] = "local"
        /\ \E p \in {"bump", "idle"} : at' = [at EXCEPT ![s] = p]
        /\ \E decl : DOMAIN decl = Names /\ local' = [local EXCEPT ![s] = decl]
        /\ UNCHANGED <<tables, views, pub, epoch, sessEpoch, sync>>
    BY <1>s, <1>4, LocalEffect, Zenon
  <2>2. Shapes' /\ RegistryStep /\ pub' \in [Names -> Nat]
    BY <1>s, <2>1, Zenon DEF Shapes, RegistryStep
  <2>3. \A r \in Sessions \ Issuers : SameReader(r)
    BY <1>s, <2>1, Zenon DEF SameReader, Shapes, FreshInv, Reader, Queries
  <2> QED BY <1>s, <1>e, <2>1, <2>2, <2>3, OthersKeep, Zenon DEF FreshInv
<1>5. ASSUME NEW s \in Sessions, bumpSchemaEpoch(s) PROVE FreshInv'
  <2>1. /\ at[s] = "bump" /\ epoch' = epoch + 1
        /\ at' = [at EXCEPT ![s] = "idle"]
        /\ sessEpoch' = [sessEpoch EXCEPT ![s] = epoch + 1]
        /\ UNCHANGED <<tables, views, pub, local, sync>>
    BY <1>5, Zenon DEF bumpSchemaEpoch, Goto, registry
  <2>2. Shapes' /\ RegistryStep /\ pub' \in [Names -> Nat]
    BY <1>s, <1>e, <2>1, Zenon DEF Shapes, RegistryStep
  <2>3. \A r \in Sessions \ Issuers : SameReader(r)
    BY <1>s, <2>1, Zenon DEF SameReader, Shapes, FreshInv, Reader, Queries
  <2> QED BY <1>s, <1>e, <2>1, <2>2, <2>3, OthersKeep, Zenon DEF FreshInv
<1>6. ASSUME NEW n \in Names, remoteDDL(n) PROVE FreshInv'
  <2>1. /\ pub' = [x \in Names |-> IF x \in {n} THEN epoch + 1 ELSE pub[x]]
        /\ DOMAIN tables' = Names /\ DOMAIN views' = Names
        /\ \A x \in Names \ {n} : tables'[x] = tables[x] /\ views'[x] = views[x]
        /\ UNCHANGED <<epoch, at, local, sessEpoch, sync>>
    BY <1>s, <1>6, Zenon DEF remoteDDL, Publish, Shapes
  <2>2. Shapes' /\ RegistryStep /\ pub' \in [Names -> Nat]
    BY <1>s, <1>e, <2>1, Zenon DEF Shapes, RegistryStep
  <2>3. \A r \in Sessions \ Issuers : SameReader(r)
    BY <2>1, Zenon DEF SameReader
  <2> QED BY <1>s, <1>e, <2>1, <2>2, <2>3, OthersKeep, Zenon DEF FreshInv
<1>7. CASE UNCHANGED vars
  <2>1. Shapes' /\ RegistryStep /\ pub' \in [Names -> Nat] /\ epoch' = epoch
    BY <1>s, <1>7, Zenon DEF vars, Shapes, RegistryStep
  <2>2. \A r \in Sessions \ Issuers : SameReader(r)
    BY <1>7, Zenon DEF vars, SameReader
  <2> QED BY <1>s, <1>e, <2>1, <2>2, OthersKeep, Zenon DEF FreshInv
<1> QED BY <1>1, <1>2, <1>3, <1>4, <1>5, <1>6, <1>7, Zenon DEF Next, Session

(* However DDL statements, remote changes, syncs and reconnects            *)
(* interleave, a session that only queries and has reached the epoch that  *)
(* published a name's last change declares the name as the registry has it *)
(* (ensureFreshVTabs, bumpSchemaEpoch).                                    *)
THEOREM ReadersAreFresh == Spec => []ReadersFresh
<1>1. FreshInv => ReadersFresh
  BY Zenon DEF FreshInv, Reader, Fresh, ReadersFresh
<1> QED BY <1>1, FreshInit, FreshStep, PTL DEF Spec

=============================================================================
