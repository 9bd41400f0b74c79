--------------------------- MODULE SqlRows_proofs ---------------------------
(***************************************************************************)
(* Proofs that a full scan in a transaction yields exactly the rows of the *)
(* transaction's view, that the index covers the rows, that a unique index *)
(* keeps the values apart, and that what a transaction has read holds      *)
(* until another commit overtakes it: for any sessions, rows, values,      *)
(* index DDL, retries and savepoints.                                      *)
(***************************************************************************)
EXTENDS SqlContext_proofs, SqlRows

\* A row that a Context changes is among the dirty rows d, unless a failed
\* PK-change has removed it.
Marked(c, d) == /\ IsContext(c)
                /\ d \subseteq PKs
                /\ \A p \in PKs : c.row[p] = Keep \/ c.row[p] = Gone \/ p \in d

IsFrame(g) == g = [f \in {"name", "ctx", "dirty"} |-> g[f]]
MarkedFrames(f) == /\ \E n \in Nat : DOMAIN f = 1 .. n
                   /\ f = [i \in DOMAIN f |-> f[i]]
                   /\ \A i \in DOMAIN f : IsFrame(f[i]) /\ Marked(f[i].ctx, f[i].dirty)

\* The inductive invariant: it holds of the transactions and of what their
\* savepoints would bring back.
DirtyInv ==
    /\ dirty = [s \in Writers |-> dirty[s]]
    /\ tx = [s \in Writers |-> tx[s]]
    /\ saves = [s \in Writers |-> saves[s]]
    /\ \A s \in Writers : Marked(tx[s], dirty[s]) /\ MarkedFrames(saves[s])

(* The writes of a statement are to rows of the table.                     *)
LEMMA WritesFound ==
    ASSUME NEW s, NEW plan, Scan(s, plan) \subseteq PKs, NEW w \in Writes(s, plan)
    PROVE  IsWrite(w)
<1>1. CASE w \in Inserts
  BY <1>1 DEF Inserts, IsWrite
<1>2. ASSUME NEW p \in PKs, w \in Updates(p) PROVE IsWrite(w)
  BY <1>2 DEF Updates, IsWrite
<1>3. ASSUME NEW p \in PKs, w \in Moves(p) PROVE IsWrite(w)
  BY <1>3 DEF Moves, IsWrite
<1>4. ASSUME NEW p \in PKs, w \in Deletes(p) PROVE IsWrite(w)
  BY <1>4 DEF Deletes, IsWrite
<1>5. \/ w \in Inserts
      \/ \E p \in Scan(s, plan) : w \in Updates(p) \/ w \in Moves(p) \/ w \in Deletes(p)
  BY Zenon DEF Writes
<1> QED  BY <1>1, <1>2, <1>3, <1>4, <1>5, Zenon

(* The same for the rows that any plan of a session's scan finds.          *)
LEMMA WritesTyped ==
    ASSUME DirtyInv, NEW s \in Writers, NEW plan \in Plans, NEW w \in Writes(s, plan)
    PROVE  IsWrite(w)
<1>1. Scan(s, plan) \subseteq PKs
  BY DEF DirtyInv, Marked, Plans, FullScan, Scan, filterFullScan, filterIndex
<1> QED  BY <1>1, WritesFound, Zenon

\* What Overtaken does to a session's frames.
OvertakenFrames(c, f) == [i \in DOMAIN f |-> [f[i] EXCEPT !.ctx = Overtaken(c, @)]]

(* Overtaking a Context leaves its marks right.                            *)
LEMMA OvertakenMarked ==
    ASSUME NEW c, NEW x, NEW d, Marked(x, d)
    PROVE  Marked(Overtaken(c, x), d)
BY EmittersKeep, Zenon DEF Marked, SameRows

(* Overtaking the Contexts of a session's frames leaves their marks right. *)
LEMMA FramesMarked ==
    ASSUME NEW c, NEW f, MarkedFrames(f)
    PROVE  MarkedFrames(OvertakenFrames(c, f))
<1>1. \A i \in DOMAIN f : LET g == [f[i] EXCEPT !.ctx = Overtaken(c, @)]
                         IN g.ctx = Overtaken(c, f[i].ctx) /\ g.dirty = f[i].dirty /\ IsFrame(g)
  BY ZenonT(60) DEF MarkedFrames, IsFrame
<1>2. DOMAIN OvertakenFrames(c, f) = DOMAIN f
  BY Zenon DEF OvertakenFrames
<1>3. \A i \in DOMAIN f : /\ IsFrame(OvertakenFrames(c, f)[i])
                          /\ Marked(OvertakenFrames(c, f)[i].ctx, OvertakenFrames(c, f)[i].dirty)
  <2> TAKE i \in DOMAIN f
  <2> DEFINE g == [f[i] EXCEPT !.ctx = Overtaken(c, @)]
  <2>1. OvertakenFrames(c, f)[i] = g
    BY Zenon DEF OvertakenFrames
  <2>2. g.ctx = Overtaken(c, f[i].ctx) /\ g.dirty = f[i].dirty /\ IsFrame(g)
    BY <1>1, Zenon
  <2>3. Marked(Overtaken(c, f[i].ctx), f[i].dirty)
    BY OvertakenMarked, Zenon DEF MarkedFrames
  <2> HIDE DEF g
  <2> QED  BY <2>1, <2>2, <2>3, Zenon
<1>4. PICK n \in Nat : DOMAIN f = 1 .. n
  BY Zenon DEF MarkedFrames
<1> QED  BY <1>2, <1>3, <1>4, Zenon DEF MarkedFrames, OvertakenFrames

(* A Flush keeps the invariant when what the session's own state becomes   *)
(* does.                                                                   *)
LEMMA FlushMarked ==
    ASSUME NEW c, NEW txs, NEW frames, NEW jobs, Flush(c, txs, frames, jobs),
           \A s \in Writers : Marked(txs[s], dirty'[s]) /\ MarkedFrames(frames[s]),
           dirty' = [s \in Writers |-> dirty'[s]]
    PROVE  DirtyInv'
<1>1. /\ tx' = [t \in Writers |-> Overtaken(c, txs[t])]
      /\ saves' = [t \in Writers |-> OvertakenFrames(c, frames[t])]
  BY Zenon DEF Flush, OvertakenFrames
<1>2. \A s \in Writers : Marked(Overtaken(c, txs[s]), dirty'[s])
  BY OvertakenMarked, Zenon
<1>3. \A s \in Writers : MarkedFrames(OvertakenFrames(c, frames[s]))
  BY FramesMarked, Zenon
<1>4. \A s \in Writers : Marked(tx'[s], dirty'[s]) /\ MarkedFrames(saves'[s])
  BY <1>1, <1>2, <1>3, Zenon
<1> QED  BY <1>1, <1>4, Zenon DEF DirtyInv, Marked, MarkedFrames, IsContext, IsFrame

\* What the actions of one session leave of the others' state.
Others(s) == \A t \in Writers \ {s} : /\ tx'[t] = tx[t]
                                      /\ dirty'[t] = dirty[t]
                                       /\ saves'[t] = saves[t]

(* A new Context and an empty stack of frames have nothing to mark.        *)
LEMMA EmptyMarked == Marked(NoContext, {}) /\ Marked(NewContext, {}) /\ MarkedFrames(<<>>)
<1>1. IsContext(NewContext) /\ \A p \in PKs : NewContext.row[p] = Keep
  BY Zenon DEF NewContext, IsContext, Fields
<1>2. IsContext(NoContext) /\ NoContext.row = NewContext.row
  BY <1>1, Zenon DEF NoContext, IsContext, Fields
<1>3. MarkedFrames(<<>>)
  BY DEF MarkedFrames
<1> QED  BY <1>1, <1>2, <1>3, Zenon DEF Marked

(* The dirty marks are right at the start.                                 *)
LEMMA InitDirty == RowsInit => DirtyInv
BY EmptyMarked, Zenon DEF RowsInit, DirtyInv

(* Dropping frames from the top leaves marked frames.                      *)
LEMMA SubFrames ==
    ASSUME NEW f, MarkedFrames(f), NEW n \in Nat, n = 0 \/ n \in DOMAIN f
    PROVE  MarkedFrames(SubSeq(f, 1, n))
<1>1. PICK m \in Nat : DOMAIN f = 1 .. m
  BY Zenon DEF MarkedFrames
<1>2. SubSeq(f, 1, n) = [i \in 1 .. n |-> f[i]]
  BY SMT
<1>3. \A i \in 1 .. n : i \in DOMAIN f
  BY <1>1
<1> QED  BY <1>2, <1>3, Zenon DEF MarkedFrames

(* A sequence is a function.                                               *)
LEMMA FrameFunction == ASSUME NEW S, NEW f \in Seq(S) PROVE f \in [1 .. Len(f) -> S]
OBVIOUS

(* Pushing a marked frame leaves marked frames.                            *)
LEMMA AppendFrame ==
    ASSUME NEW f, MarkedFrames(f), NEW g, IsFrame(g), Marked(g.ctx, g.dirty)
    PROVE  MarkedFrames(Append(f, g))
<1>1. PICK m \in Nat : DOMAIN f = 1 .. m
  BY Zenon DEF MarkedFrames
<1> DEFINE S == {f[i] : i \in DOMAIN f} \cup {g}
<1>2. f \in Seq(S) /\ Len(f) = m /\ g \in S
  BY <1>1 DEF MarkedFrames
<1> HIDE DEF S
<1>3. /\ Append(f, g) \in Seq(S) /\ DOMAIN Append(f, g) = 1 .. m + 1
      /\ \A i \in 1 .. m : Append(f, g)[i] = f[i]
      /\ Append(f, g)[m + 1] = g
  BY <1>2
<1>4. \A i \in 1 .. m + 1 : i = m + 1 \/ i \in DOMAIN f
  BY <1>1
<1>5. Append(f, g) = [i \in DOMAIN Append(f, g) |-> Append(f, g)[i]]
  <2>1. Append(f, g) \in [1 .. Len(Append(f, g)) -> S]
    BY <1>3, FrameFunction, Zenon
  <2> QED  BY <2>1, Zenon
<1> QED  BY <1>1, <1>3, <1>4, <1>5 DEF MarkedFrames

(* A write's rows join the dirty ones if it succeeds.                      *)
LEMMA WriteKeepsMarked ==
    ASSUME NEW c, NEW d, Marked(c, d), NEW w, IsWrite(w)
    PROVE  /\ Write(c, w).ok => Marked(Write(c, w).ctx, d \cup Dirtied(w))
           /\ ~Write(c, w).ok => Marked(Write(c, w).ctx, d)
<1>1. WritesRows(c, Write(c, w), Dirtied(w))
  BY WriteMarks, Zenon DEF Marked
<1>2. Dirtied(w) \subseteq PKs
  BY Zenon DEF Dirtied, IsWrite
<1> QED  BY <1>1, <1>2, Zenon DEF Marked, WritesRows

(* Each step keeps the rows that a transaction changes marked.             *)
LEMMA NextDirty == DirtyInv /\ [RowsNext]_rowVars => DirtyInv'
<1> SUFFICES ASSUME DirtyInv, [RowsNext]_rowVars PROVE DirtyInv'
  BY Zenon
<1> DEFINE Ok(s) == Marked(tx'[s], dirty'[s]) /\ MarkedFrames(saves'[s])
           Shape == /\ dirty' = [s \in Writers |-> dirty'[s]]
                    /\ tx' = [s \in Writers |-> tx'[s]]
                    /\ saves' = [s \in Writers |-> saves'[s]]
<1>a. ASSUME NEW s \in Writers, Shape, Others(s), Ok(s) PROVE DirtyInv'
  <2>1. \A t \in Writers : Ok(t)
    BY <1>a, Zenon DEF DirtyInv, Others
  <2> QED  BY <1>a, <2>1, Zenon DEF DirtyInv
<1>b. Marked(NoContext, {}) /\ Marked(NewContext, {}) /\ MarkedFrames(<<>>)
  BY EmptyMarked, Zenon
<1>1. ASSUME NEW s \in Writers, handleBegin(s) PROVE DirtyInv'
  <2>1. \A d : Marked(tx[s], d) => Marked(NewContext, d)
    BY <1>b, Zenon DEF Marked
  <2>2. Shape /\ Others(s) /\ tx'[s] = NewContext /\ dirty'[s] = dirty[s] /\ saves'[s] = saves[s]
    BY <1>1, Zenon DEF handleBegin, DirtyInv, Others
  <2>3. Ok(s)
    BY <2>1, <2>2, Zenon DEF DirtyInv
  <2> QED  BY <1>a, <2>2, <2>3, Zenon
<1>2. ASSUME NEW s \in Writers, handleCommit(s) PROVE DirtyInv'
  <2> DEFINE txs    == [tx EXCEPT ![s] = NoContext]
             frames == [saves EXCEPT ![s] = <<>>]
  <2>1. dirty' = [dirty EXCEPT ![s] = {}]
    BY <1>2, Zenon DEF handleCommit, clearTxState
  <2>2. \A t \in Writers : Marked(txs[t], dirty'[t]) /\ MarkedFrames(frames[t])
    BY <1>b, <2>1, Zenon DEF DirtyInv
  <2>3. dirty' = [t \in Writers |-> dirty'[t]]
    BY <2>1, Zenon DEF DirtyInv
  <2>4. CASE tx' = txs /\ saves' = frames
    BY <2>2, <2>3, <2>4, Zenon DEF DirtyInv
  <2>5. CASE Flush(tx[s], txs, frames, work)
    <3> HIDE DEF txs, frames
    <3> QED  BY <2>2, <2>3, <2>5, FlushMarked, Zenon
  <2> QED  BY <1>2, <2>4, <2>5, Zenon DEF handleCommit
<1>3. ASSUME NEW s \in Writers, handleRollback(s) PROVE DirtyInv'
  <2>1. /\ Shape /\ Others(s)
        /\ tx'[s] = NoContext /\ dirty'[s] = {} /\ saves'[s] = <<>>
    BY <1>3, Zenon DEF handleRollback, clearTxState, DirtyInv, Others
  <2>2. Ok(s)
    BY <1>b, <2>1, Zenon
  <2> QED  BY <1>a, <2>1, <2>2, Zenon
<1>4. ASSUME NEW s \in Writers, NEW n \in Savepoints, handleSavepoint(s, n) PROVE DirtyInv'
  <2> DEFINE g == [name |-> n, ctx |-> tx[s], dirty |-> dirty[s]]
  <2>1. IsFrame(g) /\ Marked(g.ctx, g.dirty)
    BY Zenon DEF IsFrame, DirtyInv
  <2>2. /\ Shape /\ Others(s)
        /\ tx'[s] = tx[s] /\ dirty'[s] = dirty[s] /\ saves'[s] = Append(saves[s], g)
    BY <1>4, Zenon DEF handleSavepoint, DirtyInv, Others
  <2> HIDE DEF g
  <2>3. Ok(s)
    BY <2>1, <2>2, AppendFrame DEF DirtyInv
  <2> QED  BY <1>a, <2>2, <2>3, Zenon
<1>f. ASSUME NEW s \in Writers, NEW i \in DOMAIN saves[s]
      PROVE  /\ MarkedFrames(SubSeq(saves[s], 1, i - 1))
             /\ MarkedFrames(SubSeq(saves[s], 1, i))
             /\ Marked(saves[s][i].ctx, saves[s][i].dirty)
  <2>1. PICK m \in Nat : DOMAIN saves[s] = 1 .. m
    BY Zenon DEF DirtyInv, MarkedFrames
  <2>2. i \in Nat /\ i - 1 \in Nat /\ (i - 1 = 0 \/ i - 1 \in DOMAIN saves[s])
    BY <2>1
  <2>3. MarkedFrames(saves[s])
    BY Zenon DEF DirtyInv
  <2>4. MarkedFrames(SubSeq(saves[s], 1, i - 1))
    BY <2>2, <2>3, SubFrames, Zenon
  <2>5. MarkedFrames(SubSeq(saves[s], 1, i))
    BY <2>2, <2>3, SubFrames, Zenon
  <2> QED  BY <2>3, <2>4, <2>5, Zenon DEF MarkedFrames
<1>5. ASSUME NEW s \in Writers, NEW n \in Savepoints, handleReleaseSavepoint(s, n)
      PROVE  DirtyInv'
  <2>1. PICK i \in DOMAIN saves[s] : saves' = [saves EXCEPT ![s] = SubSeq(@, 1, i - 1)]
    BY <1>5, Zenon DEF handleReleaseSavepoint, findSavepoint
  <2>2. /\ Shape /\ Others(s) /\ tx'[s] = tx[s] /\ dirty'[s] = dirty[s]
        /\ saves'[s] = SubSeq(saves[s], 1, i - 1)
    BY <1>5, <2>1, Zenon DEF handleReleaseSavepoint, DirtyInv, Others
  <2>3. Ok(s)
    BY <1>f, <2>2, Zenon DEF DirtyInv
  <2> QED  BY <1>a, <2>2, <2>3, Zenon
<1>6. ASSUME NEW s \in Writers, NEW n \in Savepoints, handleRollbackTo(s, n)
      PROVE  DirtyInv'
  <2>1. PICK i \in DOMAIN saves[s] : rollbackToSavepoint(s, i)
    BY <1>6, Zenon DEF handleRollbackTo, findSavepoint
  <2>2. /\ Shape /\ Others(s) /\ tx'[s] = saves[s][i].ctx /\ dirty'[s] = saves[s][i].dirty
        /\ saves'[s] = SubSeq(saves[s], 1, i)
    BY <2>1, Zenon DEF rollbackToSavepoint, DirtyInv, Others
  <2>3. Ok(s)
    BY <1>f, <2>2, Zenon
  <2> QED  BY <1>a, <2>2, <2>3, Zenon
<1>7. ASSUME NEW s \in Writers, NEW plan \in Plans, Filter(s, plan) PROVE DirtyInv'
  <2>1. Marked(Observe(tx[s], plan), dirty[s])
    BY EmittersKeep DEF DirtyInv, Marked, SameRows
  <2>2. /\ Shape /\ Others(s) /\ tx'[s] = Observe(tx[s], plan) /\ dirty'[s] = dirty[s]
        /\ saves'[s] = saves[s]
    BY <1>7, Zenon DEF Filter, DirtyInv, Others
  <2>3. Ok(s)
    BY <2>1, <2>2, Zenon DEF DirtyInv
  <2> QED  BY <1>a, <2>2, <2>3, Zenon
<1>8. ASSUME NEW s \in Writers, NEW plan \in Plans, NEW w \in Writes(s, plan),
             runWrite(s, plan, w)
      PROVE  DirtyInv'
  <2> DEFINE c == IF w.op = "insert" THEN tx[s] ELSE Observe(tx[s], plan)
             r == Write(c, w)
  <2>1. Marked(c, dirty[s])
    BY EmittersKeep DEF DirtyInv, Marked, SameRows
  <2>2. IsWrite(w)
    BY WritesTyped, Zenon
  <2>3. /\ r.ok => Marked(r.ctx, dirty[s] \cup Dirtied(w))
        /\ ~r.ok => Marked(r.ctx, dirty[s])
    <3> HIDE DEF c
    <3> QED  BY <2>1, <2>2, WriteKeepsMarked, Zenon
  <2>4. /\ tx' = [tx EXCEPT ![s] = r.ctx] /\ saves' = saves
        /\ dirty' = IF r.ok THEN [dirty EXCEPT ![s] = @ \cup Dirtied(w)] ELSE dirty
    BY <1>8, Zenon DEF runWrite
  <2> HIDE DEF r
  <2>5. /\ Shape /\ Others(s) /\ tx'[s] = r.ctx /\ saves'[s] = saves[s]
        /\ dirty'[s] = IF r.ok THEN dirty[s] \cup Dirtied(w) ELSE dirty[s]
    BY <2>4, Zenon DEF DirtyInv, Others
  <2>6. Ok(s)
    BY <2>3, <2>5, Zenon DEF DirtyInv
  <2> QED  BY <1>a, <2>5, <2>6, Zenon
<1>9. ASSUME UNCHANGED <<tx, dirty, saves>> PROVE DirtyInv'
  BY <1>9, Zenon DEF DirtyInv
<1>10. ASSUME NEW s \in Writers, runFlush(s) PROVE DirtyInv'
  <2>1. CASE UNCHANGED <<tx, saves>>
    BY <1>9, <1>10, <2>1, Zenon DEF runFlush
  <2>2. CASE Flush(work[s].ctx, tx, saves, [work EXCEPT ![s] = NoWork])
    <3>1. dirty' = dirty
      BY <1>10, Zenon DEF runFlush
    <3> QED  BY <2>2, <3>1, FlushMarked, ZenonT(60) DEF DirtyInv
  <2> QED  BY <1>10, <2>1, <2>2, Zenon DEF runFlush
<1>11. CASE UNCHANGED rowVars
  BY <1>9, <1>11, Zenon DEF rowVars
<1>12. ASSUME NEW s \in Writers, NEW w, autoWrite(s, w) PROVE DirtyInv'
  BY <1>9, <1>12, Zenon DEF autoWrite
<1>13. ASSUME NEW s \in Writers, NEW u, startCreateIndex(s, u) PROVE DirtyInv'
  BY <1>9, <1>13, Zenon DEF startCreateIndex
<1>14. ASSUME NEW s \in Writers, startDropIndex(s) \/ runBody(s) PROVE DirtyInv'
  BY <1>9, <1>14, Zenon DEF startDropIndex, runBody
<1> QED
  BY <1>1, <1>2, <1>3, <1>4, <1>5, <1>6, <1>7, <1>8, <1>10, <1>11, <1>12, <1>13, <1>14,
     Zenon
  DEF RowsNext

(* A full scan in a transaction yields exactly the rows of its view, for   *)
(* any number of sessions, rows, statements and savepoints: filterFullScan *)
(* visits every row the transaction has changed because markRowDirty and   *)
(* the savepoints keep the dirty rows in step with the Context's effects.  *)
THEOREM ScansAreExact == RowsSpec => []ScansSeeOwnWrites
<1>1. DirtyInv => ScansSeeOwnWrites
  <2> SUFFICES ASSUME DirtyInv, NEW s \in Writers
               PROVE  filterFullScan(s) = {p \in PKs : Exists(RowIn(tx[s], p))}
    BY Zenon DEF ScansSeeOwnWrites
  <2>1. dirty[s] \subseteq PKs
    BY Zenon DEF DirtyInv, Marked
  <2>2. ASSUME NEW p \in PKs, Exists(RowIn(tx[s], p)) PROVE Exists(rows[p]) \/ p \in dirty[s]
    <3>1. CASE tx[s].row[p] = Keep
      BY <2>2, <3>1 DEF RowIn, Keep, Exists
    <3>2. CASE tx[s].row[p] = Gone
      <4>1. tx[s].row[p].here = "gone" /\ tx[s].row[p].v = Null
        BY <3>2 DEF Gone
      <4>2. RowIn(tx[s], p).v = Null
        BY <4>1 DEF RowIn, Null, Unchanged
      <4>3. ~RowIn(tx[s], p).here
        BY <4>1, Zenon DEF RowIn
      <4> QED  BY <2>2, <4>2, <4>3, Zenon DEF Exists
    <3> QED  BY <3>1, <3>2, Zenon DEF DirtyInv, Marked
  <2> QED  BY <2>1, <2>2, Zenon DEF filterFullScan
<1> QED  BY <1>1, InitDirty, NextDirty, PTL DEF RowsSpec

FreshFrames(R, N, L, Q, S, f) == \A i \in DOMAIN f : Fresh(R, N, L, Q, S, f[i].ctx)

\* The row write or DDL of a session: what its body will do, and the Context
\* that it has left to be flushed.
Job(j) == \/ j.at = "none"
          \/ j.write.op = "create" /\ j.id \in Nat \ {0} /\ j.unique \in BOOLEAN
          \/ j.write.op = "drop"
          \/ IsWrite(j.write) /\ CarriesValue(j.write)
IsWork(j) == /\ j = [f \in {"at", "write", "id", "unique", "tries", "ctx"} |-> j[f]]
             /\ IsContext(j.ctx) /\ Job(j)
FreshWork(R, N, L, Q, S, j) ==
    IsWork(j) /\ (~j.ctx.stale => WorkGood(R, N, L, Q, S, j.ctx))

(***************************************************************************)
(* The inductive invariant: the store is right, and so is over it every    *)
(* Context that may still commit.                                          *)
(***************************************************************************)
IndexInv ==
    /\ lastId \in Nat
    /\ StoreGood(rows, entries, lost, schema)
    /\ work = [s \in Writers |-> work[s]]
    /\ \A s \in Writers : /\ Fresh(rows, entries, lost, silent, schema, tx[s])
                          /\ FreshFrames(rows, entries, lost, silent, schema, saves[s])
                          /\ FreshWork(rows, entries, lost, silent, schema, work[s])

(* A Context with no effects and no reads is good.                         *)
LEMMA EmptyGood ==
    ASSUME NEW R, NEW N, NEW L, NEW Q, NEW S, StoreGood(R, N, L, S)
    PROVE  /\ IsContext(NewContext) /\ RowGood(R, N, L, Q, S, NewContext) /\ ~NewContext.stale
           /\ NewContext.open
           /\ IsContext(NoContext) /\ RowGood(R, N, L, Q, S, NoContext)
           /\ FreshWork(R, N, L, Q, S, NoWork)
<1>1. /\ IsContext(NewContext) /\ Blank(NewContext) /\ NewContext.seen = {} /\ NewContext.open
      /\ NewContext.sch = NoSchema /\ ~NewContext.stale
  BY Zenon DEF NewContext, IsContext, Fields, Blank
<1>2. /\ IsContext(NoContext) /\ Blank(NoContext) /\ NoContext.seen = {}
      /\ NoContext.sch = NoSchema
  BY <1>1, Zenon DEF NoContext, IsContext, Fields, Blank
<1>3. ASSUME NEW c, Blank(c), c.seen = {}, c.sch = NoSchema PROVE RowGood(R, N, L, Q, S, c)
  <2>1. Indexed(R, N, L, S, c, {})
    BY <1>3, BlankIndexed, Zenon DEF StoreGood
  <2>2. Typed(c)
    BY <1>3 DEF Typed, IsEffect, Blank, Keep
  <2>3. Told(c)
    BY <1>3, ValsAssumption DEF Told, ToldRow, Blank, Keep, Unchanged
  <2>4. Holds(R, Q, c)
    BY <1>3, Zenon DEF Holds
  <2> QED  BY <1>3, <2>1, <2>2, <2>3, <2>4, Zenon DEF RowGood
<1>4. RowGood(R, N, L, Q, S, NewContext) /\ RowGood(R, N, L, Q, S, NoContext)
  BY <1>1, <1>2, <1>3, Zenon
<1>5. IsWork(NoWork) /\ NoWork.ctx = NoContext
  <2>1. /\ NoWork = [f \in {"at", "write", "id", "unique", "tries", "ctx"} |-> NoWork[f]]
        /\ NoWork.at = "none" /\ NoWork.ctx = NoContext
    BY Zenon DEF NoWork
  <2> QED  BY <1>2, <2>1, Zenon DEF IsWork, Job
<1> QED  BY <1>1, <1>2, <1>4, <1>5, Zenon DEF FreshWork, WorkGood

(* What a session writes has a value for the column.                       *)
LEMMA WritesCarry ==
    ASSUME NEW s \in Writers, NEW plan, NEW w \in Writes(s, plan)
    PROVE  CarriesValue(w)
<1>1. CASE w \in Inserts
  BY <1>1 DEF Inserts, CarriesValue, Column
<1>2. ASSUME NEW p, w \in Updates(p) PROVE CarriesValue(w)
  BY <1>2 DEF Updates, CarriesValue, Column
<1>3. ASSUME NEW p, w \in Moves(p) PROVE CarriesValue(w)
  BY <1>3 DEF Moves, CarriesValue, Column
<1>4. ASSUME NEW p, w \in Deletes(p) PROVE CarriesValue(w)
  BY <1>4 DEF Deletes, CarriesValue, Column
<1>5. \/ w \in Inserts
      \/ \E p \in Scan(s, plan) : w \in Updates(p) \/ w \in Moves(p) \/ w \in Deletes(p)
  BY Zenon DEF Writes
<1> QED  BY <1>1, <1>2, <1>3, <1>4, <1>5, Zenon

(* The commit of a good Context leads to the invariant, whatever becomes   *)
(* of the Contexts it overtakes.                                           *)
LEMMA FlushIndex ==
    ASSUME NEW c, NEW txs, NEW frames, NEW jobs, Flush(c, txs, frames, jobs),
           StoreGood(rows, entries, lost, schema),
           WorkGood(rows, entries, lost, silent, schema, c), lastId' \in Nat,
           \A s \in Writers : /\ IsContext(txs[s]) /\ MarkedFrames(frames[s])
                              /\ Fresh(rows, entries, lost, silent, schema, txs[s])
                              /\ FreshFrames(rows, entries, lost, silent, schema, frames[s])
                              /\ FreshWork(rows, entries, lost, silent, schema, jobs[s])
    PROVE  IndexInv'
<1>1. /\ rows' = [p \in PKs |-> RowIn(c, p)]
      /\ entries' = EntriesIn(c)
      /\ lost' = (lost \cup c.lost) \ c.put
      /\ silent' = (silent \cup c.silent) \ Recorded(c)
      /\ schema' = IF c.sch = NoSchema THEN schema ELSE c.sch
      /\ tx' = [t \in Writers |-> Overtaken(c, txs[t])]
      /\ saves' = [t \in Writers |-> OvertakenFrames(c, frames[t])]
      /\ work' = [t \in Writers |-> [jobs[t] EXCEPT !.ctx = Overtaken(c, @)]]
  BY Zenon DEF Flush, OvertakenFrames
<1>2. \A p \in PKs : RowIn(c, p) = Shown(rows, c, p)
  BY Zenon DEF RowIn, Shown, Value
<1>3. After(rows, entries, lost, silent, schema, c, rows', entries', lost', silent', schema')
  BY <1>1, <1>2, Zenon DEF After, EntriesIn
<1>4. StoreGood(rows', entries', lost', schema')
  BY <1>3, FlushStore, Zenon
<1>5. ASSUME NEW x, IsContext(x)
      PROVE  /\ Fresh(rows, entries, lost, silent, schema, x)
                    => Fresh(rows', entries', lost', silent', schema', Overtaken(c, x))
             /\ (~x.stale => WorkGood(rows, entries, lost, silent, schema, x))
                    => (~Overtaken(c, x).stale =>
                           WorkGood(rows', entries', lost', silent', schema', Overtaken(c, x)))
  BY <1>3, <1>5, FlushFresh, Zenon
<1>6. ASSUME NEW s \in Writers
      PROVE  /\ Fresh(rows', entries', lost', silent', schema', tx'[s])
             /\ FreshFrames(rows', entries', lost', silent', schema', saves'[s])
             /\ FreshWork(rows', entries', lost', silent', schema', work'[s])
  <2>1. Fresh(rows', entries', lost', silent', schema', tx'[s])
    BY <1>1, <1>5, Zenon
  <2>2. FreshFrames(rows', entries', lost', silent', schema', saves'[s])
    <3> DEFINE f == frames[s]
    <3>1. saves'[s] = OvertakenFrames(c, f) /\ DOMAIN OvertakenFrames(c, f) = DOMAIN f
      BY <1>1, Zenon DEF OvertakenFrames
    <3>2. ASSUME NEW i \in DOMAIN f
          PROVE  Fresh(rows', entries', lost', silent', schema', OvertakenFrames(c, f)[i].ctx)
      <4>1. IsFrame(f[i]) /\ IsContext(f[i].ctx)
        BY Zenon DEF MarkedFrames, Marked
      <4>2. OvertakenFrames(c, f)[i].ctx = Overtaken(c, f[i].ctx)
        BY <4>1, Zenon DEF OvertakenFrames, IsFrame
      <4>3. Fresh(rows, entries, lost, silent, schema, f[i].ctx)
        BY Zenon DEF FreshFrames
      <4> QED  BY <1>5, <4>1, <4>2, <4>3, Zenon
    <3> QED  BY <3>1, <3>2, Zenon DEF FreshFrames
  <2>3. FreshWork(rows', entries', lost', silent', schema', work'[s])
    <3> DEFINE j == jobs[s]
               k == [j EXCEPT !.ctx = Overtaken(c, @)]
    <3>1. IsWork(j) /\ (~j.ctx.stale => WorkGood(rows, entries, lost, silent, schema, j.ctx))
      BY Zenon DEF FreshWork
    <3>2. /\ k = [f \in {"at", "write", "id", "unique", "tries", "ctx"} |-> k[f]]
          /\ k.at = j.at /\ k.write = j.write /\ k.id = j.id /\ k.unique = j.unique
          /\ k.ctx = Overtaken(c, j.ctx)
      BY <3>1, Zenon DEF IsWork
    <3>3. work'[s] = k /\ IsContext(j.ctx)
      BY <1>1, <3>1, Zenon DEF IsWork
    <3> HIDE DEF j, k
    <3>4. IsContext(Overtaken(c, j.ctx))
      BY <3>3, OvertakenFields, Zenon DEF Copy
    <3>5. IsWork(k)
      BY <3>1, <3>2, <3>4, Zenon DEF IsWork, Job
    <3> QED  BY <1>5, <3>1, <3>2, <3>3, <3>5, Zenon DEF FreshWork
  <2> QED  BY <2>1, <2>2, <2>3, Zenon
<1>7. work' = [s \in Writers |-> work'[s]]
  BY <1>1, Zenon
<1> QED  BY <1>4, <1>6, <1>7, Zenon DEF IndexInv

(* The store that a scenario starts from satisfies the invariant.          *)
LEMMA InitIndex == RowsInit => IndexInv
<1> SUFFICES ASSUME RowsInit PROVE IndexInv
  BY Zenon
<1> DEFINE x == scenario
<1>1. /\ x \in Scenarios /\ schema = x.schema
      /\ \A p \in PKs :
            rows[p] = IF p \in DOMAIN x.rows THEN [here |-> TRUE, v |-> x.rows[p]] ELSE NoRow
      /\ entries = {e \in Ids \X Vals \X PKs : e[1] = schema.id /\ rows[e[3]].v = e[2]}
      /\ lost = {} /\ lastId = schema.id
      /\ \A s \in Writers : tx[s] = NoContext /\ saves[s] = <<>> /\ work[s] = NoWork
      /\ work = [s \in Writers |-> NoWork]
  BY Zenon DEF RowsInit
<1>2. /\ schema.id \in {0} \cup Ids
      /\ schema.unique \in (IF schema.id = 0 THEN {FALSE} ELSE BOOLEAN)
      /\ \A p \in DOMAIN x.rows : x.rows[p] \in Column
      /\ schema.unique => \A p, q \in DOMAIN x.rows :
                              x.rows[p] = x.rows[q] /\ x.rows[p] # Null => p = q
      /\ MaxIds \in Nat
  BY <1>1, ScenariosAssumption, Zenon DEF Column
<1> HIDE DEF x
<1>3. schema.id \in Nat
  BY <1>2 DEF Ids
<1>4. ASSUME NEW p \in PKs
      PROVE  /\ rows[p] = [here |-> rows[p].here, v |-> rows[p].v]
             /\ rows[p].here \in BOOLEAN /\ rows[p].v \in Column
             /\ rows[p].v # Null => p \in DOMAIN x.rows /\ rows[p].v = x.rows[p]
  <2>1. CASE p \in DOMAIN x.rows
    <3>1. rows[p] = [here |-> TRUE, v |-> x.rows[p]]
      BY <1>1, <2>1, Zenon
    <3>2. rows[p].here = TRUE /\ rows[p].v = x.rows[p]
      BY <3>1
    <3> QED  BY <1>2, <2>1, <3>1, <3>2
  <2>2. CASE p \notin DOMAIN x.rows
    <3>1. rows[p] = [here |-> FALSE, v |-> Null]
      BY <1>1, <2>2, Zenon DEF NoRow
    <3>2. rows[p].here = FALSE /\ rows[p].v = Null
      BY <3>1
    <3> QED  BY <3>1, <3>2 DEF Column
  <2> QED  BY <2>1, <2>2, Zenon
<1>5. StoreTyped(rows, schema)
  BY <1>2, <1>3, <1>4, Zenon DEF StoreTyped
<1>6. \A v \in Vals : v # Null
  BY ValsAssumption DEF Null
<1>7. ASSUME schema.id # 0, NEW p \in PKs, NEW v \in Vals, rows[p].v = v
      PROVE  <<schema.id, v, p>> \in entries
  BY <1>1, <1>2, <1>7
<1>8. ASSUME schema.unique, NEW p \in PKs, NEW q \in PKs, NEW v \in Vals,
             rows[p].v = v, rows[q].v = v
      PROVE  p = q
  <2>1. v # Null
    BY <1>6, Zenon
  <2>2. /\ p \in DOMAIN x.rows /\ x.rows[p] = v
        /\ q \in DOMAIN x.rows /\ x.rows[q] = v
    BY <1>4, <1>8, <2>1, ZenonT(60)
  <2> QED  BY <1>2, <1>8, <2>1, <2>2, Zenon
<1>9. StoreGood(rows, entries, lost, schema)
  BY <1>5, <1>7, <1>8, Zenon DEF StoreGood, Stored
<1>10. FreshFrames(rows, entries, lost, silent, schema, <<>>)
  BY DEF FreshFrames
<1>11. /\ Fresh(rows, entries, lost, silent, schema, NoContext)
       /\ FreshWork(rows, entries, lost, silent, schema, NoWork)
  BY <1>9, EmptyGood, Zenon DEF Fresh
<1> QED  BY <1>1, <1>3, <1>9, <1>10, <1>11, Zenon DEF IndexInv

(* A body of runRMW that succeeds leaves a Context fit to be flushed.      *)
LEMMA BodyIndex ==
    ASSUME IndexInv, NEW s \in Writers, runBody(s)
    PROVE  FreshWork(rows, entries, lost, silent, schema, work'[s])
<1> DEFINE j == work[s]
           r == CASE j.write.op = "create" -> createIndexEffects(NewContext, j.id, j.unique)
                  [] j.write.op = "drop"   -> dropIndexEffects(NewContext, j.id)
                  [] OTHER                 -> Write(NewContext, j.write)
           k == [j EXCEPT !.at = "flush", !.ctx = r.ctx]
<1>1. IsWork(j) /\ StoreGood(rows, entries, lost, schema)
  BY Zenon DEF IndexInv, FreshWork
<1>2. j.at = "body" /\ work'[s] = IF r.ok THEN k ELSE NoWork
  BY Zenon DEF runBody, IndexInv
<1>3. /\ FreshWork(rows, entries, lost, silent, schema, NoWork)
      /\ IsContext(NewContext) /\ NewContext.open
      /\ Fresh(rows, entries, lost, silent, schema, NewContext)
  BY <1>1, EmptyGood, Zenon DEF Fresh
<1>4. ASSUME r.ok
      PROVE  /\ IsContext(r.ctx)
             /\ ~r.ctx.stale => WorkGood(rows, entries, lost, silent, schema, r.ctx)
  <2>1. CASE j.write.op = "create" /\ j.id \in Nat \ {0} /\ j.unique \in BOOLEAN
    <3>1. r = createIndexEffects(NewContext, j.id, j.unique)
      BY <2>1, Zenon
    <3> HIDE DEF r
    <3>2. IsContext(r.ctx) /\ DDLGood(rows, r.ctx)
      BY <1>1, <1>4, <2>1, <3>1, CreateGood, Zenon
    <3> QED  BY <3>2, Zenon DEF WorkGood
  <2>2. CASE j.write.op = "drop"
    <3>1. r = dropIndexEffects(NewContext, j.id)
      BY <2>2
    <3> HIDE DEF r
    <3>2. IsContext(r.ctx) /\ DDLGood(rows, r.ctx)
      BY <1>1, <3>1, DropGood, Zenon
    <3> QED  BY <3>2, Zenon DEF WorkGood
  <2>3. CASE IsWrite(j.write) /\ CarriesValue(j.write)
    <3>1. j.write.op # "create" /\ j.write.op # "drop"
      BY <2>3 DEF IsWrite
    <3>2. r = Write(NewContext, j.write)
      BY <3>1
    <3> HIDE DEF r, j
    <3>3. IsContext(r.ctx) /\ Fresh(rows, entries, lost, silent, schema, r.ctx)
      BY <1>1, <1>3, <2>3, <3>2, WriteGood, Zenon
    <3> QED  BY <3>3, Zenon DEF WorkGood, Fresh
  <2>4. j.at # "none"
    BY <1>2
  <2> QED  BY <1>1, <2>1, <2>2, <2>3, <2>4, Zenon DEF IsWork, Job
<1> HIDE DEF r
<1>5. ASSUME r.ok PROVE FreshWork(rows, entries, lost, silent, schema, k)
  <2>1. /\ k = [f \in {"at", "write", "id", "unique", "tries", "ctx"} |-> k[f]]
        /\ k.write = j.write /\ k.id = j.id /\ k.unique = j.unique /\ k.ctx = r.ctx
    BY <1>1, Zenon DEF IsWork
  <2>2. j.at # "none"
    BY <1>2
  <2> HIDE DEF k, j
  <2>3. IsWork(k)
    BY <1>1, <1>4, <1>5, <2>1, <2>2, Zenon DEF IsWork, Job
  <2> QED  BY <1>4, <1>5, <2>1, <2>3, Zenon DEF FreshWork
<1> QED  BY <1>2, <1>3, <1>5, Zenon

\* The parts of the invariant about one session, over the store as it is.
Own(c, f, j) == /\ Fresh(rows, entries, lost, silent, schema, c)
                /\ FreshFrames(rows, entries, lost, silent, schema, f)
                /\ FreshWork(rows, entries, lost, silent, schema, j)

(* A session that does not commit changes its own Contexts alone.          *)
LEMMA StepIndex ==
    ASSUME IndexInv, NEW s \in Writers, UNCHANGED data, lastId' \in Nat,
           work' = [t \in Writers |-> work'[t]],
           \A t \in Writers \ {s} : tx'[t] = tx[t] /\ saves'[t] = saves[t] /\ work'[t] = work[t],
           Own(tx'[s], saves'[s], work'[s])
    PROVE  IndexInv'
<1>1. /\ rows' = rows /\ entries' = entries /\ lost' = lost /\ silent' = silent /\ schema' = schema
  BY Zenon DEF data
<1>2. \A t \in Writers : Own(tx'[t], saves'[t], work'[t])
  BY Zenon DEF IndexInv, Own
<1>3. \A t \in Writers : /\ Fresh(rows', entries', lost', silent', schema', tx'[t])
                         /\ FreshFrames(rows', entries', lost', silent', schema', saves'[t])
                         /\ FreshWork(rows', entries', lost', silent', schema', work'[t])
  BY <1>1, <1>2, Zenon DEF Own
<1>4. StoreGood(rows', entries', lost', schema')
  BY <1>1, Zenon DEF IndexInv
<1> QED  BY <1>3, <1>4, Zenon DEF IndexInv

(* The frames that a session keeps, and the one it adds.                   *)
LEMMA FramesIndex ==
    ASSUME NEW R, NEW N, NEW L, NEW Q, NEW S, NEW f, MarkedFrames(f), FreshFrames(R, N, L, Q, S, f)
    PROVE  /\ \A i \in DOMAIN f : /\ FreshFrames(R, N, L, Q, S, SubSeq(f, 1, i - 1))
                                  /\ FreshFrames(R, N, L, Q, S, SubSeq(f, 1, i))
           /\ \A g : Fresh(R, N, L, Q, S, g.ctx) => FreshFrames(R, N, L, Q, S, Append(f, g))
<1>1. PICK m \in Nat : DOMAIN f = 1 .. m
  BY Zenon DEF MarkedFrames
<1>2. ASSUME NEW n \in Nat, n <= m PROVE FreshFrames(R, N, L, Q, S, SubSeq(f, 1, n))
  <2>1. SubSeq(f, 1, n) = [i \in 1 .. n |-> f[i]]
    BY SMT
  <2>2. \A i \in 1 .. n : i \in DOMAIN f
    BY <1>1, <1>2
  <2> QED  BY <2>1, <2>2, Zenon DEF FreshFrames
<1>3. ASSUME NEW i \in DOMAIN f PROVE i \in Nat /\ i - 1 \in Nat /\ i <= m /\ i - 1 <= m
  BY <1>1
<1>4. ASSUME NEW g, Fresh(R, N, L, Q, S, g.ctx) PROVE FreshFrames(R, N, L, Q, S, Append(f, g))
  <2> DEFINE T == {f[i] : i \in DOMAIN f} \cup {g}
  <2>1. f \in Seq(T) /\ Len(f) = m /\ g \in T
    BY <1>1 DEF MarkedFrames
  <2> HIDE DEF T
  <2>2. /\ DOMAIN Append(f, g) = 1 .. m + 1
        /\ \A i \in 1 .. m : Append(f, g)[i] = f[i]
        /\ Append(f, g)[m + 1] = g
    BY <2>1
  <2>3. \A i \in 1 .. m + 1 : i = m + 1 \/ i \in DOMAIN f
    BY <1>1
  <2>4. \A i \in DOMAIN f : Append(f, g)[i] = f[i]
    BY <1>1, <2>2, Zenon
  <2> QED  BY <1>4, <2>2, <2>3, <2>4, Zenon DEF FreshFrames
<1> QED  BY <1>2, <1>3, <1>4, Zenon

(* Each step keeps the store right and the Contexts that may commit.       *)
LEMMA NextIndex == DirtyInv /\ IndexInv /\ [RowsNext]_rowVars => IndexInv'
<1> SUFFICES ASSUME DirtyInv, IndexInv, [RowsNext]_rowVars PROVE IndexInv'
  BY Zenon
<1>a. /\ StoreGood(rows, entries, lost, schema) /\ lastId \in Nat
      /\ \A s \in Writers : /\ IsContext(tx[s]) /\ MarkedFrames(saves[s])
                            /\ Own(tx[s], saves[s], work[s])
  BY Zenon DEF DirtyInv, Marked, IndexInv, Own
<1>b. /\ IsContext(NewContext) /\ IsContext(NoContext)
      /\ Fresh(rows, entries, lost, silent, schema, NewContext)
      /\ Fresh(rows, entries, lost, silent, schema, NoContext)
      /\ FreshWork(rows, entries, lost, silent, schema, NoWork)
  BY <1>a, EmptyGood, Zenon DEF Fresh
<1>c. FreshFrames(rows, entries, lost, silent, schema, <<>>)
  BY DEF FreshFrames
<1>d. /\ tx = [s \in Writers |-> tx[s]] /\ saves = [s \in Writers |-> saves[s]]
      /\ work = [s \in Writers |-> work[s]]
  BY Zenon DEF DirtyInv, IndexInv
<1>1. ASSUME NEW s \in Writers, handleBegin(s) PROVE IndexInv'
  <2>1. /\ UNCHANGED data /\ lastId' = lastId /\ saves' = saves /\ work' = work
        /\ tx' = [tx EXCEPT ![s] = NewContext]
    BY <1>1, Zenon DEF handleBegin
  <2>2. tx'[s] = NewContext /\ \A t \in Writers \ {s} : tx'[t] = tx[t]
    BY <1>d, <2>1, Zenon
  <2>3. Own(tx'[s], saves'[s], work'[s])
    BY <1>a, <1>b, <2>1, <2>2, Zenon DEF Own
  <2> QED  BY <1>a, <1>d, <2>1, <2>2, <2>3, StepIndex, Zenon
<1>2. ASSUME NEW s \in Writers, handleCommit(s) PROVE IndexInv'
  <2> DEFINE txs    == [tx EXCEPT ![s] = NoContext]
             frames == [saves EXCEPT ![s] = <<>>]
  <2>1. lastId' = lastId
    BY <1>2, Zenon DEF handleCommit, clearTxState
  <2>2. /\ txs[s] = NoContext /\ frames[s] = <<>>
        /\ \A t \in Writers \ {s} : txs[t] = tx[t] /\ frames[t] = saves[t]
    BY <1>d, Zenon
  <2>3. CASE tx[s].stale
    <3>1. UNCHANGED data /\ work' = work /\ tx' = txs /\ saves' = frames
      BY <1>2, <2>3, Zenon DEF handleCommit
    <3> HIDE DEF txs, frames
    <3>2. Own(tx'[s], saves'[s], work'[s])
      BY <1>a, <1>b, <1>c, <2>2, <3>1, Zenon DEF Own
    <3> QED  BY <1>a, <1>d, <2>1, <2>2, <3>1, <3>2, StepIndex, Zenon
  <2>4. CASE ~tx[s].stale
    <3>1. Flush(tx[s], txs, frames, work)
      BY <1>2, <2>4, Zenon DEF handleCommit
    <3> HIDE DEF txs, frames
    <3>2. WorkGood(rows, entries, lost, silent, schema, tx[s])
      BY <1>a, <2>4, Zenon DEF Own, Fresh, WorkGood
    <3>3. \A t \in Writers : /\ IsContext(txs[t]) /\ MarkedFrames(frames[t])
                             /\ Fresh(rows, entries, lost, silent, schema, txs[t])
                             /\ FreshFrames(rows, entries, lost, silent, schema, frames[t])
                             /\ FreshWork(rows, entries, lost, silent, schema, work[t])
      BY <1>a, <1>b, <1>c, <2>2, EmptyMarked, Zenon DEF Own
    <3> QED  BY <1>a, <2>1, <3>1, <3>2, <3>3, FlushIndex, Zenon
  <2> QED  BY <2>3, <2>4, Zenon
<1>3. ASSUME NEW s \in Writers, handleRollback(s) PROVE IndexInv'
  <2>1. /\ UNCHANGED data /\ lastId' = lastId /\ work' = work
        /\ tx' = [tx EXCEPT ![s] = NoContext] /\ saves' = [saves EXCEPT ![s] = <<>>]
    BY <1>3, Zenon DEF handleRollback, clearTxState
  <2>2. /\ tx'[s] = NoContext /\ saves'[s] = <<>>
        /\ \A t \in Writers \ {s} : tx'[t] = tx[t] /\ saves'[t] = saves[t]
    BY <1>d, <2>1, Zenon
  <2>3. Own(tx'[s], saves'[s], work'[s])
    BY <1>a, <1>b, <1>c, <2>1, <2>2, Zenon DEF Own
  <2> QED  BY <1>a, <1>d, <2>1, <2>2, <2>3, StepIndex, Zenon
<1>4. ASSUME NEW s \in Writers, NEW n \in Savepoints, handleSavepoint(s, n) PROVE IndexInv'
  <2> DEFINE g == [name |-> n, ctx |-> tx[s], dirty |-> dirty[s]]
  <2>1. g.ctx = tx[s]
    BY Zenon
  <2>2. /\ UNCHANGED data /\ lastId' = lastId /\ work' = work /\ tx' = tx
        /\ saves' = [saves EXCEPT ![s] = Append(@, g)]
    BY <1>4, Zenon DEF handleSavepoint
  <2> HIDE DEF g
  <2>3. saves'[s] = Append(saves[s], g) /\ \A t \in Writers \ {s} : saves'[t] = saves[t]
    BY <1>d, <2>2, Zenon
  <2>4. Fresh(rows, entries, lost, silent, schema, g.ctx)
    BY <1>a, <2>1, Zenon DEF Own
  <2>5. FreshFrames(rows, entries, lost, silent, schema, saves'[s])
    BY <1>a, <2>3, <2>4, FramesIndex, Zenon DEF Own
  <2>6. Own(tx'[s], saves'[s], work'[s])
    BY <1>a, <2>2, <2>5, Zenon DEF Own
  <2> QED  BY <1>a, <1>d, <2>2, <2>3, <2>6, StepIndex, Zenon
<1>5. ASSUME NEW s \in Writers, NEW n \in Savepoints, handleReleaseSavepoint(s, n)
      PROVE  IndexInv'
  <2>1. PICK i \in DOMAIN saves[s] : saves' = [saves EXCEPT ![s] = SubSeq(@, 1, i - 1)]
    BY <1>5, Zenon DEF handleReleaseSavepoint, findSavepoint
  <2>2. /\ UNCHANGED data /\ lastId' = lastId /\ work' = work /\ tx' = tx
    BY <1>5, Zenon DEF handleReleaseSavepoint
  <2>3. saves'[s] = SubSeq(saves[s], 1, i - 1) /\ \A t \in Writers \ {s} : saves'[t] = saves[t]
    BY <1>d, <2>1, Zenon
  <2>4. FreshFrames(rows, entries, lost, silent, schema, saves'[s])
    BY <1>a, <2>3, FramesIndex, Zenon DEF Own
  <2>5. Own(tx'[s], saves'[s], work'[s])
    BY <1>a, <2>2, <2>4, Zenon DEF Own
  <2> QED  BY <1>a, <1>d, <2>2, <2>3, <2>5, StepIndex, Zenon
<1>6. ASSUME NEW s \in Writers, NEW n \in Savepoints, handleRollbackTo(s, n)
      PROVE  IndexInv'
  <2>1. PICK i \in DOMAIN saves[s] : rollbackToSavepoint(s, i)
    BY <1>6, Zenon DEF handleRollbackTo, findSavepoint
  <2>2. /\ UNCHANGED data /\ lastId' = lastId /\ work' = work
    BY <1>6, Zenon DEF handleRollbackTo
  <2>3. /\ tx'[s] = saves[s][i].ctx /\ saves'[s] = SubSeq(saves[s], 1, i)
        /\ \A t \in Writers \ {s} : tx'[t] = tx[t] /\ saves'[t] = saves[t]
    BY <1>d, <2>1, Zenon DEF rollbackToSavepoint
  <2>4. FreshFrames(rows, entries, lost, silent, schema, saves'[s])
    BY <1>a, <2>3, FramesIndex, Zenon DEF Own
  <2>5. Fresh(rows, entries, lost, silent, schema, tx'[s])
    BY <1>a, <2>3, Zenon DEF Own, FreshFrames
  <2>6. Own(tx'[s], saves'[s], work'[s])
    BY <1>a, <2>2, <2>4, <2>5, Zenon DEF Own
  <2> QED  BY <1>a, <1>d, <2>2, <2>3, <2>6, StepIndex, Zenon
<1>7. ASSUME NEW s \in Writers, NEW plan \in Plans, Filter(s, plan) PROVE IndexInv'
  <2>1. /\ UNCHANGED data /\ lastId' = lastId /\ saves' = saves /\ work' = work
        /\ tx' = [tx EXCEPT ![s] = Observe(@, plan)]
    BY <1>7, Zenon DEF Filter
  <2>2. tx'[s] = Observe(tx[s], plan) /\ \A t \in Writers \ {s} : tx'[t] = tx[t]
    BY <1>d, <2>1, Zenon
  <2>3. Fresh(rows, entries, lost, silent, schema, tx[s])
    BY <1>a, Zenon DEF Own
  <2>4. Fresh(rows, entries, lost, silent, schema, tx'[s])
    BY <1>a, <2>2, <2>3, ObserveGood, Zenon
  <2>5. Own(tx'[s], saves'[s], work'[s])
    BY <1>a, <2>1, <2>4, Zenon DEF Own
  <2> QED  BY <1>a, <1>d, <2>1, <2>2, <2>5, StepIndex, Zenon
<1>8. ASSUME NEW s \in Writers, NEW plan \in Plans, NEW w \in Writes(s, plan),
             runWrite(s, plan, w)
      PROVE  IndexInv'
  <2> DEFINE c == IF w.op = "insert" THEN tx[s] ELSE Observe(tx[s], plan)
             r == Write(c, w)
  <2>1. /\ UNCHANGED data /\ lastId' = lastId /\ saves' = saves /\ work' = work
        /\ tx' = [tx EXCEPT ![s] = r.ctx] /\ tx[s].open
    BY <1>8, Zenon DEF runWrite
  <2>2. IsWrite(w) /\ CarriesValue(w)
    BY WritesTyped, WritesCarry, Zenon
  <2>3. Fresh(rows, entries, lost, silent, schema, tx[s])
    BY <1>a, Zenon DEF Own
  <2>4. IsContext(c) /\ c.open /\ Fresh(rows, entries, lost, silent, schema, c)
    BY <1>a, <2>1, <2>3, ObserveGood, Zenon
  <2> HIDE DEF c
  <2>5. Fresh(rows, entries, lost, silent, schema, r.ctx)
    BY <1>a, <2>2, <2>4, WriteGood, Zenon
  <2> HIDE DEF r
  <2>6. tx'[s] = r.ctx /\ \A t \in Writers \ {s} : tx'[t] = tx[t]
    BY <1>d, <2>1, Zenon
  <2>7. Own(tx'[s], saves'[s], work'[s])
    BY <1>a, <2>1, <2>5, <2>6, Zenon DEF Own
  <2> QED  BY <1>a, <1>d, <2>1, <2>6, <2>7, StepIndex, Zenon
<1>e. ASSUME NEW s \in Writers, NEW j, FreshWork(rows, entries, lost, silent, schema, j),
             work' = [work EXCEPT ![s] = j], UNCHANGED <<data, tx, saves>>, lastId' \in Nat
      PROVE  IndexInv'
  <2>1. /\ work'[s] = j /\ work' = [t \in Writers |-> work'[t]]
        /\ \A t \in Writers \ {s} : work'[t] = work[t]
    BY <1>d, <1>e, Zenon
  <2>2. Own(tx'[s], saves'[s], work'[s])
    BY <1>a, <1>e, <2>1, Zenon DEF Own
  <2> QED  BY <1>e, <2>1, <2>2, StepIndex, Zenon
<1>f. ASSUME NEW j, j = [f \in {"at", "write", "id", "unique", "tries", "ctx"} |-> j[f]],
             j.ctx = NoContext, Job(j)
      PROVE  FreshWork(rows, entries, lost, silent, schema, j)
  BY <1>b, <1>f, Zenon DEF FreshWork, IsWork, WorkGood, Fresh
<1>9. ASSUME NEW s \in Writers, NEW w \in Writes(s, FullScan), autoWrite(s, w) PROVE IndexInv'
  <2> DEFINE j == [NoWork EXCEPT !.at = "body", !.write = w]
  <2>1. /\ j = [f \in {"at", "write", "id", "unique", "tries", "ctx"} |-> j[f]]
        /\ j.ctx = NoContext /\ j.write = w
    BY Zenon DEF NoWork
  <2>2. IsWrite(w)
    <3>1. Scan(s, FullScan) \subseteq PKs
      BY DEF DirtyInv, Marked, FullScan, Scan, filterFullScan
    <3> QED  BY <3>1, WritesFound, Zenon
  <2>3. CarriesValue(w)
    BY WritesCarry, Zenon
  <2>4. work' = [work EXCEPT ![s] = j] /\ UNCHANGED <<data, tx, saves>> /\ lastId' = lastId
    BY <1>9, Zenon DEF autoWrite
  <2> HIDE DEF j
  <2>5. FreshWork(rows, entries, lost, silent, schema, j)
    BY <1>f, <2>1, <2>2, <2>3, Zenon DEF Job
  <2> QED  BY <1>a, <1>e, <2>4, <2>5, Zenon
<1>10. ASSUME NEW s \in Writers, NEW u \in BOOLEAN, startCreateIndex(s, u) PROVE IndexInv'
  <2> DEFINE j == [NoWork EXCEPT !.at = "body", !.write.op = "create",
                                 !.id = lastId + 1, !.unique = u]
  <2>1. /\ j = [f \in {"at", "write", "id", "unique", "tries", "ctx"} |-> j[f]]
        /\ j.ctx = NoContext /\ j.write.op = "create" /\ j.id = lastId + 1 /\ j.unique = u
    BY ZenonT(60) DEF NoWork, NoWrite
  <2>2. work' = [work EXCEPT ![s] = j] /\ UNCHANGED <<data, tx, saves>> /\ lastId' = lastId + 1
    BY <1>10, Zenon DEF startCreateIndex
  <2> HIDE DEF j
  <2>3. lastId + 1 \in Nat \ {0}
    BY <1>a
  <2>4. FreshWork(rows, entries, lost, silent, schema, j)
    BY <1>f, <2>1, <2>3, Zenon DEF Job
  <2> QED  BY <1>e, <2>2, <2>3, <2>4, Zenon
<1>11. ASSUME NEW s \in Writers, startDropIndex(s) PROVE IndexInv'
  <2> DEFINE j == [NoWork EXCEPT !.at = "body", !.write.op = "drop", !.id = schema.id]
  <2>1. /\ j = [f \in {"at", "write", "id", "unique", "tries", "ctx"} |-> j[f]]
        /\ j.ctx = NoContext /\ j.write.op = "drop"
    BY ZenonT(60) DEF NoWork, NoWrite
  <2>2. work' = [work EXCEPT ![s] = j] /\ UNCHANGED <<data, tx, saves>> /\ lastId' = lastId
    BY <1>11, Zenon DEF startDropIndex
  <2> HIDE DEF j
  <2>3. FreshWork(rows, entries, lost, silent, schema, j)
    BY <1>f, <2>1, Zenon DEF Job
  <2> QED  BY <1>a, <1>e, <2>2, <2>3, Zenon
<1>12. ASSUME NEW s \in Writers, runBody(s) PROVE IndexInv'
  <2>1. FreshWork(rows, entries, lost, silent, schema, work'[s])
    BY <1>12, BodyIndex, Zenon
  <2>2. UNCHANGED <<data, tx, saves>> /\ lastId' = lastId /\ \E j : work' = [work EXCEPT ![s] = j]
    BY <1>12, Zenon DEF runBody
  <2>3. work' = [work EXCEPT ![s] = work'[s]]
    BY <1>d, <2>2, Zenon
  <2> QED  BY <1>a, <1>e, <2>1, <2>2, <2>3, Zenon
<1>13. ASSUME NEW s \in Writers, runFlush(s) PROVE IndexInv'
  <2> DEFINE w == work[s]
             k == [w EXCEPT !.at = "body", !.tries = w.tries + 1, !.ctx = NoContext]
             j == IF w.tries + 1 < MaxRetries THEN k ELSE NoWork
  <2>1. w.at = "flush" /\ lastId' = lastId /\ IsWork(w)
    BY <1>a, <1>13, Zenon DEF runFlush, Own, FreshWork
  <2>2. CASE w.ctx.stale
    <3>1. /\ k = [f \in {"at", "write", "id", "unique", "tries", "ctx"} |-> k[f]]
          /\ k.ctx = NoContext /\ k.write = w.write /\ k.id = w.id /\ k.unique = w.unique
      BY <2>1, Zenon DEF IsWork
    <3>2. work' = [work EXCEPT ![s] = j] /\ UNCHANGED <<data, tx, saves>>
      BY <1>13, <2>2, Zenon DEF runFlush
    <3>3. w.at # "none"
      BY <2>1
    <3>4. Job(k)
      <4> HIDE DEF k, w
      <4> QED  BY <2>1, <3>1, <3>3, Zenon DEF IsWork, Job
    <3>5. FreshWork(rows, entries, lost, silent, schema, k)
      <4> HIDE DEF k
      <4> QED  BY <1>f, <3>1, <3>4, Zenon
    <3>6. FreshWork(rows, entries, lost, silent, schema, j)
      <4> HIDE DEF k
      <4> QED  BY <1>b, <3>5, Zenon
    <3> HIDE DEF j
    <3> QED  BY <1>a, <1>e, <2>1, <3>2, <3>6, Zenon
  <2>3. CASE ~w.ctx.stale
    <3> DEFINE jobs == [work EXCEPT ![s] = NoWork]
    <3>1. Flush(w.ctx, tx, saves, jobs)
      BY <1>13, <2>3, Zenon DEF runFlush
    <3>2. jobs[s] = NoWork /\ \A t \in Writers \ {s} : jobs[t] = work[t]
      BY <1>d, Zenon
    <3> HIDE DEF jobs
    <3>3. WorkGood(rows, entries, lost, silent, schema, w.ctx)
      BY <1>a, <2>3, Zenon DEF Own, FreshWork
    <3>4. \A t \in Writers : /\ IsContext(tx[t]) /\ MarkedFrames(saves[t])
                             /\ Fresh(rows, entries, lost, silent, schema, tx[t])
                             /\ FreshFrames(rows, entries, lost, silent, schema, saves[t])
                             /\ FreshWork(rows, entries, lost, silent, schema, jobs[t])
      BY <1>a, <1>b, <3>2, Zenon DEF Own
    <3> QED  BY <1>a, <2>1, <3>1, <3>3, <3>4, FlushIndex, Zenon
  <2> QED  BY <2>2, <2>3, Zenon
<1>14. CASE UNCHANGED rowVars
  BY <1>14, Zenon DEF rowVars, data, IndexInv
<1> QED
  BY <1>1, <1>2, <1>3, <1>4, <1>5, <1>6, <1>7, <1>8, <1>9, <1>10, <1>11, <1>12, <1>13,
     <1>14,
     Zenon
  DEF RowsNext

(* The inductive invariant of the index holds in every reachable state.    *)
LEMMA IndexAlways == RowsSpec => [](DirtyInv /\ IndexInv)
BY InitDirty, NextDirty, InitIndex, NextIndex, PTL DEF RowsSpec

\* What the invariant says of the views that a client can be shown.
LEMMA ViewGood ==
    ASSUME IndexInv, NEW c \in Views
    PROVE  RowGood(rows, entries, lost, silent, schema, c) /\ StoreTyped(rows, schema)
<1>1. RowGood(rows, entries, lost, silent, schema, NoContext)
  BY EmptyGood, Zenon DEF IndexInv
<1> QED  BY <1>1, Zenon DEF Views, IndexInv, Fresh, StoreGood

(* Every row with a value is found through the index, for any sessions,    *)
(* rows, values, index DDL and retries: a write pins the schema it         *)
(* maintains the index by and the entry of the value it writes, so that a  *)
(* commit it did not see leaves it stale.                                  *)
THEOREM EntriesCoverRowsAlways == RowsSpec => []EntriesCoverRows
<1>1. IndexInv => EntriesCoverRows
  <2> SUFFICES ASSUME IndexInv, schema.id # 0, NEW c \in Views, NEW p \in PKs,
                      NEW v, v = RowIn(c, p).v, v # Null
               PROVE  <<schema.id, v, p>> \in EntriesIn(c) \cup lost \cup c.lost
    BY DEF EntriesCoverRows
  <2>1. RowGood(rows, entries, lost, silent, schema, c) /\ StoreTyped(rows, schema)
    BY ViewGood, Zenon
  <2>2. Typed(c) /\ Covered(rows, entries, lost, schema.id, c, {})
    BY <2>1, Zenon DEF RowGood, Indexed
  <2>3. v = Value(rows, c, p) /\ v \in Vals
    BY <2>1, <2>2, ValueTyped, Zenon DEF Column
  <2> QED  BY <2>2, <2>3, Zenon DEF Covered, EntriesIn
<1> QED  BY <1>1, IndexAlways, PTL

(* No two rows share a value under a unique index, whoever wrote them: the *)
(* check of emitIndexInserts pins the entry key that the second writer of  *)
(* the value changes.                                                      *)
THEOREM UniqueHoldsAlways == RowsSpec => []UniqueHolds
<1>1. IndexInv => UniqueHolds
  <2> SUFFICES ASSUME IndexInv, schema.unique, NEW c \in Views, NEW p \in PKs, NEW q \in PKs,
                      NEW v, v = RowIn(c, p).v, p # q, v # Null, RowIn(c, q).v = v
               PROVE  \/ <<schema.id, v, p>> \in lost \cup c.lost
                      \/ <<schema.id, v, q>> \in lost \cup c.lost
    BY ZenonT(60) DEF UniqueHolds
  <2>1. RowGood(rows, entries, lost, silent, schema, c) /\ StoreTyped(rows, schema)
    BY ViewGood, Zenon
  <2>2. Typed(c) /\ Apart(rows, lost, schema.id, c, {})
    BY <2>1, Zenon DEF RowGood, Indexed
  <2>3. v = Value(rows, c, p) /\ v = Value(rows, c, q) /\ v \in Vals
    BY <2>1, <2>2, ValueTyped, Zenon DEF Column
  <2>4. \/ <<schema.id, v, p>> \in (lost \ c.put) \cup c.lost
        \/ <<schema.id, v, q>> \in (lost \ c.put) \cup c.lost
    BY <2>2, <2>3, Zenon DEF Apart
  <2> QED  BY <2>4, Zenon
<1> QED  BY <1>1, IndexAlways, PTL

(* Until another commit overtakes a transaction its reads can be repeated: *)
(* every row that a statement writes is told in a row write, and a commit  *)
(* whose row writes meet an observation makes the observer stale.          *)
THEOREM ReadsHoldAlways == RowsSpec => []ReadsHold
<1>1. IndexInv => ReadsHold
  <2> SUFFICES ASSUME IndexInv, NEW s \in Writers, ~tx[s].stale, NEW o \in tx[s].seen, NEW p \in PKs
               PROVE  /\ {p} \X Column \subseteq o.pred /\ p \notin silent => rows[p] = o.was[p]
                      /\ Matches(rows[p], p, o.pred) => Matches(o.was[p], p, o.pred)
    BY Zenon DEF ReadsHold, Column
  <2> QED  BY Zenon DEF IndexInv, Fresh, RowGood, Holds
<1> QED  BY <1>1, IndexAlways, PTL
=============================================================================
