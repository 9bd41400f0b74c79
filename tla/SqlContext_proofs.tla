------------------------- MODULE SqlContext_proofs --------------------------
(***************************************************************************)
(* What the statements make of a Context, and what the commit of one makes *)
(* of the store and of the others, for any rows and values.  A Context is  *)
(* good when, over the committed store, the index covers the rows it       *)
(* shows, a unique index keeps them apart, its row writes tell of all that *)
(* it changes and its reads still hold.  Every statement keeps a Context   *)
(* good, and so does every commit that does not overtake it.               *)
(***************************************************************************)
EXTENDS TLAPS, SqlContext

Gone == [here |-> "gone", v |-> Null]

\* A Context has its fields, and a pending effect for every row.
Fields == {"open", "row", "put", "cut", "sch", "pins", "obs", "writes", "stale", "seen", "lost",
           "silent"}
IsContext(c) == /\ c = [f \in Fields |-> c[f]]
                /\ c.row = [p \in PKs |-> c.row[p]]

\* What the body of a write returns.
IsResult(r) == r = [f \in {"ctx", "ok"} |-> r[f]]

\* d is a Context with the row effects of c, and as stale.
SameRows(c, d) == IsContext(d) /\ d.row = c.row /\ d.stale = c.stale

(* What is emitted besides row effects keeps a Context and its rows.       *)
LEMMA EmittersKeep ==
    ASSUME NEW c, IsContext(c), NEW x
    PROVE  /\ SameRows(c, Pin(c, x))
           /\ SameRows(c, PutEntry(c, x))
           /\ SameRows(c, CutEntry(c, x))
           /\ IsContext(Overtaken(x, c)) /\ Overtaken(x, c).row = c.row
           /\ SameRows(c, Observe(c, x))
<1>1. SameRows(c, Pin(c, x))
  BY Zenon DEF IsContext, Fields, SameRows, Pin
<1>2. SameRows(c, PutEntry(c, x))
  BY Zenon DEF IsContext, Fields, SameRows, PutEntry
<1>3. SameRows(c, CutEntry(c, x))
  BY Zenon DEF IsContext, Fields, SameRows, CutEntry
<1>4. IsContext(Overtaken(x, c)) /\ Overtaken(x, c).row = c.row
  BY Zenon DEF IsContext, Fields, Overtaken
<1>5. SameRows(c, Observe(c, x))
  BY Zenon DEF IsContext, Fields, SameRows, Observe
<1> QED  BY <1>1, <1>2, <1>3, <1>4, <1>5, Zenon

(* Recording a row write changes no row effect.                            *)
LEMMA RowWriteKeeps ==
    ASSUME NEW c, IsContext(c), NEW p, NEW v
    PROVE  SameRows(c, emitRowWrite(c, p, v))
BY Zenon DEF IsContext, Fields, SameRows, emitRowWrite

\* d differs from c in the effects of rows among ps only.
SameBut(c, d, ps) == /\ IsContext(d) /\ d.stale = c.stale
                     /\ \A p \in PKs \ ps : d.row[p] = c.row[p]

(* A row effect changes one row.                                           *)
LEMMA RowEmitters ==
    ASSUME NEW c, IsContext(c), NEW p \in PKs, NEW v
    PROVE  /\ SameBut(c, EmitRow(c, p, v), {p})
           /\ SameBut(c, emitSamePKUpdate(c, p, v), {p})
           /\ SameBut(c, emitRowDelete(c, p), {p})
           /\ emitRowDelete(c, p).row[p] = Gone
<1>1. SameBut(c, EmitRow(c, p, v), {p})
  BY Zenon DEF IsContext, Fields, SameBut, EmitRow
<1>2. SameBut(c, emitSamePKUpdate(c, p, v), {p})
  BY Zenon DEF IsContext, Fields, SameBut, emitSamePKUpdate
<1>3. SameBut(c, emitRowDelete(c, p), {p}) /\ emitRowDelete(c, p).row[p] = Gone
  BY Zenon DEF IsContext, Fields, SameBut, emitRowDelete, Gone
<1> QED  BY <1>1, <1>2, <1>3, Zenon

(* Index maintenance changes no row.                                       *)
LEMMA InsertsKeep ==
    ASSUME NEW c, IsContext(c), NEW p, NEW v
    PROVE  /\ IsResult(emitIndexInserts(c, p, v))
           /\ SameRows(c, emitIndexInserts(c, p, v).ctx)
<1> DEFINE k == Pin(c, EntryKey(schema.id, v))
           e == <<schema.id, v, p>>
<1>1. SameRows(c, k) /\ SameRows(c, c)
  BY EmittersKeep, Zenon DEF SameRows
<1>2. SameRows(c, PutEntry(k, e))
  <2> HIDE DEF k, e
  <2> QED  BY <1>1, EmittersKeep, Zenon DEF SameRows
<1>3. \/ emitIndexInserts(c, p, v) = [ctx |-> c, ok |-> TRUE]
      \/ emitIndexInserts(c, p, v) = [ctx |-> k, ok |-> FALSE]
      \/ emitIndexInserts(c, p, v) = [ctx |-> PutEntry(k, e), ok |-> TRUE]
  BY Zenon DEF emitIndexInserts
<1> HIDE DEF k, e
<1>4. IsResult(emitIndexInserts(c, p, v))
  BY <1>3, Zenon DEF IsResult
<1>5. emitIndexInserts(c, p, v).ctx \in {c, k, PutEntry(k, e)}
  BY <1>3
<1> QED  BY <1>1, <1>2, <1>4, <1>5, Zenon

(* Removing a row's index entry changes no row effect.                     *)
LEMMA RemovesKeep ==
    ASSUME NEW c, IsContext(c), NEW p, NEW v
    PROVE  SameRows(c, emitIndexRemoves(c, p, v))
<1>1. emitIndexRemoves(c, p, v) = c \/ emitIndexRemoves(c, p, v) = CutEntry(c, <<schema.id, v, p>>)
  BY Zenon DEF emitIndexRemoves
<1>2. SameRows(c, c) /\ SameRows(c, CutEntry(c, <<schema.id, v, p>>))
  BY EmittersKeep, Zenon DEF SameRows
<1> QED  BY <1>1, <1>2, Zenon

(* Replacing the Context of a result keeps its verdict.                    *)
LEMMA ThenKeeps ==
    ASSUME NEW r, IsResult(r), NEW d
    PROVE  [r EXCEPT !.ctx = d].ctx = d /\ [r EXCEPT !.ctx = d].ok = r.ok
BY Zenon DEF IsResult

\* What a write may do to the rows of c: it removes some, and changes those of
\* ps if it succeeds.  It makes c neither stale nor fresh.
WritesRows(c, r, ps) ==
    /\ IsContext(r.ctx) /\ r.ctx.stale = c.stale
    /\ \A q \in PKs : r.ctx.row[q] = c.row[q] \/ r.ctx.row[q] = Gone \/ (r.ok /\ q \in ps)

(* doInsert changes its own row only, and only if it succeeds.             *)
LEMMA InsertMarks ==
    ASSUME NEW c, IsContext(c), NEW p \in PKs, NEW v
    PROVE  WritesRows(c, doInsert(c, p, v), {p})
<1> DEFINE k == Pin(c, SchemaKey)
           r == emitIndexInserts(k, p, v)
           d == EmitRow(r.ctx, p, v)
<1>1. SameRows(c, k) /\ IsContext(k)
  BY EmittersKeep DEF SameRows
<1>2. IsResult(r) /\ SameRows(k, r.ctx)
  BY <1>1, InsertsKeep, Zenon
<1>3. SameBut(r.ctx, d, {p})
  BY <1>2, RowEmitters, Zenon DEF SameRows
<1>4. SameRows(d, emitRowWrite(d, p, v))
  BY <1>3, RowWriteKeeps, Zenon DEF SameBut
<1>5. doInsert(c, p, v) = IF r.ok THEN [r EXCEPT !.ctx = emitRowWrite(d, p, v)] ELSE r
  BY Zenon DEF doInsert, Then
<1> HIDE DEF k, r, d
<1>6. CASE r.ok
  BY <1>1, <1>2, <1>3, <1>4, <1>5, <1>6, ThenKeeps DEF SameRows, SameBut, WritesRows
<1>7. CASE ~r.ok
  BY <1>1, <1>2, <1>5, <1>7, Zenon DEF SameRows, WritesRows
<1> QED  BY <1>6, <1>7, Zenon

(* A DELETE changes its own row only.                                      *)
LEMMA DeleteMarks ==
    ASSUME NEW c, IsContext(c), NEW p \in PKs
    PROVE  WritesRows(c, DeleteRow(c, p), {p})
<1> DEFINE k == Pin(Pin(c, SchemaKey), RowKey(p))
           v == RowIn(c, p).v
           r == emitIndexRemoves(k, p, v)
           d == emitRowDelete(r, p)
<1>1. SameRows(c, k) /\ IsContext(k)
  BY EmittersKeep DEF SameRows
<1>2. SameRows(k, r)
  BY <1>1, RemovesKeep, Zenon
<1>3. SameBut(r, d, {p}) /\ d.row[p] = Gone
  BY <1>2, RowEmitters, Zenon DEF SameRows
<1>4. SameRows(d, emitRowWrite(d, p, v))
  BY <1>3, RowWriteKeeps, Zenon DEF SameBut
<1>5. DeleteRow(c, p) = [ctx |-> emitRowWrite(d, p, v), ok |-> TRUE]
  BY Zenon DEF DeleteRow
<1> HIDE DEF k, r, d, v
<1> QED  BY <1>1, <1>2, <1>3, <1>4, <1>5 DEF SameRows, SameBut, WritesRows

(* An UPDATE that keeps the primary key changes its own row only, and only *)
(* if it succeeds.                                                         *)
LEMMA SamePKMarks ==
    ASSUME NEW c, IsContext(c), NEW p \in PKs, NEW v
    PROVE  WritesRows(c, samePKUpdate(c, p, v), {p})
<1> DEFINE k   == Pin(Pin(c, SchemaKey), RowKey(p))
           old == RowIn(k, p).v
           m   == emitIndexRemoves(k, p, old)
           i   == emitIndexInserts(m, p, v)
           r   == emitIndexDeltasSamePK(k, p, v)
           d   == emitSamePKUpdate(r.ctx, p, v)
           e   == <<schema.id, old, p>>
<1>1. SameRows(c, k) /\ IsContext(k)
  BY EmittersKeep DEF SameRows
<1>2. SameRows(k, m)
  BY <1>1, RemovesKeep, Zenon
<1>3. IsResult(i) /\ SameRows(m, i.ctx)
  <2>1. IsContext(m)
    BY <1>2, Zenon DEF SameRows
  <2> QED  BY <2>1, InsertsKeep, Zenon
<1>4. IsResult(r) /\ SameRows(m, r.ctx)
  <2>1. r = i \/ r = [i EXCEPT !.ctx.lost = @ \cup {e}]
    BY Zenon DEF emitIndexDeltasSamePK
  <2> HIDE DEF i, r, m, e, old, k
  <2>2. CASE r = i
    BY <2>2, <1>3, Zenon
  <2>3. CASE r = [i EXCEPT !.ctx.lost = @ \cup {e}]
    <3>1. IsResult(r) /\ r.ctx = [i.ctx EXCEPT !.lost = @ \cup {e}]
      BY <2>3, <1>3, Zenon DEF IsResult
    <3>2. SameRows(m, [i.ctx EXCEPT !.lost = @ \cup {e}])
      BY <1>3, Zenon DEF SameRows, IsContext, Fields
    <3> QED  BY <3>1, <3>2, Zenon
  <2> QED  BY <2>1, <2>2, <2>3, Zenon
<1>5. SameBut(r.ctx, d, {p})
  BY <1>4, RowEmitters, Zenon DEF SameRows
<1>6. SameRows(d, emitRowWrite(d, p, v))
  BY <1>5, RowWriteKeeps, Zenon DEF SameBut
<1>7. samePKUpdate(c, p, v) = IF r.ok THEN [r EXCEPT !.ctx = emitRowWrite(d, p, v)] ELSE r
  BY Zenon DEF samePKUpdate, Then
<1> HIDE DEF k, old, m, i, r, d, e
<1>8. CASE r.ok
  BY <1>1, <1>2, <1>4, <1>5, <1>6, <1>7, <1>8, ThenKeeps DEF SameRows, SameBut, WritesRows
<1>9. CASE ~r.ok
  BY <1>1, <1>2, <1>4, <1>7, <1>9, Zenon DEF SameRows, WritesRows
<1> QED  BY <1>8, <1>9, Zenon

(* An UPDATE of the primary key changes the two rows; one that fails has   *)
(* removed the old row and changed nothing else.                           *)
LEMMA PKChangeMarks ==
    ASSUME NEW c, IsContext(c), NEW p \in PKs, NEW q \in PKs, NEW w
    PROVE  WritesRows(c, emitPKChange(c, p, q, w), {p, q})
<1> DEFINE k    == Pin(Pin(c, SchemaKey), RowKey(p))
           old  == RowIn(c, p).v
           v    == IF w = Unchanged THEN old ELSE w
           m    == emitIndexRemoves(k, p, old)
           gone == emitRowDelete(m, p)
           r    == emitIndexInserts(gone, q, v)
           d    == EmitRow(r.ctx, q, v)
           f    == emitRowWrite(d, p, old)
           g    == [r.ctx EXCEPT !.silent = @ \cup {p}]
<1>1. SameRows(c, k) /\ IsContext(k)
  BY EmittersKeep DEF SameRows
<1>2. SameRows(k, m)
  BY <1>1, RemovesKeep, Zenon
<1>3. SameBut(m, gone, {p}) /\ gone.row[p] = Gone
  BY <1>2, RowEmitters, Zenon DEF SameRows
<1>4. IsResult(r) /\ SameRows(gone, r.ctx)
  BY <1>3, InsertsKeep, Zenon DEF SameBut
<1>5. SameBut(r.ctx, d, {q})
  BY <1>4, RowEmitters, Zenon DEF SameRows
<1>6. SameRows(d, f)
  BY <1>5, RowWriteKeeps, Zenon DEF SameBut
<1>7. SameRows(f, emitRowWrite(f, q, v))
  BY <1>6, RowWriteKeeps, SMTT(60) DEF SameRows
<1>8. emitPKChange(c, p, q, w) = IF r.ok THEN [r EXCEPT !.ctx = emitRowWrite(f, q, v)]
                                 ELSE [r EXCEPT !.ctx = g]
  BY Zenon DEF emitPKChange
<1>g. SameRows(r.ctx, g)
  BY <1>4, Zenon DEF SameRows, IsContext, Fields
<1> HIDE DEF k, old, v, m, gone, r, d, f, g
<1>9. CASE r.ok
  BY <1>1, <1>2, <1>3, <1>4, <1>5, <1>6, <1>7, <1>8, <1>9, ThenKeeps
  DEF SameRows, SameBut, WritesRows
<1>10. CASE ~r.ok
  BY <1>1, <1>2, <1>3, <1>4, <1>8, <1>10, <1>g, ThenKeeps DEF SameRows, SameBut, WritesRows
<1> QED  BY <1>9, <1>10, Zenon

\* A statement's writes are of known kinds, to rows of the table.
IsWrite(w) == w.op \in {"insert", "update", "delete"} /\ w.pk \in PKs /\ w.to \in PKs

(* A write changes the rows that the session then marks dirty; one that    *)
(* fails may remove rows.                                                  *)
LEMMA WriteMarks ==
    ASSUME NEW c, IsContext(c), NEW w, IsWrite(w)
    PROVE  WritesRows(c, Write(c, w), Dirtied(w))
<1>1. CASE w.op = "insert"
  BY <1>1, InsertMarks DEF IsWrite, Write, Dirtied, WritesRows
<1>2. CASE w.op = "update" /\ w.to = w.pk
  BY <1>2, SamePKMarks DEF IsWrite, Write, Dirtied, WritesRows
<1>3. CASE w.op = "update" /\ w.to # w.pk
  BY <1>3, PKChangeMarks DEF IsWrite, Write, Dirtied, WritesRows
<1>4. CASE w.op = "delete"
  <2>1. Write(c, w) = DeleteRow(c, w.pk)
    BY <1>4, Zenon DEF Write
  <2>2. WritesRows(c, DeleteRow(c, w.pk), {w.pk})
    BY DeleteMarks, Zenon DEF IsWrite
  <2> QED  BY <2>1, <2>2, Zenon DEF Dirtied, WritesRows
<1> QED  BY <1>1, <1>2, <1>3, <1>4, Zenon DEF IsWrite

Column == Vals \cup {Null}

\* The value that c shows for row p over the committed rows R.
Value(R, c, p) == IF c.row[p].v = Unchanged THEN R[p].v ELSE c.row[p].v

IsEffect(e) == /\ e = [here |-> e.here, v |-> e.v]
               /\ e.here \in {"keep", "set", "gone"}
               /\ e.v \in Column \cup {Unchanged}

Typed(c) == (\A p \in PKs : IsEffect(c.row[p])) /\ c.writes \subseteq Tuples

Blank(c) == /\ \A p \in PKs : c.row[p] = Keep
            /\ c.put = {} /\ c.cut = {} /\ c.lost = {} /\ c.writes = {} /\ c.silent = {}

\* What c alone says of index i, its rows X left out: a value that it writes
\* has its entry, whose key is pinned; an entry is removed only after the row
\* is pinned, and inserted only with a value for the row.
Tracks(i, c, X) ==
    \A p \in PKs, v \in Vals :
        /\ p \notin X /\ c.row[p].v = v => /\ <<i, v, p>> \in c.put \cup c.lost
                                           /\ EntryKey(i, v) \in c.pins
        /\ <<i, v, p>> \in c.cut => RowKey(p) \in c.pins
        /\ <<i, v, p>> \in c.put => c.row[p].v # Unchanged /\ <<i, v, p>> \notin c.lost

\* The view of c over the rows R, the entries N and the lost entries L.
Covered(R, N, L, i, c, X) ==
    \A p \in PKs \ X, v \in Vals :
        Value(R, c, p) = v => <<i, v, p>> \in (N \ c.cut) \cup c.put \cup L \cup c.lost

Apart(R, L, i, c, X) ==
    \A p, q \in PKs \ X, v \in Vals :
        p # q /\ Value(R, c, p) = v /\ Value(R, c, q) = v
            => \/ <<i, v, p>> \in (L \ c.put) \cup c.lost
               \/ <<i, v, q>> \in (L \ c.put) \cup c.lost

Indexed(R, N, L, S, c, X) ==
    /\ S.id # 0 => Tracks(S.id, c, X) /\ Covered(R, N, L, S.id, c, X)
    /\ S.unique => Apart(R, L, S.id, c, X)

\* The row writes of c tell of every row it changes, and of every value it
\* leaves, but for the rows that a failed UPDATE removed.
ToldRow(c, p) ==
    /\ c.row[p] # Keep => p \in Recorded(c) \cup c.silent
    /\ c.row[p].v \in Vals => <<p, c.row[p].v>> \in c.writes
    /\ c.row[p] # Keep /\ c.row[p].v \notin Vals /\ c.row[p].here # "gone"
           => <<p, Null>> \in c.writes
Told(c) == \A p \in PKs : ToldRow(c, p)

\* The reads of c hold over R, rows Q removed by a failed UPDATE apart.
Holds(R, Q, c) == \A o \in c.seen :
    /\ o.pred \in c.obs
    /\ \A p \in PKs : /\ {p} \X Column \subseteq o.pred /\ p \notin Q => R[p] = o.was[p]
                      /\ Matches(R[p], p, o.pred) => Matches(o.was[p], p, o.pred)

\* Fields that no emitter of a write touches, and groups of those they do.
Rest(c, d)      == /\ IsContext(d)
                   /\ d.open = c.open /\ d.sch = c.sch /\ d.obs = c.obs
                   /\ d.stale = c.stale /\ d.seen = c.seen
SameIndex(c, d) == d.put = c.put /\ d.cut = c.cut /\ d.lost = c.lost
SameTale(c, d)  == d.writes = c.writes /\ d.silent = c.silent

(* Rest is transitive.                                                     *)
LEMMA RestChain == ASSUME NEW c, NEW d, NEW e, Rest(c, d), Rest(d, e) PROVE Rest(c, e)
BY Zenon DEF Rest

(* What each emitter does to the fields of a Context.                      *)
LEMMA PinFields ==
    ASSUME NEW c, IsContext(c), NEW k
    PROVE  /\ Rest(c, Pin(c, k)) /\ SameIndex(c, Pin(c, k)) /\ SameTale(c, Pin(c, k))
           /\ Pin(c, k).row = c.row /\ Pin(c, k).pins = c.pins \cup {k}
BY Zenon DEF IsContext, Fields, Rest, SameIndex, SameTale, Pin

(* PutEntry changes the index fields only.                                 *)
LEMMA PutFields ==
    ASSUME NEW c, IsContext(c), NEW e
    PROVE  /\ Rest(c, PutEntry(c, e)) /\ SameTale(c, PutEntry(c, e))
           /\ PutEntry(c, e).row = c.row /\ PutEntry(c, e).pins = c.pins
           /\ PutEntry(c, e).put = c.put \cup {e} /\ PutEntry(c, e).cut = c.cut \ {e}
           /\ PutEntry(c, e).lost = c.lost \ {e}
BY Zenon DEF IsContext, Fields, Rest, SameTale, PutEntry

(* CutEntry changes the index fields only.                                 *)
LEMMA CutFields ==
    ASSUME NEW c, IsContext(c), NEW e
    PROVE  /\ Rest(c, CutEntry(c, e)) /\ SameTale(c, CutEntry(c, e))
           /\ CutEntry(c, e).row = c.row /\ CutEntry(c, e).pins = c.pins
           /\ CutEntry(c, e).put = c.put \ {e} /\ CutEntry(c, e).cut = c.cut \cup {e}
           /\ CutEntry(c, e).lost = c.lost
BY Zenon DEF IsContext, Fields, Rest, SameTale, CutEntry

(* emitRowWrite adds one row write and changes nothing else.               *)
LEMMA TellFields ==
    ASSUME NEW c, IsContext(c), NEW p, NEW v
    PROVE  /\ Rest(c, emitRowWrite(c, p, v)) /\ SameIndex(c, emitRowWrite(c, p, v))
           /\ emitRowWrite(c, p, v).row = c.row /\ emitRowWrite(c, p, v).pins = c.pins
           /\ emitRowWrite(c, p, v).writes = c.writes \cup {<<p, v>>}
           /\ emitRowWrite(c, p, v).silent = c.silent
BY Zenon DEF IsContext, Fields, Rest, SameIndex, emitRowWrite

\* d is c with effect e on row p.
RowSet(c, d, p, e) == /\ Rest(c, d) /\ SameIndex(c, d) /\ SameTale(c, d) /\ d.pins = c.pins
                      /\ d.row = [c.row EXCEPT ![p] = e]

(* The row effects of INSERT, UPDATE and DELETE, and that they change no   *)
(* other field.                                                            *)
LEMMA RowFields ==
    ASSUME NEW c, IsContext(c), NEW p \in PKs, NEW v
    PROVE  /\ RowSet(c, EmitRow(c, p, v), p,
                     [here |-> "set", v |-> IF v = Null THEN c.row[p].v ELSE v])
           /\ RowSet(c, emitSamePKUpdate(c, p, v), p, [c.row[p] EXCEPT !.v = v])
           /\ RowSet(c, emitRowDelete(c, p), p, Gone)
<1>1. RowSet(c, EmitRow(c, p, v), p, [here |-> "set", v |-> IF v = Null THEN c.row[p].v ELSE v])
  BY Zenon DEF IsContext, Fields, Rest, SameIndex, SameTale, RowSet, EmitRow
<1>2. RowSet(c, emitSamePKUpdate(c, p, v), p, [c.row[p] EXCEPT !.v = v])
  BY Zenon DEF IsContext, Fields, Rest, SameIndex, SameTale, RowSet, emitSamePKUpdate
<1>3. RowSet(c, emitRowDelete(c, p), p, Gone)
  BY Zenon DEF IsContext, Fields, Rest, SameIndex, SameTale, RowSet, emitRowDelete, Gone
<1> QED  BY <1>1, <1>2, <1>3, Zenon

(* Without an index there is nothing to keep.                              *)
LEMMA NoIndex ==
    ASSUME NEW R, NEW N, NEW L, NEW S, NEW c, NEW X, S.id = 0, ~S.unique
    PROVE  Indexed(R, N, L, S, c, X)
BY Zenon DEF Indexed

(* The index does not depend on presence fields, and pins may be added.    *)
LEMMA SameValues ==
    ASSUME NEW R, NEW N, NEW L, NEW S, NEW c, NEW d, NEW X,
           Indexed(R, N, L, S, c, X), SameIndex(c, d), c.pins \subseteq d.pins,
           \A p \in PKs : d.row[p].v = c.row[p].v
    PROVE  Indexed(R, N, L, S, d, X)
<1>1. \A p \in PKs : Value(R, d, p) = Value(R, c, p)
  BY Zenon DEF Value
<1>2. Tracks(S.id, c, X) => Tracks(S.id, d, X)
  BY Zenon DEF Tracks, SameIndex
<1>3. Covered(R, N, L, S.id, c, X) => Covered(R, N, L, S.id, d, X)
  BY <1>1, Zenon DEF Covered, SameIndex
<1>4. Apart(R, L, S.id, c, X) => Apart(R, L, S.id, d, X)
  BY <1>1, Zenon DEF Apart, SameIndex
<1> QED  BY <1>2, <1>3, <1>4, Zenon DEF Indexed

(* Removing an entry of a pinned row leaves that row unsettled, no other.  *)
LEMMA CutUnsettles ==
    ASSUME NEW R, NEW N, NEW L, NEW S, NEW c, NEW d, NEW p \in PKs, NEW old,
           Indexed(R, N, L, S, c, {}), RowKey(p) \in c.pins,
           d.row = c.row, d.pins = c.pins, d.lost = c.lost,
           d.put = c.put \ {<<S.id, old, p>>}, d.cut = c.cut \cup {<<S.id, old, p>>}
    PROVE  Indexed(R, N, L, S, d, {p})
<1> DEFINE e(v, q) == <<S.id, v, q>>
<1>a. \A q \in PKs : Value(R, d, q) = Value(R, c, q)
  BY Zenon DEF Value
<1>1. ASSUME Tracks(S.id, c, {}), NEW q \in PKs, NEW v \in Vals
      PROVE  /\ q # p /\ d.row[q].v = v =>
                    e(v, q) \in d.put \cup d.lost /\ EntryKey(S.id, v) \in d.pins
             /\ e(v, q) \in d.cut => RowKey(q) \in d.pins
             /\ e(v, q) \in d.put => d.row[q].v # Unchanged /\ e(v, q) \notin d.lost
  BY <1>1 DEF Tracks
<1>2. ASSUME Covered(R, N, L, S.id, c, {}), NEW q \in PKs \ {p}, NEW v \in Vals, Value(R, d, q) = v
      PROVE  e(v, q) \in (N \ d.cut) \cup d.put \cup L \cup d.lost
  <2>1. e(v, q) \in (N \ c.cut) \cup c.put \cup L \cup c.lost
    BY <1>2, <1>a, Zenon DEF Covered
  <2> QED  BY <2>1
<1>3. Apart(R, L, S.id, c, {}) => Apart(R, L, S.id, d, {p})
  BY <1>a, Zenon DEF Apart
<1> QED  BY <1>1, <1>2, <1>3, Zenon DEF Indexed, Tracks, Covered

(* The unsettled row has no value any more: it is settled.                 *)
LEMMA NullSettles ==
    ASSUME NEW R, NEW N, NEW L, NEW S, NEW c, NEW d, NEW p \in PKs,
           Indexed(R, N, L, S, c, {p}), SameIndex(c, d), c.pins \subseteq d.pins,
           \A q \in PKs \ {p} : d.row[q] = c.row[q], d.row[p].v = Null
    PROVE  Indexed(R, N, L, S, d, {})
<1>a. \A q \in PKs \ {p} : Value(R, d, q) = Value(R, c, q)
  BY Zenon DEF Value
<1>b. Null # Unchanged /\ \A v \in Vals : v # Null
  BY ValsAssumption DEF Null, Unchanged
<1>c. \A v \in Vals : Value(R, d, p) # v
  BY <1>b, Zenon DEF Value
<1>1. Tracks(S.id, c, {p}) => Tracks(S.id, d, {})
  BY <1>b, Zenon DEF Tracks, SameIndex
<1>2. Covered(R, N, L, S.id, c, {p}) => Covered(R, N, L, S.id, d, {})
  BY <1>a, <1>c, Zenon DEF Covered, SameIndex
<1>3. Apart(R, L, S.id, c, {p}) => Apart(R, L, S.id, d, {})
  BY <1>a, <1>c, Zenon DEF Apart, SameIndex
<1> QED  BY <1>1, <1>2, <1>3, Zenon DEF Indexed

(* The entry removed from it is written down as lost: it is settled.       *)
LEMMA LossSettles ==
    ASSUME NEW R, NEW N, NEW L, NEW S, NEW c, NEW d, NEW p \in PKs,
           Indexed(R, N, L, S, c, {p}), d.row = c.row, d.put = c.put, d.cut = c.cut,
           c.pins \subseteq d.pins,
           <<S.id, Value(R, c, p), p>> \notin c.put,
           d.lost = c.lost \cup {<<S.id, Value(R, c, p), p>>},
           c.row[p].v \in Vals => EntryKey(S.id, c.row[p].v) \in c.pins
    PROVE  Indexed(R, N, L, S, d, {})
<1>a. \A q \in PKs : Value(R, d, q) = Value(R, c, q)
  BY Zenon DEF Value
<1>b. \A v \in Vals : v # Unchanged
  BY ValsAssumption DEF Unchanged
<1>1. ASSUME Tracks(S.id, c, {p}), NEW q \in PKs, NEW v \in Vals
      PROVE  /\ d.row[q].v = v =>
                    <<S.id, v, q>> \in d.put \cup d.lost /\ EntryKey(S.id, v) \in d.pins
             /\ <<S.id, v, q>> \in d.cut => RowKey(q) \in d.pins
             /\ <<S.id, v, q>> \in d.put => d.row[q].v # Unchanged /\ <<S.id, v, q>> \notin d.lost
  <2>1. CASE q = p
    BY <1>1, <1>b, <2>1, Zenon DEF Tracks, Value
  <2>2. CASE q # p
    BY <1>1, <2>2, Zenon DEF Tracks
  <2> QED  BY <2>1, <2>2, Zenon
<1>2. ASSUME Covered(R, N, L, S.id, c, {p}), NEW q \in PKs, NEW v \in Vals, Value(R, d, q) = v
      PROVE  <<S.id, v, q>> \in (N \ d.cut) \cup d.put \cup L \cup d.lost
  <2>1. CASE q = p
    BY <1>a, <1>2, <2>1, Zenon
  <2>2. CASE q # p
    BY <1>a, <1>2, <2>2, Zenon DEF Covered
  <2> QED  BY <2>1, <2>2, Zenon
<1>3. ASSUME Apart(R, L, S.id, c, {p}), NEW q \in PKs, NEW r \in PKs, NEW v \in Vals, q # r,
             Value(R, d, q) = v, Value(R, d, r) = v
      PROVE  \/ <<S.id, v, q>> \in (L \ d.put) \cup d.lost
             \/ <<S.id, v, r>> \in (L \ d.put) \cup d.lost
  <2>1. CASE q = p \/ r = p
    BY <1>a, <1>3, <2>1, Zenon
  <2>2. CASE q # p /\ r # p
    BY <1>a, <1>3, <2>2, Zenon DEF Apart
  <2> QED  BY <2>1, <2>2, Zenon
<1> QED  BY <1>1, <1>2, <1>3, Zenon DEF Indexed, Tracks, Covered, Apart

(* The new value's entry is inserted, and no other row has one: settled.   *)
LEMMA EntrySettles ==
    ASSUME NEW R, NEW N, NEW L, NEW S, NEW c, NEW d, NEW p \in PKs, NEW v \in Vals,
           Indexed(R, N, L, S, c, {p}), S.id # 0,
           \A q \in PKs \ {p} : d.row[q] = c.row[q], d.row[p].v = v,
           c.pins \cup {EntryKey(S.id, v)} \subseteq d.pins,
           d.put = c.put \cup {<<S.id, v, p>>}, d.cut = c.cut \ {<<S.id, v, p>>},
           d.lost = c.lost \ {<<S.id, v, p>>},
           S.unique => \A q \in PKs \ {p} : <<S.id, v, q>> \notin (N \ c.cut) \cup c.put
    PROVE  Indexed(R, N, L, S, d, {})
<1>a. \A q \in PKs \ {p} : Value(R, d, q) = Value(R, c, q)
  BY Zenon DEF Value
<1>b. \A u \in Vals : u # Unchanged
  BY ValsAssumption DEF Unchanged
<1>c. Value(R, d, p) = v
  BY <1>b, Zenon DEF Value
<1>d. Tracks(S.id, c, {p}) /\ Covered(R, N, L, S.id, c, {p})
  BY Zenon DEF Indexed
<1>e. ASSUME NEW u, NEW q, q # p PROVE <<S.id, u, q>> # <<S.id, v, p>>
  BY <1>e
<1>1. ASSUME NEW q \in PKs, NEW u \in Vals
      PROVE  /\ d.row[q].v = u =>
                    <<S.id, u, q>> \in d.put \cup d.lost /\ EntryKey(S.id, u) \in d.pins
             /\ <<S.id, u, q>> \in d.cut => RowKey(q) \in d.pins
             /\ <<S.id, u, q>> \in d.put => d.row[q].v # Unchanged /\ <<S.id, u, q>> \notin d.lost
  <2>1. CASE q = p
    BY <1>b, <1>d, <2>1 DEF Tracks
  <2>2. CASE q # p
    BY <1>d, <1>e, <2>2, ZenonT(60) DEF Tracks
  <2> QED  BY <2>1, <2>2, Zenon
<1>2. ASSUME NEW q \in PKs, NEW u \in Vals, Value(R, d, q) = u
      PROVE  <<S.id, u, q>> \in (N \ d.cut) \cup d.put \cup L \cup d.lost
  <2>1. CASE q = p
    BY <1>c, <1>2, <2>1, Zenon
  <2>2. CASE q # p
    BY <1>a, <1>d, <1>e, <1>2, <2>2, Zenon DEF Covered
  <2> QED  BY <2>1, <2>2, Zenon
<1>3. ASSUME S.unique, NEW q \in PKs \ {p}, Value(R, d, q) = v
      PROVE  <<S.id, v, q>> \in (L \ d.put) \cup d.lost
  BY <1>a, <1>d, <1>e, <1>3, Zenon DEF Covered
<1>4. ASSUME S.unique, NEW q \in PKs, NEW r \in PKs, NEW u \in Vals, q # r,
             Value(R, d, q) = u, Value(R, d, r) = u
      PROVE  \/ <<S.id, u, q>> \in (L \ d.put) \cup d.lost
             \/ <<S.id, u, r>> \in (L \ d.put) \cup d.lost
  <2>1. CASE q = p
    BY <1>3, <1>4, <1>c, <2>1, Zenon
  <2>2. CASE r = p
    BY <1>3, <1>4, <1>c, <2>2, Zenon
  <2>3. CASE q # p /\ r # p
    <3>1. Apart(R, L, S.id, c, {p})
      BY <1>4, Zenon DEF Indexed
    <3>2. q \in PKs \ {p} /\ r \in PKs \ {p}
      BY <2>3, Zenon
    <3>3. Value(R, c, q) = u /\ Value(R, c, r) = u
      BY <1>a, <1>4, <3>2, Zenon
    <3>4. \/ <<S.id, u, q>> \in (L \ c.put) \cup c.lost
          \/ <<S.id, u, r>> \in (L \ c.put) \cup c.lost
      BY <1>4, <3>1, <3>2, <3>3, Zenon DEF Apart
    <3> QED  BY <1>e, <2>3, <3>4, Zenon
  <2> QED  BY <2>1, <2>2, <2>3, Zenon
<1> QED  BY <1>1, <1>2, <1>4, ZenonT(60) DEF Indexed, Tracks, Covered, Apart

\* The committed rows have values, and only a table with an index has a unique
\* one.
StoreTyped(R, S) == /\ \A p \in PKs : /\ R[p] = [here |-> R[p].here, v |-> R[p].v]
                                      /\ R[p].here \in BOOLEAN
                                      /\ R[p].v \in Column
                    /\ S.id \in Nat
                    /\ S.unique \in BOOLEAN
                    /\ S.unique => S.id # 0

\* What holds of a Context whatever it has pinned, within a statement and
\* after it.
Formed(c) == /\ IsContext(c)
             /\ Typed(c)
             /\ Indexed(rows, entries, lost, schema, c, {})
Sound(c) == Formed(c) /\ Told(c)

\* What a write makes of the Context c.
Wrote(c, d) == Rest(c, d) /\ SchemaKey \in d.pins /\ Sound(d)

(* A Context shows a value of the column for every row.                    *)
LEMMA ValueTyped ==
    ASSUME NEW c, Typed(c), StoreTyped(rows, schema), NEW p \in PKs
    PROVE  RowIn(c, p).v = Value(rows, c, p) /\ Value(rows, c, p) \in Column
<1>1. RowIn(c, p).v = Value(rows, c, p)
  BY DEF RowIn, Value
<1>2. Value(rows, c, p) \in Column
  BY Zenon DEF Value, Typed, StoreTyped, IsEffect
<1> QED  BY <1>1, <1>2, Zenon

(* The three outcomes of emitIndexInserts.                                 *)
LEMMA InsertsCases ==
    ASSUME NEW c, IsContext(c), NEW p, NEW v
    PROVE  LET r == emitIndexInserts(c, p, v)
               k == Pin(c, EntryKey(schema.id, v))
           IN \/ (schema.id = 0 \/ v = Null) /\ r.ok /\ r.ctx = c
              \/ schema.id # 0 /\ v # Null /\ ~r.ok /\ r.ctx = k
              \/ /\ schema.id # 0 /\ v # Null /\ r.ok /\ r.ctx = PutEntry(k, <<schema.id, v, p>>)
                 /\ schema.unique => \A q \in PKs \ {p} :
                                         <<schema.id, v, q>> \notin (entries \ c.cut) \cup c.put
<1>1. schema.unique /\ ~(PKsAt(c, schema.id, v) \ {p} # {})
          => \A q \in PKs \ {p} : <<schema.id, v, q>> \notin (entries \ c.cut) \cup c.put
  BY Zenon DEF PKsAt, EntriesIn
<1>2. CASE schema.id = 0 \/ v = Null
  BY <1>2, Zenon DEF emitIndexInserts
<1>3. CASE schema.id # 0 /\ v # Null
  <2>1. CASE schema.unique /\ PKsAt(c, schema.id, v) \ {p} # {}
    BY <1>3, <2>1, Zenon DEF emitIndexInserts
  <2>2. CASE ~(schema.unique /\ PKsAt(c, schema.id, v) \ {p} # {})
    BY <1>1, <1>3, <2>2, Zenon DEF emitIndexInserts
  <2> QED  BY <2>1, <2>2, Zenon
<1> QED  BY <1>2, <1>3, Zenon

(* emitIndexInserts changes the index fields only, and none of them if it  *)
(* refuses the value.                                                      *)
LEMMA InsertsFields ==
    ASSUME NEW c, IsContext(c), NEW p, NEW v
    PROVE  LET d == emitIndexInserts(c, p, v).ctx
           IN /\ Rest(c, d) /\ SameTale(c, d) /\ d.row = c.row /\ c.pins \subseteq d.pins
              /\ ~emitIndexInserts(c, p, v).ok => SameIndex(c, d)
<1> DEFINE k == Pin(c, EntryKey(schema.id, v))
           e == <<schema.id, v, p>>
           r == emitIndexInserts(c, p, v)
<1>1. Rest(c, k) /\ SameTale(c, k) /\ k.row = c.row /\ c.pins \subseteq k.pins /\ SameIndex(c, k)
  BY PinFields
<1>2. (r.ctx = c /\ r.ok) \/ r.ctx = k \/ (r.ctx = PutEntry(k, e) /\ r.ok)
  BY InsertsCases
<1> HIDE DEF k, e, r
<1>3. /\ Rest(k, PutEntry(k, e)) /\ SameTale(k, PutEntry(k, e)) /\ PutEntry(k, e).row = k.row
      /\ PutEntry(k, e).pins = k.pins
  <2>1. IsContext(k)
    BY <1>1, Zenon DEF Rest
  <2> QED  BY <2>1, PutFields, Zenon
<1>4. CASE r.ctx = c /\ r.ok
  BY <1>4, Zenon DEF Rest, SameTale, r
<1>5. CASE r.ctx = k
  BY <1>1, <1>5, Zenon DEF r
<1>6. CASE r.ctx = PutEntry(k, e) /\ r.ok
  BY <1>1, <1>3, <1>6, Zenon DEF r, Rest, SameTale
<1> QED  BY <1>2, <1>4, <1>5, <1>6, Zenon

(* emitIndexRemoves changes the index fields only, and leaves the index    *)
(* right for the other rows.                                               *)
LEMMA RemovesFields ==
    ASSUME NEW c, IsContext(c), NEW p \in PKs, NEW v, RowKey(p) \in c.pins,
           Indexed(rows, entries, lost, schema, c, {}), StoreTyped(rows, schema)
    PROVE  LET d == emitIndexRemoves(c, p, v)
           IN /\ Rest(c, d) /\ SameTale(c, d) /\ d.row = c.row /\ d.pins = c.pins
              /\ d.lost = c.lost
              /\ Indexed(rows, entries, lost, schema, d, {p})
              /\ v # Null /\ schema.id # 0 => <<schema.id, v, p>> \notin d.put
              /\ v = Null \/ schema.id = 0 => d = c
<1> DEFINE d == emitIndexRemoves(c, p, v)
           e == <<schema.id, v, p>>
<1>1. CASE v = Null \/ schema.id = 0
  <2>1. d = c
    BY <1>1, Zenon DEF emitIndexRemoves
  <2>2. Indexed(rows, entries, lost, schema, c, {p})
    BY Zenon DEF Indexed, Tracks, Covered, Apart
  <2> QED  BY <1>1, <2>1, <2>2, Zenon DEF Rest, SameTale
<1>2. CASE v # Null /\ schema.id # 0
  <2>1. d = CutEntry(c, e)
    BY <1>2, Zenon DEF emitIndexRemoves
  <2> HIDE DEF d
  <2>2. /\ Rest(c, d) /\ SameTale(c, d) /\ d.row = c.row /\ d.pins = c.pins /\ d.lost = c.lost
        /\ d.put = c.put \ {e} /\ d.cut = c.cut \cup {e}
    BY <2>1, CutFields, ZenonT(60)
  <2>3. Indexed(rows, entries, lost, schema, d, {p})
    BY <2>2, CutUnsettles, Zenon
  <2> QED  BY <1>2, <2>2, <2>3, Zenon DEF d
<1> QED  BY <1>1, <1>2, Zenon

(* A row is settled by its new value and the entry inserted for it.        *)
LEMMA InsertSettles ==
    ASSUME NEW c, IsContext(c), NEW p \in PKs, NEW v \in Column, NEW d,
           Indexed(rows, entries, lost, schema, c, {p}), StoreTyped(rows, schema),
           emitIndexInserts(c, p, v).ok, SameIndex(emitIndexInserts(c, p, v).ctx, d),
           d.pins = emitIndexInserts(c, p, v).ctx.pins,
           \A q \in PKs \ {p} : d.row[q] = c.row[q], d.row[p].v = v
    PROVE  Indexed(rows, entries, lost, schema, d, {})
<1> DEFINE r == emitIndexInserts(c, p, v)
           k == Pin(c, EntryKey(schema.id, v))
           e == <<schema.id, v, p>>
<1>1. CASE schema.id = 0
  BY <1>1, NoIndex, Zenon DEF StoreTyped
<1>2. CASE schema.id # 0 /\ v = Null
  <2>1. r.ctx = c
    BY <1>2, Zenon DEF emitIndexInserts
  <2> QED  BY <1>2, <2>1, NullSettles
<1>3. CASE schema.id # 0 /\ v # Null
  <2>1. /\ r.ctx = PutEntry(k, e)
        /\ schema.unique => \A q \in PKs \ {p} :
                                <<schema.id, v, q>> \notin (entries \ c.cut) \cup c.put
    BY <1>3, InsertsCases
  <2>2. IsContext(k) /\ SameIndex(c, k) /\ k.pins = c.pins \cup {EntryKey(schema.id, v)}
    BY PinFields DEF Rest
  <2>3. v \in Vals
    BY <1>3, Zenon DEF Column
  <2> HIDE DEF k
  <2>4. /\ r.ctx.pins = k.pins /\ r.ctx.put = k.put \cup {e} /\ r.ctx.cut = k.cut \ {e}
        /\ r.ctx.lost = k.lost \ {e}
    BY <2>1, <2>2, PutFields
  <2> HIDE DEF r
  <2>5. /\ d.put = c.put \cup {e} /\ d.cut = c.cut \ {e} /\ d.lost = c.lost \ {e}
        /\ c.pins \cup {EntryKey(schema.id, v)} \subseteq d.pins
    BY <2>2, <2>4, ZenonT(60) DEF SameIndex, r
  <2> QED  BY <1>3, <2>1, <2>3, <2>5, EntrySettles, SMTT(60)
<1> QED  BY <1>1, <1>2, <1>3, Zenon

(* Row writes only add up; a row written with its own value is told of.    *)
LEMMA StillTold ==
    ASSUME NEW c, NEW d, NEW p, ToldRow(c, p), d.row[p] = c.row[p],
           c.writes \subseteq d.writes, c.silent \subseteq d.silent
    PROVE  ToldRow(d, p)
BY Zenon DEF ToldRow, Recorded

(* A row write of the value that a row is left with tells of that row.     *)
LEMMA NowTold ==
    ASSUME NEW d, NEW p, NEW v \in Column, <<p, v>> \in d.writes,
           \/ d.row[p].v = v
           \/ v = Null /\ (d.row[p].v \in Vals => <<p, d.row[p].v>> \in d.writes)
    PROVE  ToldRow(d, p)
<1>1. p \in Recorded(d)
  BY DEF Recorded
<1>2. CASE d.row[p].v = v
  BY <1>1, <1>2, Zenon DEF ToldRow, Column
<1>3. CASE v = Null /\ (d.row[p].v \in Vals => <<p, d.row[p].v>> \in d.writes)
  BY <1>1, <1>3, Zenon DEF ToldRow
<1> QED  BY <1>2, <1>3, Zenon

(* A Context stays well typed when one row gets a well-typed effect.       *)
LEMMA EffectsTyped ==
    ASSUME NEW c, NEW d, NEW p \in PKs, Typed(c), IsEffect(d.row[p]),
           \A q \in PKs \ {p} : d.row[q] = c.row[q], d.writes \subseteq Tuples
    PROVE  Typed(d)
BY Zenon DEF Typed

(* A Context with a row added to its pins is as sound as it was.           *)
LEMMA PinSound ==
    ASSUME NEW c, Sound(c), NEW k
    PROVE  Sound(Pin(c, k))
<1> DEFINE d == Pin(c, k)
<1>1. Rest(c, d) /\ SameIndex(c, d) /\ SameTale(c, d) /\ d.row = c.row /\ c.pins \subseteq d.pins
  BY PinFields DEF Sound, Formed
<1> HIDE DEF d
<1>2. Indexed(rows, entries, lost, schema, d, {})
  BY <1>1, SameValues, Zenon DEF Sound, Formed
<1>3. Told(d)
  BY <1>1, StillTold, Zenon DEF Sound, Formed, Told, SameTale
<1>4. Typed(d)
  BY <1>1, Zenon DEF Sound, Formed, Typed, SameTale
<1> QED  BY <1>1, <1>2, <1>3, <1>4, Zenon DEF Sound, Formed, Rest, d

(* A failed emitIndexInserts only pins.                                    *)
LEMMA FailSound ==
    ASSUME NEW c, Sound(c), NEW p, NEW v, ~emitIndexInserts(c, p, v).ok
    PROVE  Sound(emitIndexInserts(c, p, v).ctx)
<1>1. emitIndexInserts(c, p, v).ctx = Pin(c, EntryKey(schema.id, v))
  BY InsertsCases, Zenon DEF Sound, Formed
<1> QED  BY <1>1, PinSound, Zenon

(* Of a Context formed like another, only the row writes may differ.       *)
LEMMA StillFormed ==
    ASSUME NEW c, Formed(c), NEW d, IsContext(d), d.row = c.row, SameIndex(c, d),
           c.pins \subseteq d.pins, d.writes \subseteq Tuples
    PROVE  Formed(d)
<1>1. Indexed(rows, entries, lost, schema, d, {})
  BY SameValues, Zenon DEF Formed
<1> QED  BY <1>1, Zenon DEF Formed, Typed

\* The effect of an INSERT on a row of c.
Inserted(c, p, v) == [here |-> "set", v |-> IF v = Null THEN c.row[p].v ELSE v]

(* An entry and a row with its row write.                                  *)
LEMMA InsertFormed ==
    ASSUME NEW c, Formed(c), NEW p \in PKs, NEW v \in Column, StoreTyped(rows, schema),
           emitIndexInserts(c, p, v).ok
    PROVE  LET d == EmitRow(emitIndexInserts(c, p, v).ctx, p, v)
               f == emitRowWrite(d, p, v)
           IN /\ Rest(c, d) /\ Rest(d, f) /\ Formed(f) /\ SameIndex(d, f)
              /\ f.row = d.row /\ f.pins = d.pins
              /\ c.pins \subseteq d.pins /\ SameTale(c, d)
              /\ f.writes = c.writes \cup {<<p, v>>} /\ f.silent = c.silent
              /\ f.row[p] = Inserted(c, p, v)
              /\ \A q \in PKs \ {p} : f.row[q] = c.row[q]
<1> DEFINE r == emitIndexInserts(c, p, v)
           e == Inserted(c, p, v)
           d == EmitRow(r.ctx, p, v)
           f == emitRowWrite(d, p, v)
<1>1. Rest(c, r.ctx) /\ SameTale(c, r.ctx) /\ r.ctx.row = c.row /\ c.pins \subseteq r.ctx.pins
  <2>1. IsContext(c)
    BY Zenon DEF Formed
  <2> QED  BY <2>1, InsertsFields, ZenonT(60)
<1>2. RowSet(r.ctx, d, p, e)
  <2>1. RowSet(r.ctx, d, p, [here |-> "set", v |-> IF v = Null THEN r.ctx.row[p].v ELSE v])
    BY <1>1, RowFields, Zenon DEF Rest
  <2> QED  BY <1>1, <2>1, Zenon DEF Inserted
<1> HIDE DEF r, d
<1>3. /\ Rest(d, f) /\ SameIndex(d, f) /\ f.row = d.row /\ f.pins = d.pins
      /\ f.writes = d.writes \cup {<<p, v>>} /\ f.silent = d.silent
  <2>1. IsContext(d)
    BY <1>2, Zenon DEF RowSet, Rest
  <2> QED  BY <2>1, TellFields
<1> HIDE DEF f
<1>4. IsEffect(e)
  BY ZenonT(60) DEF IsEffect, Formed, Typed, Column, Inserted
<1>5. Typed(f) /\ f.row[p] = e /\ \A q \in PKs \ {p} : f.row[q] = c.row[q]
  <2> HIDE DEF e
  <2>1. f.row[p] = e /\ \A q \in PKs \ {p} : f.row[q] = c.row[q]
    <3>1. f.row = [c.row EXCEPT ![p] = e] /\ c.row = [q \in PKs |-> c.row[q]]
      BY <1>1, <1>2, <1>3, Zenon DEF RowSet, Formed, IsContext
    <3> QED  BY <3>1, Zenon
  <2>2. f.writes \subseteq Tuples
    BY <1>1, <1>2, <1>3 DEF RowSet, SameTale, Formed, Typed, Tuples, Column
  <2> QED  BY <1>4, <2>1, <2>2, EffectsTyped, Zenon DEF Formed
<1>6. Indexed(rows, entries, lost, schema, f, {})
  <2>1. SameIndex(r.ctx, f) /\ f.pins = r.ctx.pins
    BY <1>2, <1>3, Zenon DEF RowSet, SameIndex
  <2>2. CASE v # Null
    <3>1. f.row[p].v = v
      BY <1>5, <2>2 DEF Inserted
    <3>2. Indexed(rows, entries, lost, schema, c, {p})
      BY Zenon DEF Formed, Indexed, Tracks, Covered, Apart
    <3> HIDE DEF e
    <3> QED  BY <1>5, <2>1, <3>1, <3>2, InsertSettles DEF Formed, r
  <2>3. CASE v = Null
    <3>1. r.ctx = c
      BY <2>3, Zenon DEF r, emitIndexInserts
    <3>2. \A q \in PKs : f.row[q].v = c.row[q].v
      BY <1>5, <2>3 DEF Inserted
    <3> QED  BY <2>1, <3>1, <3>2, SameValues, Zenon DEF Formed
  <2> QED  BY <2>2, <2>3, Zenon
<1>7. Rest(c, d) /\ SameTale(c, d) /\ c.pins \subseteq d.pins
  <2>1. Rest(c, d)
    BY <1>1, <1>2, RestChain, Zenon DEF RowSet
  <2> QED  BY <1>1, <1>2, <2>1, Zenon DEF RowSet, SameTale
<1>8. Formed(f)
  BY <1>3, <1>5, <1>6, Zenon DEF Formed, Rest
<1>9. f.writes = c.writes \cup {<<p, v>>} /\ f.silent = c.silent
  BY <1>3, <1>7, Zenon DEF SameTale
<1> QED  BY <1>3, <1>5, <1>7, <1>8, <1>9, Zenon DEF r, d, f

(* The row write of an inserted row tells of it.                           *)
LEMMA InsertTold ==
    ASSUME NEW c, NEW p \in PKs, NEW v \in Column, ToldRow(c, p), NEW f,
           f.row[p] = Inserted(c, p, v), c.writes \subseteq f.writes, <<p, v>> \in f.writes
    PROVE  ToldRow(f, p)
<1>1. CASE v # Null
  <2>1. f.row[p].v = v
    BY <1>1 DEF Inserted
  <2> QED  BY <2>1, NowTold, Zenon
<1>2. CASE v = Null
  <2>1. f.row[p].v = c.row[p].v
    BY <1>2 DEF Inserted
  <2>2. c.row[p].v \in Vals => <<p, c.row[p].v>> \in c.writes
    BY Zenon DEF ToldRow
  <2> QED  BY <1>2, <2>1, <2>2, NowTold, Zenon
<1> QED  BY <1>1, <1>2, Zenon

(* Where the index accepts the value, inserting the row and recording it   *)
(* leaves the Context sound.                                               *)
LEMMA InsertSound ==
    ASSUME NEW c, Sound(c), NEW p \in PKs, NEW v \in Column, StoreTyped(rows, schema),
           emitIndexInserts(c, p, v).ok
    PROVE  LET d == EmitRow(emitIndexInserts(c, p, v).ctx, p, v)
           IN Rest(c, d) /\ Sound(emitRowWrite(d, p, v)) /\ c.pins \subseteq d.pins
<1> DEFINE d == EmitRow(emitIndexInserts(c, p, v).ctx, p, v)
           f == emitRowWrite(d, p, v)
<1>1. /\ Rest(c, d) /\ Formed(f) /\ c.pins \subseteq d.pins
      /\ f.writes = c.writes \cup {<<p, v>>} /\ f.silent = c.silent
      /\ f.row[p] = Inserted(c, p, v)
      /\ \A q \in PKs \ {p} : f.row[q] = c.row[q]
  BY InsertFormed, SMTT(60) DEF Sound
<1> HIDE DEF d, f
<1>2. \A q \in PKs \ {p} : ToldRow(f, q)
  BY <1>1, StillTold, Zenon DEF Sound, Told
<1>3. ToldRow(f, p)
  BY <1>1, InsertTold, Zenon DEF Sound, Told
<1> QED  BY <1>1, <1>2, <1>3, Zenon DEF Sound, Told, d, f

(* A row removed with its entry.                                           *)
LEMMA DeleteFormed ==
    ASSUME NEW c, Formed(c), NEW p \in PKs, RowKey(p) \in c.pins, StoreTyped(rows, schema), NEW v,
           NEW f, IsContext(f), f.row = emitRowDelete(emitIndexRemoves(c, p, v), p).row,
           SameIndex(emitIndexRemoves(c, p, v), f), c.pins \subseteq f.pins,
           f.writes \subseteq Tuples
    PROVE  Formed(f) /\ f.row[p] = Gone /\ \A q \in PKs \ {p} : f.row[q] = c.row[q]
<1> DEFINE m == emitIndexRemoves(c, p, v)
           d == emitRowDelete(m, p)
<1>1. /\ Rest(c, m) /\ SameTale(c, m) /\ m.row = c.row /\ m.pins = c.pins
      /\ Indexed(rows, entries, lost, schema, m, {p})
  BY RemovesFields, ZenonT(60) DEF Formed
<1>2. RowSet(m, d, p, Gone)
  BY <1>1, RowFields, Zenon DEF Rest
<1> HIDE DEF m, d
<1>3. f.row[p] = Gone /\ \A q \in PKs \ {p} : f.row[q] = c.row[q]
  BY <1>1, <1>2, ZenonT(60) DEF RowSet, m, d, Formed, IsContext
<1>4. IsEffect(Gone) /\ Gone.v = Null
  BY DEF IsEffect, Gone, Column
<1>5. Typed(f)
  BY <1>3, <1>4, EffectsTyped, Zenon DEF Formed
<1>6. Indexed(rows, entries, lost, schema, f, {})
  BY <1>1, <1>3, <1>4, NullSettles, Zenon DEF m
<1> QED  BY <1>3, <1>5, <1>6, Zenon DEF Formed

(* A removed row is told of by any row write of it, or put down as silent. *)
LEMMA GoneTold ==
    ASSUME NEW f, NEW p, f.row[p] = Gone, p \in Recorded(f) \cup f.silent
    PROVE  ToldRow(f, p)
<1>1. Gone.v = Null /\ Gone.here = "gone"
  BY DEF Gone
<1>2. Null \notin Vals
  BY ValsAssumption DEF Null
<1> QED  BY <1>1, <1>2, Zenon DEF ToldRow

(* INSERT keeps a Context sound.                                           *)
LEMMA InsertWrote ==
    ASSUME NEW c, Sound(c), NEW p \in PKs, NEW v \in Column, StoreTyped(rows, schema)
    PROVE  Wrote(c, doInsert(c, p, v).ctx)
<1> DEFINE k == Pin(c, SchemaKey)
           r == emitIndexInserts(k, p, v)
           d == EmitRow(r.ctx, p, v)
           f == emitRowWrite(d, p, v)
<1>1. Rest(c, k) /\ SchemaKey \in k.pins /\ Sound(k)
  BY PinFields, PinSound DEF Sound, Formed
<1>2. doInsert(c, p, v) = IF r.ok THEN [r EXCEPT !.ctx = f] ELSE r
  BY Zenon DEF doInsert, Then
<1> HIDE DEF k
<1>3. IsResult(r) /\ Rest(k, r.ctx) /\ k.pins \subseteq r.ctx.pins
  BY <1>1, InsertsKeep, InsertsFields, Zenon DEF Sound, Formed
<1>4. CASE r.ok
  <2>1. doInsert(c, p, v).ctx = f
    BY <1>2, <1>3, <1>4, ThenKeeps, ZenonT(60)
  <2>2. Rest(k, d) /\ Sound(f) /\ k.pins \subseteq d.pins
    BY <1>1, <1>4, InsertSound, Zenon
  <2>3. Rest(d, f) /\ f.pins = d.pins
    <3> HIDE DEF d
    <3> QED  BY <2>2, TellFields DEF Rest
  <2> HIDE DEF d, f
  <2> QED  BY <1>1, <2>1, <2>2, <2>3, Zenon DEF Wrote, Rest
<1>5. CASE ~r.ok
  BY <1>1, <1>2, <1>3, <1>5, FailSound, Zenon DEF Wrote, Rest
<1> QED  BY <1>4, <1>5, Zenon

(* DELETE keeps a Context sound.                                           *)
LEMMA DeleteWrote ==
    ASSUME NEW c, Sound(c), NEW p \in PKs, StoreTyped(rows, schema)
    PROVE  Wrote(c, DeleteRow(c, p).ctx)
<1> DEFINE h == Pin(c, SchemaKey)
           k == Pin(h, RowKey(p))
           v == RowIn(c, p).v
           m == emitIndexRemoves(k, p, v)
           d == emitRowDelete(m, p)
           f == emitRowWrite(d, p, v)
<1>1. Rest(c, h) /\ SchemaKey \in h.pins /\ Sound(h) /\ SameTale(c, h)
  BY PinFields, PinSound DEF Sound, Formed
<1>2. DeleteRow(c, p).ctx = f
  BY Zenon DEF DeleteRow
<1>3. v \in Column
  BY ValueTyped, Zenon DEF Sound, Formed
<1> HIDE DEF h, v
<1>4. Rest(h, k) /\ k.pins = h.pins \cup {RowKey(p)} /\ Sound(k) /\ SameTale(h, k)
  BY <1>1, PinFields, PinSound DEF Sound, Formed
<1> HIDE DEF k
<1>5. /\ Rest(k, m) /\ SameTale(k, m) /\ m.row = k.row /\ m.pins = k.pins
  BY <1>4, RemovesFields, Zenon DEF Sound, Formed
<1> HIDE DEF m
<1>6. RowSet(m, d, p, Gone)
  BY <1>5, RowFields, Zenon DEF Rest
<1> HIDE DEF d
<1>7. /\ Rest(d, f) /\ SameIndex(d, f) /\ f.row = d.row /\ f.pins = d.pins
      /\ f.writes = d.writes \cup {<<p, v>>} /\ f.silent = d.silent
  BY <1>6, TellFields DEF RowSet, Rest
<1> HIDE DEF f
<1>8. /\ Rest(c, f) /\ SchemaKey \in f.pins /\ k.pins \subseteq f.pins /\ SameIndex(m, f)
      /\ f.writes = k.writes \cup {<<p, v>>} /\ f.silent = k.silent
  <2>1. Rest(m, d) /\ SameIndex(m, d) /\ SameTale(m, d) /\ d.pins = m.pins
    BY <1>6, Zenon DEF RowSet
  <2>2. Rest(c, f)
    <3>1. Rest(c, k)
      BY <1>1, <1>4, RestChain, Zenon
    <3>2. Rest(k, d)
      BY <1>5, <2>1, RestChain, Zenon
    <3>3. Rest(k, f)
      BY <1>7, <3>2, RestChain, Zenon
    <3> QED  BY <3>1, <3>3, RestChain, Zenon
  <2>3. SchemaKey \in f.pins /\ k.pins \subseteq f.pins
    BY <1>1, <1>4, <1>5, <1>7, <2>1, Zenon
  <2>4. SameIndex(m, f)
    BY <1>7, <2>1, Zenon DEF SameIndex
  <2>5. f.writes = k.writes \cup {<<p, v>>} /\ f.silent = k.silent
    BY <1>5, <1>7, <2>1, Zenon DEF SameTale
  <2> QED  BY <2>2, <2>3, <2>4, <2>5, Zenon
<1>9. f.writes \subseteq Tuples /\ p \in Recorded(f)
  <2>1. <<p, v>> \in Tuples /\ k.writes \subseteq Tuples
    BY <1>3, <1>4 DEF Sound, Formed, Typed, Tuples, Column
  <2>2. <<p, v>>[1] = p
    BY Zenon
  <2> QED  BY <1>8, <2>1, <2>2, Zenon DEF Recorded
<1>10. Formed(f) /\ f.row[p] = Gone /\ \A q \in PKs \ {p} : f.row[q] = k.row[q]
  <2>1. IsContext(f) /\ f.row = d.row
    BY <1>7, <1>8, Zenon DEF Rest
  <2> QED  BY <1>4, <1>8, <1>9, <2>1, DeleteFormed DEF m, d, Sound
<1>11. Told(f)
  <2>1. \A q \in PKs \ {p} : ToldRow(f, q)
    BY <1>4, <1>8, <1>10, StillTold, Zenon DEF Sound, Told
  <2>2. ToldRow(f, p)
    BY <1>9, <1>10, GoneTold
  <2> QED  BY <2>1, <2>2, Zenon DEF Told
<1> QED  BY <1>2, <1>8, <1>10, <1>11, Zenon DEF Wrote, Sound

(* Recording a lost entry changes nothing else.                            *)
LEMMA LostFields ==
    ASSUME NEW r, IsResult(r), IsContext(r.ctx), NEW e
    PROVE  LET g == [r EXCEPT !.ctx.lost = @ \cup {e}].ctx
           IN /\ Rest(r.ctx, g) /\ SameTale(r.ctx, g) /\ g.row = r.ctx.row /\ g.pins = r.ctx.pins
              /\ g.put = r.ctx.put /\ g.cut = r.ctx.cut /\ g.lost = r.ctx.lost \cup {e}
<1>1. [r EXCEPT !.ctx.lost = @ \cup {e}].ctx = [r.ctx EXCEPT !.lost = @ \cup {e}]
  BY Zenon DEF IsResult
<1>2. LET g == [r.ctx EXCEPT !.lost = @ \cup {e}]
      IN /\ Rest(r.ctx, g) /\ SameTale(r.ctx, g) /\ g.row = r.ctx.row /\ g.pins = r.ctx.pins
         /\ g.put = r.ctx.put /\ g.cut = r.ctx.cut /\ g.lost = r.ctx.lost \cup {e}
  BY Zenon DEF IsContext, Fields, Rest, SameTale
<1> QED  BY <1>1, <1>2, Zenon

(* A failed same-PK UPDATE keeps a Context sound, its lost entry noted.    *)
LEMMA LossSound ==
    ASSUME NEW k, Sound(k), NEW p \in PKs, RowKey(p) \in k.pins, NEW v, NEW old,
           old = Value(rows, k, p), StoreTyped(rows, schema), old # Null,
           ~emitIndexInserts(emitIndexRemoves(k, p, old), p, v).ok
    PROVE  LET i == emitIndexInserts(emitIndexRemoves(k, p, old), p, v)
               g == [i EXCEPT !.ctx.lost = @ \cup {<<schema.id, old, p>>}].ctx
           IN Rest(k, g) /\ Sound(g) /\ k.pins \subseteq g.pins
<1> DEFINE m == emitIndexRemoves(k, p, old)
           i == emitIndexInserts(m, p, v)
           e == <<schema.id, old, p>>
           g == [i EXCEPT !.ctx.lost = @ \cup {e}].ctx
<1>1. /\ Rest(k, m) /\ SameTale(k, m) /\ m.row = k.row /\ m.pins = k.pins /\ m.lost = k.lost
      /\ Indexed(rows, entries, lost, schema, m, {p})
      /\ schema.id # 0 => e \notin m.put
  BY RemovesFields, Zenon DEF Sound, Formed
<1> HIDE DEF m
<1>2. /\ schema.id # 0 /\ IsResult(i)
      /\ Rest(m, i.ctx) /\ SameTale(m, i.ctx) /\ i.ctx.row = m.row /\ m.pins \subseteq i.ctx.pins
      /\ SameIndex(m, i.ctx)
  <2>1. IsContext(m) /\ ~i.ok
    BY <1>1, Zenon DEF Rest, m
  <2>2. schema.id # 0
    BY <2>1, InsertsCases, Zenon
  <2> QED  BY <2>1, <2>2, InsertsKeep, InsertsFields, Zenon
<1> HIDE DEF i, e
<1>3. /\ Rest(i.ctx, g) /\ SameTale(i.ctx, g) /\ g.row = i.ctx.row /\ g.pins = i.ctx.pins
      /\ g.put = i.ctx.put /\ g.cut = i.ctx.cut /\ g.lost = i.ctx.lost \cup {e}
  <2>1. IsResult(i) /\ IsContext(i.ctx)
    BY <1>2, Zenon DEF Rest
  <2> QED  BY <2>1, LostFields, Zenon
<1> HIDE DEF g
<1>4. /\ g.row = m.row /\ g.put = m.put /\ g.cut = m.cut /\ m.pins \subseteq g.pins
      /\ g.lost = m.lost \cup {e} /\ Rest(k, g) /\ SameTale(k, g)
  BY <1>1, <1>2, <1>3, Zenon DEF SameIndex, Rest, SameTale
<1>5. Value(rows, m, p) = old
  BY <1>1, Zenon DEF Value
<1>6. m.row[p].v \in Vals => EntryKey(schema.id, m.row[p].v) \in m.pins
  BY <1>1, <1>2, Zenon DEF Sound, Formed, Indexed, Tracks
<1>7. Indexed(rows, entries, lost, schema, g, {})
  BY <1>1, <1>2, <1>4, <1>5, <1>6, LossSettles, SMTT(60) DEF e
<1>8. Told(g)
  BY <1>1, <1>4, StillTold DEF Sound, Formed, Told, SameTale
<1>9. Typed(g)
  BY <1>1, <1>4, Zenon DEF Sound, Formed, Typed, SameTale
<1> QED  BY <1>1, <1>4, <1>7, <1>8, <1>9, Zenon DEF Sound, Formed, Rest, g, i, m, e

(* A same-PK UPDATE keeps a Context sound.                                 *)
LEMMA UpdateWrote ==
    ASSUME NEW c, Sound(c), NEW p \in PKs, NEW v \in Column, StoreTyped(rows, schema)
    PROVE  Wrote(c, samePKUpdate(c, p, v).ctx)
<1> DEFINE h   == Pin(c, SchemaKey)
           k   == Pin(h, RowKey(p))
           old == RowIn(k, p).v
           m   == emitIndexRemoves(k, p, old)
           i   == emitIndexInserts(m, p, v)
           r   == emitIndexDeltasSamePK(k, p, v)
           d   == emitSamePKUpdate(r.ctx, p, v)
           f   == emitRowWrite(d, p, v)
           g   == [i EXCEPT !.ctx.lost = @ \cup {<<schema.id, old, p>>}]
<1>1. Rest(c, h) /\ SchemaKey \in h.pins /\ Sound(h) /\ SameTale(c, h)
  BY PinFields, PinSound DEF Sound, Formed
<1>2. samePKUpdate(c, p, v) = IF r.ok THEN [r EXCEPT !.ctx = f] ELSE r
  BY Zenon DEF samePKUpdate, Then
<1>3. r = IF i.ok \/ old = Null THEN i ELSE g
  BY Zenon DEF emitIndexDeltasSamePK
<1> HIDE DEF h, r
<1>4. Rest(h, k) /\ k.pins = h.pins \cup {RowKey(p)} /\ Sound(k) /\ SameTale(h, k)
  BY <1>1, PinFields, PinSound DEF Sound, Formed
<1>5. old = Value(rows, k, p) /\ old \in Column
  BY <1>4, ValueTyped, Zenon DEF Sound, Formed
<1> HIDE DEF k, old
<1>6. /\ Rest(k, m) /\ SameTale(k, m) /\ m.row = k.row /\ m.pins = k.pins
      /\ Indexed(rows, entries, lost, schema, m, {p})
      /\ old = Null => m = k
  BY <1>4, RemovesFields, Zenon DEF Sound, Formed
<1> HIDE DEF m
<1>7. /\ IsResult(i)
      /\ Rest(m, i.ctx) /\ SameTale(m, i.ctx) /\ i.ctx.row = m.row /\ m.pins \subseteq i.ctx.pins
  <2>1. IsContext(m)
    BY <1>6, Zenon DEF Rest
  <2> QED  BY <2>1, InsertsKeep, InsertsFields, Zenon
<1>8. CASE i.ok
  <2> DEFINE x == [k.row[p] EXCEPT !.v = v]
  <2>1. r = i /\ samePKUpdate(c, p, v).ctx = f
    <3> HIDE DEF f, i, g
    <3>1. r = i
      BY <1>3, <1>8, Zenon
    <3>2. samePKUpdate(c, p, v) = [i EXCEPT !.ctx = f]
      BY <1>2, <1>8, <3>1, Zenon
    <3> QED  BY <1>7, <3>1, <3>2, Zenon DEF IsResult
  <2>2. RowSet(i.ctx, d, p, x)
    <3>1. IsContext(i.ctx) /\ i.ctx.row = k.row
      BY <1>6, <1>7, Zenon DEF Rest
    <3> QED  BY <2>1, <3>1, RowFields, Zenon
  <2> HIDE DEF d, x
  <2>3. /\ Rest(d, f) /\ SameIndex(d, f) /\ f.row = d.row /\ f.pins = d.pins
        /\ f.writes = d.writes \cup {<<p, v>>} /\ f.silent = d.silent
    BY <2>2, TellFields DEF RowSet, Rest
  <2> HIDE DEF f, i
  <2>4. /\ Rest(c, f) /\ SchemaKey \in f.pins /\ SameIndex(i.ctx, f) /\ f.pins = i.ctx.pins
        /\ f.writes = k.writes \cup {<<p, v>>} /\ f.silent = k.silent
    <3>1. Rest(c, i.ctx) /\ Rest(i.ctx, d)
      BY <1>1, <1>4, <1>6, <1>7, <2>2, RestChain, Zenon DEF RowSet
    <3>2. Rest(c, f)
      BY <2>3, <3>1, RestChain, Zenon
    <3>3. SameIndex(i.ctx, f) /\ f.pins = i.ctx.pins /\ SchemaKey \in f.pins
      BY <1>1, <1>4, <1>6, <1>7, <2>2, <2>3, Zenon DEF RowSet, SameIndex
    <3>4. f.writes = k.writes \cup {<<p, v>>} /\ f.silent = k.silent
      BY <1>6, <1>7, <2>2, <2>3, Zenon DEF RowSet, SameTale
    <3> QED  BY <3>2, <3>3, <3>4, Zenon
  <2>5. f.row[p] = x /\ \A q \in PKs \ {p} : f.row[q] = k.row[q]
    <3>1. f.row = [k.row EXCEPT ![p] = x] /\ k.row = [q \in PKs |-> k.row[q]]
      BY <1>4, <1>6, <1>7, <2>2, <2>3, Zenon DEF RowSet, Sound, Formed, IsContext
    <3> QED  BY <3>1, Zenon
  <2>6. IsEffect(f.row[p]) /\ f.row[p].v = v
    <3>1. IsEffect(k.row[p])
      BY <1>4, Zenon DEF Sound, Formed, Typed
    <3>2. f.row[p] = [here |-> k.row[p].here, v |-> v]
      BY <2>5, <3>1 DEF IsEffect, x
    <3> QED  BY <3>1, <3>2 DEF IsEffect
  <2>7. f.writes \subseteq Tuples /\ <<p, v>> \in f.writes
    BY <1>4, <2>4 DEF Sound, Formed, Typed, Tuples, Column
  <2>8. Typed(f)
    BY <1>4, <2>5, <2>6, <2>7, EffectsTyped, Zenon DEF Sound, Formed
  <2>9. Told(f)
    <3>1. \A q \in PKs \ {p} : ToldRow(f, q)
      BY <1>4, <2>4, <2>5, StillTold, Zenon DEF Sound, Formed, Told
    <3>2. ToldRow(f, p)
      BY <2>6, <2>7, NowTold, Zenon
    <3> QED  BY <3>1, <3>2, Zenon DEF Told
  <2>10. Indexed(rows, entries, lost, schema, f, {})
    <3>1. IsContext(m) /\ \A q \in PKs \ {p} : f.row[q] = m.row[q]
      BY <1>6, <2>5, Zenon DEF Rest
    <3> QED  BY <1>6, <1>8, <2>4, <2>6, <3>1, InsertSettles DEF i
  <2> QED  BY <2>1, <2>4, <2>8, <2>9, <2>10, Zenon DEF Wrote, Sound, Formed, Rest
<1>9. CASE ~i.ok /\ old = Null
  <2>1. samePKUpdate(c, p, v).ctx = i.ctx /\ m = k
    BY <1>2, <1>3, <1>6, <1>9, Zenon
  <2>2. Sound(i.ctx)
    BY <1>4, <1>9, <2>1, FailSound, Zenon
  <2> QED  BY <1>1, <1>4, <1>6, <1>7, <2>1, <2>2, Zenon DEF Wrote, Rest
<1>10. CASE ~i.ok /\ old # Null
  <2>1. samePKUpdate(c, p, v).ctx = g.ctx
    <3>1. g.ok = i.ok
      BY <1>7, Zenon DEF IsResult
    <3> QED  BY <1>2, <1>3, <1>10, <3>1, Zenon
  <2>2. Rest(k, g.ctx) /\ Sound(g.ctx) /\ k.pins \subseteq g.ctx.pins
    BY <1>4, <1>5, <1>10, LossSound DEF m
  <2> HIDE DEF g
  <2> QED  BY <1>1, <1>4, <2>1, <2>2, Zenon DEF Wrote, Rest
<1> QED  BY <1>8, <1>9, <1>10, Zenon

(* Recording a row removed without a row write changes nothing else.       *)
LEMMA SilentFields ==
    ASSUME NEW r, IsResult(r), IsContext(r.ctx), NEW p
    PROVE  LET g == [r EXCEPT !.ctx.silent = @ \cup {p}].ctx
           IN /\ Rest(r.ctx, g) /\ SameIndex(r.ctx, g) /\ g.row = r.ctx.row /\ g.pins = r.ctx.pins
              /\ g.writes = r.ctx.writes /\ g.silent = r.ctx.silent \cup {p}
<1>1. [r EXCEPT !.ctx.silent = @ \cup {p}].ctx = [r.ctx EXCEPT !.silent = @ \cup {p}]
  BY Zenon DEF IsResult
<1>2. LET g == [r.ctx EXCEPT !.silent = @ \cup {p}]
      IN /\ Rest(r.ctx, g) /\ SameIndex(r.ctx, g) /\ g.row = r.ctx.row /\ g.pins = r.ctx.pins
         /\ g.writes = r.ctx.writes /\ g.silent = r.ctx.silent \cup {p}
  BY Zenon DEF IsContext, Fields, Rest, SameIndex
<1> QED  BY <1>1, <1>2, Zenon

(* A PK-change UPDATE keeps a Context sound, whether it fails or not.      *)
LEMMA MoveWrote ==
    ASSUME NEW c, Sound(c), NEW p \in PKs, NEW q \in PKs \ {p}, NEW w \in Column \cup {Unchanged},
           StoreTyped(rows, schema)
    PROVE  Wrote(c, emitPKChange(c, p, q, w).ctx)
<1> DEFINE h    == Pin(c, SchemaKey)
           k    == Pin(h, RowKey(p))
           old  == RowIn(c, p).v
           v    == IF w = Unchanged THEN old ELSE w
           m    == emitIndexRemoves(k, p, old)
           gone == emitRowDelete(m, p)
           r    == emitIndexInserts(gone, q, v)
           d    == EmitRow(r.ctx, q, v)
           f    == emitRowWrite(d, q, v)
           a    == emitRowWrite(d, p, old)
           b    == emitRowWrite(a, q, v)
           g    == [r EXCEPT !.ctx.silent = @ \cup {p}].ctx
<1>1. Rest(c, h) /\ SchemaKey \in h.pins /\ Sound(h) /\ SameTale(c, h)
  BY PinFields, PinSound DEF Sound, Formed
<1>2. emitPKChange(c, p, q, w) = IF r.ok THEN [r EXCEPT !.ctx = b]
                                 ELSE [r EXCEPT !.ctx.silent = @ \cup {p}]
  BY Zenon DEF emitPKChange
<1>3. old \in Column
  BY ValueTyped, Zenon DEF Sound, Formed
<1>4. v \in Column
  BY <1>3, Zenon
<1> HIDE DEF h, old, v
<1>5. Rest(h, k) /\ k.pins = h.pins \cup {RowKey(p)} /\ Sound(k) /\ SameTale(h, k)
  BY <1>1, PinFields, PinSound, SMTT(60) DEF Sound, Formed
<1> HIDE DEF k
<1>6. Rest(k, m) /\ SameTale(k, m) /\ m.row = k.row /\ m.pins = k.pins
  BY <1>5, RemovesFields, ZenonT(60) DEF Sound, Formed
<1>7. RowSet(m, gone, p, Gone)
  <2> HIDE DEF m
  <2> QED  BY <1>6, RowFields, Zenon DEF Rest
<1>8. Rest(k, gone) /\ SameTale(k, gone) /\ gone.pins = k.pins
  BY <1>6, <1>7, Zenon DEF RowSet, Rest, SameTale
<1>9. Formed(gone) /\ gone.row[p] = Gone /\ \A x \in PKs \ {p} : gone.row[x] = k.row[x]
  <2>1. /\ IsContext(gone) /\ SameIndex(m, gone) /\ k.pins \subseteq gone.pins
        /\ gone.writes \subseteq Tuples
    BY <1>5, <1>7, <1>8, Zenon DEF RowSet, Rest, SameTale, Sound, Formed, Typed
  <2> QED  BY <1>5, <2>1, DeleteFormed DEF Sound
<1> HIDE DEF m, gone
<1>10. /\ IsResult(r)
       /\ Rest(gone, r.ctx) /\ SameTale(gone, r.ctx) /\ r.ctx.row = gone.row
       /\ gone.pins \subseteq r.ctx.pins
       /\ ~r.ok => SameIndex(gone, r.ctx)
  BY <1>9, InsertsKeep, InsertsFields, ZenonT(60) DEF Formed
<1>11. Rest(c, gone) /\ SchemaKey \in gone.pins
  BY <1>1, <1>5, <1>8, Zenon DEF Rest
<1>12. ASSUME NEW y, \A x \in PKs \ {p, q} : y.row[x] = gone.row[x], k.writes \subseteq y.writes,
              k.silent \subseteq y.silent, ToldRow(y, p), ToldRow(y, q)
       PROVE  Told(y)
  <2>1. ASSUME NEW x \in PKs \ {p, q} PROVE ToldRow(y, x)
    BY <1>5, <1>9, <1>12, StillTold, Zenon DEF Sound, Told
  <2> QED  BY <1>12, <2>1, Zenon DEF Told
<1>13. CASE r.ok
  <2>1. /\ Rest(gone, d) /\ Formed(f) /\ SameIndex(d, f) /\ f.row = d.row /\ f.pins = d.pins
        /\ gone.pins \subseteq d.pins /\ SameTale(gone, d) /\ f.writes = gone.writes \cup {<<q, v>>}
        /\ f.row[q] = Inserted(gone, q, v) /\ \A x \in PKs \ {q} : f.row[x] = gone.row[x]
    BY <1>4, <1>9, <1>13, InsertFormed, SMTT(60)
  <2> HIDE DEF d, f, r
  <2>2. /\ Rest(d, a) /\ SameIndex(d, a) /\ a.row = d.row /\ a.pins = d.pins
        /\ a.writes = d.writes \cup {<<p, old>>} /\ a.silent = d.silent
    <3>1. IsContext(d)
      BY <2>1, Zenon DEF Rest
    <3> QED  BY <3>1, TellFields, SMTT(60)
  <2> HIDE DEF a
  <2>3. /\ Rest(a, b) /\ SameIndex(a, b) /\ b.row = a.row /\ b.pins = a.pins
        /\ b.writes = a.writes \cup {<<q, v>>} /\ b.silent = a.silent
    <3>1. IsContext(a)
      BY <2>2, Zenon DEF Rest
    <3> QED  BY <3>1, TellFields
  <2> HIDE DEF b
  <2>4. emitPKChange(c, p, q, w).ctx = b
    BY <1>2, <1>10, <1>13, Zenon DEF IsResult
  <2>5. Rest(c, b)
    BY <1>11, <2>1, <2>2, <2>3, RestChain, Zenon
  <2>6. /\ b.row = f.row /\ SameIndex(f, b) /\ f.pins \subseteq b.pins /\ SchemaKey \in b.pins
        /\ b.writes = gone.writes \cup {<<p, old>>, <<q, v>>} /\ b.silent = gone.silent
    BY <1>11, <2>1, <2>2, <2>3 DEF SameIndex, SameTale
  <2>7. b.writes \subseteq Tuples
    <3>1. <<p, old>> \in Tuples /\ <<q, v>> \in Tuples
      BY <1>3, <1>4 DEF Tuples, Column
    <3> QED  BY <1>9, <2>6, <3>1, Zenon DEF Formed, Typed
  <2>8. Formed(b)
    <3>1. IsContext(b)
      BY <2>5, Zenon DEF Rest
    <3> QED  BY <2>1, <2>6, <2>7, <3>1, StillFormed, Zenon
  <2>9. ToldRow(b, p)
    <3>1. b.row[p] = Gone
      BY <1>9, <2>1, <2>6, Zenon
    <3>2. p \in Recorded(b)
      <4>1. <<p, old>>[1] = p /\ <<p, old>> \in b.writes
        BY <2>6, Zenon
      <4> QED  BY <4>1, Zenon DEF Recorded
    <3> QED  BY <3>1, <3>2, GoneTold
  <2>10. ToldRow(b, q)
    <3>1. ToldRow(gone, q)
      BY <1>5, <1>8, <1>9, StillTold, Zenon DEF Sound, Told, SameTale
    <3> QED  BY <1>4, <2>1, <2>6, <3>1, InsertTold, Zenon
  <2>11. Told(b)
    BY <1>8, <1>12, <2>1, <2>6, <2>9, <2>10, Zenon DEF SameTale
  <2> QED  BY <2>4, <2>5, <2>6, <2>8, <2>11, Zenon DEF Wrote, Sound
<1>14. CASE ~r.ok
  <2>1. emitPKChange(c, p, q, w).ctx = g
    BY <1>2, <1>14, Zenon
  <2>2. /\ Rest(r.ctx, g) /\ SameIndex(r.ctx, g) /\ g.row = r.ctx.row /\ g.pins = r.ctx.pins
        /\ g.writes = r.ctx.writes /\ g.silent = r.ctx.silent \cup {p}
    <3>1. IsContext(r.ctx)
      BY <1>10, Zenon DEF Rest
    <3> HIDE DEF r
    <3> QED  BY <1>10, <3>1, SilentFields, Zenon
  <2> HIDE DEF g, r
  <2>3. /\ Rest(c, g) /\ SameIndex(gone, g) /\ g.row = gone.row /\ gone.pins \subseteq g.pins
        /\ g.writes = gone.writes /\ g.silent = gone.silent \cup {p}
    <3>1. Rest(c, g)
      BY <1>10, <1>11, <2>2, RestChain, Zenon
    <3> QED  BY <1>10, <1>14, <2>2, <3>1, Zenon DEF SameIndex, SameTale
  <2>4. Formed(g)
    BY <1>9, <2>3, StillFormed, Zenon DEF Formed, Typed, Rest
  <2>5. ToldRow(g, p)
    BY <1>9, <2>3, GoneTold
  <2>6. ToldRow(g, q)
    <3>1. g.row[q] = k.row[q] /\ k.writes \subseteq g.writes /\ k.silent \subseteq g.silent
      BY <1>8, <1>9, <2>3, Zenon DEF SameTale
    <3> QED  BY <1>5, <3>1, StillTold, Zenon DEF Sound, Told
  <2>7. Told(g)
    BY <1>8, <1>12, <2>3, <2>5, <2>6, Zenon DEF SameTale
  <2> QED  BY <1>11, <2>1, <2>3, <2>4, <2>7, Zenon DEF Wrote, Sound
<1> QED  BY <1>13, <1>14, Zenon

\* The values a statement's writes carry.
CarriesValue(w) == /\ w.op = "insert" \/ w.to = w.pk => w.op = "delete" \/ w.v \in Column
                   /\ w.v \in Column \cup {Unchanged}

(* Every statement keeps a Context sound.                                  *)
LEMMA WriteWrote ==
    ASSUME NEW c, Sound(c), NEW w, IsWrite(w), CarriesValue(w), StoreTyped(rows, schema)
    PROVE  Wrote(c, Write(c, w).ctx)
<1>1. CASE w.op = "insert"
  <2>1. Write(c, w) = doInsert(c, w.pk, w.v) /\ w.v \in Column /\ w.pk \in PKs
    BY <1>1 DEF Write, CarriesValue, IsWrite
  <2> QED  BY <2>1, InsertWrote, Zenon
<1>2. CASE w.op = "update" /\ w.to = w.pk
  <2>1. Write(c, w) = samePKUpdate(c, w.pk, w.v) /\ w.v \in Column /\ w.pk \in PKs
    BY <1>2 DEF Write, CarriesValue, IsWrite
  <2> QED  BY <2>1, UpdateWrote, Zenon
<1>3. CASE w.op = "update" /\ w.to # w.pk
  <2>1. /\ Write(c, w) = emitPKChange(c, w.pk, w.to, w.v)
        /\ w.v \in Column \cup {Unchanged} /\ w.pk \in PKs /\ w.to \in PKs \ {w.pk}
    BY <1>3 DEF Write, CarriesValue, IsWrite
  <2> QED  BY <2>1, MoveWrote, Zenon
<1>4. CASE w.op = "delete"
  <2>1. Write(c, w) = DeleteRow(c, w.pk) /\ w.pk \in PKs
    BY <1>4 DEF Write, IsWrite
  <2> QED  BY <2>1, DeleteWrote, Zenon
<1> QED  BY <1>1, <1>2, <1>3, <1>4, Zenon DEF IsWrite

(***************************************************************************)
(* Commits.  The committed rows R, entries N, lost entries L, rows Q       *)
(* removed silently and schema S are parameters; a commit of d makes them  *)
(* R2, N2, L2, Q2 and S2.                                                  *)
(***************************************************************************)
Shown(R, d, p) == [here |-> IF d.row[p].here = "keep" THEN R[p].here ELSE d.row[p].here = "set",
                   v    |-> Value(R, d, p)]

(* The value that a flushed row has, and that a removed row is not there.  *)
LEMMA ShownFields ==
    ASSUME NEW R, NEW d, NEW p
    PROVE  /\ Shown(R, d, p).v = Value(R, d, p)
           /\ d.row[p].here = "gone" => ~Shown(R, d, p).here
<1>1. Shown(R, d, p).v = Value(R, d, p)
  BY Zenon DEF Shown
<1>2. d.row[p].here = "gone" => Shown(R, d, p).here = ("gone" = "set")
  BY Zenon DEF Shown
<1> QED  BY <1>1, <1>2, ZenonT(60)

\* The committed rows, entries and lost entries are right for each other.
Stored(R, N, L, S) ==
    /\ S.id # 0 => \A p \in PKs, v \in Vals : R[p].v = v => <<S.id, v, p>> \in N \cup L
    /\ S.unique => \A p, q \in PKs, v \in Vals :
                       p # q /\ R[p].v = v /\ R[q].v = v
                           => <<S.id, v, p>> \in L \/ <<S.id, v, q>> \in L

(* A Context without effects shows what is committed.                      *)
LEMMA BlankIndexed ==
    ASSUME NEW R, NEW N, NEW L, NEW S, NEW c, Stored(R, N, L, S), Blank(c)
    PROVE  Indexed(R, N, L, S, c, {})
<1>1. Keep.v = Unchanged /\ \A v \in Vals : v # Unchanged
  BY ValsAssumption DEF Keep, Unchanged
<1>2. \A p \in PKs : Value(R, c, p) = R[p].v
  BY <1>1, Zenon DEF Value, Blank
<1>3. Tracks(S.id, c, {})
  BY <1>1 DEF Tracks, Blank
<1>4. S.id # 0 => Covered(R, N, L, S.id, c, {})
  BY <1>2, Zenon DEF Covered, Stored, Blank
<1>5. S.unique => Apart(R, L, S.id, c, {})
  BY <1>2, Zenon DEF Apart, Stored, Blank
<1> QED  BY <1>3, <1>4, <1>5, Zenon DEF Indexed

(* The commit of a sound Context leaves the store right.                   *)
LEMMA FlushStored ==
    ASSUME NEW R, NEW N, NEW L, NEW S, NEW d, Indexed(R, N, L, S, d, {}), S.unique => S.id # 0,
           NEW R2, \A p \in PKs : R2[p].v = Value(R, d, p),
           NEW N2, N2 = (N \ d.cut) \cup d.put, NEW L2, L2 = (L \cup d.lost) \ d.put
    PROVE  Stored(R2, N2, L2, S)
<1>1. ASSUME S.id # 0, NEW p \in PKs, NEW v \in Vals, R2[p].v = v
      PROVE  <<S.id, v, p>> \in N2 \cup L2
  <2>1. <<S.id, v, p>> \in (N \ d.cut) \cup d.put \cup L \cup d.lost
    BY <1>1, Zenon DEF Indexed, Covered
  <2> QED  BY <2>1, Zenon
<1>2. ASSUME S.unique, NEW p \in PKs, NEW q \in PKs, NEW v \in Vals, p # q, R2[p].v = v, R2[q].v = v
      PROVE  <<S.id, v, p>> \in L2 \/ <<S.id, v, q>> \in L2
  <2>1. \/ <<S.id, v, p>> \in (L \ d.put) \cup d.lost
        \/ <<S.id, v, q>> \in (L \ d.put) \cup d.lost
    BY <1>2, Zenon DEF Indexed, Apart
  <2>2. /\ <<S.id, v, p>> \in d.put => <<S.id, v, p>> \notin d.lost
        /\ <<S.id, v, q>> \in d.put => <<S.id, v, q>> \notin d.lost
    BY <1>2, Zenon DEF Indexed, Tracks
  <2> QED  BY <2>1, <2>2, Zenon
<1> QED  BY <1>1, <1>2, Zenon DEF Stored

(* A Context that pinned no key the commit changed still shows an index    *)
(* that covers its rows and keeps them apart.                              *)
LEMMA FlushIndexed ==
    ASSUME NEW R, NEW N, NEW L, NEW S, NEW d, NEW x, S.unique => S.id # 0,
           Indexed(R, N, L, S, d, {}), Indexed(R, N, L, S, x, {}), Written(d) \cap x.pins = {},
           NEW R2, \A p \in PKs : R2[p].v = Value(R, d, p),
           NEW N2, N2 = (N \ d.cut) \cup d.put, NEW L2, L2 = (L \cup d.lost) \ d.put
    PROVE  Indexed(R2, N2, L2, S, x, {})
<1>a. Stored(R2, N2, L2, S)
  BY FlushStored, Zenon
<1>b. ASSUME NEW p \in PKs, RowKey(p) \in x.pins PROVE d.row[p].v = Unchanged
  <2>1. d.row[p] = Keep
    BY <1>b, Zenon DEF Written
  <2> QED  BY <2>1 DEF Keep
<1>c. ASSUME NEW v, NEW q, EntryKey(S.id, v) \in x.pins PROVE <<S.id, v, q>> \notin d.put
  <2>1. <<S.id, v, q>>[1] = S.id /\ <<S.id, v, q>>[2] = v
    BY Zenon
  <2>2. <<S.id, v, q>> \in d.put => EntryKey(S.id, v) \in Written(d)
    BY <2>1, Zenon DEF Written
  <2> QED  BY <1>c, <2>2, Zenon
<1>d. \A v \in Vals : v # Unchanged
  BY ValsAssumption DEF Unchanged
<1>e. ASSUME S.id # 0 PROVE Tracks(S.id, x, {}) /\ Tracks(S.id, d, {})
  BY <1>e, Zenon DEF Indexed
<1>1. ASSUME S.id # 0, NEW p \in PKs, NEW v \in Vals, Value(R2, x, p) = v
      PROVE  <<S.id, v, p>> \in (N2 \ x.cut) \cup x.put \cup L2 \cup x.lost
  <2>1. CASE x.row[p].v # Unchanged
    <3>1. x.row[p].v = v
      BY <1>1, <2>1, Zenon DEF Value
    <3> QED  BY <1>1, <1>e, <3>1, Zenon DEF Tracks
  <2>2. CASE x.row[p].v = Unchanged
    <3>1. R2[p].v = v
      BY <1>1, <2>2, Zenon DEF Value
    <3>2. <<S.id, v, p>> \in N2 \cup L2
      BY <1>1, <1>a, <3>1, Zenon DEF Stored
    <3>3. CASE <<S.id, v, p>> \in x.cut
      <4>1. d.row[p].v = Unchanged
        BY <1>1, <1>b, <1>e, <3>3, Zenon DEF Tracks
      <4>2. Value(R, x, p) = v
        BY <2>2, <3>1, <4>1, Zenon DEF Value
      <4>3. <<S.id, v, p>> \in (N \ x.cut) \cup x.put \cup L \cup x.lost
        BY <1>1, <4>2, Zenon DEF Indexed, Covered
      <4>4. <<S.id, v, p>> \notin d.put
        BY <1>1, <1>e, <4>1, Zenon DEF Tracks
      <4> QED  BY <3>3, <4>3, <4>4, Zenon
    <3> QED  BY <3>2, <3>3, Zenon
  <2> QED  BY <2>1, <2>2, Zenon
<1>2. ASSUME S.unique, NEW p \in PKs, NEW v \in Vals, NEW q \in PKs, p # q,
             x.row[p].v = v, Value(R2, x, p) = v, Value(R2, x, q) = v
      PROVE  \/ <<S.id, v, p>> \in (L2 \ x.put) \cup x.lost
             \/ <<S.id, v, q>> \in (L2 \ x.put) \cup x.lost
  <2>1. Tracks(S.id, x, {}) /\ Tracks(S.id, d, {}) /\ Apart(R, L, S.id, x, {})
    BY <1>2, <1>e, Zenon DEF Indexed
  <2>2. \A y : <<S.id, v, y>> \notin d.put
    BY <1>2, <1>c, <2>1, Zenon DEF Tracks
  <2>3. Value(R, x, p) = v
    BY <1>2, <1>d, Zenon DEF Value
  <2>4. CASE Value(R, x, q) = v
    <3>1. \/ <<S.id, v, p>> \in (L \ x.put) \cup x.lost
          \/ <<S.id, v, q>> \in (L \ x.put) \cup x.lost
      BY <1>2, <2>1, <2>3, <2>4, Zenon DEF Apart
    <3> QED  BY <2>2, <3>1, Zenon
  <2>5. CASE Value(R, x, q) # v
    <3>1. x.row[q].v = Unchanged /\ d.row[q].v = v
      BY <1>2, <2>5, Zenon DEF Value
    <3>2. <<S.id, v, q>> \in d.lost
      BY <2>1, <2>2, <3>1, Zenon DEF Tracks
    <3>3. <<S.id, v, q>> \notin x.put
      BY <2>1, <3>1, Zenon DEF Tracks
    <3> QED  BY <2>2, <3>2, <3>3, Zenon
  <2> QED  BY <2>4, <2>5, Zenon
<1>3. ASSUME S.unique, NEW p \in PKs, NEW q \in PKs, NEW v \in Vals, p # q,
             Value(R2, x, p) = v, Value(R2, x, q) = v
      PROVE  \/ <<S.id, v, p>> \in (L2 \ x.put) \cup x.lost
             \/ <<S.id, v, q>> \in (L2 \ x.put) \cup x.lost
  <2>1. CASE x.row[p].v = v
    BY <1>2, <1>3, <2>1, Zenon
  <2>2. CASE x.row[q].v = v
    BY <1>2, <1>3, <2>2, Zenon
  <2>3. CASE x.row[p].v # v /\ x.row[q].v # v
    <3>1. x.row[p].v = Unchanged /\ x.row[q].v = Unchanged /\ R2[p].v = v /\ R2[q].v = v
      BY <1>3, <2>3, Zenon DEF Value
    <3>2. <<S.id, v, p>> \in L2 \/ <<S.id, v, q>> \in L2
      BY <1>a, <1>3, <3>1, Zenon DEF Stored
    <3>3. <<S.id, v, p>> \notin x.put /\ <<S.id, v, q>> \notin x.put
      BY <1>3, <1>e, <3>1, Zenon DEF Tracks
    <3> QED  BY <3>2, <3>3, Zenon
  <2> QED  BY <2>1, <2>2, <2>3, Zenon
<1>4. S.id # 0 => Covered(R2, N2, L2, S.id, x, {})
  BY <1>1, Zenon DEF Covered
<1>5. S.unique => Apart(R2, L2, S.id, x, {})
  BY <1>3, Zenon DEF Apart
<1> QED  BY <1>4, <1>5, <1>e, Zenon DEF Indexed

(* Row writes meet the predicate of every read they would spoil.           *)
LEMMA FlushHolds ==
    ASSUME NEW R, NEW Q, NEW S, NEW d, NEW x, StoreTyped(R, S), Typed(d), Told(d), Holds(R, Q, x),
           \A pred \in x.obs : d.writes \cap pred = {},
           NEW R2, \A p \in PKs : R2[p] = Shown(R, d, p),
           NEW Q2, Q2 = (Q \cup d.silent) \ Recorded(d)
    PROVE  Holds(R2, Q2, x)
<1> SUFFICES ASSUME NEW o \in x.seen, NEW p \in PKs
             PROVE  /\ {p} \X Column \subseteq o.pred /\ p \notin Q2 => R2[p] = o.was[p]
                    /\ Matches(R2[p], p, o.pred) => Matches(o.was[p], p, o.pred)
  BY Zenon DEF Holds
<1>1. d.writes \cap o.pred = {}
  BY Zenon DEF Holds
<1>2. /\ {p} \X Column \subseteq o.pred /\ p \notin Q => R[p] = o.was[p]
      /\ Matches(R[p], p, o.pred) => Matches(o.was[p], p, o.pred)
  BY Zenon DEF Holds
<1>3. d.row[p] = Keep => R2[p] = R[p]
  <2>1. d.row[p] = Keep => R2[p] = [here |-> R[p].here, v |-> R[p].v]
    BY DEF Keep, Shown, Value
  <2> QED  BY <2>1, Zenon DEF StoreTyped
<1>4. ASSUME {p} \X Column \subseteq o.pred, p \notin Q2 PROVE R2[p] = o.was[p]
  <2>1. p \notin Recorded(d)
    <3> SUFFICES ASSUME NEW t \in d.writes, t[1] = p PROVE FALSE
      BY Zenon DEF Recorded
    <3>1. t \in {p} \X Column
      BY DEF Typed, Tuples, Column
    <3> QED  BY <1>1, <1>4, <3>1, Zenon
  <2>2. d.row[p] = Keep
    BY <1>4, <2>1, Zenon DEF Told, ToldRow
  <2> QED  BY <1>2, <1>3, <1>4, <2>1, <2>2, Zenon
<1>5. ASSUME Matches(R2[p], p, o.pred) PROVE Matches(o.was[p], p, o.pred)
  <2>1. <<p, R2[p].v>> \in o.pred /\ Exists(R2[p])
    BY <1>5, Zenon DEF Matches
  <2>2. R2[p].v = Value(R, d, p)
    BY ShownFields, Zenon
  <2>3. IsEffect(d.row[p]) /\ ToldRow(d, p)
    BY Zenon DEF Typed, Told
  <2>4. d.row[p].v \notin Vals
    <3> SUFFICES ASSUME d.row[p].v \in Vals PROVE FALSE
      BY Zenon
    <3>1. R2[p].v = d.row[p].v
      BY <2>2, ValsAssumption DEF Value, Unchanged
    <3> QED  BY <1>1, <2>1, <2>3, <3>1, Zenon DEF ToldRow
  <2>5. CASE d.row[p] = Keep
    BY <1>2, <1>3, <1>5, <2>5, Zenon
  <2>6. CASE d.row[p] # Keep
    <3>1. R2[p].v # Null
      <4>1. CASE d.row[p].here = "gone"
        <5>1. ~R2[p].here
          BY <4>1, ShownFields
        <5> QED  BY <2>1, <5>1, Zenon DEF Exists
      <4>2. CASE d.row[p].here # "gone"
        BY <1>1, <2>1, <2>3, <2>4, <2>6, <4>2, Zenon DEF ToldRow
      <4> QED  BY <4>1, <4>2, Zenon
    <3>2. R2[p].v = R[p].v
      BY <2>2, <2>3, <2>4, <3>1, Zenon DEF Value, IsEffect, Column
    <3>3. Matches(R[p], p, o.pred)
      BY <2>1, <3>1, <3>2, Zenon DEF Matches, Exists
    <3> QED  BY <1>2, <3>3, Zenon
  <2> QED  BY <2>5, <2>6, Zenon
<1> QED  BY <1>4, <1>5, Zenon

\* A Context of row writes and reads: until it pins the schema it has no
\* effects, and closed it has none and has read nothing.
RowGood(R, N, L, Q, S, c) ==
    /\ Typed(c) /\ c.sch = NoSchema
    /\ SchemaKey \in c.pins \/ Blank(c)
    /\ c.open \/ (Blank(c) /\ c.seen = {})
    /\ Indexed(R, N, L, S, c, {}) /\ Told(c) /\ Holds(R, Q, c)

\* The Context of CREATE INDEX or DROP INDEX: it changes no row, and a new
\* index has an entry for every committed value.
DDLGood(R, c) ==
    /\ \A p \in PKs : c.row[p] = Keep
    /\ c.lost = {} /\ c.writes = {} /\ c.silent = {} /\ c.open
    /\ c.sch # NoSchema /\ c.sch.id \in Nat /\ c.sch.unique \in BOOLEAN
    /\ c.sch.unique => c.sch.id # 0
    /\ c.sch.id # 0 => \A p \in PKs, v \in Vals : R[p].v = v => <<c.sch.id, v, p>> \in c.put
    /\ c.sch.unique => \A p, q \in PKs, v \in Vals : R[p].v = v /\ R[q].v = v => p = q

WorkGood(R, N, L, Q, S, c) == RowGood(R, N, L, Q, S, c) \/ DDLGood(R, c)

StoreGood(R, N, L, S) == StoreTyped(R, S) /\ Stored(R, N, L, S)

\* The store that the commit of d leaves.
After(R, N, L, Q, S, d, R2, N2, L2, Q2, S2) ==
    /\ \A p \in PKs : R2[p] = Shown(R, d, p)
    /\ N2 = (N \ d.cut) \cup d.put
    /\ L2 = (L \cup d.lost) \ d.put
    /\ Q2 = (Q \cup d.silent) \ Recorded(d)
    /\ S2 = IF d.sch = NoSchema THEN S ELSE d.sch

(* A row without an effect is flushed as it was.                           *)
LEMMA KeepShown ==
    ASSUME NEW R, NEW S, NEW d, StoreTyped(R, S), NEW p \in PKs, d.row[p] = Keep
    PROVE  Shown(R, d, p) = R[p]
<1>1. Shown(R, d, p) = [here |-> R[p].here, v |-> R[p].v]
  BY DEF Keep, Shown, Value
<1> QED  BY <1>1, Zenon DEF StoreTyped

(* A flushed row is a row of the table.                                    *)
LEMMA FlushTyped ==
    ASSUME NEW R, NEW S, NEW d, StoreTyped(R, S), NEW p \in PKs, IsEffect(d.row[p]),
           NEW x, x = Shown(R, d, p)
    PROVE  x = [here |-> x.here, v |-> x.v] /\ x.here \in BOOLEAN /\ x.v \in Column
<1>1. x.v \in Column
  <2>1. x.v = Value(R, d, p)
    BY ShownFields, Zenon
  <2> QED  BY <2>1, Zenon DEF Value, IsEffect, StoreTyped
<1>2. x.here = IF d.row[p].here = "keep" THEN R[p].here ELSE d.row[p].here = "set"
  BY Zenon DEF Shown
<1>3. x.here \in BOOLEAN
  BY <1>2, Zenon DEF StoreTyped
<1>4. x = [here |-> x.here, v |-> x.v]
  BY Zenon DEF Shown
<1> QED  BY <1>1, <1>3, <1>4, Zenon

(* A commit leaves the store good.                                         *)
LEMMA FlushStore ==
    ASSUME NEW R, NEW N, NEW L, NEW Q, NEW S, NEW d, NEW R2, NEW N2, NEW L2, NEW Q2, NEW S2,
           StoreGood(R, N, L, S), WorkGood(R, N, L, Q, S, d),
           After(R, N, L, Q, S, d, R2, N2, L2, Q2, S2)
    PROVE  StoreGood(R2, N2, L2, S2)
<1>1. CASE RowGood(R, N, L, Q, S, d)
  <2>1. S2 = S
    BY <1>1, Zenon DEF RowGood, After
  <2>2. \A p \in PKs : R2[p].v = Value(R, d, p)
    BY ShownFields, Zenon DEF After
  <2>3. Stored(R2, N2, L2, S)
    BY <1>1, <2>2, FlushStored, ZenonT(60) DEF RowGood, StoreGood, StoreTyped, After
  <2>4. \A p \in PKs : R2[p] = [here |-> R2[p].here, v |-> R2[p].v] /\ R2[p].here \in BOOLEAN
                       /\ R2[p].v \in Column
    BY <1>1, FlushTyped DEF RowGood, Typed, After, StoreGood
  <2> QED  BY <2>1, <2>3, <2>4, Zenon DEF StoreGood, StoreTyped
<1>2. CASE DDLGood(R, d)
  <2>1. S2 = d.sch
    BY <1>2, Zenon DEF DDLGood, After
  <2>2. \A p \in PKs : R2[p] = R[p]
    <3>1. StoreTyped(R, S) /\ \A p \in PKs : d.row[p] = Keep /\ R2[p] = Shown(R, d, p)
      BY <1>2, Zenon DEF DDLGood, StoreGood, After
    <3> QED  BY <3>1, KeepShown, Zenon
  <2>3. StoreTyped(R2, S2)
    BY <1>2, <2>1, <2>2, Zenon DEF DDLGood, StoreGood, StoreTyped
  <2>4. Stored(R2, N2, L2, S2)
    <3>1. ASSUME d.sch.id # 0, NEW p \in PKs, NEW v \in Vals, R2[p].v = v
          PROVE  <<d.sch.id, v, p>> \in N2
      <4>1. <<d.sch.id, v, p>> \in d.put
        BY <1>2, <2>2, <3>1, Zenon DEF DDLGood
      <4> QED  BY <4>1, Zenon DEF After
    <3>2. ASSUME d.sch.unique, NEW p \in PKs, NEW q \in PKs, NEW v \in Vals,
                 R2[p].v = v, R2[q].v = v
          PROVE  p = q
      <4>1. R[p].v = v /\ R[q].v = v
        BY <2>2, <3>2, Zenon
      <4> QED  BY <1>2, <3>2, <4>1, Zenon DEF DDLGood
    <3> QED  BY <2>1, <3>1, <3>2, Zenon DEF Stored
  <2> QED  BY <2>3, <2>4, Zenon DEF StoreGood
<1> QED  BY <1>1, <1>2, Zenon DEF WorkGood

(* A commit leaves the Contexts good that it does not overtake.            *)
LEMMA FlushRowGood ==
    ASSUME NEW R, NEW N, NEW L, NEW Q, NEW S, NEW d, NEW R2, NEW N2, NEW L2, NEW Q2, NEW S2,
           StoreGood(R, N, L, S), WorkGood(R, N, L, Q, S, d),
           After(R, N, L, Q, S, d, R2, N2, L2, Q2, S2),
           NEW x, RowGood(R, N, L, Q, S, x), ~(x.open /\ Overtakes(d, x))
    PROVE  RowGood(R2, N2, L2, Q2, S2, x)
<1>a. StoreGood(R2, N2, L2, S2)
  BY FlushStore, Zenon
<1>b. ASSUME Blank(x), x.seen = {} PROVE RowGood(R2, N2, L2, Q2, S2, x)
  <2>1. Indexed(R2, N2, L2, S2, x, {})
    BY <1>a, <1>b, BlankIndexed, Zenon DEF StoreGood
  <2>2. Holds(R2, Q2, x)
    BY <1>b, Zenon DEF Holds
  <2> QED  BY <2>1, <2>2, Zenon DEF RowGood
<1>1. CASE ~x.open
  BY <1>b, <1>1, Zenon DEF RowGood
<1>2. CASE x.open /\ DDLGood(R, d)
  <2>1. d.sch # NoSchema
    BY <1>2, Zenon DEF DDLGood
  <2>2. SchemaKey \notin x.pins /\ x.obs = {}
    BY <1>2, <2>1, Zenon DEF Overtakes, BindsSchema
  <2>3. x.seen = {}
    BY <2>2, Zenon DEF RowGood, Holds
  <2> QED  BY <1>b, <2>2, <2>3, Zenon DEF RowGood
<1>3. CASE x.open /\ RowGood(R, N, L, Q, S, d)
  <2>1. Written(d) \cap x.pins = {} /\ \A pred \in x.obs : d.writes \cap pred = {}
    BY <1>3, Zenon DEF Overtakes
  <2>2. S2 = S /\ \A p \in PKs : R2[p].v = Value(R, d, p)
    BY <1>3, ShownFields, Zenon DEF RowGood, After
  <2>3. /\ Indexed(R, N, L, S, d, {}) /\ Indexed(R, N, L, S, x, {}) /\ (S.unique => S.id # 0)
        /\ N2 = (N \ d.cut) \cup d.put /\ L2 = (L \cup d.lost) \ d.put
    BY <1>3, Zenon DEF RowGood, StoreGood, StoreTyped, After
  <2>4. Indexed(R2, N2, L2, S2, x, {})
    BY <2>1, <2>2, <2>3, FlushIndexed, Zenon
  <2>5. /\ Typed(d) /\ Told(d) /\ Holds(R, Q, x) /\ StoreTyped(R, S)
        /\ \A p \in PKs : R2[p] = Shown(R, d, p)
        /\ Q2 = (Q \cup d.silent) \ Recorded(d)
    BY <1>3, Zenon DEF RowGood, StoreGood, After
  <2>6. Holds(R2, Q2, x)
    BY <2>1, <2>5, FlushHolds, Zenon
  <2> QED  BY <2>4, <2>6, Zenon DEF RowGood
<1> QED  BY <1>1, <1>2, <1>3, Zenon DEF WorkGood

(* A commit keeps the Context of an index DDL good unless it overtakes it: *)
(* such a commit wrote no row.                                             *)
LEMMA FlushDDLGood ==
    ASSUME NEW R, NEW N, NEW L, NEW Q, NEW S, NEW d, NEW R2, NEW N2, NEW L2, NEW Q2, NEW S2,
           StoreGood(R, N, L, S), WorkGood(R, N, L, Q, S, d),
           After(R, N, L, Q, S, d, R2, N2, L2, Q2, S2),
           NEW x, DDLGood(R, x), ~(x.open /\ Overtakes(d, x))
    PROVE  DDLGood(R2, x)
<1>1. SchemaKey \notin d.pins /\ d.sch = NoSchema
  BY Zenon DEF DDLGood, Overtakes, BindsSchema
<1>2. \A p \in PKs : d.row[p] = Keep
  BY <1>1, Zenon DEF WorkGood, RowGood, DDLGood, Blank
<1>3. \A p \in PKs : R2[p] = R[p]
  BY <1>2, KeepShown, ZenonT(60) DEF StoreGood, After
<1>4. \A p \in PKs : R2[p].v = R[p].v
  BY <1>3, Zenon
<1> QED  BY <1>4, SMTT(60) DEF DDLGood

\* y is x but for being overtaken.
Copy(x, y) == /\ IsContext(y) /\ SameIndex(x, y) /\ SameTale(x, y) /\ y.row = x.row
              /\ y.pins = x.pins /\ y.open = x.open /\ y.sch = x.sch /\ y.obs = x.obs
              /\ y.seen = x.seen

(* A Context with the same effects and reads is as good.                   *)
LEMMA CopyGood ==
    ASSUME NEW R, NEW N, NEW L, NEW Q, NEW S, NEW x, NEW y, Copy(x, y)
    PROVE  /\ RowGood(R, N, L, Q, S, x) => RowGood(R, N, L, Q, S, y)
           /\ DDLGood(R, x) => DDLGood(R, y)
<1>1. ASSUME RowGood(R, N, L, Q, S, x) PROVE RowGood(R, N, L, Q, S, y)
  <2>1. Indexed(R, N, L, S, y, {})
    BY <1>1, SameValues, Zenon DEF RowGood, Copy
  <2>2. Told(y)
    BY <1>1, StillTold, Zenon DEF RowGood, Copy, SameTale, Told
  <2>3. Holds(R, Q, y)
    BY <1>1, Zenon DEF RowGood, Copy, Holds
  <2>4. Typed(y) /\ (Blank(x) => Blank(y))
    BY <1>1, Zenon DEF RowGood, Copy, SameTale, SameIndex, Typed, Blank
  <2> QED  BY <1>1, <2>1, <2>2, <2>3, <2>4, Zenon DEF RowGood, Copy
<1>2. DDLGood(R, x) => DDLGood(R, y)
  BY Zenon DEF DDLGood, Copy, SameIndex, SameTale
<1> QED  BY <1>1, <1>2, Zenon

(* Overtaken marks a Context as stale if it is open and the commit         *)
(* overtakes it, and changes nothing else.                                 *)
LEMMA OvertakenFields ==
    ASSUME NEW d, NEW x, IsContext(x)
    PROVE  /\ Copy(x, Overtaken(d, x))
           /\ ~Overtaken(d, x).stale => ~x.stale /\ ~(x.open /\ Overtakes(d, x))
<1>1. Copy(x, Overtaken(d, x))
  BY Zenon DEF IsContext, Fields, Copy, SameIndex, SameTale, Overtaken
<1>2. Overtaken(d, x).stale = (x.stale \/ (x.open /\ Overtakes(d, x)))
  BY Zenon DEF IsContext, Fields, Overtaken
<1> QED  BY <1>1, <1>2, Zenon

\* A Context that no commit has overtaken is good; the others cannot commit.
Fresh(R, N, L, Q, S, c) == ~c.stale => RowGood(R, N, L, Q, S, c)

(* A read leaves an observation that holds.                                *)
LEMMA ObserveGood ==
    ASSUME NEW c, IsContext(c), NEW plan,
           Fresh(rows, entries, lost, silent, schema, c)
    PROVE  /\ IsContext(Observe(c, plan)) /\ Observe(c, plan).open = c.open
           /\ Fresh(rows, entries, lost, silent, schema, Observe(c, plan))
<1> DEFINE d == Observe(c, plan)
           o == [pred |-> buildObservationPredicate(plan), was |-> rows]
<1>1. CASE ~c.open
  BY <1>1, Zenon DEF Observe
<1>2. CASE c.open
  <2>1. /\ IsContext(d) /\ SameIndex(c, d) /\ SameTale(c, d) /\ d.row = c.row
        /\ d.pins = c.pins /\ d.open = c.open /\ d.sch = c.sch /\ d.stale = c.stale
        /\ d.obs = c.obs \cup {o.pred} /\ d.seen = c.seen \cup {o}
    BY <1>2, Zenon DEF Observe, IsContext, Fields, SameIndex, SameTale
  <2>2. o.was = rows
    BY Zenon
  <2> HIDE DEF d, o
  <2> SUFFICES ASSUME ~d.stale PROVE RowGood(rows, entries, lost, silent, schema, d)
    BY <2>1, Zenon DEF Fresh, d
  <2>3. RowGood(rows, entries, lost, silent, schema, c)
    BY <2>1, Zenon DEF Fresh
  <2>4. Indexed(rows, entries, lost, schema, d, {})
    BY <2>1, <2>3, SameValues, Zenon DEF RowGood
  <2>5. Told(d)
    BY <2>1, <2>3, StillTold, Zenon DEF RowGood, SameTale, Told
  <2>6. Typed(d) /\ (Blank(c) => Blank(d))
    BY <2>1, <2>3, Zenon DEF RowGood, SameTale, SameIndex, Typed, Blank
  <2>7. Holds(rows, silent, d)
    BY <2>1, <2>2, <2>3, Zenon DEF RowGood, Holds
  <2> QED  BY <1>2, <2>1, <2>3, <2>4, <2>5, <2>6, <2>7, Zenon DEF RowGood
<1> QED  BY <1>1, <1>2, Zenon

(* A write leaves an open Context good.                                    *)
LEMMA WriteGood ==
    ASSUME NEW c, IsContext(c), c.open, Fresh(rows, entries, lost, silent, schema, c),
           StoreGood(rows, entries, lost, schema), NEW w, IsWrite(w), CarriesValue(w)
    PROVE  /\ IsContext(Write(c, w).ctx)
           /\ Fresh(rows, entries, lost, silent, schema, Write(c, w).ctx)
<1> DEFINE d == Write(c, w).ctx
<1>1. IsContext(d) /\ d.stale = c.stale
  BY WriteMarks, Zenon DEF WritesRows
<1>2. CASE c.stale
  BY <1>1, <1>2, Zenon DEF Fresh
<1>3. CASE ~c.stale
  <2>1. RowGood(rows, entries, lost, silent, schema, c)
    BY <1>3, Zenon DEF Fresh
  <2>2. Sound(c) /\ StoreTyped(rows, schema)
    BY <2>1, Zenon DEF RowGood, Sound, Formed, StoreGood
  <2>3. Wrote(c, d)
    BY <2>2, WriteWrote, Zenon
  <2> HIDE DEF d
  <2>4. Holds(rows, silent, d)
    BY <2>1, <2>3, Zenon DEF RowGood, Wrote, Rest, Holds
  <2>5. RowGood(rows, entries, lost, silent, schema, d)
    BY <2>1, <2>3, <2>4, Zenon DEF RowGood, Wrote, Rest, Sound, Formed
  <2> QED  BY <1>1, <2>5, Zenon DEF Fresh, d
<1> QED  BY <1>2, <1>3, Zenon

(* The effects of CREATE INDEX and of DROP INDEX.                          *)
LEMMA CreateGood ==
    ASSUME NEW id \in Nat \ {0}, NEW u \in BOOLEAN, StoreGood(rows, entries, lost, schema),
           createIndexEffects(NewContext, id, u).ok
    PROVE  /\ IsContext(createIndexEffects(NewContext, id, u).ctx)
           /\ DDLGood(rows, createIndexEffects(NewContext, id, u).ctx)
<1> DEFINE B == {<<id, rows[p].v, p>> : p \in {q \in PKs : rows[q].v # Null}}
           k == Pin(NewContext, SchemaKey)
           S == [id |-> id, unique |-> u]
           d == [k EXCEPT !.put = B, !.sch = S]
           ok == u => \A e, f \in B : e[2] = f[2] => e = f
<1>1. createIndexEffects(NewContext, id, u) = [ctx |-> d, ok |-> ok]
  BY Zenon DEF createIndexEffects
<1>2. /\ IsContext(NewContext) /\ NewContext.open /\ Blank(NewContext)
  BY Zenon DEF NewContext, IsContext, Fields, Blank
<1>3. IsContext(k) /\ Rest(NewContext, k) /\ SameIndex(NewContext, k) /\ SameTale(NewContext, k)
      /\ k.row = NewContext.row
  BY <1>2, PinFields, ZenonT(60) DEF Rest
<1> HIDE DEF k, B, S
<1>4. /\ IsContext(d) /\ d.row = k.row /\ d.lost = k.lost /\ SameTale(k, d) /\ d.open = k.open
      /\ d.put = B /\ d.sch = S
  BY <1>3, Zenon DEF IsContext, Fields, SameTale
<1> HIDE DEF d, ok
<1>5. createIndexEffects(NewContext, id, u).ctx = d /\ ok
  <2>1. [ctx |-> d, ok |-> ok].ctx = d /\ [ctx |-> d, ok |-> ok].ok = ok
    BY Zenon
  <2> QED  BY <1>1, <2>1, Zenon
<1>6. S # NoSchema /\ S.id = id /\ S.unique = u
  BY DEF S, NoSchema
<1>7. ASSUME NEW p \in PKs, NEW v \in Vals, rows[p].v = v PROVE <<id, v, p>> \in B
  BY <1>7, ValsAssumption DEF B, Null
<1>8. ASSUME u, NEW p \in PKs, NEW q \in PKs, NEW v \in Vals, rows[p].v = v, rows[q].v = v
      PROVE  p = q
  <2>1. <<id, v, p>> \in B /\ <<id, v, q>> \in B
    BY <1>7, <1>8, Zenon
  <2>2. <<id, v, p>>[2] = v /\ <<id, v, q>>[2] = v /\ (<<id, v, p>> = <<id, v, q>> => p = q)
    OBVIOUS
  <2> QED  BY <1>5, <1>8, <2>1, <2>2, Zenon DEF ok
<1>9. /\ \A p \in PKs : d.row[p] = Keep
      /\ d.lost = {} /\ d.writes = {} /\ d.silent = {} /\ d.open
  BY <1>2, <1>3, <1>4, ZenonT(60) DEF Blank, Rest, SameIndex, SameTale
<1>10. DDLGood(rows, d)
  BY <1>4, <1>6, <1>7, <1>8, <1>9, Zenon DEF DDLGood
<1> QED  BY <1>4, <1>5, <1>10, Zenon

(* The Context of a DROP INDEX is good when it is built.                   *)
LEMMA DropGood ==
    ASSUME NEW id, StoreGood(rows, entries, lost, schema)
    PROVE  /\ IsContext(dropIndexEffects(NewContext, id).ctx)
           /\ DDLGood(rows, dropIndexEffects(NewContext, id).ctx)
<1> DEFINE k == Pin(NewContext, MetaKey)
           S == [id |-> 0, unique |-> FALSE]
           X == {e \in entries : e[1] = id}
           d == [k EXCEPT !.cut = X, !.sch = S]
<1>1. dropIndexEffects(NewContext, id).ctx = d
  BY Zenon DEF dropIndexEffects
<1>2. /\ IsContext(NewContext) /\ NewContext.open /\ Blank(NewContext)
  BY Zenon DEF NewContext, IsContext, Fields, Blank
<1>3. IsContext(k) /\ Rest(NewContext, k) /\ SameIndex(NewContext, k) /\ SameTale(NewContext, k)
      /\ k.row = NewContext.row
  BY <1>2, PinFields, ZenonT(60) DEF Rest
<1> HIDE DEF k, S, X
<1>4. /\ IsContext(d) /\ d.row = k.row /\ d.lost = k.lost /\ SameTale(k, d) /\ d.open = k.open
      /\ d.sch = S
  BY <1>3, Zenon DEF IsContext, Fields, SameTale
<1> HIDE DEF d
<1>6. S # NoSchema /\ S.id = 0 /\ S.unique = FALSE
  BY DEF S, NoSchema
<1>9. /\ \A p \in PKs : d.row[p] = Keep
      /\ d.lost = {} /\ d.writes = {} /\ d.silent = {} /\ d.open
  BY <1>2, <1>3, <1>4, Zenon DEF Blank, Rest, SameIndex, SameTale
<1>10. 0 \in Nat
  OBVIOUS
<1>11. DDLGood(rows, d)
  BY <1>4, <1>6, <1>9, <1>10, Zenon DEF DDLGood
<1> QED  BY <1>1, <1>4, <1>11, Zenon

(* What the commit of a good Context does to the Contexts beside it.       *)
LEMMA FlushFresh ==
    ASSUME NEW R, NEW N, NEW L, NEW Q, NEW S, NEW d, NEW R2, NEW N2, NEW L2, NEW Q2, NEW S2,
           StoreGood(R, N, L, S), WorkGood(R, N, L, Q, S, d),
           After(R, N, L, Q, S, d, R2, N2, L2, Q2, S2), NEW x, IsContext(x)
    PROVE  /\ Fresh(R, N, L, Q, S, x) => Fresh(R2, N2, L2, Q2, S2, Overtaken(d, x))
           /\ (~x.stale => WorkGood(R, N, L, Q, S, x))
                  => (~Overtaken(d, x).stale => WorkGood(R2, N2, L2, Q2, S2, Overtaken(d, x)))
<1> DEFINE y == Overtaken(d, x)
<1>1. Copy(x, y) /\ (~y.stale => ~x.stale /\ ~(x.open /\ Overtakes(d, x)))
  BY OvertakenFields, Zenon
<1> HIDE DEF y
<1>2. ASSUME ~y.stale, RowGood(R, N, L, Q, S, x) PROVE RowGood(R2, N2, L2, Q2, S2, y)
  <2>1. RowGood(R2, N2, L2, Q2, S2, x)
    BY <1>1, <1>2, FlushRowGood, Zenon
  <2> QED  BY <1>1, <2>1, CopyGood, Zenon
<1>3. ASSUME ~y.stale, DDLGood(R, x) PROVE DDLGood(R2, y)
  <2>1. DDLGood(R2, x)
    BY <1>1, <1>3, FlushDDLGood, Zenon
  <2> QED  BY <1>1, <2>1, CopyGood, Zenon
<1> QED  BY <1>1, <1>2, <1>3, Zenon DEF Fresh, WorkGood, y
=============================================================================
