----------------------------- MODULE SqlContext -----------------------------
(***************************************************************************)
(* The store of one SQL table (src/sql) and the Contexts through which the *)
(* statements read and write it.  A row is a key of the store and an index *)
(* entry another; a Context's effects on them are pending until it is      *)
(* flushed, and it is not when another commit has overtaken it at a key it *)
(* pinned or a predicate it left behind.                                   *)
(***************************************************************************)
EXTENDS Integers

CONSTANTS PKs,          \* primary keys
          Vals          \* values of the indexed column, positive

ASSUME ValsAssumption == Vals \subseteq Nat \ {0}

VARIABLES rows,       \* committed rows
          entries,    \* committed index entries: <<index id, value, primary key>>
          lost,       \* history: entries lost to a failed UPDATE
          silent,     \* history: rows lost to one
          schema      \* s/<table>: the table's index, id 0 if it has none

data == <<rows, entries, lost, silent, schema>>

Null      == 0
Unchanged == -1
Tuples    == PKs \X (Vals \cup {Null})

(* A row has a presence field and the column's; it exists while it has     *)
(* either (loadRow).                                                       *)
NoRow     == [here |-> FALSE, v |-> Null]
Exists(r) == r.here \/ r.v # Null

(***************************************************************************)
(* Contexts.  row: the pending effects on each row's two fields; put, cut: *)
(* pending inserts and removes of entries; sch: the schema written back;   *)
(* pins: keys read with a Noop dependency; obs, writes: the observations   *)
(* and row writes left at s/<table>; stale: another commit has overtaken   *)
(* it.  seen, lost and silent are histories: the rows at its reads, the    *)
(* entries that a failed UPDATE of it has removed from rows it left alone, *)
(* and the rows one has removed without a row write.                       *)
(***************************************************************************)
Keep     == [here |-> "keep", v |-> Unchanged]
NoSchema == [id |-> -1, unique |-> FALSE]

NewContext == [open |-> TRUE, row |-> [p \in PKs |-> Keep], put |-> {}, cut |-> {},
               sch |-> NoSchema, pins |-> {}, obs |-> {}, writes |-> {},
               stale |-> FALSE, seen |-> {}, lost |-> {}, silent |-> {}]
NoContext  == [NewContext EXCEPT !.open = FALSE]

(* GetSnapshot: the committed value with the Context's own effects.        *)
RowIn(c, p) == [here |-> IF c.row[p].here = "keep" THEN rows[p].here ELSE c.row[p].here = "set",
                v    |-> IF c.row[p].v = Unchanged THEN rows[p].v ELSE c.row[p].v]
EntriesIn(c) == (entries \ c.cut) \cup c.put
PKsAt(c, id, v) == {p \in PKs : <<id, v, p>> \in EntriesIn(c)}

SchemaKey    == <<"s">>
MetaKey      == <<"x">>
RowKey(p)    == <<"r", p>>
EntryKey(id, v) == <<"e", id, v>>

Pin(c, k)       == [c EXCEPT !.pins = @ \cup {k}]
PutEntry(c, e)  == [c EXCEPT !.put = @ \cup {e}, !.cut = @ \ {e}, !.lost = @ \ {e}]
CutEntry(c, e)  == [c EXCEPT !.cut = @ \cup {e}, !.put = @ \ {e}]

(* INSERT effects for the presence field and, when not NULL, the column.   *)
EmitRow(c, p, v) ==
    [c EXCEPT !.row[p] = [here |-> "set", v |-> IF v = Null THEN c.row[p].v ELSE v]]
emitSamePKUpdate(c, p, v) == [c EXCEPT !.row[p].v = v]
emitRowDelete(c, p) == [c EXCEPT !.row[p] = [here |-> "gone", v |-> Null]]
emitRowWrite(c, p, v) == [c EXCEPT !.writes = @ \cup {<<p, v>>}]

(* The keys whose data a Context changes.                                  *)
Written(c) == {RowKey(p) : p \in {q \in PKs : c.row[q] # Keep}}
                  \cup {EntryKey(e[1], e[2]) : e \in c.put \cup c.cut}
                  \cup (IF c.sch = NoSchema THEN {} ELSE {SchemaKey, MetaKey})

BindsSchema(c) == SchemaKey \in c.pins \/ c.obs # {} \/ c.sch # NoSchema

(* The engine's rule, as far as the callers rely on it: x may not commit   *)
(* after c if c changed a key x pinned, if one of them rewrites the schema *)
(* the other is bound to, or if c wrote a row that x observed.             *)
Overtakes(c, x) ==
    \/ Written(c) \cap x.pins # {}
    \/ c.sch # NoSchema /\ BindsSchema(x)
    \/ x.sch # NoSchema /\ BindsSchema(c)
    \/ \E pred \in x.obs : c.writes \cap pred # {}

Overtaken(c, x) == [x EXCEPT !.stale = @ \/ (x.open /\ Overtakes(c, x))]

(***************************************************************************)
(* The bodies of the write paths: a Context, and whether the statement     *)
(* succeeded.  A failed body keeps what it has emitted so far.             *)
(***************************************************************************)

(* Faulty form: the entry of the new value is not pinned.                  *)
emitIndexInsertsUnpinned(c, p, v) ==
    IF schema.id = 0 \/ v = Null THEN [ctx |-> c, ok |-> TRUE]
    ELSE IF schema.unique /\ PKsAt(c, schema.id, v) \ {p} # {} THEN [ctx |-> c, ok |-> FALSE]
    ELSE [ctx |-> PutEntry(c, <<schema.id, v, p>>), ok |-> TRUE]

(* emitIndexInserts, checkUniqueBeforeInsert.                              *)
emitIndexInserts(c, p, v) ==
    IF schema.id = 0 \/ v = Null THEN [ctx |-> c, ok |-> TRUE]
    ELSE LET pinned == Pin(c, EntryKey(schema.id, v))
         IN IF schema.unique /\ PKsAt(c, schema.id, v) \ {p} # {}
            THEN [ctx |-> pinned, ok |-> FALSE]
            ELSE [ctx |-> PutEntry(pinned, <<schema.id, v, p>>), ok |-> TRUE]

emitIndexRemoves(c, p, v) ==
    IF schema.id = 0 \/ v = Null THEN c ELSE CutEntry(c, <<schema.id, v, p>>)

Then(r, emit(_)) == IF r.ok THEN [r EXCEPT !.ctx = emit(r.ctx)] ELSE r

(* Faulty form: the schema that decides on the index is not pinned.        *)
doInsertUnpinned(c, p, v) ==
    Then(emitIndexInserts(c, p, v), LAMBDA d : emitRowWrite(EmitRow(d, p, v), p, v))

(* INSERT: no check that the primary key is free; the fields given         *)
(* overwrite those of a row that has it, and its old entry stays.          *)
doInsert(c, p, v) ==
    Then(emitIndexInserts(Pin(c, SchemaKey), p, v),
         LAMBDA d : emitRowWrite(EmitRow(d, p, v), p, v))

(* Same-PK UPDATE: the old entry is removed before the new one is checked. *)
emitIndexDeltasSamePK(c, p, v) ==
    LET old == RowIn(c, p).v
        r   == emitIndexInserts(emitIndexRemoves(c, p, old), p, v)
    IN IF r.ok \/ old = Null THEN r
       ELSE [r EXCEPT !.ctx.lost = @ \cup {<<schema.id, old, p>>}]

samePKUpdate(c, p, v) ==
    Then(emitIndexDeltasSamePK(Pin(Pin(c, SchemaKey), RowKey(p)), p, v),
         LAMBDA d : emitRowWrite(emitSamePKUpdate(d, p, v), p, v))

(* PK-change UPDATE: the old row goes, with its entry, before the new      *)
(* one's entry is checked.  A column not SET keeps the old row's value.    *)
emitPKChange(c, p, q, w) ==
    LET old  == RowIn(c, p).v
        v    == IF w = Unchanged THEN old ELSE w
        gone == emitRowDelete(emitIndexRemoves(Pin(Pin(c, SchemaKey), RowKey(p)), p, old), p)
        r    == emitIndexInserts(gone, q, v)
    IN IF r.ok THEN [r EXCEPT !.ctx = emitRowWrite(emitRowWrite(EmitRow(@, q, v), p, old), q, v)]
       ELSE [r EXCEPT !.ctx.silent = @ \cup {p}]

(* Faulty form: the row write of a DELETE carries no values.               *)
DeleteRowBlank(c, p) ==
    LET pinned == Pin(Pin(c, SchemaKey), RowKey(p))
    IN [ctx |-> emitRowDelete(emitIndexRemoves(pinned, p, RowIn(c, p).v), p), ok |-> TRUE]

DeleteRow(c, p) ==
    LET pinned == Pin(Pin(c, SchemaKey), RowKey(p))
        old    == RowIn(c, p).v
    IN [ctx |-> emitRowWrite(emitRowDelete(emitIndexRemoves(pinned, p, old), p), p, old),
        ok  |-> TRUE]

Write(c, w) ==
    CASE w.op = "insert" -> doInsert(c, w.pk, w.v)
      [] w.op = "update" -> IF w.to = w.pk THEN samePKUpdate(c, w.pk, w.v)
                            ELSE emitPKChange(c, w.pk, w.to, w.v)
      [] w.op = "delete" -> DeleteRow(c, w.pk)

(* markRowDirty, after a write that succeeded.                             *)
Dirtied(w) == {w.pk, w.to}

(* The backfill reads the committed rows, and pins only the schema.        *)
createIndexEffects(c, id, unique) ==
    LET backfill == {<<id, rows[p].v, p>> : p \in {q \in PKs : rows[q].v # Null}}
    IN [ctx |-> [Pin(c, SchemaKey) EXCEPT !.put = backfill,
                                          !.sch = [id |-> id, unique |-> unique]],
        ok  |-> unique => \A d, e \in backfill : d[2] = e[2] => d = e]

dropIndexEffects(c, id) ==
    [ctx |-> [Pin(c, MetaKey) EXCEPT !.cut = {e \in entries : e[1] = id},
                                     !.sch = [id |-> 0, unique |-> FALSE]],
     ok  |-> TRUE]

(***************************************************************************)
(* What a read leaves in a Context: the predicate of its access plan       *)
(* (Evaluate is membership).                                               *)
(***************************************************************************)
buildObservationPredicate(plan) ==
    {t \in Tuples : CASE plan.kind = "all"  -> TRUE
                      [] plan.kind = "pk"   -> t[1] = plan.arg
                      [] plan.kind = "eq"   -> t[2] = plan.arg
                      [] plan.kind = "from" -> t[2] # Null /\ t[2] >= plan.arg}

(* Filter, in a transaction: the observation is emitted at the read.       *)
Observe(c, plan) ==
    IF ~c.open THEN c
    ELSE [c EXCEPT !.obs  = @ \cup {buildObservationPredicate(plan)},
                   !.seen = @ \cup {[pred |-> buildObservationPredicate(plan), was |-> rows]}]

Matches(r, p, pred) == Exists(r) /\ <<p, r.v>> \in pred

(* The rows that a Context's row writes are about.                         *)
Recorded(c) == {t[1] : t \in c.writes}
=============================================================================
