------------------------------- MODULE Hashes -------------------------------
(***************************************************************************)
(* Hash commands (redis/hash).  A field holds bytes, or a number that      *)
(* HINCRBY or HINCRBYFLOAT left, and may have a deadline of its own.       *)
(* Commands that only read are operators on the value of the key.          *)
(***************************************************************************)
EXTENDS Keyed
LOCAL INSTANCE SequencesExt

getHashSnapshotWrongType(v) == KeyedWrongType(v, {"hash"})
HashOpen(k) == ~getHashSnapshotWrongType(db[k])

hashFieldValue(v, f) == IF f \in Ids(v) THEN snapshotToRaw(v.elems[f]) ELSE <<-1>>
NoField == <<-1>>

hashFieldExpiresAt(v, f) == IF f \in DOMAIN v.left THEN v.left[f] ELSE Never

-----------------------------------------------------------------------------
(* Reading *)

handleHGet(v, f) == hashFieldValue(v, f)
handleHExists(v, f) == IF f \in Ids(v) THEN 1 ELSE 0
handleHGetAll(v) == {<<f, hashFieldValue(v, f)>> : f \in Ids(v)}
handleHKeys(v) == Ids(v)
handleHVals(v) == [f \in Ids(v) |-> hashFieldValue(v, f)]
handleHLen(v) == Cardinality(Ids(v))
handleHMGet(v, fs) == [i \in DOMAIN fs |-> hashFieldValue(v, fs[i])]
handleHStrLen(v, f) == IF f \in Ids(v) THEN Len(hashFieldValue(v, f)) ELSE 0

\* -2 without the field, -1 without a deadline.
handleHPTTL(v, f) ==
    IF f \notin Ids(v) THEN -2
    ELSE IF hashFieldExpiresAt(v, f) = Never THEN -1 ELSE hashFieldExpiresAt(v, f)

\* Seconds, rounded up.
handleHTTL(v, f) ==
    LET t == handleHPTTL(v, f)
    IN  IF t < 0 THEN t ELSE (t + PerSecond - 1) \div PerSecond

\* The cursor is an index into the sorted fields that match; 0 ends the scan.
handleHScan(v, cursor, count, match) ==
    LET all == SortedIds(Ids(v) \cap match)
        end == IF cursor + count < Len(all) THEN cursor + count ELSE Len(all)
    IN  IF cursor >= Len(all) THEN [next |-> 0, fields |-> <<>>]
        ELSE [next |-> IF end >= Len(all) THEN 0 ELSE end,
              fields |-> SubSeq(all, cursor + 1, end)]

handleHRandField(v, count) == RandomPicks(Ids(v), count)

-----------------------------------------------------------------------------
(* Writing *)

emitHashInsert(k, f, s) == InsertElem(k, f, raw(s))
emitHashRemove(k, f) == RemoveElem(k, f)
emitHashFieldTTL(k, f, t) == ElementExpiresAt(k, f, t)
emitHashFieldPersist(k, f) == ElementExpiresAt(k, f, Never)

\* Field and value pairs; a later pair for the same field wins.
HSet(k, fs, s) == EditElems(k, ForEach(fs, LAMBDA f : emitHashInsert(k, f, s)), "hash")

handleHSet(k, fs, s) == Does("HSET") /\ HashOpen(k) /\ HSet(k, fs, s)
handleHMSet(k, fs, s) == Does("HMSET") /\ HashOpen(k) /\ HSet(k, fs, s)
handleHSetNX(k, f, s) == Does("HSETNX") /\ HashOpen(k) /\ ~Has(k, f) /\ HSet(k, <<f>>, s)

RemoveFields(k, fs) ==
    ForEach(SelectSeq(fs, LAMBDA f : Has(k, f)), LAMBDA f : emitHashRemove(k, f))

HDel(k, fs) == Exists(db[k]) /\ HashOpen(k) /\ EditElems(k, RemoveFields(k, fs), "hash")
handleHDel(k, fs) == Does("HDEL") /\ HDel(k, fs)
handleHGetDel(k, fs) == Does("HGETDEL") /\ HDel(k, fs)

\* An int is added to directly, bytes must parse; a float is no integer.
IntField(v, f) == IF f \in Ids(v) THEN snapshotToInt(v.elems[f]) ELSE [ok |-> TRUE, n |-> 0]

\* The increment is an additive effect: the engine adds it to what is there.
emitHashIncrInt(k, f, n, d) == InsertElem(k, f, int(Wrap(n + d)))

HIncrByHolds(k, f, d) ==
    LET cur == IntField(db[k], f) IN cur.ok /\ ~checkAdditionOverflow(cur.n, d)

handleHIncrBy(k, f, d) ==
    /\ Does("HINCRBY") /\ HashOpen(k) /\ HIncrByHolds(k, f, d)
    /\ EditElems(k, emitHashIncrInt(k, f, IntField(db[k], f).n, d), "hash")

FloatField(v, f) == IF f \in Ids(v) THEN snapshotToFloat(v.elems[f]) ELSE [ok |-> TRUE, h |-> 0]

handleHIncrByFloat(k, f, d) ==
    LET cur == FloatField(db[k], f) IN
    /\ Does("HINCRBYFLOAT") /\ HashOpen(k) /\ cur.ok
    /\ cur.h + d \in -MaxFloat .. MaxFloat
    /\ EditElems(k, InsertElem(k, f, float(cur.h + d)), "hash")

-----------------------------------------------------------------------------
(* Deadlines of fields *)

\* The options exclude each other.
parseHExpireArgs == {"always", "nx", "xx", "gt", "lt"}

\* GT counts a field without a deadline as due at once, LT as never due.
ExpirationHolds(v, f, t, o) ==
    LET cur == hashFieldExpiresAt(v, f)
    IN  /\ f \in Ids(v)
        /\ o = "nx" => cur = Never
        /\ o = "xx" => cur # Never
        /\ o = "gt" => t >= cur
        /\ o = "lt" => (t <= cur \/ cur = Never)

handleExpiration(k, fs, t, o) ==
    ForEach(SelectSeq(fs, LAMBDA f : ExpirationHolds(db[k], f, t, o)),
            LAMBDA f : emitHashFieldTTL(k, f, t))

\* A time that has come deletes the fields, whatever the option.
ExpireFields(k, fs, t, o) ==
    /\ Exists(db[k]) /\ HashOpen(k)
    /\ EditElems(k, IF t <= 0 THEN RemoveFields(k, fs) ELSE handleExpiration(k, fs, t, o), "hash")

handleHExpire(k, fs, t, o) == Does("HEXPIRE") /\ ExpireFields(k, fs, t * PerSecond, o)
handleHPExpire(k, fs, t, o) == Does("HPEXPIRE") /\ ExpireFields(k, fs, t, o)
handleHExpireAt(k, fs, t, o) == Does("HEXPIREAT") /\ ExpireFields(k, fs, t * PerSecond, o)
handleHPExpireAt(k, fs, t, o) == Does("HPEXPIREAT") /\ ExpireFields(k, fs, t, o)

handleHPersist(k, fs) ==
    /\ Does("HPERSIST") /\ Exists(db[k]) /\ HashOpen(k)
    /\ EditElems(k, ForEach(SelectSeq(fs, LAMBDA f : hashFieldExpiresAt(db[k], f) # Never),
                            LAMBDA f : emitHashFieldPersist(k, f)), "hash")

\* KEEPTTL only leaves the deadline out: whether the field keeps the one it
\* had is up to the engine.
HSetExOptions == [cond: {"always", "fnx", "fxx"}, keepTTL: {FALSE}, ttl: Deadlines]
                 \cup [cond: {"always", "fnx", "fxx"}, keepTTL: {TRUE}, ttl: {Never}]

\* FNX wants none of the fields, FXX all of them.
HSetExHolds(k, fs, o) ==
    /\ o.cond = "fnx" => \A i \in DOMAIN fs : ~Has(k, fs[i])
    /\ o.cond = "fxx" => \A i \in DOMAIN fs : Has(k, fs[i])

HSetExEffects(k, fs, s, o) ==
    ForEach(fs, LAMBDA f : emitHashInsert(k, f, s)
                           \o When(~o.keepTTL /\ o.ttl # Never, emitHashFieldTTL(k, f, o.ttl)))

handleHSetEx(k, fs, s, o) ==
    /\ Does("HSETEX") /\ HashOpen(k) /\ HSetExHolds(k, fs, o)
    /\ EditElems(k, HSetExEffects(k, fs, s, o), "hash")

\* At most one of a deadline and PERSIST.
HGetExOptions == [persist: {FALSE}, ttl: Deadlines] \cup [persist: {TRUE}, ttl: {Never}]

\* Reads the fields and gives those that are there a deadline, or takes it.
handleHGetEx(k, fs, o) ==
    /\ Does("HGETEX") /\ Exists(db[k]) /\ HashOpen(k)
    /\ EditElems(k, ForEach(SelectSeq(fs, LAMBDA f : Has(k, f)),
                            LAMBDA f : When(o.ttl # Never, emitHashFieldTTL(k, f, o.ttl))
                                       \o When(o.persist, emitHashFieldPersist(k, f))), "hash")

-----------------------------------------------------------------------------
FieldTimes == -1 .. MaxTTL \div PerSecond

HashNext ==
    \/ \E k \in Names, fs \in Args, s \in Texts : handleHSet(k, fs, s)
    \/ \E k \in Names, fs \in Args, s \in Texts : handleHMSet(k, fs, s)
    \/ \E k \in Names, f \in Members, s \in Texts : handleHSetNX(k, f, s)
    \/ \E k \in Names, fs \in Args : handleHDel(k, fs)
    \/ \E k \in Names, fs \in Args : handleHGetDel(k, fs)
    \/ \E k \in Names, f \in Members, d \in MinInt .. MaxInt : handleHIncrBy(k, f, d)
    \/ \E k \in Names, f \in Members, d \in Deltas : handleHIncrByFloat(k, f, d)
    \/ \E k \in Names, fs \in Args, t \in FieldTimes, o \in parseHExpireArgs : handleHExpire(k, fs, t, o)
    \/ \E k \in Names, fs \in Args, t \in -1 .. MaxTTL, o \in parseHExpireArgs : handleHPExpire(k, fs, t, o)
    \/ \E k \in Names, fs \in Args, t \in FieldTimes, o \in parseHExpireArgs : handleHExpireAt(k, fs, t, o)
    \/ \E k \in Names, fs \in Args, t \in -1 .. MaxTTL, o \in parseHExpireArgs : handleHPExpireAt(k, fs, t, o)
    \/ \E k \in Names, fs \in Args : handleHPersist(k, fs)
    \/ \E k \in Names, fs \in Args, s \in Texts, o \in HSetExOptions : handleHSetEx(k, fs, s, o)
    \/ \E k \in Names, fs \in Args, o \in HGetExOptions : handleHGetEx(k, fs, o)

-----------------------------------------------------------------------------
(* Properties *)

Named(fs) == {fs[i] : i \in DOMAIN fs}

\* The pages of a scan from cursor c on.
Walk(v, count, match) ==
    LET from[c \in 0 .. Cardinality(Members)] ==
          LET p == handleHScan(v, c, count, match)
          IN  IF p.next <= c THEN p.fields ELSE p.fields \o from[p.next]
    IN  from[0]

\* The readers of a hash agree on its fields and values, and an HSCAN with any
\* page size and pattern, over a hash nobody changes, ends and answers every
\* field that matches exactly once.
HashReadersAgree ==
    \A k \in Names : LET v == db[k] IN
        handleType(k) = "hash" =>
            /\ handleHLen(v) = Cardinality(handleHGetAll(v))
            /\ handleHKeys(v) = {f \in Members : handleHExists(v, f) = 1}
            /\ \A f \in Members :
                  /\ (handleHGet(v, f) = NoField) = (handleHPTTL(v, f) = -2)
                  /\ handleHExists(v, f) = 1 =>
                        /\ handleHStrLen(v, f) = Len(handleHGet(v, f))
                        /\ handleHVals(v)[f] = handleHMGet(v, <<f>>)[1]
                  /\ (handleHTTL(v, f) > 0) = (handleHPTTL(v, f) > 0)
            /\ \A n \in 1 .. 3, match \in SUBSET Members :
                  Walk(v, n, match) = SortedIds(Ids(v) \cap match)
            /\ \A n \in -1 .. 2 : \A s \in handleHRandField(v, n) :
                  Named(s) \subseteq Ids(v) /\ (n > handleHLen(v) => Named(s) = Ids(v))

\* HEXPIRE and its relatives: NX never replaces a deadline, XX never gives a
\* first one, GT never shortens one, LT never lengthens one; each field is judged
\* by itself, no value changes, and fields that are not named are left alone.
FieldDeadlinesGuarded ==
    "HPEXPIRE" \in work =>
    \A k \in Names, fs \in Args, t \in 1 .. MaxTTL, o \in parseHExpireArgs :
        handleType(k) = "hash" =>
            LET new == After(handleExpiration(k, fs, t, o))[k] IN
            /\ new.elems = db[k].elems
            /\ \A f \in Ids(db[k]) :
                  LET was == hashFieldExpiresAt(db[k], f)
                      is == hashFieldExpiresAt(new, f)
                  IN  /\ f \notin Named(fs) => is = was
                      /\ f \in Named(fs) /\ o = "always" => is = t
                      /\ o = "nx" /\ was # Never => is = was
                      /\ o = "xx" => (is = Never) = (was = Never)
                      /\ o = "gt" /\ was # Never => is >= was
                      /\ o = "lt" /\ was # Never => is <= was

\* HSETEX is all or nothing: with FNX no field that was there changes, with FXX
\* no field appears, and every field named has the new value.
HSetExAllOrNothing ==
    "HSETEX" \in work =>
    \A k \in Names, fs \in Args, s \in Texts, o \in HSetExOptions :
        HashOpen(k) /\ HSetExHolds(k, fs, o) =>
            LET new == After(HSetExEffects(k, fs, s, o))[k] IN
            /\ o.cond = "fnx" => \A f \in Ids(db[k]) : new.elems[f] = db[k].elems[f]
            /\ o.cond = "fxx" => Ids(new) = Ids(db[k])
            /\ \A f \in Named(fs) : handleHGet(new, f) = s

\* HINCRBY adds exactly or refuses: the field never holds a wrapped sum,
\* whatever writes made the number that is there.
FieldCountersExact ==
    "HINCRBY" \in work =>
    \A k \in Names, f \in Members, d \in MinInt .. MaxInt :
        LET cur == IntField(db[k], f) IN
        HashOpen(k) /\ HIncrByHolds(k, f, d) =>
            IntField(After(emitHashIncrInt(k, f, cur.n, d))[k], f) = [ok |-> TRUE, n |-> cur.n + d]
=============================================================================
