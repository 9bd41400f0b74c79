----------------------------- MODULE SortedSets -----------------------------
(***************************************************************************)
(* Sorted set commands (redis/zset).  A member has a float score; members  *)
(* of a plain set count as 1.  Scores are small numbers with infinities    *)
(* and NaN, and the arithmetic of IEEE 754 on them.                        *)
(***************************************************************************)
EXTENDS Keyed
LOCAL INSTANCE SequencesExt

CONSTANTS
    Scores,      \* scores and increments clients send
    Weights      \* weights of ZUNION and ZINTER

Inf == MaxFloat + 1
NaN == MaxFloat + 2

ASSUME ScoreAssumption == Scores \subseteq -Inf .. Inf /\ Weights \subseteq -Inf .. Inf

\* Beyond the largest float lies infinity.
Rounded(x) == IF x > MaxFloat THEN Inf ELSE IF x < -MaxFloat THEN -Inf ELSE x

Plus2(a, b) ==
    IF NaN \in {a, b} \/ {a, b} = {Inf, -Inf} THEN NaN
    ELSE IF Inf \in {a, b} THEN Inf ELSE IF -Inf \in {a, b} THEN -Inf ELSE Rounded(a + b)

Times(a, b) ==
    IF NaN \in {a, b} \/ (0 \in {a, b} /\ {a, b} \cap {Inf, -Inf} # {}) THEN NaN
    ELSE IF {a, b} \cap {Inf, -Inf} # {} THEN (IF (a > 0) = (b > 0) THEN Inf ELSE -Inf)
    ELSE Rounded(a * b)

\* Comparisons with NaN are false.
Less(a, b) == NaN \notin {a, b} /\ a < b
AtMost(a, b) == NaN \notin {a, b} /\ a <= b

-----------------------------------------------------------------------------
(* Snapshots *)

getZSetSnapshotWrongType(v) == KeyedWrongType(v, {"zset", "geo"})
ZOpen(k) == ~getZSetSnapshotWrongType(db[k])

\* The score of an element that is no float is 0.
zsetMemberScore(v, m) == IF v.elems[m].t = "float" THEN v.elems[m].h ELSE 0

Before(v, x, y) ==
    LET a == zsetMemberScore(v, x)
        b == zsetMemberScore(v, y)
    IN  IF a # b THEN a < b ELSE x < y

\* The members by score, then by name.  Where a NaN goes is left open.
zsetSortedMembers(v) == [i \in 1 .. Cardinality(Ids(v)) |->
    CHOOSE m \in Ids(v) : Cardinality({x \in Ids(v) \ {m} : Before(v, x, m)}) = i - 1]

emitZSetInsert(k, m, s) == InsertElem(k, m, float(s))
emitZSetIncrBy(k, m, old, d) == InsertElem(k, m, float(Plus2(old, d)))
emitZSetRemove(k, m) == RemoveElem(k, m)

-----------------------------------------------------------------------------
(* Ranges *)

\* Bounds are [s |-> score, ex |-> exclusive].
scoreInRange(s, lo, hi) ==
    /\ IF lo.ex THEN ~(s = lo.s \/ Less(s, lo.s)) ELSE ~Less(s, lo.s)
    /\ IF hi.ex THEN ~(s = hi.s \/ Less(hi.s, s)) ELSE ~Less(hi.s, s)

ParseScore == [s: Scores \cup {Inf, -Inf}, ex: BOOLEAN]

\* Bounds by name: "-", "+" or a name, inclusive or not.
ParseLexBound == [end: {"-", "+"}, v: {0}, inc: {FALSE}] \cup [end: {"at"}, v: Members, inc: BOOLEAN]

CompareLex(m, b) ==
    CASE b.end = "-" -> 1
      [] b.end = "+" -> -1
      [] OTHER -> IF m < b.v THEN -1 ELSE IF m > b.v THEN 1 ELSE 0

InLexRange(m, lo, hi) ==
    /\ CompareLex(m, lo) > 0 \/ (CompareLex(m, lo) = 0 /\ lo.inc)
    /\ CompareLex(m, hi) < 0 \/ (CompareLex(m, hi) = 0 /\ hi.inc)

\* LIMIT offset count; a negative offset gives nothing, a negative count all.
Limited(s, offset, count) ==
    LET rest == IF offset < 0 THEN <<>> ELSE SubSeq(s, offset + 1, Len(s))
    IN  IF count >= 0 /\ count < Len(rest) THEN SubSeq(rest, 1, count) ELSE rest

Direction(s, rev) == IF rev THEN Reverse(s) ELSE s

zsetRangeByIndex(s, start, stop, rev) ==
    LET a == IF start < 0 THEN Len(s) + start ELSE start
        b == IF stop < 0 THEN Len(s) + stop ELSE stop
        lo == IF a < 0 THEN 0 ELSE a
        hi == IF b >= Len(s) THEN Len(s) - 1 ELSE b
    IN  IF lo > hi THEN <<>> ELSE SubSeq(Direction(s, rev), lo + 1, hi + 1)

zsetFilterByScore(v, lo, hi, rev, offset, count) ==
    Limited(SelectSeq(Direction(zsetSortedMembers(v), rev),
                      LAMBDA m : scoreInRange(zsetMemberScore(v, m), lo, hi)), offset, count)

FilterByLex(v, lo, hi, rev, offset, count) ==
    Limited(SelectSeq(Direction(zsetSortedMembers(v), rev), LAMBDA m : InLexRange(m, lo, hi)),
            offset, count)

\* ZRANGE: by index, BYSCORE or BYLEX; with REV the bounds come highest first.
handleZRange(v, r) ==
    CASE r.by = "index" -> zsetRangeByIndex(zsetSortedMembers(v), r.lo, r.hi, r.rev)
      [] r.by = "score" -> IF r.rev THEN zsetFilterByScore(v, r.hi, r.lo, TRUE, r.offset, r.count)
                           ELSE zsetFilterByScore(v, r.lo, r.hi, FALSE, r.offset, r.count)
      [] r.by = "lex" -> IF r.rev THEN FilterByLex(v, r.hi, r.lo, TRUE, r.offset, r.count)
                         ELSE FilterByLex(v, r.lo, r.hi, FALSE, r.offset, r.count)

By(how, lo, hi, rev, offset, count) ==
    [by |-> how, lo |-> lo, hi |-> hi, rev |-> rev, offset |-> offset, count |-> count]

\* The older commands, each with code of its own.
handleZRevRange(v, a, b) == zsetRangeByIndex(zsetSortedMembers(v), a, b, TRUE)
handleZRangeByScore(v, lo, hi, o, n) == zsetFilterByScore(v, lo, hi, FALSE, o, n)
handleZRevRangeByScore(v, hi, lo, o, n) == zsetFilterByScore(v, lo, hi, TRUE, o, n)
handleZRangeByLex(v, lo, hi, o, n) == FilterByLex(v, lo, hi, FALSE, o, n)
handleZRevRangeByLex(v, hi, lo, o, n) == FilterByLex(v, lo, hi, TRUE, o, n)

handleZScore(v, m) == IF m \in Ids(v) THEN zsetMemberScore(v, m) ELSE NaN
handleZMScore(v, ms) == [i \in DOMAIN ms |-> handleZScore(v, ms[i])]
handleZCard(v) == Cardinality(Ids(v))

\* -1 for no such member.
handleZRank(v, m) ==
    IF m \in Ids(v) THEN (CHOOSE i \in 1 .. handleZCard(v) : zsetSortedMembers(v)[i] = m) - 1 ELSE -1
handleZRevRank(v, m) == IF m \in Ids(v) THEN handleZCard(v) - 1 - handleZRank(v, m) ELSE -1

handleZCount(v, lo, hi) ==
    Cardinality({m \in Ids(v) : scoreInRange(zsetMemberScore(v, m), lo, hi)})
handleZLexCount(v, lo, hi) == Cardinality({m \in Ids(v) : InLexRange(m, lo, hi)})
handleZRandMember(v, count) == RandomPicks(Ids(v), count)

-----------------------------------------------------------------------------
(* ZADD, ZINCRBY *)

\* GT and LT exclude each other and NX; NX excludes XX.
ZAddOptions ==
    {o \in [nx: BOOLEAN, xx: BOOLEAN, gt: BOOLEAN, lt: BOOLEAN] :
        ~(o.nx /\ o.xx) /\ ~(o.gt /\ o.lt) /\ ~((o.gt \/ o.lt) /\ o.nx)}

\* Faulty form: GT and LT compare the wrong way round.
ZAddHoldsSwapped(v, m, s, o) ==
    /\ o.nx => m \notin Ids(v)
    /\ o.xx => m \in Ids(v)
    /\ m \in Ids(v) => /\ o.gt => ~AtMost(zsetMemberScore(v, m), s)
                       /\ o.lt => ~AtMost(s, zsetMemberScore(v, m))

\* Whether member m may get score s: judged by the snapshot, also when the
\* same command names m twice.
ZAddHolds(v, m, s, o) ==
    /\ o.nx => m \notin Ids(v)
    /\ o.xx => m \in Ids(v)
    /\ m \in Ids(v) => /\ o.gt => ~AtMost(s, zsetMemberScore(v, m))
                       /\ o.lt => ~AtMost(zsetMemberScore(v, m), s)

Pairs2 == UNION {[1 .. n -> Members \X Scores] : n \in 1 .. 2}

ZAddEffects(k, pairs, o) ==
    ForEach(SelectSeq(pairs, LAMBDA p : ZAddHolds(db[k], p[1], p[2], o)),
            LAMBDA p : emitZSetInsert(k, p[1], p[2]))

handleZAdd(k, pairs, o) ==
    /\ Does("ZADD") /\ ZOpen(k)
    /\ o.xx => Exists(db[k])
    /\ EditElems(k, ZAddEffects(k, pairs, o), "zset")

\* One pair with INCR; a NaN is refused.
ZIncrEffects(k, m, d) ==
    IF Has(k, m) THEN emitZSetIncrBy(k, m, zsetMemberScore(db[k], m), d) ELSE emitZSetInsert(k, m, d)

ZNewScore(k, m, d) == IF Has(k, m) THEN Plus2(zsetMemberScore(db[k], m), d) ELSE d

handleZAddIncr(k, m, d, o) ==
    /\ Does("ZADDINCR") /\ ZOpen(k)
    /\ o.xx => Exists(db[k])
    /\ ZNewScore(k, m, d) # NaN
    /\ ZAddHolds(db[k], m, ZNewScore(k, m, d), o)
    /\ EditElems(k, ZIncrEffects(k, m, d), "zset")

handleZIncrBy(k, m, d) ==
    /\ Does("ZINCRBY") /\ ZOpen(k)
    /\ ZNewScore(k, m, d) # NaN
    /\ EditElems(k, ZIncrEffects(k, m, d), "zset")

-----------------------------------------------------------------------------
(* Removals *)

ZRemove(k, ms) == Exists(db[k]) /\ ZOpen(k)
                  /\ EditElems(k, ForEach(ms, LAMBDA m : emitZSetRemove(k, m)), "zset")

handleZRem(k, ms) == Does("ZREM") /\ ZRemove(k, SelectSeq(ms, LAMBDA m : Has(k, m)))

\* Members in the map's order, whatever it is.
InScoreRange(v, lo, hi) == {m \in Ids(v) : scoreInRange(zsetMemberScore(v, m), lo, hi)}
handleZRemRangeByScore(k, lo, hi) ==
    Does("ZREMRANGEBYSCORE") /\ ZRemove(k, SetToSeq(InScoreRange(db[k], lo, hi)))

\* Faulty form: a negative stop is taken from the last member down.
RankRangeOff(v, start, stop) ==
    LET n == handleZCard(v)
        a == IF start < 0 THEN n + start ELSE start
        b == IF stop < 0 THEN n - 1 + stop ELSE stop
        lo == IF a < 0 THEN 0 ELSE a
        hi == IF b >= n THEN n - 1 ELSE b
    IN  IF lo > hi THEN <<>> ELSE SubSeq(zsetSortedMembers(v), lo + 1, hi + 1)

RankRange(v, start, stop) ==
    LET n == handleZCard(v)
        a == IF start < 0 THEN n + start ELSE start
        b == IF stop < 0 THEN n + stop ELSE stop
        lo == IF a < 0 THEN 0 ELSE a
        hi == IF b >= n THEN n - 1 ELSE b
    IN  IF lo > hi THEN <<>> ELSE SubSeq(zsetSortedMembers(v), lo + 1, hi + 1)

handleZRemRangeByRank(k, a, b) == Does("ZREMRANGEBYRANK") /\ ZRemove(k, RankRange(db[k], a, b))

InLexRangeMembers(v, lo, hi) == {m \in Ids(v) : InLexRange(m, lo, hi)}
handleZRemRangeByLex(k, lo, hi) ==
    Does("ZREMRANGEBYLEX") /\ ZRemove(k, SetToSeq(InLexRangeMembers(db[k], lo, hi)))

Popped(v, popMin, n) ==
    LET s == Direction(zsetSortedMembers(v), ~popMin)
    IN  SubSeq(s, 1, IF n < Len(s) THEN n ELSE Len(s))

handleZPopMin(k, n) == Does("ZPOPMIN") /\ ZRemove(k, Popped(db[k], TRUE, n))
handleZPopMax(k, n) == Does("ZPOPMAX") /\ ZRemove(k, Popped(db[k], FALSE, n))

\* The first key with members; a key of another type before it is an error.
ZPopFirst(keys, popMin, n) ==
    \E i \in DOMAIN keys :
        /\ Ids(db[keys[i]]) # {}
        /\ \A j \in 1 .. i - 1 : ZOpen(keys[j]) /\ Ids(db[keys[j]]) = {}
        /\ ZRemove(keys[i], Popped(db[keys[i]], popMin, n))

handleZMPop(keys, popMin, n) == Does("ZMPOP") /\ ZPopFirst(keys, popMin, n)

\* In a transaction or a script the blocking commands try once.
handleZPopNonBlocking(keys, popMin) == Does("BZPOPMIN") /\ ZPopFirst(keys, popMin, 1)
handleBZMPopNonBlocking(keys, popMin, n) == Does("BZMPOP") /\ ZPopFirst(keys, popMin, n)

-----------------------------------------------------------------------------
(* Set operations.  A source is a sorted set or a plain set. *)

ZSourceOpen(k) == ~KeyedWrongType(db[k], {"zset", "set"})
SourceScore(k, m) == IF db[k].tag = "set" THEN 1 ELSE zsetMemberScore(db[k], m)

Numbered(x) == IF x = NaN THEN 0 ELSE x

Aggregated(agg, a, b) ==
    CASE agg = "sum" -> Numbered(Plus2(a, b))
      [] agg = "min" -> IF Less(b, a) THEN b ELSE a
      [] agg = "max" -> IF Less(a, b) THEN b ELSE a

\* Source by source, in the order they are named.
UnionScore(keys, w, agg, m) ==
    LET in == SelectSeq([i \in DOMAIN keys |-> i], LAMBDA i : Has(keys[i], m))
        weighted(n) == Numbered(Times(SourceScore(keys[in[n]], m), w[in[n]]))
        acc[n \in 1 .. Len(in)] ==
            IF n = 1 THEN weighted(1) ELSE Aggregated(agg, acc[n - 1], weighted(n))
    IN  acc[Len(in)]

handleZUnion(keys, w, agg) ==
    [m \in UNION {Ids(db[keys[i]]) : i \in DOMAIN keys} |-> UnionScore(keys, w, agg, m)]

\* The score of the first source is not checked for NaN.
InterScore(keys, w, agg, m) ==
    LET acc[n \in DOMAIN keys] ==
          IF n = 1 THEN Times(SourceScore(keys[1], m), w[1])
          ELSE Aggregated(agg, acc[n - 1], Numbered(Times(SourceScore(keys[n], m), w[n])))
    IN  acc[Len(keys)]

Common(keys, n) == {m \in Members : \A i \in 1 .. n : Has(keys[i], m)}

handleZInter(keys, w, agg) == [m \in Common(keys, Len(keys)) |-> InterScore(keys, w, agg, m)]

\* Sources after the result has become empty are not looked at.
InterTypesOK(keys) ==
    \A i \in DOMAIN keys : ZSourceOpen(keys[i]) \/ (i > 1 /\ Common(keys, i - 1) = {})

handleZInterCard(keys, limit) ==
    LET n == Cardinality(Common(keys, Len(keys)))
    IN  IF limit > 0 /\ n > limit THEN limit ELSE n

handleZDiff(keys) ==
    [m \in {x \in Ids(db[keys[1]]) : \A i \in 2 .. Len(keys) : ~Has(keys[i], x)} |-> SourceScore(keys[1], m)]

\* A missing first source ends ZDIFF before the others are looked at.
DiffTypesOK(keys) ==
    /\ ZSourceOpen(keys[1])
    /\ Exists(db[keys[1]]) => \A i \in DOMAIN keys : ZSourceOpen(keys[i])

\* The destination is deleted, filled and tagged.
ZStored(dst, f) ==
    emitDeleteKey(dst) \o ForEach(SetToSeq(DOMAIN f), LAMBDA m : emitZSetInsert(dst, m, f[m]))
    \o When(DOMAIN f # {}, TypeTag(dst, "zset"))

ZStore(dst, f) == Run(ZStored(dst, f), Did("store", <<dst>>, Never))

handleZUnionStore(dst, keys, w, agg) ==
    /\ Does("ZUNIONSTORE") /\ \A i \in DOMAIN keys : ZSourceOpen(keys[i])
    /\ ZStore(dst, handleZUnion(keys, w, agg))
handleZInterStore(dst, keys, w, agg) ==
    Does("ZINTERSTORE") /\ InterTypesOK(keys) /\ ZStore(dst, handleZInter(keys, w, agg))
handleZDiffStore(dst, keys) ==
    Does("ZDIFFSTORE") /\ DiffTypesOK(keys) /\ ZStore(dst, handleZDiff(keys))

ZRangeResult(v, r) ==
    LET s == handleZRange(v, r) IN [m \in {s[i] : i \in DOMAIN s} |-> zsetMemberScore(v, m)]
handleZRangeStore(dst, src, r) ==
    Does("ZRANGESTORE") /\ ZOpen(src) /\ ZStore(dst, ZRangeResult(db[src], r))

-----------------------------------------------------------------------------
IndexRanges == {By("index", a, b, rev, 0, -1) : a \in {-2, 0, 1}, b \in {-1, 0}, rev \in BOOLEAN}
ScoreRanges == {By("score", lo, hi, FALSE, 0, 1) : lo, hi \in [s: {-Inf, 1, Inf}, ex: {FALSE}]}
Aggregates == {"sum", "min", "max"}
WeightArgs(keys) == [DOMAIN keys -> Weights]
Lows == {b \in ParseScore : b.s # Inf}

ZSetNext ==
    \/ \E k \in Names, p \in Pairs2, o \in ZAddOptions : handleZAdd(k, p, o)
    \/ \E k \in Names, m \in Members, d \in Scores, o \in ZAddOptions : handleZAddIncr(k, m, d, o)
    \/ \E k \in Names, m \in Members, d \in Scores : handleZIncrBy(k, m, d)
    \/ \E k \in Names, ms \in Args : handleZRem(k, ms)
    \/ \E k \in Names, lo \in Lows, hi \in ParseScore : handleZRemRangeByScore(k, lo, hi)
    \/ \E k \in Names, a, b \in -2 .. 1 : handleZRemRangeByRank(k, a, b)
    \/ \E k \in Names, lo, hi \in ParseLexBound : handleZRemRangeByLex(k, lo, hi)
    \/ \E k \in Names, n \in 0 .. 2 : handleZPopMin(k, n)
    \/ \E k \in Names, n \in 0 .. 2 : handleZPopMax(k, n)
    \/ \E keys \in KeyArgs, b \in BOOLEAN, n \in 1 .. 2 : handleZMPop(keys, b, n)
    \/ \E keys \in KeyArgs, b \in BOOLEAN : handleZPopNonBlocking(keys, b)
    \/ \E keys \in KeyArgs, b \in BOOLEAN, n \in 1 .. 2 : handleBZMPopNonBlocking(keys, b, n)
    \/ \E d \in Names, keys \in KeyArgs, agg \in Aggregates : \E w \in WeightArgs(keys) :
          handleZUnionStore(d, keys, w, agg)
    \/ \E d \in Names, keys \in KeyArgs, agg \in Aggregates : \E w \in WeightArgs(keys) :
          handleZInterStore(d, keys, w, agg)
    \/ \E d \in Names, keys \in KeyArgs : handleZDiffStore(d, keys)
    \/ \E d, s \in Names, r \in IndexRanges : handleZRangeStore(d, s, r)
    \/ \E d, s \in Names, r \in ScoreRanges : handleZRangeStore(d, s, r)

-----------------------------------------------------------------------------
(* Properties *)

ZKeys == {k \in Names : ZOpen(k)}
\* Sorted sets with no NaN, which only ZINTERSTORE can leave.
Ordered == {k \in ZKeys : \A m \in Ids(db[k]) : zsetMemberScore(db[k], m) # NaN}
Up == [s |-> Inf, ex |-> FALSE]
Down == [s |-> -Inf, ex |-> FALSE]

\* The index, rank, score and name ranges of a sorted set tell one story: the
\* order has every member once and scores never fall along it, the member at a
\* rank is the one ZRANGE gives there, ZREVRANGE is ZRANGE backwards, a score
\* cuts the set in two parts that share nothing, and so does a name; ZINTERCARD
\* answers what ZDIFF leaves out, up to its limit.
ZReadersAgree ==
    \A k \in Ordered :
        LET v == db[k]
            s == zsetSortedMembers(v)
            n == handleZCard(v)
            At(x, ex) == [s |-> x, ex |-> ex]
            On(m, inc) == [end |-> "at", v |-> m, inc |-> inc]
            End(e) == [end |-> e, v |-> 0, inc |-> FALSE]
        IN  /\ handleZRange(v, By("index", 0, -1, FALSE, 0, -1)) = s
            /\ handleZRevRange(v, 0, -1) = Reverse(s)
            /\ {s[i] : i \in DOMAIN s} = Ids(v)
            /\ \A m \in Ids(v) :
                 /\ handleZRange(v, By("index", handleZRank(v, m), handleZRank(v, m), FALSE, 0, -1)) = <<m>>
                 /\ handleZRevRange(v, handleZRevRank(v, m), handleZRevRank(v, m)) = <<m>>
                 /\ handleZLexCount(v, End("-"), On(m, FALSE)) + handleZLexCount(v, On(m, TRUE), End("+")) = n
            /\ \A i, j \in DOMAIN s : i < j => ~Less(zsetMemberScore(v, s[j]), zsetMemberScore(v, s[i]))
            /\ \A x \in Scores, ex \in BOOLEAN :
                 /\ handleZCount(v, Down, At(x, ex)) + handleZCount(v, At(x, ~ex), Up) = n
                 /\ handleZRangeByScore(v, Down, At(x, ex), 0, -1)
                      \o handleZRangeByScore(v, At(x, ~ex), Up, 0, -1) = s
                 /\ handleZRevRangeByScore(v, At(x, ex), Down, 0, -1)
                      = Reverse(handleZRangeByScore(v, Down, At(x, ex), 0, -1))
            /\ \A m \in Members, inc \in BOOLEAN, i \in 0 .. 2 :
                 LET t == handleZRangeByLex(v, End("-"), On(m, inc), 0, -1) IN
                 /\ Len(t) = handleZLexCount(v, End("-"), On(m, inc))
                 /\ handleZRevRangeByLex(v, On(m, inc), End("-"), 0, -1) = Reverse(t)
                 /\ handleZRangeByLex(v, End("-"), On(m, inc), i, -1) = SubSeq(t, i + 1, Len(t))
            /\ \A ms \in Args : \A i \in DOMAIN ms :
                 (handleZMScore(v, ms)[i] = NaN) = (handleZRank(v, ms[i]) = -1)
            /\ \A c \in -1 .. 2 : \A t \in handleZRandMember(v, c) : {t[i] : i \in DOMAIN t} \subseteq Ids(v)
            /\ \A keys \in KeyArgs, c \in 0 .. 2 : keys[1] = k /\ Len(keys) = 2 /\ ZSourceOpen(keys[2]) =>
                 LET both == n - Cardinality(DOMAIN handleZDiff(keys))
                 IN  handleZInterCard(keys, c) = IF c > 0 /\ both > c THEN c ELSE both

\* What the options of ZADD promise, with INCR or without, and when a command
\* names a member twice: NX leaves every member alone, XX makes none, GT never
\* lowers a score and LT never raises one.
ZAddOptionsGuarded ==
    LET Kept(k, o, w) ==
            /\ o.xx => Ids(w) \subseteq Ids(db[k])
            /\ Ids(db[k]) \subseteq Ids(w)
            /\ \A m \in Ids(db[k]) :
                 LET old == zsetMemberScore(db[k], m)
                     new == zsetMemberScore(w, m)
                 IN  /\ o.nx => new = old
                     /\ o.gt => ~Less(new, old)
                     /\ o.lt => ~Less(old, new)
    IN  "ZADD" \in work =>
            \A k \in ZKeys, o \in ZAddOptions :
                /\ \A p \in Pairs2 : Kept(k, o, After(Elems(k, ZAddEffects(k, p, o), "zset"))[k])
                /\ \A m \in Members, d \in Scores :
                     ZNewScore(k, m, d) # NaN /\ ZAddHolds(db[k], m, ZNewScore(k, m, d), o)
                       => Kept(k, o, After(Elems(k, ZIncrEffects(k, m, d), "zset"))[k])

\* ZUNIONSTORE, ZINTERSTORE and ZDIFFSTORE leave in the destination exactly the
\* result for the sources as they were, also when the destination is a source
\* or had members of its own, and touch no other key.  A union holds the
\* intersection with the same weights, and gives its members the same scores
\* unless the first score is infinite and weighs nothing.
ZStoresExact ==
    LET Exact(dst, f) ==
            LET after == After(ZStored(dst, f))
            IN  /\ Ids(after[dst]) = DOMAIN f
                /\ \A m \in DOMAIN f : zsetMemberScore(after[dst], m) = f[m]
                /\ Exists(after[dst]) => after[dst].tag = "zset" /\ after[dst].exp = Never
                /\ \A k \in Names \ {dst} : after[k] = db[k]
        Within(keys, w, c, u) ==
            \A m \in DOMAIN c :
                /\ m \in DOMAIN u
                /\ Times(SourceScore(keys[1], m), w[1]) # NaN => c[m] = u[m]
    IN  "ZUNIONSTORE" \in work =>
            \A keys \in KeyArgs :
                (\A i \in DOMAIN keys : ZSourceOpen(keys[i])) =>
                    LET Results == {handleZDiff(keys)}
                          \cup {handleZUnion(keys, w, agg) : w \in WeightArgs(keys), agg \in Aggregates}
                          \cup {handleZInter(keys, w, agg) : w \in WeightArgs(keys), agg \in Aggregates}
                    IN  /\ \A f \in Results, dst \in Names : Exact(dst, f)
                        /\ \A w \in WeightArgs(keys), agg \in Aggregates :
                             Within(keys, w, handleZInter(keys, w, agg), handleZUnion(keys, w, agg))

\* Removing a range leaves what the range does not show: ZREMRANGEBYRANK and
\* ZRANGE agree on every pair of indexes, and what the pops leave has no score
\* beyond what they took.
ZRemovalsMatchRanges ==
    \A k \in Ordered :
        LET v == db[k]
            s == zsetSortedMembers(v)
            Score(m) == zsetMemberScore(v, m)
            SetOf(t) == {t[i] : i \in DOMAIN t}
        IN  /\ \A a, b \in -3 .. 3 :
                 RankRange(v, a, b) = handleZRange(v, By("index", a, b, FALSE, 0, -1))
            /\ \A n \in 0 .. 2, m, x \in Ids(v) :
                 /\ m \in SetOf(Popped(v, TRUE, n)) /\ x \notin SetOf(Popped(v, TRUE, n)) => ~Less(Score(x), Score(m))
                 /\ m \in SetOf(Popped(v, FALSE, n)) /\ x \notin SetOf(Popped(v, FALSE, n)) => ~Less(Score(m), Score(x))
=============================================================================
