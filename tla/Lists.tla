------------------------------- MODULE Lists --------------------------------
(***************************************************************************)
(* List commands (redis/list/core.go, and the forms of the blocking        *)
(* commands that do not block).  A list is an ordered collection; effects  *)
(* name an element of the snapshot, so positions stand for the elements.   *)
(***************************************************************************)
EXTENDS KeyCommands
LOCAL INSTANCE SequencesExt

CONSTANT Items       \* values of list elements

getListSnapshotWrongType(v) ==
    Exists(v) /\ ~(v.kind = "ordered" /\ v.tag \in {"list", "none"})
              /\ ~(v.kind = "scalar" /\ v.tag = "list")
ListOpen(k) == ~getListSnapshotWrongType(db[k])
Least(a, b) == IF a < b THEN a ELSE b

-----------------------------------------------------------------------------
(* Reading *)

handleLLen(k) == Len(db[k].order)

\* An index from the end when negative; what is asked for beyond the ends is cut off.
ListRange(s, start, stop) ==
    LET a == IF start < 0 THEN Len(s) + start ELSE start
        b == IF stop < 0 THEN Len(s) + stop ELSE stop
    IN  <<IF a < 0 THEN 0 ELSE a, IF b >= Len(s) THEN Len(s) - 1 ELSE b>>

handleLRange(s, start, stop) ==
    LET r == ListRange(s, start, stop)
    IN  IF r[1] > r[2] THEN <<>> ELSE SubSeq(s, r[1] + 1, r[2] + 1)

\* <<>> when there is no such element.
handleLIndex(s, i) ==
    LET n == IF i < 0 THEN Len(s) + i ELSE i
    IN  IF n < 0 \/ n >= Len(s) THEN <<>> ELSE <<s[n + 1]>>

\* Positions of x: from the end for a negative rank, skipping |rank| - 1
\* matches, looking at maxlen elements and answering count; 0 is no bound.
handleLPos(s, x, rank, count, maxlen) ==
    LET n == IF maxlen > 0 THEN Least(maxlen, Len(s)) ELSE Len(s)
        seen == IF rank > 0 THEN [i \in 1 .. n |-> i] ELSE [i \in 1 .. n |-> Len(s) + 1 - i]
        hits == SelectSeq(seen, LAMBDA p : s[p] = x)
        skip == (IF rank > 0 THEN rank ELSE -rank) - 1
        rest == SubSeq(hits, skip + 1, Len(hits))
        kept == IF count > 0 THEN SubSeq(rest, 1, Least(count, Len(rest))) ELSE rest
    IN  [i \in DOMAIN kept |-> kept[i] - 1]

-----------------------------------------------------------------------------
(* Writing *)

\* Every push and removal names elements of the snapshot; the deadline stays.
EditList(k, s) ==
    Run(SetOrder(k, s) \o When(~Exists(db[k]), TypeTag(k, "list")), Did("edit", <<k>>, Keep))

\* Each value goes to the head in turn.
handleLPush(k, xs) == Does("LPUSH") /\ ListOpen(k) /\ EditList(k, Reverse(xs) \o db[k].order)
handleRPush(k, xs) == Does("RPUSH") /\ ListOpen(k) /\ EditList(k, db[k].order \o xs)

handleLPushX(k, xs) ==
    Does("LPUSHX") /\ Exists(db[k]) /\ ListOpen(k) /\ EditList(k, Reverse(xs) \o db[k].order)
handleRPushX(k, xs) ==
    Does("RPUSHX") /\ Exists(db[k]) /\ ListOpen(k) /\ EditList(k, db[k].order \o xs)

PopLeft(k, n) == EditList(k, SubSeq(db[k].order, Least(n, handleLLen(k)) + 1, handleLLen(k)))
PopRight(k, n) == EditList(k, SubSeq(db[k].order, 1, handleLLen(k) - Least(n, handleLLen(k))))

handleLPop(k, n) == Does("LPOP") /\ Exists(db[k]) /\ ListOpen(k) /\ PopLeft(k, n)
handleRPop(k, n) == Does("RPOP") /\ Exists(db[k]) /\ ListOpen(k) /\ PopRight(k, n)

\* All keys are type-checked, then the first that has elements is popped.
handleLMPop(keys, left, n) ==
    /\ Does("LMPOP")
    /\ \A i \in DOMAIN keys : ListOpen(keys[i])
    /\ \E i \in DOMAIN keys :
          /\ handleLLen(keys[i]) > 0
          /\ \A j \in 1 .. i - 1 : handleLLen(keys[j]) = 0
          /\ IF left THEN PopLeft(keys[i], n) ELSE PopRight(keys[i], n)

\* An index beyond the ends is an error.
handleLSet(k, i, x) ==
    LET n == IF i < 0 THEN handleLLen(k) + i ELSE i IN
    /\ Does("LSET") /\ Exists(db[k]) /\ ListOpen(k)
    /\ n \in 0 .. handleLLen(k) - 1
    /\ EditList(k, [db[k].order EXCEPT ![n + 1] = x])

\* count > 0 from the head, < 0 from the tail, 0 all.
LRemPositions(s, n, x) ==
    LET hits == {i \in DOMAIN s : s[i] = x}
    IN  CASE n > 0 -> {i \in hits : Cardinality({j \in hits : j < i}) < n}
          [] n < 0 -> {i \in hits : Cardinality({j \in hits : j > i}) < -n}
          [] OTHER -> hits

Others(s, P) == Picks(s, DOMAIN s \ P)

handleLRem(k, n, x) ==
    /\ Does("LREM") /\ Exists(db[k]) /\ ListOpen(k)
    /\ EditList(k, Others(db[k].order, LRemPositions(db[k].order, n, x)))

\* The elements outside the range.
LTrimDrops(s, start, stop) ==
    LET r == ListRange(s, start, stop)
    IN  {i \in DOMAIN s : i < r[1] + 1 \/ i > r[2] + 1}

handleLTrim(k, start, stop) ==
    /\ Does("LTRIM") /\ Exists(db[k]) /\ ListOpen(k)
    /\ EditList(k, Others(db[k].order, LTrimDrops(db[k].order, start, stop)))

\* Beside the first element equal to the pivot.
handleLInsert(k, before, pivot, x) ==
    LET s == db[k].order IN
    /\ Does("LINSERT") /\ Exists(db[k]) /\ ListOpen(k)
    /\ \E i \in DOMAIN s :
          /\ s[i] = pivot /\ \A j \in 1 .. i - 1 : s[j] # pivot
          /\ EditList(k, InsertAt(s, IF before THEN i ELSE i + 1, x))

\* Faulty form: the element is inserted into the list as it was.
MovedStale(s, popLeft, pushLeft) ==
    LET x == IF popLeft THEN Head(s) ELSE Last(s)
    IN  IF pushLeft THEN <<x>> \o s ELSE Append(s, x)

\* A list whose element goes from one end to the other.
Moved(s, popLeft, pushLeft) ==
    LET x == IF popLeft THEN Head(s) ELSE Last(s)
        rest == IF popLeft THEN Tail(s) ELSE Front(s)
    IN  IF pushLeft THEN <<x>> \o rest ELSE Append(rest, x)

\* The destination gets no type tag, new or not.
LMoveEffects(src, dst, popLeft, pushLeft) ==
    LET s == db[src].order
        d == db[dst].order
        x == IF popLeft THEN Head(s) ELSE Last(s)
    IN  IF src = dst THEN SetOrder(src, Moved(s, popLeft, pushLeft))
        ELSE SetOrder(src, IF popLeft THEN Tail(s) ELSE Front(s))
             \o SetOrder(dst, IF pushLeft THEN <<x>> \o d ELSE Append(d, x))

CanLMove(src, dst) ==
    Exists(db[src]) /\ ListOpen(src) /\ db[src].order # <<>> /\ ListOpen(dst)

doLMove(src, dst, popLeft, pushLeft) ==
    /\ CanLMove(src, dst)
    /\ Run(LMoveEffects(src, dst, popLeft, pushLeft), Did("transfer", <<src, dst>>, Keep))

handleLMove(src, dst, l, r) == Does("LMOVE") /\ doLMove(src, dst, l, r)
handleRPopLPush(src, dst) == Does("RPOPLPUSH") /\ doLMove(src, dst, FALSE, TRUE)

\* In a transaction or a script the blocking commands try once.
handleBRPopLPushNonBlocking(src, dst) == Does("BRPOPLPUSH") /\ doLMove(src, dst, FALSE, TRUE)
handleBLMoveNonBlocking(src, dst, l, r) == Does("BLMOVE") /\ doLMove(src, dst, l, r)

\* The first key that has elements; a key of another type before it is an error.
FirstListWithElements(keys, i) ==
    /\ handleLLen(keys[i]) > 0
    /\ \A j \in 1 .. i : ListOpen(keys[j]) /\ (j < i => handleLLen(keys[j]) = 0)

handleLPopNonBlocking(keys, left) ==
    /\ Does("BLPOP")
    /\ \E i \in DOMAIN keys :
          /\ FirstListWithElements(keys, i)
          /\ IF left THEN PopLeft(keys[i], 1) ELSE PopRight(keys[i], 1)

handleBLMPopNonBlocking(keys, left, n) ==
    /\ Does("BLMPOP")
    /\ \A i \in DOMAIN keys : ListOpen(keys[i])
    /\ \E i \in DOMAIN keys :
          /\ FirstListWithElements(keys, i)
          /\ IF left THEN PopLeft(keys[i], n) ELSE PopRight(keys[i], n)

-----------------------------------------------------------------------------
ItemArgs == UNION {[1 .. n -> Items] : n \in 1 .. 2}
ListKeys == UNION {[1 .. n -> Names] : n \in 1 .. 2}

\* Pushes stop at MaxBulk elements.
Room(k, n) == handleLLen(k) + n <= MaxBulk

ListNext ==
    \/ \E k \in Names, xs \in ItemArgs : Room(k, Len(xs)) /\ handleLPush(k, xs)
    \/ \E k \in Names, xs \in ItemArgs : Room(k, Len(xs)) /\ handleRPush(k, xs)
    \/ \E k \in Names, xs \in ItemArgs : Room(k, Len(xs)) /\ handleLPushX(k, xs)
    \/ \E k \in Names, xs \in ItemArgs : Room(k, Len(xs)) /\ handleRPushX(k, xs)
    \/ \E k \in Names, n \in 0 .. 2 : handleLPop(k, n)
    \/ \E k \in Names, n \in 0 .. 2 : handleRPop(k, n)
    \/ \E keys \in ListKeys, l \in BOOLEAN, n \in 1 .. 2 : handleLMPop(keys, l, n)
    \/ \E k \in Names, i \in -2 .. 2, x \in Items : handleLSet(k, i, x)
    \/ \E k \in Names, n \in -2 .. 2, x \in Items : handleLRem(k, n, x)
    \/ \E k \in Names, a, b \in -3 .. 3 : handleLTrim(k, a, b)
    \/ \E k \in Names, b \in BOOLEAN, p, x \in Items : Room(k, 1) /\ handleLInsert(k, b, p, x)
    \/ \E a, b \in Names, l, r \in BOOLEAN : handleLMove(a, b, l, r)
    \/ \E a, b \in Names : handleRPopLPush(a, b)
    \/ \E a, b \in Names : handleBRPopLPushNonBlocking(a, b)
    \/ \E a, b \in Names, l, r \in BOOLEAN : handleBLMoveNonBlocking(a, b, l, r)
    \/ \E keys \in ListKeys, l \in BOOLEAN : handleLPopNonBlocking(keys, l)
    \/ \E keys \in ListKeys, l \in BOOLEAN, n \in 1 .. 2 : handleBLMPopNonBlocking(keys, l, n)

-----------------------------------------------------------------------------
(* Properties *)

Count(s, x) == Cardinality({i \in DOMAIN s : s[i] = x})

\* The readers of a list agree: every index from either end names the element
\* LRANGE shows there, two ranges that meet give the whole, and LPOS answers the
\* positions that hold the value, from either end, one rank at a time or at once.
ListReadersAgree ==
    \A k \in Names : LET s == db[k].order
                         n == handleLLen(k) IN
        Exists(db[k]) /\ ListOpen(k) =>
            /\ n > 0 /\ handleLRange(s, 0, -1) = s
            /\ \A i \in 0 .. n : handleLRange(s, 0, i) \o handleLRange(s, i + 1, n) = s
            /\ \A i \in 1 .. n : /\ handleLIndex(s, -i) = handleLIndex(s, n - i)
                                 /\ handleLIndex(s, -i) = handleLRange(s, -i, -i)
            /\ \A i \in {n, -n - 1} : handleLIndex(s, i) = <<>>
            /\ \A x \in Items :
                  LET all == handleLPos(s, x, 1, 0, 0) IN
                  /\ Len(all) = Count(s, x)
                  /\ Reverse(all) = handleLPos(s, x, -1, 0, 0)
                  /\ \A r \in 1 .. Len(all) : /\ handleLPos(s, x, r, 1, 0) = <<all[r]>>
                                              /\ handleLIndex(s, all[r]) = <<x>>
                  /\ \A m \in 1 .. n : handleLPos(s, x, 1, 0, m) =
                        SelectSeq(all, LAMBDA p : p < m)

\* LMOVE and RPOPLPUSH, also on one key and as BLMOVE and BRPOPLPUSH in a
\* transaction, move one element: over both keys no value is lost or doubled,
\* and the element that left one end is the one that arrives at the other.
LMoveConserves ==
    "LMOVE" \in work =>
    \A a, b \in Names, l, r \in BOOLEAN : CanLMove(a, b) =>
        LET new == After(LMoveEffects(a, b, l, r))
            both(d) == IF a = b THEN d[a].order ELSE d[a].order \o d[b].order
            x == IF l THEN Head(db[a].order) ELSE Last(db[a].order)
        IN  /\ \A y \in Items : Count(both(new), y) = Count(both(db), y)
            /\ x = IF r THEN Head(new[b].order) ELSE Last(new[b].order)

\* LTRIM leaves what LRANGE would have shown; LREM removes only elements equal
\* to its argument, as many as asked for, nearest to the end it starts from.
ListRemovalsExact ==
    "LREM" \in work =>
    \A k \in Names : LET s == db[k].order IN
        Exists(db[k]) /\ ListOpen(k) =>
            /\ \A a, b \in -4 .. 4 : Others(s, LTrimDrops(s, a, b)) = handleLRange(s, a, b)
            /\ \A n \in -2 .. 2, x \in Items :
                  LET t == Others(s, LRemPositions(s, n, x))
                      asked == IF n = 0 THEN Count(s, x)
                               ELSE Least(Count(s, x), IF n < 0 THEN -n ELSE n)
                      left == handleLPos(t, x, 1, 0, 0)
                  IN  /\ Count(t, x) = Count(s, x) - asked
                      /\ SelectSeq(t, LAMBDA y : y # x) = SelectSeq(s, LAMBDA y : y # x)
                      /\ n < 0 /\ left # <<>> => left[1] = handleLPos(s, x, 1, 1, 0)[1]
                      /\ n > 0 /\ left # <<>> =>
                            Len(t) - left[Len(left)] = Len(s) - handleLPos(s, x, -1, 1, 0)[1]
=============================================================================
