---------------------------- MODULE KeyCommands -----------------------------
(***************************************************************************)
(* Commands on keys of any type (redis/str/keys.go) and deadlines          *)
(* (redis/str/expiry.go, helpers.go).  A stream has sub-keys beside it:    *)
(* its consumer groups and its producers' records.                         *)
(***************************************************************************)
EXTENDS Strings
LOCAL INSTANCE FiniteSetsExt

-----------------------------------------------------------------------------
(* DEL, UNLINK, DELEX *)

typeTagToString(tag) ==
    CASE tag \in {"string", "bitmap", "hll"} -> "string"
      [] tag \in {"zset", "geo"} -> "zset"
      [] tag \in {"none", "json"} -> "none"
      [] OTHER -> tag

\* cleanupStreamGroups: every sub-key of a stream goes, whatever the key holds.
CleanedUp(s, k) == [s EXCEPT ![k] = NoSub]

\* A key named twice is found missing the second time.
handleDel(keys) ==
    LET found == {i \in DOMAIN keys : Exists(db[keys[i]])}
        gone == {keys[i] : i \in found}
    IN  /\ Does("DEL") /\ found # {}
        /\ runDataCommand(When(Exists(db[keys[1]]), emitDeleteKey(keys[1]))
                          \o When(Exists(db[keys[2]]), emitDeleteKey(keys[2])),
                          [k \in Names |-> IF k \in gone THEN NoSub ELSE sub[k]],
                          Did("delete", SelectSeq(keys, LAMBDA k : k \in gone), Never))

\* Without a condition any type is deleted; sub-keys stay.
handleDelEx(k, cond, cmp) ==
    /\ Does("DELEX")
    /\ CASE cond = "always" -> Exists(db[k])
         [] cond = "ifeq" -> HasSnap(db[k]) /\ handleGet(k) = cmp
         [] cond = "ifne" -> HasSnap(db[k]) /\ handleGet(k) # cmp
         [] cond = "ifdeq" -> HasSnap(db[k]) /\ Hash(handleGet(k)) = Hash(cmp)
         [] cond = "ifdne" -> HasSnap(db[k]) /\ Hash(handleGet(k)) # Hash(cmp)
    /\ Run(emitDeleteKey(k), Did("delete", <<k>>, Never))

handleExists(keys) == Cardinality({i \in DOMAIN keys : Exists(db[keys[i]])})

handleType(k) == IF Exists(db[k]) THEN typeTagToString(db[k].tag) ELSE "none"

-----------------------------------------------------------------------------
(* RENAME, RENAMENX, COPY *)

AllElems(k, v) ==
    LET fx[S \in SUBSET DOMAIN v.elems] ==
          IF S = {} THEN <<>>
          ELSE LET x == CHOOSE y \in S : TRUE
               IN  fx[S \ {x}] \o InsertElem(k, x, v.elems[x])
                   \o When(x \in DOMAIN v.left, ElementExpiresAt(k, x, v.left[x]))
    IN  fx[DOMAIN v.elems]

\* Scalars, elements with their deadlines, ordered elements; then the tag and
\* the deadline of the key.  The scalar under a keyed bitmap is not written.
emitSnapshotAtKey(k, v) ==
    (CASE v.kind = "scalar" -> InsertScalar(k, v.scalar)
       [] v.kind = "keyed" -> AllElems(k, v)
       [] v.kind = "ordered" -> SetOrder(k, v.order)
       [] OTHER -> <<>>)
    \o When(v.tag # "none", TypeTag(k, v.tag))
    \o When(v.exp # Never, ExpiresAt(k, v.exp))

\* The groups are added to what the destination has; nothing happens without a registry.
copyStreamGroups(s, a, b) == [s EXCEPT ![b].groups = @ \cup s[a].groups]

IsStream(k) == Exists(db[k]) /\ db[k].tag = "stream"

\* Faulty form: the destination keeps the groups it had.
RenamedSubsMerge(a, b) ==
    IF IsStream(a) THEN CleanedUp(copyStreamGroups(sub, a, b), a) ELSE sub

\* The sub-keys of a stream move; those of a stream that is replaced go.
RenamedSubs(a, b) ==
    LET cleared == IF IsStream(b) THEN CleanedUp(sub, b) ELSE sub
    IN  IF IsStream(a) THEN CleanedUp(copyStreamGroups(cleared, a, b), a) ELSE cleared

handleRename(a, b) ==
    /\ Does("RENAME") /\ Exists(db[a]) /\ a # b
    /\ runDataCommand(emitDeleteKey(a) \o emitDeleteKey(b) \o emitSnapshotAtKey(b, db[a]),
                      RenamedSubs(a, b), Did("move", <<a, b>>, Keep))

handleRenameNX(a, b) ==
    /\ Does("RENAMENX") /\ Exists(db[a]) /\ ~Exists(db[b])
    /\ runDataCommand(emitDeleteKey(a) \o emitSnapshotAtKey(b, db[a]),
                      RenamedSubs(a, b), Did("move", <<a, b>>, Keep))

\* REPLACE deletes the destination first, which may be the source.
handleCopy(a, b, replace) ==
    LET cleared == IF replace /\ IsStream(b) THEN CleanedUp(sub, b) ELSE sub IN
    /\ Does("COPY") /\ Exists(db[a])
    /\ replace \/ ~Exists(db[b])
    /\ runDataCommand(When(replace, emitDeleteKey(b)) \o emitSnapshotAtKey(b, db[a]),
                      IF IsStream(a) THEN copyStreamGroups(cleared, a, b) ELSE cleared,
                      Did("copy", <<a, b>>, Keep))

-----------------------------------------------------------------------------
(* Deadlines *)

\* NX excludes the others, GT excludes LT.
parseExpireOptions ==
    {o \in [nx: BOOLEAN, xx: BOOLEAN, gt: BOOLEAN, lt: BOOLEAN] :
        /\ ~(o.gt /\ o.lt)
        /\ o.nx => ~(o.xx \/ o.gt \/ o.lt)}

\* No deadline counts as infinite.
shouldSetExpire(new, cur, o) ==
    /\ o.nx => cur = Never
    /\ o.xx => cur # Never
    /\ o.gt => (cur # Never /\ new >= cur)
    /\ o.lt => (cur = Never \/ new <= cur)

\* EXPIRE and PEXPIRE delete for a negative time, EXPIREAT and PEXPIREAT for
\* one that has come; the options are not looked at then.  A time of 0 is a
\* deadline that has come.
ExpireOrDelete(k, t, deletes, o) ==
    /\ Exists(db[k])
    /\ deletes \/ shouldSetExpire(t, db[k].exp, o)
    /\ Run(IF deletes THEN emitDeleteKey(k) ELSE ExpiresAt(k, IF t = 0 THEN Past ELSE t),
           IF t <= 0 THEN Did("delete", <<k>>, Never) ELSE Did("deadline", <<k>>, t))

handleExpire(k, t, o) == Does("EXPIRE") /\ ExpireOrDelete(k, t, t < 0, o)
handlePExpire(k, t, o) == Does("PEXPIRE") /\ ExpireOrDelete(k, t, t < 0, o)
handleExpireAt(k, t, o) == Does("EXPIREAT") /\ ExpireOrDelete(k, t, t <= 0, o)
handlePExpireAt(k, t, o) == Does("PEXPIREAT") /\ ExpireOrDelete(k, t, t <= 0, o)

handlePersist(k) ==
    /\ Does("PERSIST") /\ Exists(db[k]) /\ db[k].exp # Never
    /\ Run(ExpiresAt(k, Never), Did("deadline", <<k>>, Never))

\* -2 without the key, -1 without a deadline.
handlePTTL(k) == IF ~Exists(db[k]) THEN -2 ELSE IF db[k].exp = Never THEN -1 ELSE db[k].exp

\* Seconds, rounded down.
handleTTL(k) == IF handlePTTL(k) < 0 THEN handlePTTL(k) ELSE handlePTTL(k) \div PerSecond

-----------------------------------------------------------------------------
ExpireTimes == {-1, 0} \cup 1 .. MaxTTL

StringNext ==
    \/ \E k \in Names, s \in Texts, o \in SetOptions : handleSet(k, s, o)
    \/ \E k \in Names, s \in Texts : handleSetNX(k, s)
    \/ \E k \in Names, s \in Texts, t \in 1 .. MaxTTL : handleSetEX(k, s, t)
    \/ \E k \in Names, s \in Texts : handleGetSet(k, s)
    \/ \E k \in Names : handleGetDel(k)
    \/ \E k \in Names, t \in Deadlines : handleGetEx(k, t)
    \/ \E p \in Pairs : handleMSet(p)
    \/ \E p \in Pairs : handleMSetNX(p)
    \/ \E p \in Pairs, o \in MSetEXOptions : handleMSetEX(p, o)
    \/ \E k \in Names, d \in MinInt .. MaxInt : handleIncrBy(k, d)
    \/ \E k \in Names, d \in MinInt .. MaxInt : handleDecrBy(k, d)
    \/ \E k \in Names, d \in Deltas : handleIncrByFloat(k, d)
    \/ \E k \in Names, s \in Texts : handleAppend(k, s)
    \/ \E k \in Names, n \in 0 .. MaxBulk, s \in Texts \cup {<<>>} : handleSetRange(k, n, s)

KeyNext ==
    \/ \E keys \in [1 .. 2 -> Names] : handleDel(keys)
    \/ \E k \in Names, c \in Conditions \ {"nx", "xx"}, s \in Texts : handleDelEx(k, c, s)
    \/ \E a, b \in Names : handleRename(a, b)
    \/ \E a, b \in Names : handleRenameNX(a, b)
    \/ \E a, b \in Names, r \in BOOLEAN : handleCopy(a, b, r)
    \/ \E k \in Names, t \in ExpireTimes, o \in parseExpireOptions : handleExpire(k, t, o)
    \/ \E k \in Names, t \in ExpireTimes, o \in parseExpireOptions : handlePExpire(k, t, o)
    \/ \E k \in Names, t \in ExpireTimes, o \in parseExpireOptions : handleExpireAt(k, t, o)
    \/ \E k \in Names, t \in ExpireTimes, o \in parseExpireOptions : handlePExpireAt(k, t, o)
    \/ \E k \in Names : handlePersist(k)

-----------------------------------------------------------------------------
(* Properties *)

\* The value of k as readers see it: its type, whether bits lie over a string,
\* and its data.
View(k) ==
    LET v == db[k]
        over == v.kind = "keyed" /\ v.scalar # Nil
        type == handleType(k)
    IN  IF ~Exists(v) THEN <<"none">>
        ELSE <<type, over,
               CASE over -> reconstructBitmapBytes(v)
                 [] ~over /\ type = "string" -> handleGet(k)
                 [] ~over /\ type # "string" /\ v.kind = "keyed" -> <<v.elems, v.left>>
                 [] OTHER -> v.order>>

Redis == INSTANCE RedisKeyspace WITH
            NoValue <- <<"none">>,
            val <- [k \in Names |-> View(k)],
            ttl <- [k \in Names |-> db[k].exp],
            did <- last

\* The string, bitmap and key commands implement the keyspace readers see:
\* each touches its own keys only, keeps or sets the deadline as its class
\* says, moves values whole, and leaves no trace when it fails.
KeyspaceImplemented == Redis!Spec

\* A bitmap reads the same bit by bit, by counting, by searching and as bytes,
\* whichever of its representations a sequence of writes has left.
BitReadersAgree ==
    \A k \in Names : LET v == db[k]
                         data == reconstructBitmapBytes(v)
                         on == BitSet(data) IN
        Exists(v) /\ ~getBitmapSnapshotWrongType(v) /\ v.scalar.t \in {"nil", "raw"}
        /\ v.tag \in {"string", "bitmap"} =>
            /\ on = {o \in 0 .. (Len(data) + 1) * ByteBits : getBit(v, o) = 1}
            /\ BitCountAll(v) = Cardinality(on)
            /\ handleBitCount(v, 0, -1, FALSE) = Cardinality(on)
            /\ handleBitPos(v, 1, 0, -1, FALSE, FALSE) = IF on = {} THEN -1 ELSE Min(on)
            /\ getBit(v, handleBitPos(v, 0, 0, -1, FALSE, FALSE)) = 0
            /\ v.tag = "bitmap" => handleGet(k) = data

\* The commands that look at a key agree: a key is there for EXISTS, TYPE and
\* TTL alike, MGET answers what GET does, and any cut of a string read by
\* GETRANGE in two parts gives STRLEN bytes and the string again.
KeyReadersAgree ==
    \A k \in Names : LET s == handleGet(k) IN
        /\ (handleExists(<<k>>) = 0) = (handlePTTL(k) = -2)
        /\ (handleTTL(k) >= 0) = (handlePTTL(k) >= 0)
        /\ (handleExists(<<k>>) = 0) = (handleType(k) = "none")
        /\ (handleMGet(<<k>>) = <<Nil>>) = (handleType(k) # "string" \/ wrongType(db[k]))
        /\ handleStrLen(k) = Len(handleGetRange(s, 0, -1))
        /\ \A i \in 0 .. Len(s) : handleGetRange(s, 0, i) \o handleGetRange(s, i + 1, -1) = s
        /\ \A i \in 1 .. Len(s) : handleGetRange(s, -i, -1) = handleGetRange(s, Len(s) - i, Len(s))

\* SETBIT sets the bit it names and no other, extends the string to the bit,
\* and never shortens it.
SetBitExact(k) ==
    \A o \in BitOffsets, b \in 0 .. 1 : handleSetBit(k, o, b) =>
        LET old == reconstructBitmapBytes(db[k])
            new == reconstructBitmapBytes(db[k]')
        IN  /\ getScalarBit(new, o) = b
            /\ \A p \in 0 .. MaxBulk * ByteBits :
                  p # o => getScalarBit(new, p) = getScalarBit(old, p)
            /\ Len(new) = Max({Len(old), BytesFor(o)})

\* A BITFIELD write leaves in its field what its overflow mode promises,
\* answers what it left, and changes no bit outside, except that SAT is wrong
\* about a sum beyond int64.
BitFieldExact ==
    "BITFIELD" \in work /\ last.class # "failed" =>
    \A k \in Names, t \in parseBitfieldType, x \in {MaxInt} \cup Deltas,
       o \in BitOffsets, f \in {"wrap", "sat", "fail"} :
        LET data == reconstructBitmapBytes(db[k])
            sc == [op |-> "incrby", signed |-> t[1], bits |-> t[2], o |-> o, x |-> x, overflow |-> f]
            step == BitFieldStep(data, sc)
            sum == getBitfieldInt(data, o, t[2], t[1]) + x
            inside == minVal(t[1], t[2]) <= sum /\ sum <= maxVal(t[1], t[2])
            new == getBitfieldInt(step.data, o, t[2], t[1])
        IN  /\ ~Exists(db[k]) \/ ~getBitmapSnapshotWrongType(db[k]) =>
                  /\ step.modified = (f # "fail" \/ inside)
                  /\ step.modified => new = step.out
                  /\ step.modified /\ inside => new = sum
                  /\ f = "wrap" => (new - sum) % 2^t[2] = 0
                  /\ f = "sat" /\ ~inside /\ sum \in MinInt .. MaxInt =>
                        new = IF sum > 0 THEN maxVal(t[1], t[2]) ELSE minVal(t[1], t[2])
                  /\ \A p \in (0 .. MaxBulk * ByteBits) \ (o .. o + t[2] - 1) :
                        getScalarBit(step.data, p) = getScalarBit(data, p)

\* An increment adds exactly or is refused: no step stores a wrapped sum.
CountersExact(k) ==
    \A d \in MinInt .. MaxInt :
        LET was == snapshotToInt(StringValue(db[k]))
            is == snapshotToInt(StringValue(db[k]'))
        IN  /\ handleIncrBy(k, d) => is.ok /\ is.n = was.n + d
            /\ handleDecrBy(k, d) => is.ok /\ is.n = was.n - d

\* A command that edits a value in place changes what it names and no more:
\* SETBIT one bit, whichever representation it finds, INCRBY and DECRBY the
\* number, up to the ends of int64.
EditsExact ==
    [][\A k \in Names : last' = Did("edit", <<k>>, Keep) => SetBitExact(k) /\ CountersExact(k)]_kvars

\* RENAME carries the groups of a stream along and leaves none behind; the
\* groups of a stream that was replaced do not survive in the new one; DEL
\* leaves no groups for a later stream of that name.
GroupsFollowStream ==
    [][/\ last'.class = "move" =>
            LET a == last'.keys[1]
                b == last'.keys[2]
            IN  IsStream(a) =>
                  /\ sub'[a] = NoSub
                  /\ sub[a].groups \subseteq sub'[b].groups
                  /\ IsStream(b) => sub'[b].groups = sub[a].groups
       /\ last'.class = "copy" =>
            LET a == last'.keys[1]
                b == last'.keys[2]
            IN  IsStream(a) /\ a # b => sub[a].groups \subseteq sub'[b].groups /\ sub'[a] = sub[a]
       /\ \A keys \in [1 .. 2 -> Names] : handleDel(keys) /\ last'.class = "delete" =>
            \A i \in DOMAIN last'.keys : sub'[last'.keys[i]] = NoSub]_kvars

\* Subsequences of s, as sets of positions.
Picks(s, P) == LET q[n \in 0 .. Len(s)] ==
                     IF n = 0 THEN <<>> ELSE IF n \in P THEN Append(q[n - 1], s[n]) ELSE q[n - 1]
               IN  q[Len(s)]
Subsequences(s) == {Picks(s, P) : P \in SUBSET DOMAIN s}

\* LCS answers a common subsequence no other is longer than, and the ranges of
\* IDX cover exactly its positions.
LcsIsLongest ==
    work = {} => \A k1, k2 \in Names :
        LET a == handleGet(k1)
            b == handleGet(k2)
            s == handleLcs(a, b)
            common == Subsequences(a) \cap Subsequences(b)
            m == LcsMatches(a, b)
        IN  /\ s \in common /\ \A t \in common : Len(t) <= Len(s)
            /\ MapThenSumSet(LAMBDA r : r.length, m) = Len(s)
            /\ \A r \in m : SubSeq(a, r.start1 + 1, r.end1 + 1) = SubSeq(b, r.start2 + 1, r.end2 + 1)

\* All that looks at a key agrees, whatever sequence of writes has left it:
\* existence, type and deadline, the parts of a string, the bits of a bitmap
\* read one by one, counted, searched or as bytes, and LCS with its IDX.
StringReadersAgree == KeyReadersAgree /\ BitReadersAgree /\ LcsIsLongest
=============================================================================
