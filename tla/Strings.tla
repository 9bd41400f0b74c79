------------------------------ MODULE Strings -------------------------------
(***************************************************************************)
(* String commands (redis/str/strings.go and helpers.go).  A string is a   *)
(* scalar: raw bytes, an int64 left by INCR or a float left by             *)
(* INCRBYFLOAT; a bitmap is read through its reconstructed bytes.  Bytes   *)
(* are numbers, some of them the codes of digits, signs and the point.  A  *)
(* float is a number of halves.  Commands that only read are operators.    *)
(***************************************************************************)
EXTENDS Bitmaps
LOCAL INSTANCE FiniteSetsExt
LOCAL INSTANCE SequencesExt

CONSTANTS
    Texts,       \* values that SET and its relatives are sent
    Deltas,      \* increments
    MaxFloat,    \* halves above which a float is infinite
    MaxBulk      \* proto-max-bulk-len, and the longest string in the model

ASSUME StringAssumption == MaxBulk \in Nat /\ MaxFloat \in Nat

-----------------------------------------------------------------------------
(* Scalars and their text *)

raw(s) == [t |-> "raw", s |-> s]
int(n) == [t |-> "int", n |-> n]
float(h) == [t |-> "float", h |-> h]

\* Codes: the digits are 1 to 10, a byte 0 is no digit.
Digit(d) == d + 1
Minus == 11
Plus == 12
Point == 13
IsDigits(s) == s # <<>> /\ \A i \in DOMAIN s : s[i] \in Digit(0) .. Digit(9)

\* Numbers of the model have one digit.
Text(n) == <<Digit(n)>>
FormatInt(n) == IF n < 0 THEN <<Minus>> \o Text(-n) ELSE Text(n)
FormatFloat(h) ==
    LET a == IF h < 0 THEN -h ELSE h
    IN  When(h < 0, <<Minus>>) \o Text(a \div 2) \o When(a % 2 = 1, <<Point, Digit(5)>>)

Magnitude(s) ==
    LET value[i \in 0 .. Len(s)] ==
          IF i = 0 THEN 0
          ELSE value[i - 1] * 10 + (CHOOSE d \in 0 .. 9 : Digit(d) = s[i])
    IN  value[Len(s)]

Unsigned(s) == IF s # <<>> /\ s[1] \in {Minus, Plus} THEN Tail(s) ELSE s
Signed(s, n) == IF s[1] = Minus THEN -n ELSE n

\* shared.ParseInt64: a sign, digits, and a value that fits.
ParseInt64(s) ==
    IF ~IsDigits(Unsigned(s)) THEN [ok |-> FALSE, n |-> 0]
    ELSE LET n == Signed(s, Magnitude(Unsigned(s)))
         IN  IF n \in MinInt .. MaxInt THEN [ok |-> TRUE, n |-> n] ELSE [ok |-> FALSE, n |-> 0]

ParseFloat(s) ==
    LET u == Unsigned(s)
        half == Len(u) > 2 /\ SubSeq(u, Len(u) - 1, Len(u)) = <<Point, Digit(5)>>
        whole == IF half THEN SubSeq(u, 1, Len(u) - 2) ELSE u
    IN  IF ~IsDigits(whole) THEN [ok |-> FALSE, h |-> 0]
        ELSE [ok |-> TRUE, h |-> Signed(s, 2 * Magnitude(whole) + (IF half THEN 1 ELSE 0))]

snapshotToRaw(x) ==
    CASE x.t = "raw" -> x.s
      [] x.t = "int" -> FormatInt(x.n)
      [] x.t = "float" -> FormatFloat(x.h)
      [] OTHER -> <<>>

\* A float is no integer, whatever its value.
snapshotToInt(x) ==
    CASE x.t = "int" -> [ok |-> TRUE, n |-> x.n]
      [] x.t = "raw" -> ParseInt64(x.s)
      [] x.t = "nil" -> [ok |-> TRUE, n |-> 0]
      [] OTHER -> [ok |-> FALSE, n |-> 0]

snapshotToFloat(x) ==
    CASE x.t = "float" -> [ok |-> TRUE, h |-> x.h]
      [] x.t = "raw" -> ParseFloat(x.s)
      [] x.t = "int" -> [ok |-> TRUE, h |-> 2 * x.n]
      [] OTHER -> [ok |-> TRUE, h |-> 0]

-----------------------------------------------------------------------------
(* Snapshots *)

PureString(v) == v.kind = "scalar" /\ v.tag \in {"string", "none"}

\* getStringSnapshot: bitmaps have a reconstructor, other types have none.
wrongType(v) == Exists(v) /\ ~PureString(v) /\ v.tag # "bitmap"

StringValue(v) ==
    CASE PureString(v) -> v.scalar
      [] Exists(v) /\ ~PureString(v) /\ v.tag = "bitmap" -> raw(reconstructBitmapBytes(v))
      [] OTHER -> Nil

\* What the handlers see as the snapshot: nil for a missing or wrong type.
HasSnap(v) == Exists(v) /\ ~wrongType(v)

handleGet(k) == snapshotToRaw(StringValue(db[k]))

emitStringSet(k, s) == InsertScalar(k, raw(s))
emitStringTypeTag(k) == TypeTag(k, "string")

\* Faulty form: the deadline is not written again.
LosesTTL(k) == <<>>

\* An INSERT drops the deadline, so read-modify-write commands emit it again.
KeepsTTL(k) == When(db[k].exp # Never, ExpiresAt(k, db[k].exp))

TagIfNew(k) == When(~Exists(db[k]), emitStringTypeTag(k))

\* The shared tail of APPEND, SETRANGE and the increments.
Rewrite(k, x) ==
    Run(InsertScalar(k, x) \o KeepsTTL(k) \o TagIfNew(k), Did("edit", <<k>>, Keep))

-----------------------------------------------------------------------------
(* SET and its relatives *)

Hash(s) == Len(s) % 2      \* xxh3, with collisions

Conditions == {"always", "nx", "xx", "ifeq", "ifne", "ifdeq", "ifdne"}

\* The conditions exclude each other; KEEPTTL and a deadline do not.
SetOptions ==
    [cond: Conditions, cmp: Texts, ttl: Deadlines, keepTTL: BOOLEAN, getOld: BOOLEAN]

\* Whether the checks of the runner let the SET through.
SetConditionHolds(k, o) ==
    LET here == Exists(db[k])
        typed == HasSnap(db[k])
    IN  CASE o.cond = "nx" -> ~here
          [] o.cond = "xx" -> here
          [] o.cond = "ifeq" -> typed /\ handleGet(k) = o.cmp
          [] o.cond = "ifne" -> here => (typed /\ handleGet(k) # o.cmp)
          [] o.cond = "ifdeq" -> typed /\ Hash(handleGet(k)) = Hash(o.cmp)
          [] o.cond = "ifdne" -> here => (typed /\ Hash(handleGet(k)) # Hash(o.cmp))
          [] OTHER -> TRUE

\* The value, the deadline (KEEPTTL wins for a string) and the tag of a key
\* that is new or had another type.
handleSet(k, s, o) ==
    LET v == db[k]
        ttl == IF o.keepTTL /\ HasSnap(v) THEN v.exp ELSE o.ttl
    IN  /\ Does("SET")
        /\ o.getOld => ~wrongType(v)
        /\ SetConditionHolds(k, o)
        /\ Run(emitStringSet(k, s) \o When(ttl # Never, ExpiresAt(k, ttl))
               \o When(~HasSnap(v), emitStringTypeTag(k)),
               Did("write", <<k>>, IF o.keepTTL /\ HasSnap(v) THEN Keep ELSE o.ttl))

handleSetNX(k, s) ==
    /\ Does("SETNX") /\ ~Exists(db[k])
    /\ Run(emitStringSet(k, s) \o emitStringTypeTag(k), Did("create", <<k>>, Never))

\* SETEX and PSETEX do not look at the key.
handleSetEX(k, s, ttl) ==
    /\ Does("SETEX")
    /\ Run(emitStringSet(k, s) \o ExpiresAt(k, ttl) \o emitStringTypeTag(k),
           Did("write", <<k>>, ttl))

handleGetSet(k, s) ==
    /\ Does("GETSET") /\ ~wrongType(db[k])
    /\ Run(emitStringSet(k, s) \o TagIfNew(k), Did("write", <<k>>, Never))

handleGetDel(k) ==
    /\ Does("GETDEL") /\ HasSnap(db[k])
    /\ Run(emitDeleteKey(k), Did("delete", <<k>>, Never))

\* GETEX with a deadline or PERSIST; without an option it only reads.
handleGetEx(k, ttl) ==
    /\ Does("GETEX") /\ HasSnap(db[k])
    /\ Run(ExpiresAt(k, ttl), Did("deadline", <<k>>, ttl))

-----------------------------------------------------------------------------
(* Several keys.  Pairs is a sequence of <<key, value>>; a key may repeat. *)

Pairs == [1 .. 2 -> Names \X Texts]
KeysOf(pairs) == [i \in DOMAIN pairs |-> pairs[i][1]]
WriteAll(pairs, ttlOf(_)) ==
    LET one(p) == emitStringSet(p[1], p[2]) \o emitStringTypeTag(p[1])
                  \o When(ttlOf(p[1]) # Never, ExpiresAt(p[1], ttlOf(p[1])))
    IN  one(pairs[1]) \o one(pairs[2])

\* A wrong type reads as a missing key.
handleMGet(keys) ==
    [i \in DOMAIN keys |-> IF HasSnap(db[keys[i]]) THEN raw(handleGet(keys[i])) ELSE Nil]

handleMSet(pairs) ==
    /\ Does("MSET")
    /\ Run(WriteAll(pairs, LAMBDA k : Never), Did("write", KeysOf(pairs), Never))

\* The check looks at string snapshots, which are nil for other types.
NoneHasSnap(keys) == \A i \in DOMAIN keys : ~HasSnap(db[keys[i]])

handleMSetNX(pairs) ==
    /\ Does("MSETNX") /\ NoneHasSnap(KeysOf(pairs))
    /\ Run(WriteAll(pairs, LAMBDA k : Never), Did("create", KeysOf(pairs), Never))

\* MSETEX: NX or XX, and one of a deadline or KEEPTTL.
MSetEXOptions == {o \in [cond: {"always", "nx", "xx"}, ttl: Deadlines, keepTTL: BOOLEAN] :
                     o.keepTTL => o.ttl = Never}

MSetEXHolds(keys, o) ==
    CASE o.cond = "nx" -> NoneHasSnap(keys)
      [] o.cond = "xx" -> \A i \in DOMAIN keys : HasSnap(db[keys[i]])
      [] OTHER -> TRUE

handleMSetEX(pairs, o) ==
    LET keys == KeysOf(pairs)
        ttlOf(k) == IF o.keepTTL /\ HasSnap(db[k]) THEN db[k].exp ELSE o.ttl
    IN  /\ Does("MSETEX") /\ MSetEXHolds(keys, o)
        /\ Run(WriteAll(pairs, ttlOf),
               Did(IF o.cond = "nx" THEN "create" ELSE "write", keys,
                   IF o.keepTTL THEN Keep ELSE o.ttl))

-----------------------------------------------------------------------------
(* Numbers *)

\* Faulty form: only the sign of the sum is looked at.
IncrOverflowsSign(cur, d) == cur > 0 /\ Wrap(cur + d) < 0

\* newValue := current + delta wraps; the check compares it with current.
IncrOverflows(cur, d) ==
    LET new == Wrap(cur + d)
    IN  (d > 0 /\ new < cur) \/ (d < 0 /\ new > cur)

\* incrBy: INCR, DECR and INCRBY.
incrBy(k, d) ==
    LET cur == snapshotToInt(StringValue(db[k])) IN
    /\ ~wrongType(db[k])
    /\ Exists(db[k]) => cur.ok
    /\ ~IncrOverflows(cur.n, d)
    /\ Rewrite(k, int(Wrap(cur.n + d)))

handleIncrBy(k, d) == Does("INCRBY") /\ incrBy(k, d)

\* The smallest int64 has no negation and is refused.
handleDecrBy(k, d) == Does("DECRBY") /\ d # MinInt /\ incrBy(k, Wrap(-d))

\* A sum that is infinite is refused.
handleIncrByFloat(k, d) ==
    LET cur == snapshotToFloat(StringValue(db[k])) IN
    /\ Does("INCRBYFLOAT") /\ ~wrongType(db[k])
    /\ Exists(db[k]) => cur.ok
    /\ cur.h + d \in -MaxFloat .. MaxFloat
    /\ Rewrite(k, float(cur.h + d))

-----------------------------------------------------------------------------
(* Bytes *)

handleAppend(k, s) ==
    /\ Does("APPEND") /\ ~wrongType(db[k])
    /\ Len(handleGet(k)) + Len(s) <= MaxBulk      \* bound of the model
    /\ Rewrite(k, raw(handleGet(k) \o s))

handleStrLen(k) == Len(handleGet(k))

\* The string grows to offset + len(value), also for an empty value.
handleSetRange(k, offset, s) ==
    LET old == handleGet(k)
        needed == offset + Len(s)
        size == Max({needed, Len(old)})
        byte(i) == CASE i > offset /\ i <= needed -> s[i - offset]
                     [] ~(i > offset /\ i <= needed) /\ i <= Len(old) -> old[i]
                     [] OTHER -> 0
    IN  /\ Does("SETRANGE") /\ needed <= MaxBulk
        /\ ~wrongType(db[k])
        /\ Exists(db[k]) \/ s # <<>>
        /\ Rewrite(k, raw([i \in 1 .. size |-> byte(i)]))

\* GETRANGE and SUBSTR on the bytes s.
handleGetRange(s, start, end) ==
    LET n == Len(s)
        from == Max({0, IF start < 0 THEN n + start ELSE start})
        to == Min({n - 1, Max({0, IF end < 0 THEN n + end ELSE end})})
    IN  IF \/ start < 0 /\ end < 0 /\ start > end
           \/ from > to
        THEN <<>> ELSE SubSeq(s, from + 1, to + 1)

-----------------------------------------------------------------------------
(* LCS *)

\* Lengths of the longest common subsequences of the prefixes.
LcsTable(a, b) ==
    LET dp[i \in 0 .. Len(a), j \in 0 .. Len(b)] ==
          IF i = 0 \/ j = 0 THEN 0
          ELSE IF a[i] = b[j] THEN dp[i - 1, j - 1] + 1
          ELSE Max({dp[i - 1, j], dp[i, j - 1]})
    IN  dp

LcsBack(dp, i, j) == IF dp[i - 1, j] > dp[i, j - 1] THEN <<i - 1, j>> ELSE <<i, j - 1>>

\* The way back through the table: pairs of matching positions, in order.
LcsPairs(a, b) ==
    LET dp == LcsTable(a, b)
        from[i \in 0 .. Len(a), j \in 0 .. Len(b)] ==
          IF i = 0 \/ j = 0 THEN <<>>
          ELSE IF a[i] = b[j] THEN Append(from[i - 1, j - 1], <<i, j>>)
          ELSE LET p == LcsBack(dp, i, j) IN from[p[1], p[2]]
    IN  from[Len(a), Len(b)]

\* Matches of IDX: maximal runs of positions that advance together.
LcsMatches(a, b) ==
    LET pairs == LcsPairs(a, b)
        next(i) == i < Len(pairs) /\ pairs[i + 1] = <<pairs[i][1] + 1, pairs[i][2] + 1>>
        starts == {i \in DOMAIN pairs : i = 1 \/ ~next(i - 1)}
        stop(i) == Min({j \in i .. Len(pairs) : ~next(j)})
    IN  {[start1 |-> pairs[i][1] - 1, end1 |-> pairs[stop(i)][1] - 1,
          start2 |-> pairs[i][2] - 1, end2 |-> pairs[stop(i)][2] - 1,
          length |-> stop(i) - i + 1] : i \in starts}

handleLcs(a, b) == [i \in DOMAIN LcsPairs(a, b) |-> a[LcsPairs(a, b)[i][1]]]
=============================================================================
