------------------------------ MODULE Bitmaps -------------------------------
(***************************************************************************)
(* Bitmaps (redis/bitmap/core.go).  A bitmap is either a scalar string or  *)
(* a keyed collection with one element per written offset, and SETBIT on a *)
(* string lays elements over its bytes, where an element of 1 toggles the  *)
(* bit.  A byte is a number of ByteBits bits, bit 0 the most significant;  *)
(* int64 has IntBits bits.                                                 *)
(***************************************************************************)
EXTENDS Keyspace
LOCAL INSTANCE FiniteSetsExt

CONSTANTS
    ByteBits,    \* 8
    IntBits,     \* 64
    BitOffsets,  \* offsets SETBIT and BITFIELD are sent
    Fields       \* BITFIELD subcommands that are sent

ASSUME BitsAssumption == ByteBits \in Nat \ {0} /\ IntBits \in Nat \ {0, 1}

MaxInt == 2^(IntBits - 1) - 1
MinInt == -(2^(IntBits - 1))

\* What int64 arithmetic makes of n.
Wrap(n) == ((n - MinInt) % 2^IntBits) + MinInt

\* Go's %, which truncates towards zero.
Rem(a, b) ==
    LET abs(x) == IF x < 0 THEN -x ELSE x
    IN  IF a < 0 THEN -(abs(a) % abs(b)) ELSE a % abs(b)

-----------------------------------------------------------------------------
(* Reading *)

Decompress(scalar) == IF scalar.t = "raw" THEN scalar.s ELSE <<>>

BytesFor(o) == o \div ByteBits + 1

getScalarBit(data, o) ==
    IF Len(data) <= o \div ByteBits THEN 0
    ELSE (data[BytesFor(o)] \div 2^(ByteBits - 1 - (o % ByteBits))) % 2

getBitmapSnapshotWrongType(v) == v.kind = "ordered"

Toggled(v, o) == v.kind = "keyed" /\ o \in DOMAIN v.elems /\ v.elems[o] = 1

getBit(v, o) ==
    LET base == getScalarBit(Decompress(v.scalar), o)
    IN  IF Toggled(v, o) THEN 1 - base ELSE base

\* n bytes whose bit o is bit(o).
Bytes(n, bit(_)) ==
    LET on == {o \in 0 .. n * ByteBits - 1 : bit(o) = 1}
        byte(i) == LET value[j \in 0 .. ByteBits] ==
                         IF j = 0 THEN 0
                         ELSE 2 * value[j - 1] + (IF i * ByteBits + j - 1 \in on THEN 1 ELSE 0)
                   IN  value[ByteBits]
    IN  [i \in 1 .. n |-> byte(i - 1)]

\* Every element contributes to the length, only those of 1 to the bits.
reconstructBitmapBytes(v) ==
    IF v.kind # "keyed" THEN Decompress(v.scalar)
    ELSE LET base == Decompress(v.scalar)
             n == Max({Len(base)} \cup {BytesFor(o) : o \in DOMAIN v.elems})
         IN  Bytes(n, LAMBDA o :
                IF Toggled(v, o) THEN 1 - getScalarBit(base, o) ELSE getScalarBit(base, o))

BitSet(data) == {o \in 0 .. Len(data) * ByteBits - 1 : getScalarBit(data, o) = 1}

\* Negative indices count from the end; <<1, 0>> stands for an empty range.
Clamped(start, end, n) ==
    LET from == Max({0, IF start < 0 THEN n + start ELSE start})
        to == Min({n - 1, IF end < 0 THEN n + end ELSE end})
    IN  IF from > to THEN <<1, 0>> ELSE <<from, to>>

\* The bits of a range of bytes, or of bits.
RangeBits(data, start, end, useBitIndex) ==
    LET r == Clamped(start, end, IF useBitIndex THEN Len(data) * ByteBits ELSE Len(data))
    IN  IF useBitIndex THEN r[1] .. r[2]
        ELSE r[1] * ByteBits .. (r[2] + 1) * ByteBits - 1

\* Faulty form: elements are counted although they lie over a scalar.
BitCountElements(v) ==
    IF v.kind = "keyed" THEN Cardinality({o \in DOMAIN v.elems : v.elems[o] = 1})
    ELSE Cardinality(BitSet(reconstructBitmapBytes(v)))

\* BITCOUNT without a range: elements are counted where there is no scalar.
BitCountAll(v) ==
    IF v.kind = "keyed" /\ v.scalar = Nil
    THEN Cardinality({o \in DOMAIN v.elems : v.elems[o] = 1})
    ELSE Cardinality(BitSet(reconstructBitmapBytes(v)))

handleBitCount(v, start, end, useBitIndex) ==
    LET data == reconstructBitmapBytes(v)
    IN  Cardinality({o \in RangeBits(data, start, end, useBitIndex) : getScalarBit(data, o) = 1})

\* Without an end the range goes to the last byte, and a search for 0 that
\* finds none answers the first bit after the string.
handleBitPos(v, bit, start, end, hasEnd, useBitIndex) ==
    LET data == reconstructBitmapBytes(v)
        found == {o \in RangeBits(data, start, IF hasEnd THEN end ELSE -1, useBitIndex) :
                     getScalarBit(data, o) = bit}
        from == IF start < 0 THEN Max({0, Len(data) + start}) ELSE start
    IN  CASE Len(data) = 0 -> IF bit = 0 THEN 0 ELSE -1
          [] Len(data) # 0 /\ found # {} -> Min(found)
          [] Len(data) # 0 /\ found = {} /\ bit = 0 /\ ~hasEnd /\ ~useBitIndex
             /\ from < Len(data) -> Len(data) * ByteBits
          [] OTHER -> -1

-----------------------------------------------------------------------------
(* SETBIT *)

Zeros(n) == [i \in 1 .. n |-> 0]

\* Over a scalar an element says whether the bit differs from it.
emitValue(v, o, bit) ==
    IF v.scalar = Nil THEN bit
    ELSE IF bit # getScalarBit(Decompress(v.scalar), o) THEN 1 ELSE 0

emitSetBit(k, o, x) == InsertElem(k, o, x)

\* A new key is tagged; clearing a bit of a missing key stores zero bytes.
handleSetBit(k, o, bit) ==
    LET v == db[k] IN
    /\ Does("SETBIT") /\ ~getBitmapSnapshotWrongType(v)
    /\ Run(IF ~Exists(v) /\ bit = 0
           THEN InsertScalar(k, [t |-> "raw", s |-> Zeros(BytesFor(o))]) \o TypeTag(k, "bitmap")
           ELSE emitSetBit(k, o, emitValue(v, o, bit)) \o When(~Exists(v), TypeTag(k, "bitmap")),
           Did("edit", <<k>>, Keep))

-----------------------------------------------------------------------------
(* BITFIELD.  A subcommand is [op, signed, bits, o, x, overflow]. *)

\* parseBitfieldType: u64 is refused.
parseBitfieldType == {t \in BOOLEAN \X (1 .. IntBits) : t[1] \/ t[2] < IntBits}

\* What the argument loop makes of GET, SET, INCRBY and the OVERFLOW before them.
SubCommands ==
    {sc \in [op: {"get", "set", "incrby"}, signed: BOOLEAN, bits: 1 .. IntBits, o: Nat,
             x: MinInt .. MaxInt, overflow: {"wrap", "sat", "fail"}] :
        <<sc.signed, sc.bits>> \in parseBitfieldType}

ASSUME FieldsAssumption == Fields \subseteq SubCommands

minVal(signed, bits) == IF signed THEN -(2^(bits - 1)) ELSE 0
maxVal(signed, bits) == IF signed THEN 2^(bits - 1) - 1 ELSE 2^bits - 1

\* The bits are read one by one into an int64 and sign-extended.
getBitfieldInt(data, o, bits, signed) ==
    LET value[i \in 0 .. bits] ==
          IF i = 0 THEN 0 ELSE Wrap(value[i - 1] * 2 + getScalarBit(data, o + i - 1))
    IN  IF signed /\ bits < IntBits /\ value[bits] >= 2^(bits - 1)
        THEN value[bits] - 2^bits ELSE value[bits]

\* The low bits of the value, most significant first.
setBitfieldInt(data, o, bits, x) ==
    Bytes(Len(data), LAMBDA p :
        IF p \in o .. o + bits - 1 THEN ((x % 2^bits) \div 2^(bits - 1 - (p - o))) % 2
        ELSE getScalarBit(data, p))

checkBitfieldOverflow(x, bits, signed) == x < minVal(signed, bits) \/ x > maxVal(signed, bits)

checkAdditionOverflow(a, b) ==
    \/ b > 0 /\ a > MaxInt - b
    \/ b < 0 /\ a < MinInt - b

Saturated(x, lo, hi) == IF x < lo THEN lo ELSE IF x > hi THEN hi ELSE x

\* Faulty form: a negative remainder is not brought back into the range.
WrappedNegative(x, lo, range) == Wrap(Rem(Wrap(x - lo), range) + lo)

\* (x - lo) % range + lo, where range = 1 << bits may itself have wrapped.
Wrapped(x, lo, range) ==
    LET r == Rem(Wrap(x - lo), range)
    IN  Wrap((IF r < 0 THEN Wrap(r + range) ELSE r) + lo)

applyOverflow(x, bits, signed, behavior) ==
    LET lo == minVal(signed, bits)
        hi == maxVal(signed, bits)
    IN  CASE behavior = "wrap" /\ signed /\ bits = IntBits -> x
          [] behavior = "wrap" /\ signed /\ bits < IntBits -> Wrapped(x, lo, Wrap(2^bits))
          [] behavior = "wrap" /\ ~signed -> x % 2^bits
          [] OTHER -> Saturated(x, lo, hi)

Refused(sc, old, new) ==
    /\ sc.overflow = "fail"
    /\ \/ sc.op = "incrby" /\ checkAdditionOverflow(old, sc.x)
       \/ checkBitfieldOverflow(new, sc.bits, sc.signed)

\* One subcommand on data: the data after it and what it answers.
BitFieldStep(data, sc) ==
    LET old == getBitfieldInt(data, sc.o, sc.bits, sc.signed)
        sum == IF sc.op = "set" THEN sc.x ELSE Wrap(old + sc.x)
        new == applyOverflow(sum, sc.bits, sc.signed, sc.overflow)
        room == Max({Len(data), BytesFor(sc.o + sc.bits - 1)})
        grown == Bytes(room, LAMBDA p : getScalarBit(data, p))
    IN  CASE sc.op = "get" -> [data |-> data, out |-> old, modified |-> FALSE]
          [] sc.op # "get" /\ Refused(sc, old, sum) ->
                [data |-> data, out |-> "nil", modified |-> FALSE]
          [] OTHER -> [data |-> setBitfieldInt(grown, sc.o, sc.bits, new),
                       out |-> IF sc.op = "set" THEN old ELSE new, modified |-> TRUE]

\* Elements where the data differ from the scalar; other elements are removed.
emitBitmapBulk(k, v, data) ==
    LET base == Decompress(v.scalar)
        top == Max({Len(base), Len(data)}) * ByteBits - 1
        differ == {o \in 0 .. top : getScalarBit(data, o) # getScalarBit(base, o)}
        stale == DOMAIN v.elems \ differ
        each(S, f(_)) == LET fx[T \in SUBSET S] ==
                               IF T = {} THEN <<>>
                               ELSE LET o == Max(T) IN fx[T \ {o}] \o f(o)
                         IN  fx[S]
    IN  each(stale, LAMBDA o : RemoveElem(k, o)) \o each(differ, LAMBDA o : InsertElem(k, o, 1))

\* Two subcommands of one BITFIELD; the second sees what the first wrote.
handleBitField(k, first, second) ==
    LET v == db[k]
        one == BitFieldStep(reconstructBitmapBytes(v), first)
        two == BitFieldStep(one.data, second)
    IN  /\ Does("BITFIELD") /\ ~getBitmapSnapshotWrongType(v)
        /\ one.modified \/ two.modified
        /\ Run(emitBitmapBulk(k, v, two.data)
               \o When(v.kind # "keyed", TypeTag(k, "bitmap")),
               Did("edit", <<k>>, Keep))

-----------------------------------------------------------------------------
(* BITOP *)

BitOps == {"AND", "OR", "XOR", "NOT", "ONE", "DIFF", "DIFF1", "ANDOR"}

Arity(op, n) ==
    CASE op = "NOT" -> n = 1
      [] op \in {"DIFF", "DIFF1", "ANDOR"} -> n >= 2
      [] OTHER -> n >= 1

\* One bit of the result from the bits of the sources; ONE of one or two
\* sources is computed as XOR.
BitOpBit(op, b) ==
    LET n == Len(b)
        ones == Cardinality({i \in 1 .. n : b[i] = 1})
        union == \E i \in 2 .. n : b[i] = 1
        holds ==
          CASE op = "AND" -> ones = n
            [] op = "OR" -> ones > 0
            [] op = "XOR" -> ones % 2 = 1
            [] op = "NOT" -> ones = 0
            [] op = "ONE" -> IF n <= 2 THEN ones % 2 = 1 ELSE ones = 1
            [] op = "DIFF" -> b[1] = 1 /\ ~union
            [] op = "DIFF1" -> b[1] = 0 /\ union
            [] op = "ANDOR" -> b[1] = 1 /\ union
    IN  IF holds THEN 1 ELSE 0

BitOpResult(op, sources) ==
    LET n == Max({Len(sources[i]) : i \in DOMAIN sources})
    IN  Bytes(n, LAMBDA o : BitOpBit(op, [i \in DOMAIN sources |-> getScalarBit(sources[i], o)]))

\* The result is a scalar tagged as a string.
BitOpStore(dest, data) ==
    InsertScalar(dest, [t |-> "raw", s |-> data])
    \o When(\/ ~Exists(db[dest]) \/ getBitmapSnapshotWrongType(db[dest])
            \/ db[dest].tag \notin {"string", "none"}, TypeTag(dest, "string"))

\* Empty sources leave the destination as it is.
handleBitOp(op, dest, srcs) ==
    LET sources == [i \in DOMAIN srcs |-> reconstructBitmapBytes(db[srcs[i]])] IN
    /\ Does("BITOP") /\ Arity(op, Len(srcs))
    /\ \A i \in DOMAIN srcs : ~getBitmapSnapshotWrongType(db[srcs[i]])
    /\ \E i \in DOMAIN srcs : sources[i] # <<>>
    /\ Run(BitOpStore(dest, BitOpResult(op, sources)), Did("write", <<dest>>, Never))

BitmapNext ==
    \/ \E k \in Names, o \in BitOffsets, b \in 0 .. 1 : handleSetBit(k, o, b)
    \/ \E k \in Names, f, g \in Fields : handleBitField(k, f, g)
    \/ \E op \in BitOps, d \in Names, n \in 1 .. 2 :
          \E srcs \in [1 .. n -> Names] : handleBitOp(op, d, srcs)
=============================================================================
