-------------------------------- MODULE Sets --------------------------------
(***************************************************************************)
(* Set commands (redis/set).  The members are the ids of the elements.     *)
(***************************************************************************)
EXTENDS Keyed
LOCAL INSTANCE SequencesExt

getSetSnapshotWrongType(v) == KeyedWrongType(v, {"set"})
SetOpen(k) == ~getSetSnapshotWrongType(db[k])
AllSets(keys) == \A i \in DOMAIN keys : SetOpen(keys[i])

\* Members of a key; none when it is missing.
getSetMembers(k) == Ids(db[k])

emitSetInsert(k, m) == InsertElem(k, m, raw(<<m>>))
emitSetRemove(k, m) == RemoveElem(k, m)

-----------------------------------------------------------------------------
(* Reading *)

handleSCard(k) == Cardinality(getSetMembers(k))
handleSIsMember(k, m) == IF m \in getSetMembers(k) THEN 1 ELSE 0
handleSMIsMember(k, ms) == [i \in DOMAIN ms |-> handleSIsMember(k, ms[i])]
handleSMembers(k) == getSetMembers(k)

handleSRandMember(k, count) == RandomPicks(getSetMembers(k), count)

\* A missing key makes the intersection empty; of the first set, the members
\* that every other set has.
handleSInter(keys) ==
    IF \E i \in DOMAIN keys : ~Exists(db[keys[i]]) THEN {}
    ELSE {m \in getSetMembers(keys[1]) : \A i \in 2 .. Len(keys) : m \in getSetMembers(keys[i])}

\* Counting stops at the limit; 0 is no limit.
handleSInterCard(keys, limit) ==
    LET n == Cardinality(handleSInter(keys))
    IN  IF limit > 0 /\ n > limit THEN limit ELSE n

handleSUnion(keys) == UNION {getSetMembers(keys[i]) : i \in DOMAIN keys}

handleSDiff(keys) ==
    {m \in getSetMembers(keys[1]) : \A i \in 2 .. Len(keys) : m \notin getSetMembers(keys[i])}

-----------------------------------------------------------------------------
(* Writing *)

handleSAdd(k, ms) ==
    /\ Does("SADD") /\ SetOpen(k)
    /\ EditElems(k, ForEach(SelectSeq(ms, LAMBDA m : ~Has(k, m)), LAMBDA m : emitSetInsert(k, m)), "set")

handleSRem(k, ms) ==
    /\ Does("SREM") /\ Exists(db[k]) /\ SetOpen(k)
    /\ EditElems(k, ForEach(SelectSeq(ms, LAMBDA m : Has(k, m)), LAMBDA m : emitSetRemove(k, m)), "set")

\* Any members, count of them or all.
handleSPop(k, count) ==
    /\ Does("SPOP") /\ Exists(db[k]) /\ SetOpen(k)
    /\ \E popped \in SUBSET getSetMembers(k) :
          /\ Cardinality(popped) = IF count < handleSCard(k) THEN count ELSE handleSCard(k)
          /\ EditElems(k, ForEach(SetToSeq(popped), LAMBDA m : emitSetRemove(k, m)), "set")

SMoveEffects(src, dst, m) == emitSetRemove(src, m) \o emitSetInsert(dst, m)

handleSMove(src, dst, m) ==
    /\ Does("SMOVE") /\ SetOpen(src) /\ SetOpen(dst) /\ Has(src, m)
    /\ Run(SMoveEffects(src, dst, m) \o When(~Exists(db[dst]), TypeTag(dst, "set")),
           Did("transfer", <<src, dst>>, Keep))

\* The destination is deleted, whatever its type, and filled.
writeStoreResult(dst, S) ==
    emitDeleteKey(dst) \o ForEach(SetToSeq(S), LAMBDA m : emitSetInsert(dst, m))
    \o When(S # {}, TypeTag(dst, "set"))

StoreSet(dst, keys, S) ==
    AllSets(keys) /\ Run(writeStoreResult(dst, S), Did("store", <<dst>>, Never))

handleSInterStore(dst, keys) == Does("SINTERSTORE") /\ StoreSet(dst, keys, handleSInter(keys))
handleSUnionStore(dst, keys) == Does("SUNIONSTORE") /\ StoreSet(dst, keys, handleSUnion(keys))
handleSDiffStore(dst, keys) == Does("SDIFFSTORE") /\ StoreSet(dst, keys, handleSDiff(keys))

-----------------------------------------------------------------------------
SetNext ==
    \/ \E k \in Names, ms \in Args : handleSAdd(k, ms)
    \/ \E k \in Names, ms \in Args : handleSRem(k, ms)
    \/ \E k \in Names, n \in 0 .. 2 : handleSPop(k, n)
    \/ \E a, b \in Names, m \in Members : handleSMove(a, b, m)
    \/ \E d \in Names, keys \in KeyArgs : handleSInterStore(d, keys)
    \/ \E d \in Names, keys \in KeyArgs : handleSUnionStore(d, keys)
    \/ \E d \in Names, keys \in KeyArgs : handleSDiffStore(d, keys)

-----------------------------------------------------------------------------
(* Properties *)

\* SMOVE loses and doubles no member, also from a key to itself: the member is
\* at the destination, no longer at the source, and no other member moves.
SMoveConserves ==
    "SMOVE" \in work =>
    \A a, b \in Names, m \in Members : SetOpen(a) /\ SetOpen(b) /\ Has(a, m) =>
        LET new == After(SMoveEffects(a, b, m)) IN
        /\ Ids(db[a]) \cup Ids(db[b]) = Ids(new[a]) \cup Ids(new[b])
        /\ m \in Ids(new[b]) /\ (a # b => m \notin Ids(new[a]))
        /\ \A x \in Members \ {m} : \A k \in {a, b} : (x \in Ids(new[k])) = Has(k, x)

\* SINTERSTORE, SUNIONSTORE and SDIFFSTORE leave at the destination exactly the
\* result of the sources as they were, also when the destination is a source;
\* an empty result leaves no key.
SetStoresExact ==
    "SUNIONSTORE" \in work =>
    \A d \in Names, keys \in KeyArgs : AllSets(keys) =>
        LET of(i) == Ids(db[keys[i]])
            all == {of(i) : i \in DOMAIN keys}
            exact(S, T) == LET new == After(writeStoreResult(d, S))[d]
                           IN  Ids(new) = T /\ IF T = {} THEN ~Exists(new) ELSE new.tag = "set"
        IN  /\ exact(handleSInter(keys), {m \in Members : \A S \in all : m \in S})
            /\ exact(handleSUnion(keys), {m \in Members : \E S \in all : m \in S})
            /\ exact(handleSDiff(keys), of(1) \ (IF Len(keys) = 2 THEN of(2) ELSE {}))

\* The readers of a set agree, and SINTERCARD answers the size of SINTER up to
\* its limit, whatever the order of the keys.
SetReadersAgree ==
    \A k \in Names : handleType(k) = "set" =>
        /\ handleSCard(k) = Cardinality(handleSMembers(k)) /\ handleSCard(k) > 0
        /\ \A ms \in Args, i \in 1 .. 2 : i \in DOMAIN ms =>
              (handleSMIsMember(k, ms)[i] = 1) = (ms[i] \in handleSMembers(k))
        /\ \A n \in -1 .. 2 : \A s \in handleSRandMember(k, n) :
              {s[i] : i \in DOMAIN s} \subseteq handleSMembers(k)
        /\ \A keys \in KeyArgs, n \in 0 .. 2 : AllSets(keys) =>
              /\ n > 0 => handleSInterCard(keys, n) <= n
              /\ handleSInterCard(keys, n) = handleSInterCard(Reverse(keys), n)
              /\ handleSInterCard(keys, 0) + Cardinality(handleSDiff(keys)) =
                    IF Len(keys) = 1 THEN 2 * handleSCard(keys[1]) ELSE handleSCard(keys[1])
=============================================================================
