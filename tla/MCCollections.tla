--------------------------- MODULE MCCollections ----------------------------
(***************************************************************************)
(* Hashes, sets, lists and sorted sets on two keys, with the commands on    *)
(* whole keys.                                                             *)
(***************************************************************************)
EXTENDS Hashes, Sets, Lists, SortedSets

MCNames == {"k1", "k2"}
MCTexts == {<<Digit(7)>>, <<0>>}
MCDeltas == {-1, 3}
MCScores == {-MaxFloat, 1, Inf, -Inf}
MCWeights == {0, 1}

Fresh(keys) == [k \in MCNames |-> IF k \in DOMAIN keys THEN keys[k] ELSE Missing]
Dies(v, t) == [v EXCEPT !.exp = t]
Str == [Missing EXCEPT !.kind = "scalar", !.tag = "string", !.scalar = raw(<<3>>)]
Lst(s) == [Missing EXCEPT !.kind = "ordered", !.tag = "list", !.order = s]
Hsh(e, l) == [Missing EXCEPT !.kind = "keyed", !.tag = "hash", !.elems = e, !.left = l]
St(S) == [Missing EXCEPT !.kind = "keyed", !.tag = "set", !.elems = [m \in S |-> raw(<<m>>)]]
ZS(f) == [Missing EXCEPT !.kind = "keyed", !.tag = "zset", !.elems = [m \in DOMAIN f |-> float(f[m])]]
Work(cmds, dbs) == [cmds |-> cmds, dbs |-> dbs]

Counter == Hsh((1 :> raw(<<Minus, Digit(8)>>)) @@ (2 :> raw(<<0>>)), 1 :> 2)
Pair == ZS(1 :> 1 @@ 2 :> 1)

Workloads == <<
    Work({"HSET", "HMSET", "HSETNX", "HDEL", "HGETDEL", "TIME"},
         {Fresh("k1" :> v) : v \in {Missing, Str, Dies(Counter, 1)}}),
    Work({"HINCRBY", "HINCRBYFLOAT", "HDEL", "TIME"}, {Fresh("k1" :> Counter @@ "k2" :> Str)}),
    Work({"HPEXPIRE", "HPERSIST", "HEXPIRE", "HEXPIREAT", "HPEXPIREAT", "TIME"},
         {Fresh("k1" :> Counter), Fresh("k2" :> Dies(Counter, 2))}),
    Work({"HSETEX", "HGETEX", "TIME"}, {Fresh("k1" :> Counter @@ "k2" :> Str)}),
    Work({"HGETEX", "RENAME", "COPY", "TIME"}, {Fresh("k1" :> Counter)}),
    Work({"SADD", "SREM", "SPOP", "SMOVE", "RENAME", "TIME"},
         {Fresh("k1" :> v) : v \in {Missing, Str, Dies(St({1, 2}), 1)}}),
    Work({"SINTERSTORE", "SUNIONSTORE", "SDIFFSTORE", "SREM"},
         {Fresh("k1" :> v @@ "k2" :> w) : v, w \in {Missing, Str, St({1, 2}), Dies(St({2}), 1)}}),
    Work({"LPUSH", "RPUSH", "LPUSHX", "RPUSHX", "LPOP", "RPOP", "LSET", "TIME"},
         {Fresh("k1" :> v) : v \in {Str, Dies(Lst(<<1, 2>>), 1)}}),
    Work({"LREM", "LTRIM", "LINSERT", "COPY"}, {Fresh("k1" :> Lst(<<1, 2, 1>>))}),
    Work({"LMOVE", "RPOPLPUSH", "BLMOVE", "BRPOPLPUSH", "LMPOP", "BLPOP", "BLMPOP"},
         {Fresh("k1" :> Lst(<<1, 2, 1>>) @@ "k2" :> v) : v \in {Missing, Str, Dies(Lst(<<2>>), 2)}}),
    Work({"ZADD", "ZADDINCR", "ZREM", "TIME"},
         {Fresh("k1" :> v @@ "k2" :> Str) : v \in {Missing, Dies(Pair, 2)}}),
    Work({"ZINCRBY", "ZREMRANGEBYSCORE", "ZREMRANGEBYRANK", "ZREMRANGEBYLEX"}, {Fresh("k1" :> Pair @@ "k2" :> Str)}),
    Work({"ZPOPMIN", "ZPOPMAX", "ZMPOP", "BZPOPMIN", "BZMPOP", "TIME"},
         {Fresh("k1" :> v @@ "k2" :> w) : v \in {Missing, Dies(Pair, 2), ZS(1 :> 1 @@ 2 :> -Inf)},
                                                   w \in {Str, ZS(1 :> Inf @@ 2 :> -1)}}),
    Work({"ZUNIONSTORE", "ZINTERSTORE"},
         {Fresh("k1" :> Pair @@ "k2" :> St({1})),
          Fresh("k1" :> ZS(1 :> Inf @@ 2 :> -1) @@ "k2" :> Dies(ZS(2 :> -Inf), 1))}),
    Work({"ZDIFFSTORE", "ZRANGESTORE", "ZREM"},
         {Fresh("k1" :> v @@ "k2" :> w) : v \in {Pair, ZS(1 :> Inf @@ 2 :> -1)},
                                          w \in {Missing, Str, St({1, 2}), Dies(ZS(2 :> -Inf), 1)}})>>

Init ==
    \E i \in DOMAIN Workloads :
        /\ work = Workloads[i].cmds
        /\ db \in Workloads[i].dbs
        /\ sub = [k \in MCNames |-> NoSub]
        /\ last = Did("init", <<>>, Keep)

Next == HashNext \/ SetNext \/ ListNext \/ ZSetNext \/ KeyNext \/ Tick

Spec == Init /\ [][Next]_kvars

\* The readers of a hash, set, list or sorted set agree with each other, also
\* page by page and at the ends of a range, and LREM, LTRIM and the removals by
\* range of sorted sets take exactly what the range shows.
ReadersAgree == /\ HashReadersAgree /\ SetReadersAgree /\ ListReadersAgree /\ ZReadersAgree
                /\ ListRemovalsExact /\ ZRemovalsMatchRanges

\* A command over several keys or elements does all of what it says: SMOVE and
\* LMOVE lose and double nothing, also from a key to itself, the STORE commands
\* leave exactly the result of their sources as they were, and the counters of
\* fields add exactly or are refused.
WritesExact == SMoveConserves /\ LMoveConserves /\ SetStoresExact /\ ZStoresExact /\ FieldCountersExact

\* The conditions NX, XX, GT, LT, FNX and FXX of HEXPIRE, HSETEX and ZADD hold
\* for every field or pair that is written, and HSETEX writes all or none.
OptionsGuarded == FieldDeadlinesGuarded /\ HSetExAllOrNothing /\ ZAddOptionsGuarded
=============================================================================
