------------------------------- MODULE Keyed --------------------------------
(***************************************************************************)
(* What hashes, sets and sorted sets share: elements under an id, read     *)
(* from a snapshot of the key and written one effect at a time.            *)
(***************************************************************************)
EXTENDS KeyCommands
LOCAL INSTANCE SequencesExt

CONSTANT Members     \* fields and members: numbers, in the order of their names

ASSUME MembersAssumption == Members \subseteq Int

\* getHashSnapshot, getSetSnapshot, getZSetSnapshot: any keyed collection is
\* taken, and a scalar only when it has the tag.
KeyedWrongType(v, tags) ==
    Exists(v) /\ v.kind # "keyed" /\ ~(v.kind = "scalar" /\ v.tag \in tags)

Ids(v) == DOMAIN v.elems
Has(k, m) == m \in Ids(db[k])

\* Ids in the order of their names.
SortedIds(S) == SetToSortSeq(S, <)

\* Argument lists, in which a member may be named twice.
Args == UNION {[1 .. n -> Members] : n \in 1 .. 2}

KeyArgs == UNION {[1 .. n -> Names] : n \in 1 .. 2}

\* What HRANDFIELD, SRANDMEMBER and ZRANDMEMBER may answer: distinct ids for a
\* positive count, repeated ones for a negative count.
RandomPicks(S, count) ==
    LET n == IF count < Cardinality(S) THEN count ELSE Cardinality(S)
    IN  IF count > 0 THEN {s \in [1 .. n -> S] : IsInjective(s)}
        ELSE IF S = {} THEN {<<>>} ELSE [1 .. -count -> S]

\* The effects of a loop over arguments.
ForEach(s, F(_)) == FlattenSeq([i \in DOMAIN s |-> F(s[i])])

\* A write of elements tags a new key and keeps the deadline of the key.
Elems(k, fx, tag) == fx \o When(~Exists(db[k]), TypeTag(k, tag))
EditElems(k, fx, tag) == Run(Elems(k, fx, tag), Did("edit", <<k>>, Keep))
=============================================================================
