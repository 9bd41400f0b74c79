------------------------------ MODULE StreamLog ------------------------------
(***************************************************************************)
(* The pure part of streams: range reads (redis/stream/core.go), and the   *)
(* two implementations of trimming, trimEntries of XADD                    *)
(* (redis/stream/handlers.go) and StreamValue.Trim of XTRIM                *)
(* (redis/shared/streams.go).                                              *)
(***************************************************************************)
EXTENDS StreamIDs, Sequences, FiniteSets
LOCAL INSTANCE SequencesExt
LOCAL INSTANCE FiniteSetsExt

CONSTANT NodeSize   \* GetStreamNodeMaxEntries

ASSUME NodeSizeAssumption == NodeSize \in Nat

-----------------------------------------------------------------------------
(* Reading *)

AtMost(s, n) == SubSeq(s, 1, Min({n, Len(s)}))

\* rangeEntries with an exclusive start and no end, the range every reader asks for.
\* count = 0 stands for no COUNT.
rangeEntries(entries, start, count) ==
    LET later == SelectSeq(entries, LAMBDA id : Before(start, id))
    IN  IF count = 0 THEN later ELSE AtMost(later, count)

-----------------------------------------------------------------------------
(* Trimming.  Each operator returns the set of IDs it removes; "kept" holds  *)
(* the IDs canTrim refuses.  minId = MinStreamID and maxLen = -1 stand for   *)
(* the absent strategy, limit = 0 for no LIMIT or LIMIT 0.                   *)

TrimOptions ==
    [minId: StreamID, maxLen: Int, approx: BOOLEAN,
     limit: Nat, hasExplicitLimit: BOOLEAN]

\* A node size of 0 turns approximate trimming into exact trimming.
InNodes(o) == o.approx /\ NodeSize > 0

RoundUp(n) == ((n + NodeSize - 1) \div NodeSize) * NodeSize
RoundDown(n) == (n \div NodeSize) * NodeSize

\* The effective limit for a stream of n entries.
Limit(n, o) ==
    CASE o.limit # 0 -> o.limit
      [] o.limit = 0 /\ InNodes(o) -> 100 * NodeSize
      [] OTHER -> n

\* The length MAXLEN asks for; an approximate one is rounded up to whole nodes.
EffectiveMaxLen(o) == IF InNodes(o) THEN RoundUp(o.maxLen) ELSE o.maxLen

\* How many of n entries MAXLEN removes after MINID has removed "gone" of them.
ToTrim(n, gone, o) ==
    LET extra == n - gone - EffectiveMaxLen(o)
        quota == Min({extra, Limit(n, o) - gone})
    IN  CASE o.maxLen < 0 \/ extra <= 0 -> 0
          [] InNodes(o) /\ o.hasExplicitLimit -> RoundDown(quota)
          [] OTHER -> quota

\* What MINID removes, the same in both.
TooOld(entries, o, kept) ==
    AtMost(SelectSeq(entries, LAMBDA id : Before(id, o.minId) /\ id \notin kept),
           Limit(Len(entries), o))

\* The trimming step of XADD: MAXLEN skips the entries below minId.
trimEntries(entries, o, kept) ==
    LET old == TooOld(entries, o, kept)
        rest == SelectSeq(entries, LAMBDA id : ~ Before(id, o.minId) /\ id \notin kept)
    IN  ToSet(old) \cup ToSet(AtMost(rest, ToTrim(Len(entries), Len(old), o)))

\* Faulty form: an entry that is kept uses up the quota.
TrimCountsKept(entries, o, kept) ==
    LET old == TooOld(entries, o, kept)
        rest == SubSeq(entries, Len(old) + 1, Len(entries))
    IN  (ToSet(old) \cup ToSet(AtMost(rest, ToTrim(Len(entries), Len(old), o)))) \ kept

\* StreamValue.Trim: MAXLEN skips as many entries as MINID has removed.
Trim(entries, o, kept) ==
    LET old == TooOld(entries, o, kept)
        rest == SelectSeq(SubSeq(entries, Len(old) + 1, Len(entries)),
                          LAMBDA id : id \notin kept)
    IN  ToSet(old) \cup ToSet(AtMost(rest, ToTrim(Len(entries), Len(old), o)))
=============================================================================
