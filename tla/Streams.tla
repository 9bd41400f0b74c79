------------------------------ MODULE Streams -------------------------------
(***************************************************************************)
(* One stream key: its entries, consumer groups and idempotent producers   *)
(* (redis/stream), and the commands that delete the key (redis/str).       *)
(*                                                                         *)
(* Most commands run under the lock of the key and are one step.  The      *)
(* dispatcher locks the first key of a command: for XGROUP that is the     *)
(* name of the subcommand, and XREADGROUP takes no lock at all.  These two *)
(* read in one step and flush what they emitted in a later one.            *)
(*                                                                         *)
(* Commands that fail, and the ones that change nothing of this state      *)
(* (XGROUP CREATECONSUMER, XREADGROUP with an ID, the readers), are no     *)
(* steps.  Idle time and the clock are free: every command may find them   *)
(* large enough or too small.                                              *)
(***************************************************************************)
EXTENDS StreamLog, TLC
LOCAL INSTANCE SequencesExt
LOCAL INSTANCE FiniteSetsExt

CONSTANTS
    Clients, Groups, Consumers,
    ShortNames,         \* consumers whose name is shorter than 4 bytes
    Producers, IIDs,
    AddTrims, Trims,    \* trim options of XADD and of XTRIM
    Durations, Maxsizes,  \* values XCFGSET is given
    MaxGen,             \* bound on the configuration changes of a stream
    Workloads,          \* what the clients of a behaviour use
    None

ASSUME StreamsAssumption ==
    /\ ShortNames \subseteq Consumers /\ MaxGen \in Nat
    /\ AddTrims \subseteq TrimOptions /\ Trims \subseteq TrimOptions

RefModes == {"KEEPREF", "DELREF", "ACKED"}
DefaultConfig == [gen |-> 0, duration |-> 100, explicit |-> FALSE, maxsize |-> 100]

VARIABLES
    work,        \* the workload, chosen at the start
    exists, entries,   \* the stream key
    maxDeleted,  \* the largest tombstone of the stream key
    cursor,      \* last delivered ID of a group; None: there is no group
    registry,    \* names in the group registry
    pel,         \* pel[g][id]: the consumer id is pending for, or None
    fx,          \* what the XGROUP or XREADGROUP of a client will flush
    idmp,        \* idmp[p][iid]: record of a producer's iid, or None
    cfg,         \* IDMP configuration
    top, reused, \* history: the highest ID added to this stream, entries added with an ID not above it
    done,        \* history: IDs a group needs no more
    stale,       \* history: readers whose group was destroyed since they read
    newest       \* history: the last iid and ID recorded for a producer

stream == <<exists, entries, maxDeleted>>
groups == <<cursor, registry, pel>>
dedup == <<idmp, cfg, newest>>
added == <<top, reused>>
vars == <<work, stream, groups, fx, dedup, added, done, stale>>

Uses(c) == c \in work.cmds
IDs == ToSet(entries)
UpTo(id) == {i \in StreamID : ~ Before(id, i)}
GroupExists(g) == cursor[g] # None
Pending(g) == {id \in StreamID : pel[g][id] # None}

Init ==
    /\ work \in Workloads
    /\ exists = FALSE /\ entries = <<>> /\ maxDeleted = MinStreamID
    /\ cursor = [g \in Groups |-> None] /\ registry = {}
    /\ pel = [g \in Groups |-> [id \in StreamID |-> None]]
    /\ fx = [c \in Clients |-> None]
    /\ idmp = [p \in Producers |-> [i \in IIDs |-> None]] /\ cfg = DefaultConfig
    /\ newest = [p \in Producers |-> None]
    /\ top = MinStreamID /\ reused = {}
    /\ done = [g \in Groups |-> {}] /\ stale = {}

-----------------------------------------------------------------------------
(* The log *)

\* Faulty form: tombstones are forgotten.
TailID == IF entries = <<>> THEN MinStreamID ELSE Last(entries)

\* streamMetadata
LastID == Later(maxDeleted, IF entries = <<>> THEN MinStreamID ELSE Last(entries))

Without(ids) == SelectSeq(entries, LAMBDA id : id \notin ids)

\* Faulty form: the entry is protected only while it is pending.
CanTrimNotPending(mode) ==
    IF mode = "ACKED" THEN {id \in StreamID : \E g \in registry : id \in Pending(g)} ELSE {}

\* canTrim of XADD and XDELEX: the IDs an ACKED removal must keep.
CanTrimKeeps(mode) ==
    IF mode = "ACKED"
    THEN {id \in StreamID : \E g \in registry :
            Before(IF GroupExists(g) THEN cursor[g] ELSE MinStreamID, id)
              \/ id \in Pending(g)}
    ELSE {}

\* The same for XTRIM: populateStreamGroups drops the pending entries whose
\* encoding is shorter than 24 bytes, 20 of which are not the consumer's name.
PopulatedKeeps(mode) ==
    IF mode = "ACKED"
    THEN {id \in StreamID : \E g \in registry :
            Before(IF GroupExists(g) THEN cursor[g] ELSE MinStreamID, id)
              \/ pel[g][id] \in Consumers \ ShortNames}
    ELSE {}

\* DELREF takes what it removes off the PEL of every registered group.
ReleaseRefs(mode, ids) ==
    pel' = [g \in Groups |-> [id \in StreamID |->
              IF mode = "DELREF" /\ g \in registry /\ id \in ids THEN None ELSE pel[g][id]]]

Lookup(p, i) ==
    LET r == idmp[p][i]
    IN  r # None /\ r.gen = cfg.gen /\ ~ (cfg.explicit /\ r.old)

\* Faulty form: the record just made may be evicted.
VictimsOfAll(p, i, id) ==
    LET of(j) == IF j = i THEN id ELSE idmp[p][j].id
        current == {i} \cup {j \in IIDs : idmp[p][j] # None /\ idmp[p][j].gen = cfg.gen}
        rank(j) == Cardinality({k \in current : Before(of(k), of(j))})
    IN  {{j \in current : rank(j) < Cardinality(current) - cfg.maxsize}}

\* The records that make room for iid i of producer p: the other ones of this
\* generation, lowest entry first.  Records of one entry are in no fixed order.
Victims(p, i, id) ==
    LET current == {j \in IIDs \ {i} : idmp[p][j] # None /\ idmp[p][j].gen = cfg.gen}
        n == Max({0, Cardinality(current) - cfg.maxsize + 1})
    IN  {v \in SUBSET current : Cardinality(v) = n /\
           \A j \in v, k \in current \ v : ~ Before(idmp[p][k].id, idmp[p][j].id)}

\* emitProducerSeqWithConfig: the producer is registered with its first record,
\* so that DEL finds every producer that has one.
Record(p, i, id) ==
    /\ \E v \in Victims(p, i, id) :
         idmp' = [idmp EXCEPT ![p] = [j \in IIDs |->
                    CASE j \in v -> None
                      [] j = i /\ j \notin v -> [id |-> id, gen |-> cfg.gen, old |-> FALSE]
                      [] OTHER -> idmp[p][j]]]
    /\ newest' = [newest EXCEPT ![p] = <<i, id>>]
    /\ UNCHANGED cfg

\* The IDs an XADD may ask for: "*", "ms-*" and explicit ones.
RequestedIDs ==
    {generateStreamID(LastID, now) : now \in 0 .. MaxMs}
      \cup {generateStreamIDWithMs(LastID, ms) : ms \in 0 .. MaxMs} \cup StreamID

\* handleXAdd.  An iid that is recorded already adds nothing; NOMKSTREAM only
\* restricts it to streams that exist.
XAdd(id, iid, trim, mode) ==
    /\ Uses("XADD")
    /\ id # MinStreamID /\ Before(LastID, id) /\ id \in RequestedIDs
    /\ iid # None => ~ (exists /\ Lookup(iid[1], iid[2]))
    /\ LET all == Append(entries, id)
           out == IF trim = None THEN {} ELSE trimEntries(all, trim, CanTrimKeeps(mode))
       IN  /\ entries' = SelectSeq(all, LAMBDA i : i \notin out)
           /\ ReleaseRefs(mode, out)
    /\ IF iid = None THEN UNCHANGED dedup ELSE Record(iid[1], iid[2], id)
    /\ exists' = TRUE
    /\ top' = Later(top, id)
    /\ reused' = IF Before(top, id) THEN reused ELSE reused \cup {id}
    /\ UNCHANGED <<work, maxDeleted, cursor, registry, fx, done, stale>>

\* handleXTrim
XTrim(trim, mode) ==
    /\ Uses("XTRIM") /\ exists
    /\ LET out == Trim(entries, trim, PopulatedKeeps(mode))
       IN  out # {} /\ entries' = Without(out) /\ ReleaseRefs(mode, out)
    /\ UNCHANGED <<work, exists, maxDeleted, cursor, registry, fx, dedup, added, done, stale>>

\* handleXDel: the second remove of an ID leaves a tombstone.
XDel(ids) ==
    /\ Uses("XDEL") /\ exists
    /\ LET out == ids \cap IDs
       IN  /\ out # {} /\ entries' = Without(out)
           /\ maxDeleted' = FoldSet(Later, maxDeleted, out)
    /\ UNCHANGED <<work, exists, groups, fx, dedup, added, done, stale>>

\* handleXDelEx: no tombstone.
XDelEx(ids, mode) ==
    /\ Uses("XDELEX") /\ exists
    /\ LET out == (ids \cap IDs) \ CanTrimKeeps(mode)
       IN  out # {} /\ entries' = Without(out) /\ ReleaseRefs(mode, out)
    /\ UNCHANGED <<work, exists, maxDeleted, cursor, registry, fx, dedup, added, done, stale>>

\* handleXSetId: both IDs are recorded by inserting and removing a sentinel.
XSetId(last, deleted) ==
    /\ Uses("XSETID") /\ exists
    /\ ~ Before(last, maxDeleted)
    /\ deleted # None => ~ Before(last, deleted)
    /\ entries # <<>> => ~ Before(last, Last(entries))
    /\ LET sentinels ==
             {i \in {last} : Before(LastID, i)}
               \cup {i \in {deleted} \ {None} : Before(maxDeleted, i)}
       IN  entries' = Without(sentinels) /\ maxDeleted' = FoldSet(Later, maxDeleted, sentinels)
    /\ UNCHANGED <<work, exists, groups, fx, dedup, added, done, stale>>

\* handleXIdmpRecord
XIdmpRecord(p, i, id) ==
    /\ Uses("XIDMPRECORD") /\ exists /\ id \in IDs /\ ~ Lookup(p, i)
    /\ Record(p, i, id)
    /\ UNCHANGED <<work, stream, groups, fx, added, done, stale>>

\* handleXCfgSet: a new value invalidates the records by starting a generation.
XCfgSet(duration, maxsize) ==
    LET changed == \/ duration \notin {None, cfg.duration}
                   \/ maxsize \notin {None, cfg.maxsize}
    IN  /\ Uses("XCFGSET") /\ exists /\ (duration # None \/ maxsize # None)
        /\ changed => cfg.gen < MaxGen
        /\ cfg' = [gen |-> IF changed THEN cfg.gen + 1 ELSE cfg.gen,
                   duration |-> IF duration = None THEN cfg.duration ELSE duration,
                   explicit |-> cfg.explicit \/ duration # None,
                   maxsize |-> IF maxsize = None THEN cfg.maxsize ELSE maxsize]
        /\ newest' = IF changed THEN [p \in Producers |-> None] ELSE newest
        /\ UNCHANGED <<work, stream, groups, fx, idmp, added, done, stale>>

\* The records that exist grow older than the duration.
TimePasses ==
    /\ Uses("XCFGSET")
    /\ idmp' = [p \in Producers |-> [i \in IIDs |->
                  IF idmp[p][i] = None THEN None ELSE [idmp[p][i] EXCEPT !.old = TRUE]]]
    /\ UNCHANGED <<work, stream, groups, fx, cfg, newest, added, done, stale>>

-----------------------------------------------------------------------------
(* Consumer groups.  XGROUP and XREADGROUP leave a batch in fx. *)

Batch(op, g) ==
    [op |-> op, g |-> g, cursor |-> None, mkStream |-> FALSE,
     claim |-> {}, by |-> None, release |-> {}, noAck |-> {}]

Emit(c, batch) ==
    /\ fx[c] = None /\ Cardinality({d \in Clients : fx[d] # None}) < work.inFlight
    /\ fx' = [fx EXCEPT ![c] = batch]
    /\ UNCHANGED <<work, stream, groups, dedup, added, done, stale>>

\* handleXGroupCreate, with MKSTREAM when the key does not exist.
XGroupCreate(c, g, id) ==
    /\ Uses("XGROUP CREATE") /\ ~ GroupExists(g)
    /\ Emit(c, [Batch("create", g) EXCEPT !.cursor = id, !.mkStream = ~ exists])

\* handleXGroupDestroy
XGroupDestroy(c, g) ==
    /\ Uses("XGROUP DESTROY") /\ exists /\ GroupExists(g)
    /\ Emit(c, Batch("destroy", g))

\* handleXGroupSetID
XGroupSetID(c, g, id) ==
    /\ Uses("XGROUP SETID") /\ exists /\ GroupExists(g)
    /\ Emit(c, [Batch("setid", g) EXCEPT !.cursor = id])

\* handleXGroupDelConsumer
XGroupDelConsumer(c, g, k) ==
    /\ Uses("XGROUP DELCONSUMER") /\ exists /\ GroupExists(g)
    /\ Emit(c, [Batch("delconsumer", g) EXCEPT !.release = {id \in StreamID : pel[g][id] = k}])

\* doXReadGroup and doXReadGroupClaim with ">".  Without CLAIM "idle" is empty;
\* with it, it holds the pending entries idle for long enough, and a missing
\* COUNT, 0, is 100.  Claimed entries are pending even with NOACK.
XReadGroup(c, g, k, count, noAck, idle) ==
    /\ Uses("XREADGROUP") /\ exists /\ GroupExists(g) /\ idle \subseteq Pending(g)
    /\ LET quota == IF count = 0 THEN 100 ELSE count
           claimed == AtMost(SelectSeq(entries, LAMBDA id : id \in idle), quota)
           new == AtMost(rangeEntries(entries, cursor[g], 0), quota - Len(claimed))
       IN  /\ claimed \o new # <<>>
           /\ Emit(c, [Batch("read", g) EXCEPT
                         !.cursor = IF new = <<>> THEN None ELSE Last(new),
                         !.claim = ToSet(IF noAck THEN claimed ELSE claimed \o new),
                         !.noAck = IF noAck THEN ToSet(new) ELSE {},
                         !.by = k])

\* The readers of group g that have not flushed yet.
Readers(gs) == {c \in Clients : fx[c] # None /\ fx[c].op = "read" /\ fx[c].g \in gs}

\* Faulty form: a reader flushes its cursor and not its pending entries.
FlushPELNot(b) == pel[b.g]

\* The PEL of the batch's group after the flush.
FlushPEL(b) ==
    [id \in StreamID |->
       CASE b.op = "destroy" \/ id \in b.release -> None
         [] id \in b.claim -> b.by
         [] OTHER -> pel[b.g][id]]

\* The effects of a batch reach the engine; the last writer of an element wins.
Flush(c) ==
    LET b == fx[c]
        lost == IF b.op \in {"create", "setid"} \/ (c \in stale /\ b.cursor # None)
                THEN UpTo(b.cursor) ELSE {}
        flushed == FlushPEL(b)
        before == IF b.op = "create" /\ ~ GroupExists(b.g) THEN {} ELSE done[b.g]
    IN  /\ b # None
        /\ fx' = [fx EXCEPT ![c] = None]
        /\ exists' = (exists \/ b.mkStream)
        /\ cursor' = [cursor EXCEPT ![b.g] = CASE b.op = "destroy" -> None
                                               [] b.cursor # None -> b.cursor
                                               [] OTHER -> @]
        /\ registry' = CASE b.op = "create" -> registry \cup {b.g}
                         [] b.op = "destroy" -> registry \ {b.g}
                         [] OTHER -> registry
        /\ pel' = [pel EXCEPT ![b.g] = flushed]
        /\ done' = [done EXCEPT ![b.g] =
                      {id \in before \cup lost \cup b.release \cup b.noAck :
                         flushed[id] = None}]
        /\ stale' = (stale \cup (IF b.op \in {"create", "destroy"} THEN Readers({b.g}) ELSE {}))
                      \ {c}
        /\ UNCHANGED <<work, entries, maxDeleted, dedup, added>>

\* handleXAck
XAck(g, ids) ==
    /\ Uses("XACK") /\ exists /\ GroupExists(g)
    /\ ids # {} /\ ids \subseteq Pending(g)
    /\ pel' = [pel EXCEPT ![g] = [id \in StreamID |-> IF id \in ids THEN None ELSE @[id]]]
    /\ done' = [done EXCEPT ![g] = @ \cup ids]
    /\ UNCHANGED <<work, stream, cursor, registry, fx, dedup, added, stale>>

\* handleXAckDel: an ACKED deletion looks at the PELs of the other groups only.
XAckDel(g, ids, mode) ==
    LET others == registry \ {g}
        out == {id \in ids : mode = "ACKED" => \A h \in others : id \notin Pending(h)}
    IN  /\ Uses("XACKDEL") /\ exists /\ GroupExists(g)
        /\ ids # {} /\ ids \subseteq Pending(g)
        /\ pel' = [h \in Groups |-> [id \in StreamID |->
                     IF id \in ids /\ (h = g \/ (mode = "DELREF" /\ h \in others))
                     THEN None ELSE pel[h][id]]]
        /\ entries' = Without(out)
        /\ done' = [h \in Groups |-> done[h] \cup {id \in Pending(h) : pel'[h][id] = None}]
        /\ UNCHANGED <<work, exists, maxDeleted, cursor, registry, fx, dedup, added, stale>>

\* handleXClaim: ownership moves whether or not the entry still exists.
XClaim(g, k, ids, force) ==
    /\ Uses("XCLAIM") /\ exists /\ GroupExists(g)
    /\ ids # {} /\ (force \/ ids \subseteq Pending(g))
    /\ pel' = [pel EXCEPT ![g] = [id \in StreamID |-> IF id \in ids THEN k ELSE @[id]]]
    /\ done' = [done EXCEPT ![g] = @ \ ids]
    /\ UNCHANGED <<work, stream, cursor, registry, fx, dedup, added, stale>>

\* handleXAutoClaim: examines count pending entries from start on; the idle ones
\* are claimed, or released when the entry is gone.
XAutoClaim(g, k, start, count, idle) ==
    /\ Uses("XAUTOCLAIM") /\ exists /\ GroupExists(g)
    /\ LET ahead == SetToSortSeq({id \in Pending(g) : ~ Before(id, start)}, Before)
           found == idle \cap ToSet(AtMost(ahead, count))
       IN  /\ found # {}
           /\ pel' = [pel EXCEPT ![g] = [id \in StreamID |->
                        CASE id \in found \cap IDs -> k
                          [] id \in found \ IDs -> None
                          [] OTHER -> @[id]]]
           /\ done' = [done EXCEPT ![g] = @ \cup (found \ IDs)]
    /\ UNCHANGED <<work, stream, cursor, registry, fx, dedup, added, stale>>

-----------------------------------------------------------------------------
(* Deleting the key *)

ForgetStream ==
    /\ exists' = FALSE /\ entries' = <<>> /\ maxDeleted' = MinStreamID
    /\ top' = MinStreamID /\ reused' = {}
    /\ stale' = stale \cup Readers(Groups)

\* The groups that outlive the key have had every entry up to their cursor.
OutliveStream(gone) ==
    done' = [g \in Groups |->
               IF g \in gone \/ ~ GroupExists(g) THEN {}
               ELSE {id \in done[g] \cup UpTo(cursor[g]) : id \notin Pending(g)}]

\* handleDel, UNLINK too: cleanupStreamGroups, then the key.
Del ==
    /\ Uses("DEL") /\ exists
    /\ ForgetStream /\ OutliveStream(registry)
    /\ cursor' = [g \in Groups |-> IF g \in registry THEN None ELSE cursor[g]]
    /\ pel' = [g \in Groups |-> IF g \in registry THEN [id \in StreamID |-> None] ELSE pel[g]]
    /\ registry' = {}
    /\ idmp' = [p \in Producers |-> [i \in IIDs |-> None]] /\ cfg' = DefaultConfig
    /\ newest' = [p \in Producers |-> None]
    /\ UNCHANGED <<work, fx>>

\* handleDelEx without a condition: the key alone.
DelEx ==
    /\ Uses("DELEX") /\ exists
    /\ ForgetStream /\ OutliveStream({})
    /\ UNCHANGED <<work, groups, fx, dedup>>

-----------------------------------------------------------------------------
Log ==
    \/ \E id \in work.ids, iid \in {None} \cup (Producers \X work.iids) : XAdd(id, iid, None, "KEEPREF")
    \/ \E id \in work.ids, trim \in work.trims, mode \in work.modes : XAdd(id, None, trim, mode)
    \/ \E trim \in Trims, mode \in work.modes : XTrim(trim, mode)
    \/ \E ids \in SUBSET IDs : XDel(ids)
    \/ \E ids \in SUBSET IDs, mode \in work.modes : XDelEx(ids, mode)
    \/ \E last \in work.ids, deleted \in work.ids \cup {None} : XSetId(last, deleted)
    \/ \E p \in Producers, i \in IIDs, id \in IDs : XIdmpRecord(p, i, id)
    \/ \E d \in Durations \cup {None}, m \in Maxsizes \cup {None} : XCfgSet(d, m)
    \/ TimePasses

\* The groups are created and moved with the IDs 0 and $.
Consume ==
    \/ \E c \in Clients, g \in work.groups :
         \/ \E id \in {MinStreamID, LastID} : XGroupCreate(c, g, id)
         \/ XGroupDestroy(c, g)
         \/ \E id \in {MinStreamID, LastID} : XGroupSetID(c, g, id)
         \/ \E k \in work.consumers : XGroupDelConsumer(c, g, k)
         \/ \E k \in work.consumers, count \in 0 .. 1, noAck \in BOOLEAN,
               idle \in SUBSET Pending(g) : XReadGroup(c, g, k, count, noAck, idle)
    \/ \E c \in Clients : Flush(c)
    \/ \E g \in work.groups :
         \/ \E ids \in SUBSET Pending(g) : XAck(g, ids)
         \/ \E ids \in SUBSET Pending(g), mode \in work.modes : XAckDel(g, ids, mode)
         \/ \E k \in work.consumers, id \in work.ids, force \in BOOLEAN : XClaim(g, k, {id}, force)
         \/ \E k \in work.consumers, start \in work.ids, count \in 1 .. 2,
               idle \in SUBSET Pending(g) : XAutoClaim(g, k, start, count, idle)

Next == Log \/ Consume \/ Del \/ DelEx

Spec == Init /\ [][Next]_vars

-----------------------------------------------------------------------------
(* Properties *)

\* The entries are in the order of their IDs, without repetition.
EntriesAscend ==
    \A i, j \in 1 .. Len(entries) : i < j => Before(entries[i], entries[j])

\* XADD compares an ID with LastID only and appends the entry at the tail; still
\* the entries stay in the order of their IDs, and an ID that was given out
\* before is given out again only if its entry was removed without a tombstone:
\* it is above every ID that XDEL and XSETID recorded.
NewIDsAscend == [][EntriesAscend' /\ \A id \in IDs' \ IDs : Before(maxDeleted, id)]_vars

\* An entry a group has moved past is pending for some consumer, or the group
\* needs it no more: it was acknowledged, delivered with NOACK, dropped with its
\* consumer, or skipped by the ID of CREATE or SETID.  This holds whatever the
\* order in which concurrent XREADGROUP and XGROUP flush.  Entries whose ID was
\* given out twice are excepted.
NoLostEntry ==
    \A g \in Groups : GroupExists(g) =>
      \A id \in IDs \ reused :
        ~ Before(cursor[g], id) => id \in Pending(g) \cup done[g]

\* XADD and XDELEX with ACKED keep an entry while a registered group needs it.
AckedProtects ==
    \A g \in registry, id \in IDs \ reused :
      id \notin done[g] => id \in CanTrimKeeps("ACKED")

\* A producer never has more current records than IDMP-MAXSIZE.
TrackedWithinMaxsize(p) ==
    Cardinality({i \in IIDs : idmp[p][i] # None /\ idmp[p][i].gen = cfg.gen}) <= cfg.maxsize

\* An XADD that is retried with the last iid of its producer finds the record of
\* the first try, with its ID, unless it expired or the configuration changed,
\* although the producer's older records are evicted to keep within the limit.
RetryRecognised ==
    \A p \in Producers :
      /\ TrackedWithinMaxsize(p)
      /\ newest[p] # None =>
           LET r == idmp[p][newest[p][1]]
           IN  r # None /\ r.id = newest[p][2] /\ r.gen = cfg.gen

\* MAXLEN removes the oldest removable entries, never leaves fewer than asked
\* for, and leaves exactly as many when it is exact, unlimited and free to.
TrimExact(trim) ==
    LET out == Trim(entries, trim, {})
    IN  /\ Len(entries) >= trim.maxLen => Len(entries) - Cardinality(out) >= trim.maxLen
        /\ \A a \in IDs \ out, b \in out : Before(b, a)
        /\ (~ trim.approx /\ trim.limit = 0) =>
             Len(entries) - Cardinality(out) <= trim.maxLen

\* XADD and XTRIM trim alike, and exactly: trimEntries and StreamValue.Trim remove
\* the same entries when one strategy is given, whichever entries are kept, and
\* MAXLEN removes the oldest ones down to the length asked for.
TrimsAgree ==
    /\ \A trim \in AddTrims \cup Trims, kept \in SUBSET IDs :
         (trim.maxLen < 0 \/ trim.minId = MinStreamID) =>
           trimEntries(entries, trim, kept) = Trim(entries, trim, kept)
    /\ \A trim \in Trims : trim.maxLen >= 0 => TrimExact(trim)
=============================================================================
