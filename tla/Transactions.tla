---------------------------- MODULE Transactions -----------------------------
(***************************************************************************)
(* WATCH, MULTI, EXEC and DISCARD, plain commands and forwarded EXECs      *)
(* (redis/handler.go) on top of the effects engine.  The engine is outside *)
(* the repository: a context buffers effects until Flush, BeginTx fixes a  *)
(* snapshot, and Flush of a transaction fails with ErrTxnAborted when a    *)
(* key it read or watched has a newer version.  Keys hold counters; the    *)
(* commands are the ones whose interplay matters: INCR (a commutative      *)
(* effect, no transaction of its own), GET, GETDEL (an implicit            *)
(* transaction, retried on conflict) and "fail", a write that fails after  *)
(* it has emitted an effect.                                               *)
(***************************************************************************)
EXTENDS Integers, Sequences, FiniteSets

CONSTANTS
    Clients, Keys,
    Serialized,  \* keys with a serialization leader; EXEC on them is forwarded
    MaxCmds,     \* MaxCmds[c]: commands client c sends (a bound of the model)
    MaxRetries,  \* maxTxnRetries
    Free

ASSUME BoundsAssumption == MaxCmds \in [Clients -> Nat] /\ MaxRetries \in Nat
ASSUME FreeAssumption == Free \notin Clients

VARIABLES
    ssi,             \* Handler.ssi: MULTI opens the snapshot, commands run at once
    value, ver,      \* the store: value and version of each key
    lock,            \* the per-key lock of plain commands
    acked, taken,    \* history: increments and GETDEL amounts that were replied
    writer,          \* history: which kind of command wrote the key last
    InTransaction, TxnAborted, QueuedCmds,
    watch,           \* Context.Watch: the version of each watched key, or -1
    ctx,             \* the connection's effects context
    ran, replies,    \* commands run since the last reply, and their results
    attempt, pc, sent

txn == <<InTransaction, TxnAborted, QueuedCmds>>
store == <<ssi, value, ver, acked, taken, writer>>
vars == <<store, lock, txn, watch, ctx, ran, replies, attempt, pc, sent>>

TxnCmds == [op: {"incr", "get", "fail"}, key: Keys]
PlainCmds == [op: {"incr", "getdel"}, key: Keys]

Error == -1
Unwatched == [k \in Keys |-> -1]
NoEffects == [k \in Keys |-> 0]
Contexts == [tx : BOOLEAN, snap : [Keys -> Nat], base : [Keys -> Nat],
             deps : SUBSET Keys, add : [Keys -> Nat], del : SUBSET Keys]
EmptyCtx == [tx |-> FALSE, snap |-> NoEffects, base |-> NoEffects,
             deps |-> {}, add |-> NoEffects, del |-> {}]

Init ==
    /\ ssi \in BOOLEAN
    /\ value = NoEffects /\ ver = NoEffects /\ acked = NoEffects /\ taken = NoEffects
    /\ writer = [k \in Keys |-> "none"]
    /\ lock = [k \in Keys |-> Free]
    /\ InTransaction = [c \in Clients |-> FALSE]
    /\ TxnAborted = [c \in Clients |-> FALSE]
    /\ QueuedCmds = [c \in Clients |-> <<>>]
    /\ watch = [c \in Clients |-> Unwatched]
    /\ ctx = [c \in Clients |-> EmptyCtx]
    /\ ran = [c \in Clients |-> <<>>] /\ replies = ran
    /\ attempt = [c \in Clients |-> 0]
    /\ pc = [c \in Clients |-> "idle"] /\ sent = [c \in Clients |-> 0]

-----------------------------------------------------------------------------
(* The engine's context *)

BeginTx(x) ==
    IF x.tx THEN x ELSE [x EXCEPT !.tx = TRUE, !.snap = value, !.base = ver]

\* Faulty form: only the keys that were written are validated.
ConflictOnWrites(x) ==
    x.tx /\ \E k \in x.deps : (x.add[k] > 0 \/ k \in x.del) /\ ver[k] # x.base[k]

\* Flush of a transaction fails when a key it depends on has moved.
Conflict(x) == x.tx /\ \E k \in x.deps : ver[k] # x.base[k]

Written(x) == {k \in Keys : x.add[k] > 0 \/ k \in x.del}

Watched(c) == {k \in Keys : watch[c][k] # -1}

\* Faulty form: the watched keys do not become dependencies of the transaction.
CheckedNow(c, x) == x

\* CheckWatches emits a NOOP on each watched key, which makes Flush validate it.
CheckWatches(c, x) == [x EXCEPT !.deps = @ \cup Watched(c)]

WatchesHold(c) == \A k \in Watched(c) : ver[k] = watch[c][k]

-----------------------------------------------------------------------------
(* Running one command on a context *)

ReadKey(x, k) == (IF k \in x.del THEN 0 ELSE x.snap[k]) + x.add[k]

\* GETDEL of a missing key returns before its BeginTx.
Emitted(x, cmd) ==
    LET y == [x EXCEPT !.deps = @ \cup {cmd.key}] IN
    CASE cmd.op \in {"incr", "fail"} -> [y EXCEPT !.add[cmd.key] = @ + 1]
      [] cmd.op = "getdel" /\ ReadKey(x, cmd.key) > 0 ->
            [y EXCEPT !.tx = TRUE, !.add[cmd.key] = 0, !.del = @ \cup {cmd.key}]
      [] OTHER -> y

\* runDataCommand: a command that replied with an error is rolled back to the
\* savepoint taken before it; what it read stays a dependency.
runDataCommand(x, cmd) ==
    IF cmd.op = "fail" THEN [x EXCEPT !.deps = @ \cup {cmd.key}] ELSE Emitted(x, cmd)

ReplyOf(x, cmd) ==
    CASE cmd.op = "fail" -> Error
      [] cmd.op = "incr" -> ReadKey(x, cmd.key) + 1
      [] OTHER           -> ReadKey(x, cmd.key)

Run(c, x, cmd) ==
    /\ ctx' = [ctx EXCEPT ![c] = runDataCommand(x, cmd)]
    /\ ran' = [ran EXCEPT ![c] = Append(@, cmd)]
    /\ replies' = [replies EXCEPT ![c] = Append(@, ReplyOf(x, cmd))]

\* Acknowledged increments of key k among the commands c ran.
AckedIncrs(c, k) ==
    Cardinality({i \in DOMAIN ran[c] :
                    ran[c][i] = [op |-> "incr", key |-> k] /\ replies[c][i] # Error})

\* The amount a GETDEL replied for key k; a plain command, it is the only one run.
TakenFrom(c, k) ==
    IF ran[c] = <<[op |-> "getdel", key |-> k]>> THEN replies[c][1] ELSE 0

\* The flush is applied, the replies become visible and the context is empty.
Commit(c) ==
    LET x == ctx[c] IN
    /\ UNCHANGED ssi
    /\ value' = [k \in Keys |-> (IF k \in x.del THEN 0 ELSE value[k]) + x.add[k]]
    /\ ver' = [k \in Keys |-> IF k \in Written(x) THEN ver[k] + 1 ELSE ver[k]]
    /\ acked' = [k \in Keys |-> acked[k] + AckedIncrs(c, k)]
    /\ taken' = [k \in Keys |-> taken[k] + TakenFrom(c, k)]
    /\ writer' = [k \in Keys |-> IF k \in Written(x) THEN pc[c] ELSE writer[k]]

Forget(c) ==
    /\ ctx' = [ctx EXCEPT ![c] = EmptyCtx]
    /\ ran' = [ran EXCEPT ![c] = <<>>]
    /\ replies' = [replies EXCEPT ![c] = <<>>]

DropWatches(c) == watch' = [watch EXCEPT ![c] = Unwatched]

ResetTransaction(c) ==
    /\ InTransaction' = [InTransaction EXCEPT ![c] = FALSE]
    /\ TxnAborted' = [TxnAborted EXCEPT ![c] = FALSE]
    /\ QueuedCmds' = [QueuedCmds EXCEPT ![c] = <<>>]

Goto(c, l) == pc' = [pc EXCEPT ![c] = l]

\* A client sends one more command.
Send(c) ==
    /\ pc[c] = "idle" /\ sent[c] < MaxCmds[c]
    /\ sent' = [sent EXCEPT ![c] = @ + 1]

-----------------------------------------------------------------------------
(* Connection commands *)

\* handleWatch, for one key.  The error path forgets every watched key.
handleWatch(c) ==
    /\ Send(c) /\ ~InTransaction[c]
    /\ \/ \E k \in Keys : watch' = [watch EXCEPT ![c][k] = IF @ = -1 THEN ver[k] ELSE @]
       \/ DropWatches(c)
    /\ UNCHANGED <<store, lock, txn, ctx, ran, replies, attempt, pc>>

\* handleUnwatch runs at once even inside MULTI (FlagNoQueue).
handleUnwatch(c) ==
    /\ Send(c)
    /\ DropWatches(c)
    /\ UNCHANGED <<store, lock, txn, ctx, ran, replies, attempt, pc>>

handleMulti(c) ==
    /\ Send(c) /\ ~InTransaction[c]
    /\ InTransaction' = [InTransaction EXCEPT ![c] = TRUE]
    /\ TxnAborted' = [TxnAborted EXCEPT ![c] = FALSE]
    /\ ctx' = IF ssi THEN [ctx EXCEPT ![c] = BeginTx(@)] ELSE ctx
    /\ UNCHANGED <<store, lock, QueuedCmds, watch, ran, replies, attempt, pc>>

\* queueCommand: an unknown, forbidden or ill-formed command dooms the EXEC; a
\* valid one is queued, or in SSI mode run on the snapshot of MULTI.
queueCommand(c) ==
    /\ Send(c) /\ InTransaction[c]
    /\ \/ /\ TxnAborted' = [TxnAborted EXCEPT ![c] = TRUE]
          /\ UNCHANGED <<QueuedCmds, ctx, ran, replies>>
       \/ /\ \E cmd \in TxnCmds :
                IF ssi THEN Run(c, ctx[c], cmd) /\ UNCHANGED QueuedCmds
                       ELSE /\ QueuedCmds' = [QueuedCmds EXCEPT ![c] = Append(@, cmd)]
                            /\ UNCHANGED <<ctx, ran, replies>>
          /\ UNCHANGED TxnAborted
    /\ UNCHANGED <<store, lock, InTransaction, watch, attempt, pc>>

\* Context.Abort and ResetTransaction: effects, queue and watches are gone.
AbortAndReset(c) ==
    Forget(c) /\ ResetTransaction(c) /\ DropWatches(c)

handleDiscard(c) ==
    /\ Send(c) /\ InTransaction[c]
    /\ AbortAndReset(c)
    /\ UNCHANGED <<store, lock, attempt, pc>>

\* Faulty form: EXECABORT resets the connection but not the effects context.
ExecAbortKeepsEffects(c) ==
    /\ Send(c) /\ InTransaction[c]
    /\ ResetTransaction(c) /\ DropWatches(c)
    /\ ran' = [ran EXCEPT ![c] = <<>>] /\ replies' = [replies EXCEPT ![c] = <<>>]
    /\ UNCHANGED <<store, lock, ctx, attempt, pc>>

\* handleExec after an error while queueing, or while a script is BUSY.
ExecAbort(c) ==
    /\ Send(c) /\ InTransaction[c]
    /\ AbortAndReset(c)
    /\ UNCHANGED <<store, lock, attempt, pc>>

\* putConnState: the connection ends and its context is aborted.
Disconnect(c) ==
    /\ Send(c)
    /\ AbortAndReset(c)
    /\ UNCHANGED <<store, lock, attempt, pc>>

-----------------------------------------------------------------------------
(* EXEC *)

Forwarded(c) == ~ssi /\ \E i \in DOMAIN QueuedCmds[c] : QueuedCmds[c][i].key \in Serialized

\* BeginTx and CheckWatches.  A watched key that moved answers a null array.
ExecBegin(c) ==
    /\ Send(c) /\ InTransaction[c] /\ ~TxnAborted[c] /\ ~Forwarded(c)
    /\ IF WatchesHold(c)
       THEN /\ ctx' = [ctx EXCEPT ![c] = CheckWatches(c, BeginTx(@))]
            /\ Goto(c, IF ssi THEN "flush" ELSE "run")
            /\ UNCHANGED <<txn, watch, ran, replies>>
       ELSE AbortAndReset(c) /\ UNCHANGED pc
    /\ UNCHANGED <<store, lock, attempt>>

\* ForwardExec: the leader runs the queue on a connection of its own, with the
\* watched keys of conn.WatchedKeys, which no code fills in.  A queue of one
\* command is executed as a plain command there.
ExecForward(c) ==
    /\ Send(c) /\ InTransaction[c] /\ ~TxnAborted[c] /\ Forwarded(c)
    /\ watch' = [watch EXCEPT ![c] = Unwatched]
    /\ IF Len(QueuedCmds[c]) = 1
       THEN Goto(c, "lock") /\ UNCHANGED ctx
       ELSE Goto(c, "run") /\ ctx' = [ctx EXCEPT ![c] = BeginTx(@)]
    /\ UNCHANGED <<store, lock, txn, ran, replies, attempt>>

\* The queued commands run one after the other; other connections go on.
ExecRun(c) ==
    /\ pc[c] = "run"
    /\ IF QueuedCmds[c] = <<>>
       THEN Goto(c, "flush") /\ UNCHANGED <<ctx, ran, replies, QueuedCmds>>
       ELSE /\ Run(c, ctx[c], Head(QueuedCmds[c]))
            /\ QueuedCmds' = [QueuedCmds EXCEPT ![c] = Tail(@)]
            /\ UNCHANGED pc
    /\ UNCHANGED <<store, lock, InTransaction, TxnAborted, watch, attempt, sent>>

\* ResetTransaction, then Flush: the replies go out, or a null array replaces
\* them.  EXEC is never retried.
ExecFlush(c) ==
    /\ pc[c] = "flush"
    /\ IF Conflict(ctx[c]) THEN UNCHANGED store ELSE Commit(c)
    /\ AbortAndReset(c)
    /\ Goto(c, "idle")
    /\ UNCHANGED <<lock, attempt, sent>>

-----------------------------------------------------------------------------
(* Plain commands, outside MULTI *)

PlainStart(c) ==
    /\ Send(c) /\ ~InTransaction[c]
    /\ \E cmd \in PlainCmds : QueuedCmds' = [QueuedCmds EXCEPT ![c] = <<cmd>>]
    /\ Goto(c, "lock")
    /\ UNCHANGED <<store, lock, InTransaction, TxnAborted, watch, ctx, ran,
                   replies, attempt>>

\* Faulty form: no lock.
KeyFreeAlways(c, k) == TRUE

KeyFree(c, k) == lock[k] \in {Free, c}

\* The key's lock is taken, then the handler reads and emits.
PlainRun(c) ==
    /\ pc[c] = "lock"
    /\ LET cmd == QueuedCmds[c][1] IN
       /\ KeyFree(c, cmd.key)
       /\ lock' = [lock EXCEPT ![cmd.key] = c]
       /\ Run(c, [ctx[c] EXCEPT !.snap = value, !.base = ver], cmd)
    /\ Goto(c, "plain")
    /\ UNCHANGED <<store, txn, watch, attempt, sent>>

MayRetry(c) == attempt[c] < MaxRetries

\* Flush: done, or retried on ErrTxnAborted, or TRYAGAIN when the retries are used up.
PlainFlush(c) ==
    /\ pc[c] = "plain"
    /\ Forget(c)
    /\ IF Conflict(ctx[c]) /\ MayRetry(c)
       THEN /\ attempt' = [attempt EXCEPT ![c] = @ + 1]
            /\ Goto(c, "lock")
            /\ UNCHANGED <<store, lock, txn>>
       ELSE /\ IF Conflict(ctx[c]) THEN UNCHANGED store ELSE Commit(c)
            /\ attempt' = [attempt EXCEPT ![c] = 0]
            /\ lock' = [lock EXCEPT ![QueuedCmds[c][1].key] = Free]
            /\ ResetTransaction(c)
            /\ Goto(c, "idle")
    /\ UNCHANGED <<watch, sent>>

-----------------------------------------------------------------------------
Next == \E c \in Clients :
    \/ handleWatch(c) \/ handleUnwatch(c) \/ handleMulti(c) \/ queueCommand(c)
    \/ handleDiscard(c) \/ ExecAbort(c) \/ Disconnect(c)
    \/ ExecBegin(c) \/ ExecForward(c) \/ ExecRun(c) \/ ExecFlush(c)
    \/ PlainStart(c) \/ PlainRun(c) \/ PlainFlush(c)

Spec == Init /\ [][Next]_vars

-----------------------------------------------------------------------------
(* Properties *)

\* Every variable has its type.
TypeOK ==
    /\ ssi \in BOOLEAN /\ value \in [Keys -> Nat] /\ ver \in [Keys -> Nat]
    /\ acked \in [Keys -> Nat] /\ taken \in [Keys -> Nat]
    /\ writer \in [Keys -> {"none", "plain", "flush"}]
    /\ lock \in [Keys -> Clients \cup {Free}]
    /\ InTransaction \in [Clients -> BOOLEAN] /\ TxnAborted \in [Clients -> BOOLEAN]
    /\ QueuedCmds \in [Clients -> Seq(TxnCmds \cup PlainCmds)]
    /\ watch \in [Clients -> [Keys -> Nat \cup {-1}]] /\ ctx \in [Clients -> Contexts]
    /\ ran \in [Clients -> Seq(TxnCmds \cup PlainCmds)]
    /\ replies \in [Clients -> Seq(Int)]
    /\ attempt \in [Clients -> 0..MaxRetries] /\ sent \in [Clients -> Nat]
    /\ pc \in [Clients -> {"idle", "run", "flush", "lock", "plain"}]

\* Effects and replies agree: a key holds exactly the increments that clients saw
\* acknowledged, less what GETDEL handed out.  DISCARD, EXECABORT, a failed WATCH,
\* a conflict, a disconnect and a failing command leave nothing behind that a
\* later Flush of the same context would publish, and no increment is lost.
RepliesMatchStore == \A k \in Keys : value[k] + taken[k] = acked[k]

ExecApplied(c) ==
    /\ \/ pc[c] = "flush"
       \/ pc[c] = "plain" /\ InTransaction[c]
    /\ ~Conflict(ctx[c]) /\ pc'[c] = "idle"

HeldSince(w) == \A k \in Keys : w[k] # -1 => ver[k] = w[k]

\* WATCH: an EXEC that runs here and whose replies go out found every watched key
\* at the version it had when it was watched, up to the moment of the commit and
\* not only when CheckWatches looked.
LocalWatchHolds ==
    [][\A c \in Clients : ExecApplied(c) => HeldSince(watch[c])]_vars

SerialReply(c, i) ==
    LET k == ran[c][i].key IN
    IF ran[c][i].op = "fail" THEN Error
    ELSE value[k] + Cardinality({j \in 1..i : ran[c][j] = [op |-> "incr", key |-> k]})

\* The replies of an EXEC that commits are those of running its commands, in
\* order, on the store at the moment of the commit: neither the snapshot (of
\* EXEC, or of MULTI in SSI mode) nor the interleaved commands show.
ExecIsAtomic ==
    [][\A c \in Clients : (pc[c] = "flush" /\ ExecApplied(c)) =>
          \A i \in DOMAIN ran[c] : replies[c][i] = SerialReply(c, i)]_vars

\* handler.go: the per-key lock is there "to serialize local access and prevent
\* transaction abort storms on hot keys".  A plain command is only ever aborted
\* because an EXEC, which takes no lock, committed to its key.
NoAbortStorm ==
    \A c \in Clients : (pc[c] = "plain" /\ Conflict(ctx[c]))
        => \E k \in ctx[c].deps : writer[k] = "flush"
=============================================================================
