---------------------------- MODULE Redis_proofs ----------------------------
(***************************************************************************)
(* Proofs about three parts of the Redis front end: the watches and aborts *)
(* of transactions (Transactions), for any clients, keys, serialized keys  *)
(* and bounds; a connection's blocking contexts (ConnBlock), for any       *)
(* number of unblockers and calls; and the IDs of stream entries           *)
(* (StreamIDs), for any width.                                             *)
(***************************************************************************)
EXTENDS TLAPS, Transactions, ConnBlock, StreamIDs

-----------------------------------------------------------------------------
(* Transactions. *)

\* The types of the variables that the argument needs.
Shapes ==
    /\ ssi \in BOOLEAN /\ value \in [Keys -> Nat] /\ ver \in [Keys -> Nat]
    /\ writer \in [Keys -> {"none", "plain", "flush"}]
    /\ lock \in [Keys -> Clients \cup {Free}]
    /\ InTransaction \in [Clients -> BOOLEAN]
    /\ QueuedCmds \in [Clients -> Seq(TxnCmds \cup PlainCmds)]
    /\ watch \in [Clients -> [Keys -> Nat \cup {-1}]] /\ ctx \in [Clients -> Contexts]
    /\ ran \in [Clients -> Seq(TxnCmds \cup PlainCmds)] /\ replies \in [Clients -> Seq(Int)]
    /\ pc \in [Clients -> {"idle", "run", "flush", "lock", "plain"}]

\* The context on which a plain command ran.
PlainCtx(x) == [EmptyCtx EXCEPT !.snap = x.snap, !.base = x.base]

\* What a client's flags, queue and context are in each phase.
Phase(c) ==
    /\ pc[c] \in {"run", "flush"} => InTransaction[c] /\ ctx[c].tx
    /\ pc[c] \in {"lock", "plain"} => Len(QueuedCmds[c]) = 1
    /\ pc[c] \in {"lock", "plain"} /\ InTransaction[c] => watch[c] = Unwatched
    /\ InTransaction[c] => QueuedCmds[c] \in Seq(TxnCmds)
    /\ ~InTransaction[c] /\ pc[c] = "idle" => QueuedCmds[c] = <<>>
    /\ pc[c] = "lock" \/ (pc[c] = "idle" /\ (~InTransaction[c] \/ ~ssi))
          => ctx[c] = EmptyCtx /\ ran[c] = <<>> /\ replies[c] = <<>>
    /\ InTransaction[c] /\ ssi => ctx[c].tx /\ pc[c] \notin {"lock", "plain"}

\* A plain command has run, alone, on a context that was empty.
PlainRan(c) ==
    pc[c] = "plain" =>
        LET x == PlainCtx(ctx[c]) IN
        /\ ran[c] = QueuedCmds[c]
        /\ ctx[c] = runDataCommand(x, ran[c][1]) /\ replies[c] = <<ReplyOf(x, ran[c][1])>>

\* A snapshot is not from the future, and is the store's where no version moved.
CurrentKey(c, k) ==
    ctx[c].tx \/ pc[c] = "plain" =>
        /\ ctx[c].base[k] <= ver[k]
        /\ ctx[c].base[k] = ver[k] => ctx[c].snap[k] = value[k]
Current(c) == \A k \in Keys : CurrentKey(c, k)

\* A key is watched before the snapshot is taken, and is at the same version when
\* EXEC runs.
GuardedKey(c, k) ==
    /\ watch[c][k] <= ver[k]
    /\ InTransaction[c] /\ ctx[c].tx => watch[c][k] <= ctx[c].base[k]
    /\ pc[c] \in {"run", "flush"} /\ watch[c][k] # -1
          => k \in ctx[c].deps /\ ctx[c].base[k] = watch[c][k]
Guarded(c) == \A k \in Keys : GuardedKey(c, k)

\* A plain command holds its key's lock; only an EXEC writes the key meanwhile.
Locked(c) ==
    pc[c] = "plain" =>
        LET k == QueuedCmds[c][1].key IN
        lock[k] = c /\ (ver[k] # ctx[c].base[k] => writer[k] = "flush")

\* The inductive invariant.
IInv ==
    /\ Shapes
    /\ \A c \in Clients : Phase(c) /\ PlainRan(c) /\ Current(c) /\ Guarded(c) /\ Locked(c)

\* The client's flag, queue, watches, context, commands, replies and phase become
\* the ones given.
Become(d, in, q, w, x, r, a, p) ==
    /\ InTransaction'[d] = in /\ QueuedCmds'[d] = q /\ watch'[d] = w /\ ctx'[d] = x
    /\ ran'[d] = r /\ replies'[d] = a /\ pc'[d] = p /\ ssi' = ssi

\* What a step does to a client, seen from the client.
Same(d) ==
    Become(d, InTransaction[d], QueuedCmds[d], watch[d], ctx[d], ran[d], replies[d], pc[d])
Rewatches(d) ==
    /\ pc[d] = "idle"
    /\ \E w : /\ w = Unwatched \/ (~InTransaction[d] /\ \A k \in Keys : w[k] \in {watch[d][k], ver[k]})
              /\ Become(d, InTransaction[d], QueuedCmds[d], w, ctx[d], ran[d], replies[d], pc[d])
Opens(d) ==
    /\ pc[d] = "idle" /\ ~InTransaction[d]
    /\ \E x : /\ x = IF ssi THEN BeginTx(ctx[d]) ELSE ctx[d]
              /\ Become(d, TRUE, QueuedCmds[d], watch[d], x, ran[d], replies[d], pc[d])
Queues(d) ==
    /\ pc[d] = "idle" /\ InTransaction[d] /\ ~ssi
    /\ \E cmd \in TxnCmds :
          Become(d, InTransaction[d], Append(QueuedCmds[d], cmd), watch[d], ctx[d], ran[d], replies[d], pc[d])
Executes(d) ==
    /\ InTransaction[d] /\ ctx[d].tx
    /\ \E cmd \in TxnCmds, q \in Seq(TxnCmds) :
          /\ (pc[d] = "idle" /\ ssi) \/ pc[d] = "run"
          /\ Become(d, InTransaction[d], q, watch[d], runDataCommand(ctx[d], cmd), Append(ran[d], cmd),
                    Append(replies[d], ReplyOf(ctx[d], cmd)), pc[d])
Resets(d) == Become(d, FALSE, <<>>, Unwatched, EmptyCtx, <<>>, <<>>, "idle")
Checks(d) ==
    /\ pc[d] = "idle" /\ InTransaction[d] /\ WatchesHold(d)
    /\ \E p \in {"flush", "run"} :
          Become(d, InTransaction[d], QueuedCmds[d], watch[d], CheckWatches(d, BeginTx(ctx[d])),
                 ran[d], replies[d], p)
Forwards(d) ==
    /\ pc[d] = "idle" /\ InTransaction[d] /\ ~ssi
    /\ \/ /\ Len(QueuedCmds[d]) = 1
          /\ Become(d, InTransaction[d], QueuedCmds[d], Unwatched, ctx[d], ran[d], replies[d], "lock")
       \/ Become(d, InTransaction[d], QueuedCmds[d], Unwatched, BeginTx(ctx[d]), ran[d], replies[d], "run")
Drains(d) ==
    /\ pc[d] = "run"
    /\ Become(d, InTransaction[d], QueuedCmds[d], watch[d], ctx[d], ran[d], replies[d], "flush")
Starts(d) ==
    /\ pc[d] = "idle" /\ ~InTransaction[d]
    /\ \E cmd \in PlainCmds :
          Become(d, InTransaction[d], <<cmd>>, watch[d], ctx[d], ran[d], replies[d], "lock")
RunsPlain(d) ==
    /\ pc[d] = "lock"
    /\ LET cmd == QueuedCmds[d][1]
           x == [EmptyCtx EXCEPT !.snap = value, !.base = ver] IN
       /\ Become(d, InTransaction[d], QueuedCmds[d], watch[d], runDataCommand(x, cmd), <<cmd>>,
                 <<ReplyOf(x, cmd)>>, "plain")
       /\ lock'[cmd.key] = d /\ ver' = ver
Retries(d) ==
    /\ pc[d] = "plain"
    /\ Become(d, InTransaction[d], QueuedCmds[d], watch[d], EmptyCtx, <<>>, <<>>, "lock")
Finishes(d) ==
    /\ pc[d] = "plain"
    /\ Become(d, FALSE, <<>>, watch[d], EmptyCtx, <<>>, <<>>, "idle")

(* A command leaves a context a context, and has an integer for a reply.   *)
LEMMA ContextTypes ==
  ASSUME NEW x \in Contexts, NEW cmd \in TxnCmds \cup PlainCmds
  PROVE  runDataCommand(x, cmd) \in Contexts /\ ReplyOf(x, cmd) \in Int
<1>1. cmd.key \in Keys /\ cmd.op \in {"incr", "get", "fail", "getdel"}
  BY Zenon DEF TxnCmds, PlainCmds
<1>2. /\ x.snap \in [Keys -> Nat] /\ x.add \in [Keys -> Nat] /\ x.base \in [Keys -> Nat]
      /\ x.deps \subseteq Keys /\ x.del \subseteq Keys /\ x.tx \in BOOLEAN
  BY Zenon DEF Contexts
<1>3. ReadKey(x, cmd.key) \in Nat
  BY <1>1, <1>2 DEF ReadKey
<1>4. ReplyOf(x, cmd) \in Int
  BY <1>1, <1>3 DEF ReplyOf, Error
<1>5. runDataCommand(x, cmd) \in Contexts
  <2> DEFINE y == [x EXCEPT !.deps = @ \cup {cmd.key}]
  <2>1. y \in Contexts
    BY <1>1, Zenon DEF Contexts
  <2> HIDE DEF y
  <2>2. [y EXCEPT !.add[cmd.key] = @ + 1] \in Contexts
    BY <1>1, <2>1, SMTT(60) DEF Contexts
  <2>3. [y EXCEPT !.tx = TRUE, !.add[cmd.key] = 0, !.del = @ \cup {cmd.key}] \in Contexts
    <3>1. [y EXCEPT !.tx = TRUE] \in Contexts
      BY <2>1, Zenon DEF Contexts
    <3>2. [[y EXCEPT !.tx = TRUE] EXCEPT !.add[cmd.key] = 0] \in Contexts
      BY <1>1, <3>1, Zenon DEF Contexts
    <3> QED  BY <1>1, <3>2, Zenon DEF Contexts
  <2> QED  BY <1>1, <2>1, <2>2, <2>3, Zenon DEF runDataCommand, Emitted, y
<1> QED  BY <1>4, <1>5, Zenon

(* A command leaves the snapshot alone and adds to what the context depends *)
(* on.                                                                     *)
LEMMA RunFrame ==
  ASSUME NEW x \in Contexts, NEW cmd \in TxnCmds \cup PlainCmds
  PROVE  LET y == runDataCommand(x, cmd) IN
         /\ y.snap = x.snap /\ y.base = x.base /\ x.deps \subseteq y.deps
         /\ x.tx => y.tx
<1>1. cmd.key \in Keys /\ cmd.op \in {"incr", "get", "fail", "getdel"}
  BY Zenon DEF TxnCmds, PlainCmds
<1> QED  BY <1>1, Zenon DEF runDataCommand, Emitted, Contexts

(* BeginTx takes a snapshot unless there is one.                           *)
LEMMA BeginFrame ==
  ASSUME Shapes, NEW x \in Contexts
  PROVE  LET y == BeginTx(x) IN
         /\ y \in Contexts /\ y.tx /\ y.add = x.add /\ y.del = x.del /\ y.deps = x.deps
         /\ IF x.tx THEN y = x ELSE y.snap = value /\ y.base = ver
BY Zenon DEF BeginTx, Contexts, Shapes

(* CheckWatches adds the watched keys to what the context depends on.      *)
LEMMA CheckFrame ==
  ASSUME NEW c, NEW x \in Contexts
  PROVE  LET y == CheckWatches(c, x) IN
         /\ y \in Contexts /\ y.tx = x.tx /\ y.snap = x.snap /\ y.base = x.base
         /\ y.deps = x.deps \cup Watched(c)
BY Zenon DEF CheckWatches, Contexts, Watched

(* The empty context.                                                      *)
LEMMA EmptyTypes == EmptyCtx \in Contexts /\ Unwatched \in [Keys -> Nat \cup {-1}]
BY Zenon DEF EmptyCtx, Contexts, NoEffects, Unwatched

(* What a plain command does to the empty context, and what it replies.    *)
LEMMA PlainEffects ==
  ASSUME NEW x \in Contexts, x.add = NoEffects, x.del = {}, x.deps = {}, ~x.tx,
         NEW cmd \in TxnCmds \cup PlainCmds
  PROVE  LET y == runDataCommand(x, cmd)
             gone == cmd.op = "getdel" /\ x.snap[cmd.key] > 0 IN
         /\ y.snap = x.snap /\ y.base = x.base /\ y.deps = {cmd.key} /\ (y.tx <=> gone)
         /\ y.del = IF gone THEN {cmd.key} ELSE {}
         /\ y.add = IF cmd.op = "incr" THEN [NoEffects EXCEPT ![cmd.key] = 1] ELSE NoEffects
         /\ ReplyOf(x, cmd) = IF cmd.op = "fail" THEN Error
                              ELSE x.snap[cmd.key] + (IF cmd.op = "incr" THEN 1 ELSE 0)
<1>1. cmd.key \in Keys /\ cmd.op \in {"incr", "get", "fail", "getdel"}
  BY Zenon DEF TxnCmds, PlainCmds
<1>2. x.snap[cmd.key] \in Nat /\ NoEffects[cmd.key] = 0 /\ NoEffects \in [Keys -> Nat]
  BY <1>1, Zenon DEF Contexts, NoEffects
<1>3. ReadKey(x, cmd.key) = x.snap[cmd.key]
  BY <1>2 DEF ReadKey
<1> DEFINE z == [x EXCEPT !.deps = @ \cup {cmd.key}]
<1>4. /\ z \in Contexts /\ z.snap = x.snap /\ z.base = x.base /\ z.deps = {cmd.key} /\ ~z.tx
      /\ z.del = {} /\ z.add = NoEffects
  BY <1>1, Zenon DEF Contexts
<1> HIDE DEF z
<1>8. ReplyOf(x, cmd) = IF cmd.op = "fail" THEN Error
                        ELSE x.snap[cmd.key] + (IF cmd.op = "incr" THEN 1 ELSE 0)
  BY <1>1, <1>2, <1>3 DEF ReplyOf
<1>5. CASE cmd.op = "incr"
  <2>1. runDataCommand(x, cmd) = [z EXCEPT !.add[cmd.key] = @ + 1]
    BY <1>5, Zenon DEF runDataCommand, Emitted, z
  <2>2. /\ z.add[cmd.key] + 1 = 1 /\ z.add = NoEffects
        /\ [z EXCEPT !.add[cmd.key] = @ + 1].add = [z.add EXCEPT ![cmd.key] = z.add[cmd.key] + 1]
    BY <1>1, <1>2, <1>4 DEF Contexts
  <2>3. [z EXCEPT !.add[cmd.key] = @ + 1].add = [NoEffects EXCEPT ![cmd.key] = 1]
    BY <2>2, Zenon
  <2>4. LET y == runDataCommand(x, cmd) IN
        y.snap = z.snap /\ y.base = z.base /\ y.deps = z.deps /\ (y.tx <=> z.tx) /\ y.del = z.del
    BY <1>4, <2>1, Zenon DEF Contexts
  <2> QED  BY <1>4, <1>5, <1>8, <2>1, <2>3, <2>4, Zenon
<1>6. CASE cmd.op = "getdel" /\ x.snap[cmd.key] > 0
  <2>1. runDataCommand(x, cmd) = [z EXCEPT !.tx = TRUE, !.add[cmd.key] = 0, !.del = @ \cup {cmd.key}]
    BY <1>3, <1>6, Zenon DEF runDataCommand, Emitted, z
  <2>2. [NoEffects EXCEPT ![cmd.key] = 0] = NoEffects
    BY <1>1, <1>2, Zenon DEF NoEffects
  <2>3. LET y == runDataCommand(x, cmd) IN
        /\ y.snap = z.snap /\ y.base = z.base /\ y.deps = z.deps /\ y.tx /\ y.del = z.del \cup {cmd.key}
        /\ y.add = [z.add EXCEPT ![cmd.key] = 0]
    BY <1>4, <2>1, Zenon DEF Contexts
  <2> QED  BY <1>4, <1>6, <1>8, <2>2, <2>3, Zenon
<1>7. CASE cmd.op \in {"get", "fail"} \/ (cmd.op = "getdel" /\ ~(x.snap[cmd.key] > 0))
  <2>1. runDataCommand(x, cmd) = z
    BY <1>3, <1>7, Zenon DEF runDataCommand, Emitted, z
  <2> QED  BY <1>4, <1>7, <1>8, <2>1, Zenon
<1> QED  BY <1>1, <1>5, <1>6, <1>7, Zenon

(* What a client has run outside a transaction: its one command, on a      *)
(* context that was empty.                                                 *)
LEMMA PlainAccount ==
  ASSUME Shapes, NEW c \in Clients, Phase(c), PlainRan(c), pc[c] = "plain"
  PROVE  LET cmd == QueuedCmds[c][1]
             x == ctx[c]
             gone == cmd.op = "getdel" /\ x.snap[cmd.key] > 0 IN
         /\ cmd \in TxnCmds \cup PlainCmds /\ ran[c] = <<cmd>>
         /\ x.deps = {cmd.key} /\ (x.tx <=> gone) /\ x.del = IF gone THEN {cmd.key} ELSE {}
         /\ x.add = IF cmd.op = "incr" THEN [NoEffects EXCEPT ![cmd.key] = 1] ELSE NoEffects
         /\ replies[c] = <<IF cmd.op = "fail" THEN Error
                           ELSE x.snap[cmd.key] + (IF cmd.op = "incr" THEN 1 ELSE 0)>>
<1> DEFINE cmd == QueuedCmds[c][1]
           x == PlainCtx(ctx[c])
<1>1. QueuedCmds[c] \in Seq(TxnCmds \cup PlainCmds) /\ Len(QueuedCmds[c]) = 1
  BY Zenon DEF Shapes, Phase
<1>2. cmd \in TxnCmds \cup PlainCmds /\ QueuedCmds[c] = <<cmd>>
  BY <1>1
<1>3. /\ x \in Contexts /\ x.add = NoEffects /\ x.del = {} /\ x.deps = {} /\ ~x.tx
      /\ x.snap = ctx[c].snap
  BY Zenon DEF Shapes, PlainCtx, EmptyCtx, Contexts, NoEffects
<1>4. /\ ran[c] = QueuedCmds[c] /\ ctx[c] = runDataCommand(x, cmd)
      /\ replies[c] = <<ReplyOf(x, cmd)>>
  BY Zenon DEF PlainRan
<1> HIDE DEF cmd, x
<1>5. LET y == ctx[c]
          gone == cmd.op = "getdel" /\ x.snap[cmd.key] > 0 IN
      /\ y.deps = {cmd.key} /\ (y.tx <=> gone) /\ y.del = IF gone THEN {cmd.key} ELSE {}
      /\ y.add = IF cmd.op = "incr" THEN [NoEffects EXCEPT ![cmd.key] = 1] ELSE NoEffects
      /\ ReplyOf(x, cmd) = IF cmd.op = "fail" THEN Error
                           ELSE x.snap[cmd.key] + (IF cmd.op = "incr" THEN 1 ELSE 0)
  BY <1>2, <1>3, <1>4, PlainEffects, SMTT(60)
<1> QED  BY <1>2, <1>3, <1>4, <1>5, Zenon DEF cmd

(* The store changes only in a commit.                                     *)
LEMMA StoreSteps ==
  ASSUME Shapes, [Next]_vars
  PROVE  \/ UNCHANGED store
         \/ \E c \in Clients : /\ pc[c] \in {"flush", "plain"} /\ ~Conflict(ctx[c]) /\ Commit(c)
                               /\ pc' = [pc EXCEPT ![c] = "idle"]
BY ZenonT(60)
DEF Next, Goto, vars, handleWatch, handleUnwatch, handleMulti, queueCommand, handleDiscard,
    ExecAbort, Disconnect, ExecBegin, ExecForward, ExecRun, ExecFlush, PlainStart, PlainRun,
    PlainFlush

(* Versions grow, and with a version that stays the value stays.           *)
LEMMA StoreGrows ==
  ASSUME Shapes, [Next]_vars, NEW k \in Keys
  PROVE  /\ ver[k] \in Nat /\ ver'[k] \in Nat /\ value[k] \in Nat /\ ver[k] <= ver'[k]
         /\ ver'[k] = ver[k] => value'[k] = value[k]
<1>1. ver[k] \in Nat /\ value[k] \in Nat
  BY Zenon DEF Shapes
<1>2. CASE UNCHANGED store
  BY <1>1, <1>2 DEF store
<1>3. ASSUME NEW c \in Clients, Commit(c)
      PROVE  ver'[k] \in Nat /\ ver[k] <= ver'[k] /\ (ver'[k] = ver[k] => value'[k] = value[k])
  <2>1. ctx[c].add[k] \in Nat
    BY ZenonT(60) DEF Shapes, Contexts
  <2>2. ver'[k] = IF k \in Written(ctx[c]) THEN ver[k] + 1 ELSE ver[k]
    BY <1>3, Zenon DEF Commit
  <2>3. value'[k] = (IF k \in ctx[c].del THEN 0 ELSE value[k]) + ctx[c].add[k]
    BY <1>3, Zenon DEF Commit
  <2>4. k \notin Written(ctx[c]) => k \notin ctx[c].del /\ ctx[c].add[k] = 0
    BY <2>1 DEF Written
  <2> QED  BY <1>1, <2>2, <2>3, <2>4
<1> QED  BY <1>1, <1>2, <1>3, StoreSteps, Zenon

(* The store keeps its type.                                               *)
LEMMA StoreTypes ==
  ASSUME IInv, [Next]_vars
  PROVE  /\ ssi' \in BOOLEAN /\ value' \in [Keys -> Nat] /\ ver' \in [Keys -> Nat]
         /\ writer' \in [Keys -> {"none", "plain", "flush"}]
<1>1. CASE UNCHANGED store
  BY <1>1, Zenon DEF store, IInv, Shapes
<1>2. ASSUME NEW c \in Clients, pc[c] \in {"flush", "plain"}, Commit(c)
      PROVE  /\ ssi' \in BOOLEAN /\ value' \in [Keys -> Nat] /\ ver' \in [Keys -> Nat]
             /\ writer' \in [Keys -> {"none", "plain", "flush"}]
  <2>2. \A k \in Keys : ctx[c].add[k] \in Nat
    BY Zenon DEF IInv, Shapes, Contexts
  <2>3. Shapes
    BY Zenon DEF IInv
  <2>4. value' \in [Keys -> Nat] /\ ver' \in [Keys -> Nat] /\ ssi' \in BOOLEAN
    <3>1. value \in [Keys -> Nat] /\ ver \in [Keys -> Nat] /\ ssi \in BOOLEAN
      BY <2>3, Zenon DEF Shapes
    <3>2. \A k \in Keys : (IF k \in ctx[c].del THEN 0 ELSE value[k]) + ctx[c].add[k] \in Nat
      BY <2>2, <3>1
    <3> QED  BY <1>2, <3>1, <3>2 DEF Commit
  <2>6. writer' \in [Keys -> {"none", "plain", "flush"}]
    BY <1>2, <2>3, Zenon DEF Shapes, Commit
  <2> QED  BY <2>4, <2>6, Zenon
<1>3. Shapes
  BY Zenon DEF IInv
<1> QED  BY <1>1, <1>2, <1>3, StoreSteps, Zenon

(* The variables keep their types.                                         *)
LEMMA NextShapes == IInv /\ [Next]_vars => Shapes'
<1> SUFFICES ASSUME IInv, Shapes, [Next]_vars PROVE Shapes'
  BY Zenon DEF IInv
<1> DEFINE Cmds == TxnCmds \cup PlainCmds
<1>2. pc' \in [Clients -> {"idle", "run", "flush", "lock", "plain"}]
  <2>1. pc \in [Clients -> {"idle", "run", "flush", "lock", "plain"}]
    BY Zenon DEF Shapes
  <2>2. pc' = pc \/ \E c \in Clients, l \in {"idle", "run", "flush", "lock", "plain"} : Goto(c, l)
    BY ZenonT(60)
    DEF Next, vars, handleWatch, handleUnwatch, handleMulti, queueCommand, handleDiscard,
        ExecAbort, Disconnect, ExecBegin, ExecForward, ExecRun, ExecFlush, PlainStart,
        PlainRun, PlainFlush
  <2> QED  BY <2>1, <2>2, Zenon DEF Goto
<1>3. lock' \in [Keys -> Clients \cup {Free}]
  <2>1. lock \in [Keys -> Clients \cup {Free}]
    BY Zenon DEF Shapes
  <2>2. lock' = lock \/ \E c \in Clients : \E k : lock' = [lock EXCEPT ![k] = c] \/ lock' = [lock EXCEPT ![k] = Free]
    BY ZenonT(60)
    DEF Next, vars, handleWatch, handleUnwatch, handleMulti, queueCommand, handleDiscard,
        ExecAbort, Disconnect, ExecBegin, ExecForward, ExecRun, ExecFlush, PlainStart,
        PlainRun, PlainFlush
  <2> QED  BY <2>1, <2>2, Zenon
<1>5. watch' \in [Clients -> [Keys -> Nat \cup {-1}]]
  <2>1. watch \in [Clients -> [Keys -> Nat \cup {-1}]] /\ ver \in [Keys -> Nat]
    BY Zenon DEF Shapes
  <2>2. \/ watch' = watch \/ \E c \in Clients : DropWatches(c)
        \/ \E c \in Clients, k \in Keys : watch' = [watch EXCEPT ![c][k] = IF @ = -1 THEN ver[k] ELSE @]
    BY ZenonT(60)
    DEF Next, vars, handleWatch, handleUnwatch, handleMulti, queueCommand, handleDiscard,
        ExecAbort, Disconnect, ExecBegin, ExecForward, ExecRun, ExecFlush, PlainStart,
        PlainRun, PlainFlush, AbortAndReset, DropWatches
  <2>3. ASSUME NEW c \in Clients, NEW k \in Keys, watch' = [watch EXCEPT ![c][k] = IF @ = -1 THEN ver[k] ELSE @]
        PROVE  watch' \in [Clients -> [Keys -> Nat \cup {-1}]]
    BY <2>1, <2>3, Zenon
  <2>4. ASSUME NEW c \in Clients, DropWatches(c) PROVE watch' \in [Clients -> [Keys -> Nat \cup {-1}]]
    BY <2>1, <2>4, EmptyTypes, Zenon DEF DropWatches
  <2> QED  BY <2>1, <2>2, <2>3, <2>4, Zenon
<1>6. InTransaction' \in [Clients -> BOOLEAN]
  <2>1. InTransaction \in [Clients -> BOOLEAN]
    BY Zenon DEF Shapes
  <2>2. \/ InTransaction' = InTransaction
        \/ \E c \in Clients, b \in BOOLEAN : InTransaction' = [InTransaction EXCEPT ![c] = b]
    BY ZenonT(60)
    DEF Next, vars, handleWatch, handleUnwatch, handleMulti, queueCommand, handleDiscard,
        ExecAbort, Disconnect, ExecBegin, ExecForward, ExecRun, ExecFlush, PlainStart,
        PlainRun, PlainFlush, txn, AbortAndReset, ResetTransaction
  <2> QED  BY <2>1, <2>2, Zenon
<1>7. QueuedCmds' \in [Clients -> Seq(Cmds)]
  <2>1. QueuedCmds \in [Clients -> Seq(Cmds)]
    BY Zenon DEF Shapes
  <2>2. \/ QueuedCmds' = QueuedCmds
        \/ \E c \in Clients :
              \/ QueuedCmds' = [QueuedCmds EXCEPT ![c] = <<>>]
              \/ QueuedCmds[c] # <<>> /\ QueuedCmds' = [QueuedCmds EXCEPT ![c] = Tail(@)]
              \/ \E cmd \in TxnCmds : QueuedCmds' = [QueuedCmds EXCEPT ![c] = Append(@, cmd)]
              \/ \E cmd \in PlainCmds : QueuedCmds' = [QueuedCmds EXCEPT ![c] = <<cmd>>]
    BY ZenonT(60)
    DEF Next, vars, handleWatch, handleUnwatch, handleMulti, queueCommand, handleDiscard,
        ExecAbort, Disconnect, ExecBegin, ExecForward, ExecRun, ExecFlush, PlainStart,
        PlainRun, PlainFlush, txn, AbortAndReset, ResetTransaction
  <2>3. ASSUME NEW c \in Clients, QueuedCmds[c] # <<>>, QueuedCmds' = [QueuedCmds EXCEPT ![c] = Tail(@)]
        PROVE  QueuedCmds' \in [Clients -> Seq(Cmds)]
    <3>1. Tail(QueuedCmds[c]) \in Seq(Cmds)
      BY <2>1, <2>3
    <3> QED  BY <2>1, <2>3, <3>1, Zenon
  <2>4. ASSUME NEW c \in Clients, NEW cmd \in TxnCmds, QueuedCmds' = [QueuedCmds EXCEPT ![c] = Append(@, cmd)]
        PROVE  QueuedCmds' \in [Clients -> Seq(Cmds)]
    <3>1. Append(QueuedCmds[c], cmd) \in Seq(Cmds)
      BY <2>1
    <3> QED  BY <2>1, <2>4, <3>1, Zenon
  <2>5. ASSUME NEW c \in Clients, NEW cmd \in PlainCmds, QueuedCmds' = [QueuedCmds EXCEPT ![c] = <<cmd>>]
        PROVE  QueuedCmds' \in [Clients -> Seq(Cmds)]
    <3>1. <<cmd>> \in Seq(Cmds)
      OBVIOUS
    <3> QED  BY <2>1, <2>5, <3>1, Zenon
  <2>6. ASSUME NEW c \in Clients, QueuedCmds' = [QueuedCmds EXCEPT ![c] = <<>>]
        PROVE  QueuedCmds' \in [Clients -> Seq(Cmds)]
    BY <2>1, <2>6
  <2> QED  BY <2>1, <2>2, <2>3, <2>4, <2>5, <2>6, Zenon
<1>8. ctx' \in [Clients -> Contexts] /\ ran' \in [Clients -> Seq(Cmds)] /\ replies' \in [Clients -> Seq(Int)]
  <2>1. ctx \in [Clients -> Contexts] /\ ran \in [Clients -> Seq(Cmds)] /\ replies \in [Clients -> Seq(Int)]
    BY Zenon DEF Shapes
  <2>2. \/ UNCHANGED <<ctx, ran, replies>>
        \/ \E c \in Clients :
              \/ Forget(c) \/ queueCommand(c) \/ ExecRun(c) \/ PlainRun(c)
              \/ /\ UNCHANGED <<ran, replies>>
                 /\ \/ ctx' = [ctx EXCEPT ![c] = BeginTx(@)]
                    \/ ctx' = [ctx EXCEPT ![c] = CheckWatches(c, BeginTx(@))]
    BY ZenonT(60)
    DEF Next, vars, handleWatch, handleUnwatch, handleMulti, handleDiscard, ExecAbort,
        Disconnect, ExecBegin, ExecForward, ExecFlush, PlainStart, PlainFlush, AbortAndReset
  <2>3. ASSUME NEW c \in Clients, NEW x \in Contexts, NEW cmd \in Cmds, Run(c, x, cmd)
        PROVE  ctx' \in [Clients -> Contexts] /\ ran' \in [Clients -> Seq(Cmds)] /\ replies' \in [Clients -> Seq(Int)]
    <3>1. runDataCommand(x, cmd) \in Contexts /\ ReplyOf(x, cmd) \in Int
      BY ContextTypes, Zenon
    <3>2. Append(ran[c], cmd) \in Seq(Cmds) /\ Append(replies[c], ReplyOf(x, cmd)) \in Seq(Int)
      BY <2>1, <3>1
    <3> QED  BY <2>1, <2>3, <3>1, <3>2, Zenon DEF Run
  <2>4. ASSUME NEW c \in Clients, queueCommand(c)
        PROVE  UNCHANGED <<ctx, ran, replies>> \/ \E cmd \in TxnCmds : Run(c, ctx[c], cmd)
    BY <2>4, Zenon DEF queueCommand
  <2>5. ASSUME NEW c \in Clients, ExecRun(c)
        PROVE  UNCHANGED <<ctx, ran, replies>> \/ \E cmd \in Cmds : Run(c, ctx[c], cmd)
    <3>1. QueuedCmds[c] \in Seq(Cmds)
      BY Zenon DEF Shapes
    <3>2. QueuedCmds[c] # <<>> => Head(QueuedCmds[c]) \in Cmds
      BY <3>1
    <3> QED  BY <2>5, <3>2, Zenon DEF ExecRun
  <2>6. ASSUME NEW c \in Clients, PlainRun(c) PROVE \E x \in Contexts, cmd \in Cmds : Run(c, x, cmd)
    <3>1. QueuedCmds[c] \in Seq(Cmds) /\ Len(QueuedCmds[c]) = 1
      BY <2>6, Zenon DEF PlainRun, IInv, Phase, Shapes
    <3>2. QueuedCmds[c][1] \in Cmds
      BY <3>1
    <3>3. [ctx[c] EXCEPT !.snap = value, !.base = ver] \in Contexts
      <4>1. ctx[c] \in Contexts /\ value \in [Keys -> Nat] /\ ver \in [Keys -> Nat]
        BY <2>1, Zenon DEF Shapes
      <4> QED  BY <4>1, Zenon DEF Contexts
    <3> QED  BY <2>6, <3>2, <3>3, Zenon DEF PlainRun
  <2>7. \A c \in Clients : BeginTx(ctx[c]) \in Contexts /\ CheckWatches(c, BeginTx(ctx[c])) \in Contexts
    BY <2>1, BeginFrame, CheckFrame, Zenon
  <2>8. ASSUME NEW c \in Clients, Forget(c)
        PROVE  ctx' \in [Clients -> Contexts] /\ ran' \in [Clients -> Seq(Cmds)] /\ replies' \in [Clients -> Seq(Int)]
    BY <2>1, <2>8, EmptyTypes DEF Forget
  <2>9. ASSUME NEW c \in Clients, UNCHANGED <<ran, replies>>,
               ctx' = [ctx EXCEPT ![c] = BeginTx(@)] \/ ctx' = [ctx EXCEPT ![c] = CheckWatches(c, BeginTx(@))]
        PROVE  ctx' \in [Clients -> Contexts] /\ ran' \in [Clients -> Seq(Cmds)] /\ replies' \in [Clients -> Seq(Int)]
    BY <2>1, <2>7, <2>9, Zenon
  <2>10. TxnCmds \subseteq Cmds /\ \A c \in Clients : ctx[c] \in Contexts
    BY <2>1, Zenon
  <2> HIDE DEF Cmds
  <2> QED  BY <2>1, <2>2, <2>3, <2>4, <2>5, <2>6, <2>8, <2>9, <2>10, Zenon
<1> QED  BY <1>2, <1>3, <1>5, <1>6, <1>7, <1>8, StoreTypes, Zenon DEF Shapes

(* The element of a sequence of one.                                       *)
LEMMA OnlyElement == \A S : \A s \in Seq(S) : Len(s) = 1 => s[1] \in S
OBVIOUS

(* Every step is a client's, and leaves the other clients alone.           *)
LEMMA Moves ==
  ASSUME Shapes, [Next]_vars, NEW d \in Clients, Phase(d)
  PROVE  \/ Same(d) \/ Rewatches(d) \/ Opens(d) \/ Queues(d) \/ Executes(d) \/ Resets(d)
         \/ Checks(d) \/ Forwards(d) \/ Drains(d) \/ Starts(d) \/ RunsPlain(d) \/ Retries(d)
         \/ Finishes(d)
<1> DEFINE Acts(c) == \/ handleWatch(c) \/ handleUnwatch(c) \/ handleMulti(c) \/ queueCommand(c)
                      \/ handleDiscard(c) \/ ExecAbort(c) \/ Disconnect(c)
                      \/ ExecBegin(c) \/ ExecForward(c) \/ ExecRun(c) \/ ExecFlush(c)
                      \/ PlainStart(c) \/ PlainRun(c) \/ PlainFlush(c)
<1> /\ InTransaction \in [Clients -> BOOLEAN] /\ QueuedCmds \in [Clients -> Seq(TxnCmds \cup PlainCmds)]
    /\ watch \in [Clients -> [Keys -> Nat \cup {-1}]] /\ ctx \in [Clients -> Contexts]
    /\ ran \in [Clients -> Seq(TxnCmds \cup PlainCmds)] /\ replies \in [Clients -> Seq(Int)]
    /\ pc \in [Clients -> {"idle", "run", "flush", "lock", "plain"}]
  BY Zenon DEF Shapes
<1>b. ASSUME NEW c \in Clients, c # d, Acts(c) PROVE Same(d)
  <2> c # d
    BY <1>b, Zenon
  <2> USE DEF Same, Become, store, txn
  <2>1. CASE handleWatch(c)
    BY <2>1, Zenon DEF handleWatch, Send, DropWatches
  <2>2. CASE handleUnwatch(c)
    BY <2>2, Zenon DEF handleUnwatch, Send, DropWatches
  <2>3. CASE handleMulti(c)
    BY <2>3, Zenon DEF handleMulti, Send, BeginTx
  <2>4. CASE queueCommand(c)
    BY <2>4, ZenonT(60) DEF queueCommand, Send, Run
  <2>5. CASE handleDiscard(c)
    BY <2>5, Zenon
    DEF handleDiscard, Send, AbortAndReset, Forget, ResetTransaction, DropWatches
  <2>6. CASE ExecAbort(c)
    BY <2>6, Zenon DEF ExecAbort, Send, AbortAndReset, Forget, ResetTransaction, DropWatches
  <2>7. CASE Disconnect(c)
    BY <2>7, Zenon
    DEF Disconnect, Send, AbortAndReset, Forget, ResetTransaction, DropWatches
  <2>8. CASE ExecBegin(c)
    BY <2>8
    DEF ExecBegin, Send, CheckWatches, BeginTx, Goto, AbortAndReset, Forget,
        ResetTransaction, DropWatches
  <2>9. CASE ExecForward(c)
    BY <2>9, Zenon DEF ExecForward, Send, BeginTx, Goto
  <2>10. CASE ExecRun(c)
    BY <2>10 DEF ExecRun, Run, Goto
  <2>11. CASE ExecFlush(c)
    <3>1. ssi' = ssi
      BY <2>11, Zenon DEF ExecFlush, Commit
    <3> QED  BY <2>11, <3>1, Zenon DEF ExecFlush, Goto, AbortAndReset, Forget,
       ResetTransaction, DropWatches
  <2>12. CASE PlainStart(c)
    BY <2>12, Zenon DEF PlainStart, Send, Goto
  <2>13. CASE PlainRun(c)
    BY <2>13, Zenon DEF PlainRun, Run, Goto
  <2>14. CASE PlainFlush(c)
    <3>1. ssi' = ssi
      BY <2>14, Zenon DEF PlainFlush, Commit
    <3> QED  BY <2>14, <3>1, Zenon DEF PlainFlush, Forget, Goto, ResetTransaction
  <2> QED  BY <1>b, <2>1, <2>2, <2>3, <2>4, <2>5, <2>6, <2>7, <2>8, <2>9, <2>10, <2>11,
     <2>12, <2>13, <2>14, Zenon
<1>c. ASSUME Acts(d)
      PROVE  \/ Same(d) \/ Rewatches(d) \/ Opens(d) \/ Queues(d) \/ Executes(d) \/ Resets(d)
             \/ Checks(d) \/ Forwards(d) \/ Drains(d) \/ Starts(d) \/ RunsPlain(d) \/ Retries(d)
             \/ Finishes(d)
  <2> USE DEF Become, store, txn
  <2>1. CASE handleWatch(d)
    BY <2>1 DEF handleWatch, Send, DropWatches, Rewatches
  <2>2. CASE handleUnwatch(d)
    BY <2>2, Zenon DEF handleUnwatch, Send, DropWatches, Rewatches
  <2>3. CASE handleMulti(d)
    BY <2>3, Zenon DEF handleMulti, Send, Opens
  <2>4. CASE queueCommand(d)
    BY <2>4, Zenon DEF queueCommand, Send, Run, Queues, Executes, Same, Phase
  <2>5. CASE handleDiscard(d)
    BY <2>5, Zenon
    DEF handleDiscard, Send, AbortAndReset, Forget, ResetTransaction, DropWatches, Resets
  <2>6. CASE ExecAbort(d)
    BY <2>6, Zenon
    DEF ExecAbort, Send, AbortAndReset, Forget, ResetTransaction, DropWatches, Resets
  <2>7. CASE Disconnect(d)
    BY <2>7, Zenon
    DEF Disconnect, Send, AbortAndReset, Forget, ResetTransaction, DropWatches, Resets
  <2>8. CASE ExecBegin(d)
    <3>1. pc[d] = "idle" /\ InTransaction[d] /\ ssi' = ssi
      BY <2>8, Zenon DEF ExecBegin, Send
    <3>2. CASE WatchesHold(d)
      BY <2>8, <3>1, <3>2, Zenon DEF ExecBegin, Goto, Checks
    <3>3. CASE ~WatchesHold(d)
      BY <2>8, <3>1, <3>3, ZenonT(60)
      DEF ExecBegin, AbortAndReset, Forget, ResetTransaction, DropWatches, Resets
    <3> QED  BY <3>2, <3>3, Zenon
  <2>9. CASE ExecForward(d)
    <3>1. pc[d] = "idle" /\ InTransaction[d] /\ ~ssi
      BY <2>9, Zenon DEF ExecForward, Send, Forwarded
    <3> QED  BY <2>9, <3>1, Zenon DEF ExecForward, Goto, Forwards
  <2>10. CASE ExecRun(d)
    <3>1. InTransaction[d] /\ ctx[d].tx /\ QueuedCmds[d] \in Seq(TxnCmds) /\ pc[d] = "run"
      BY <2>10, Zenon DEF ExecRun, Phase
    <3>2. CASE QueuedCmds[d] = <<>>
      BY <2>10, <3>1, <3>2, Zenon DEF ExecRun, Goto, Drains
    <3>3. CASE QueuedCmds[d] # <<>>
      <4>1. Head(QueuedCmds[d]) \in TxnCmds /\ Tail(QueuedCmds[d]) \in Seq(TxnCmds)
        BY <3>1, <3>3
      <4> DEFINE cmd == Head(QueuedCmds[d])
                 q == Tail(QueuedCmds[d])
      <4>2. Become(d, InTransaction[d], q, watch[d], runDataCommand(ctx[d], cmd), Append(ran[d], cmd),
                   Append(replies[d], ReplyOf(ctx[d], cmd)), pc[d])
        BY <2>10, <3>1, <3>3, Zenon DEF ExecRun, Run
      <4> HIDE DEF cmd, q
      <4> QED  BY <3>1, <4>1, <4>2, Zenon DEF Executes, cmd, q
    <3> QED  BY <3>2, <3>3, Zenon
  <2>11. CASE ExecFlush(d)
    <3>1. ssi' = ssi
      BY <2>11, Zenon DEF ExecFlush, Commit
    <3> QED  BY <2>11, <3>1, Zenon DEF ExecFlush, Goto, AbortAndReset, Forget,
       ResetTransaction, DropWatches, Resets
  <2>12. CASE PlainStart(d)
    BY <2>12, Zenon DEF PlainStart, Send, Goto, Starts
  <2>13. CASE PlainRun(d)
    <3>1. pc[d] = "lock" /\ ctx[d] = EmptyCtx /\ ran[d] = <<>> /\ replies[d] = <<>>
      BY <2>13, Zenon DEF PlainRun, Phase
    <3>0. QueuedCmds[d] \in Seq(TxnCmds \cup PlainCmds) /\ Len(QueuedCmds[d]) = 1
      BY <3>1, Zenon DEF Phase
    <3>2. QueuedCmds[d][1].key \in Keys
      <4>1. QueuedCmds[d][1] \in TxnCmds \cup PlainCmds
        BY <3>0, OnlyElement, Zenon
      <4> QED  BY <4>1, Zenon DEF TxnCmds, PlainCmds
    <3> DEFINE cmd == QueuedCmds[d][1]
               x == [EmptyCtx EXCEPT !.snap = value, !.base = ver]
    <3>3. ctx'[d] = runDataCommand(x, cmd) /\ ran'[d] = <<cmd>> /\ replies'[d] = <<ReplyOf(x, cmd)>>
      BY <2>13, <3>1 DEF PlainRun, Run
    <3>4. lock'[cmd.key] = d
      BY <2>13, <3>2, Zenon DEF PlainRun, Shapes
    <3>5. /\ InTransaction' = InTransaction /\ QueuedCmds' = QueuedCmds /\ watch' = watch /\ ssi' = ssi
          /\ pc'[d] = "plain" /\ ver' = ver
      BY <2>13, Zenon DEF PlainRun, Goto
    <3> HIDE DEF cmd, x
    <3> QED  BY <3>1, <3>3, <3>4, <3>5, Zenon DEF RunsPlain, cmd, x
  <2>14. CASE PlainFlush(d)
    <3>1. ssi' = ssi
      BY <2>14, Zenon DEF PlainFlush, Commit
    <3>2. /\ pc[d] = "plain" /\ ctx'[d] = EmptyCtx /\ ran'[d] = <<>> /\ replies'[d] = <<>>
          /\ watch'[d] = watch[d]
      BY <2>14, Zenon DEF PlainFlush, Forget
    <3>3. CASE Conflict(ctx[d]) /\ MayRetry(d)
      BY <2>14, <3>1, <3>2, <3>3, Zenon DEF PlainFlush, Goto, Retries
    <3>4. CASE ~(Conflict(ctx[d]) /\ MayRetry(d))
      BY <2>14, <3>1, <3>2, <3>4, ZenonT(60)
      DEF PlainFlush, Goto, ResetTransaction, Finishes
    <3> QED  BY <3>3, <3>4, Zenon
  <2> QED  BY <1>c, <2>1, <2>2, <2>3, <2>4, <2>5, <2>6, <2>7, <2>8, <2>9, <2>10, <2>11,
     <2>12, <2>13, <2>14, Zenon
<1>d. (\E c \in Clients : Acts(c)) \/ UNCHANGED vars
  BY Zenon DEF Next
<1>e. UNCHANGED vars => Same(d)
  BY Zenon DEF vars, Same, Become, store, txn
<1> QED  BY <1>b, <1>c, <1>d, <1>e, Zenon

(* A plain command runs on a snapshot of the store as it is.               *)
LEMMA PlainSnapshot ==
  ASSUME Shapes, NEW d \in Clients, Phase(d), RunsPlain(d)
  PROVE  /\ QueuedCmds[d] = <<QueuedCmds[d][1]>> /\ QueuedCmds[d][1].key \in Keys
         /\ ctx'[d].snap = value /\ ctx'[d].base = ver
<1> DEFINE cmd == QueuedCmds[d][1]
           x == [EmptyCtx EXCEPT !.snap = value, !.base = ver]
<1>1. QueuedCmds[d] \in Seq(TxnCmds \cup PlainCmds) /\ Len(QueuedCmds[d]) = 1
  BY Zenon DEF Shapes, RunsPlain, Phase
<1>2. QueuedCmds[d] = <<cmd>> /\ cmd \in TxnCmds \cup PlainCmds
  BY <1>1
<1>3. x \in Contexts /\ x.snap = value /\ x.base = ver
  BY Zenon DEF EmptyCtx, Contexts, NoEffects, Shapes
<1>4. ctx'[d] = runDataCommand(x, cmd)
  BY Zenon DEF RunsPlain, Become
<1> HIDE DEF x, cmd
<1>5. cmd.key \in Keys
  BY <1>2, Zenon DEF TxnCmds, PlainCmds
<1>6. ctx'[d].snap = x.snap /\ ctx'[d].base = x.base
  BY <1>2, <1>3, <1>4, RunFrame, ZenonT(60)
<1> QED  BY <1>2, <1>3, <1>5, <1>6, Zenon DEF cmd

(* A client is in a plain command because it was, or because it just ran.  *)
LEMMA OnlyPlain ==
  ASSUME Shapes, [Next]_vars, NEW d \in Clients, Phase(d), pc'[d] = "plain"
  PROVE  Same(d) \/ RunsPlain(d)
<1>1. ~(\/ Rewatches(d) \/ Opens(d) \/ Queues(d) \/ Executes(d) \/ Resets(d) \/ Checks(d) \/ Forwards(d)
        \/ Drains(d) \/ Starts(d) \/ Retries(d) \/ Finishes(d))
  BY Zenon
  DEF Become, Rewatches, Opens, Queues, Executes, Resets, Checks, Forwards, Drains, Starts,
      Retries, Finishes
<1> QED  BY <1>1, Moves, Zenon

(* A client's flags, queue and context stay in step with its phase.          *)
LEMMA NextPhase == IInv /\ [Next]_vars => \A d \in Clients : Phase(d)'
<1> SUFFICES ASSUME Shapes, [Next]_vars, NEW d \in Clients, Phase(d) PROVE Phase(d)'
  BY Zenon DEF IInv
<1> USE DEF Become
<1> /\ ctx[d] \in Contexts /\ QueuedCmds[d] \in Seq(TxnCmds \cup PlainCmds) /\ ran[d] \in Seq(TxnCmds \cup PlainCmds)
    /\ replies[d] \in Seq(Int) /\ pc[d] \in {"idle", "run", "flush", "lock", "plain"}
    /\ InTransaction[d] \in BOOLEAN /\ ssi \in BOOLEAN /\ watch[d] \in [Keys -> Nat \cup {-1}]
  BY Zenon DEF Shapes
<1>1. CASE Same(d)
  BY <1>1, Zenon DEF Same, Phase
<1>2. CASE Rewatches(d)
  BY <1>2, SMTT(60) DEF Rewatches, Phase
<1>3. CASE Opens(d)
  BY <1>3, BeginFrame DEF Opens, Phase
<1>4. CASE Queues(d)
  BY <1>4 DEF Queues, Phase
<1>5. CASE Executes(d)
  BY <1>5, RunFrame, SMTT(60) DEF Executes, Phase
<1>6. CASE Resets(d)
  BY <1>6, Zenon DEF Resets, Phase
<1>7. CASE Checks(d)
  BY <1>7, BeginFrame, CheckFrame, SMTT(60) DEF Checks, Phase
<1>8. CASE Forwards(d)
  <2>1. /\ InTransaction'[d] /\ QueuedCmds'[d] = QueuedCmds[d] /\ watch'[d] = Unwatched /\ ssi' = ssi /\ ~ssi
        /\ ctx[d] = EmptyCtx /\ ran'[d] = <<>> /\ replies'[d] = <<>> /\ QueuedCmds[d] \in Seq(TxnCmds)
    BY <1>8, Zenon DEF Forwards, Phase
  <2>2. CASE Len(QueuedCmds[d]) = 1 /\ ctx'[d] = ctx[d] /\ pc'[d] = "lock"
    BY <2>1, <2>2, Zenon DEF Phase
  <2>3. CASE ctx'[d] = BeginTx(ctx[d]) /\ pc'[d] = "run"
    <3>1. ctx'[d].tx
      BY <2>3, BeginFrame
    <3> QED  BY <2>1, <2>3, <3>1, Zenon DEF Phase
  <2> QED  BY <1>8, <2>2, <2>3, Zenon DEF Forwards
<1>9. CASE Drains(d)
  BY <1>9, Zenon DEF Drains, Phase
<1>10. CASE Starts(d)
  BY <1>10, Zenon DEF Starts, Phase
<1>11. CASE RunsPlain(d)
  BY <1>11, Zenon DEF RunsPlain, Phase
<1>12. CASE Retries(d)
  BY <1>12, Zenon DEF Retries, Phase
<1>13. CASE Finishes(d)
  BY <1>13, Zenon DEF Finishes, Phase
<1> QED  BY <1>1, <1>2, <1>3, <1>4, <1>5, <1>6, <1>7, <1>8, <1>9, <1>10, <1>11, <1>12,
   <1>13, Moves, Zenon

(* A plain command that has run stays as it ran.                           *)
LEMMA NextPlainRan == IInv /\ [Next]_vars => \A d \in Clients : PlainRan(d)'
<1> SUFFICES ASSUME Shapes, [Next]_vars, NEW d \in Clients, Phase(d), PlainRan(d), pc'[d] = "plain"
             PROVE  PlainRan(d)'
  BY Zenon DEF IInv, PlainRan
<1>1. CASE Same(d)
  BY <1>1, Zenon DEF Same, Become, PlainRan
<1>2. CASE RunsPlain(d)
  <2> DEFINE cmd == QueuedCmds[d][1]
             x == [EmptyCtx EXCEPT !.snap = value, !.base = ver]
  <2>1. QueuedCmds[d] = <<cmd>> /\ ctx'[d].snap = value /\ ctx'[d].base = ver
    BY <1>2, PlainSnapshot, Zenon
  <2>2. /\ ctx'[d] = runDataCommand(x, cmd) /\ ran'[d] = <<cmd>> /\ replies'[d] = <<ReplyOf(x, cmd)>>
        /\ QueuedCmds'[d] = QueuedCmds[d]
    BY <1>2, Zenon DEF RunsPlain, Become
  <2>3. PlainCtx(ctx'[d]) = x
    BY <2>1, Zenon DEF PlainCtx
  <2>4. ran'[d][1] = cmd
    BY <2>2
  <2> HIDE DEF cmd, x
  <2> QED  BY <2>1, <2>2, <2>3, <2>4, Zenon DEF PlainRan
<1> QED  BY <1>1, <1>2, OnlyPlain, Zenon

(* After a step a context has the snapshot it had, or one of the store as  *)
(* it was, or none.                                                        *)
LEMMA Snapshots ==
  ASSUME Shapes, [Next]_vars, NEW d \in Clients, Phase(d)
  PROVE  LET x == ctx[d]
             y == ctx'[d] IN
         \/ y.base = x.base /\ y.snap = x.snap /\ (x.tx \/ pc[d] = "plain")
         \/ y.base = ver /\ y.snap = value
         \/ ~y.tx /\ pc'[d] # "plain"
<1> ctx[d] \in Contexts
  BY Zenon DEF Shapes
<1> EmptyCtx \in Contexts /\ ~EmptyCtx.tx
  BY EmptyTypes, Zenon DEF EmptyCtx
<1>1. CASE Same(d) \/ Rewatches(d) \/ Queues(d) \/ Drains(d)
  <2>1. ctx'[d] = ctx[d] /\ (pc'[d] = "plain" => pc[d] = "plain")
    BY <1>1, Zenon DEF Same, Rewatches, Queues, Drains, Become
  <2> QED  BY <2>1, Zenon
<1>2. CASE Starts(d) \/ Opens(d) \/ Forwards(d)
  <2>1. ctx[d] = EmptyCtx /\ pc'[d] # "plain"
    BY <1>2, Zenon DEF Starts, Opens, Forwards, Become, Phase
  <2>2. ctx'[d] = EmptyCtx \/ ctx'[d] = BeginTx(EmptyCtx)
    BY <1>2, <2>1, Zenon DEF Starts, Opens, Forwards, Become
  <2> QED  BY <2>1, <2>2, BeginFrame
<1>3. CASE Executes(d)
  <2>1. ctx[d].tx /\ \E cmd \in TxnCmds : ctx'[d] = runDataCommand(ctx[d], cmd)
    BY <1>3, Zenon DEF Executes, Become
  <2> QED  BY <2>1, RunFrame
<1>4. CASE Resets(d) \/ Retries(d) \/ Finishes(d)
  BY <1>4, Zenon DEF Resets, Retries, Finishes, Become
<1>5. CASE Checks(d)
  <2> DEFINE z == BeginTx(ctx[d])
  <2>1. ctx'[d] = CheckWatches(d, z)
    BY <1>5, Zenon DEF Checks, Become
  <2>2. z \in Contexts /\ ((z = ctx[d] /\ ctx[d].tx) \/ (z.snap = value /\ z.base = ver))
    BY BeginFrame, Zenon
  <2> HIDE DEF z
  <2>3. ctx'[d].snap = z.snap /\ ctx'[d].base = z.base
    BY <2>1, <2>2, CheckFrame
  <2> QED  BY <2>2, <2>3, Zenon
<1>6. CASE RunsPlain(d)
  BY <1>6, PlainSnapshot, Zenon
<1> QED  BY <1>1, <1>2, <1>3, <1>4, <1>5, <1>6, Moves, Zenon

(* Snapshots stay current.                                                 *)
LEMMA NextCurrent == IInv /\ [Next]_vars => \A d \in Clients : Current(d)'
<1> SUFFICES ASSUME IInv, [Next]_vars, NEW d \in Clients, NEW k \in Keys PROVE CurrentKey(d, k)'
  BY Zenon DEF Current
<1>1. Shapes /\ Phase(d) /\ CurrentKey(d, k)
  BY Zenon DEF IInv, Current
<1>2. /\ ver[k] \in Nat /\ ver'[k] \in Nat /\ ver[k] <= ver'[k]
      /\ ver'[k] = ver[k] => value'[k] = value[k]
  BY <1>1, StoreGrows, Zenon
<1>3. ctx[d].base[k] \in Nat
  BY <1>1, ZenonT(60) DEF Shapes, Contexts
<1>4. \/ /\ ctx'[d].base = ctx[d].base /\ ctx'[d].snap = ctx[d].snap
         /\ ctx[d].tx \/ pc[d] = "plain"
      \/ ctx'[d].base = ver /\ ctx'[d].snap = value
      \/ ~ctx'[d].tx /\ pc'[d] # "plain"
  BY <1>1, Snapshots, Zenon
<1> QED  BY <1>1, <1>2, <1>3, <1>4 DEF CurrentKey

(* Watched keys stay guarded.                                              *)
LEMMA NextGuarded == IInv /\ [Next]_vars => \A d \in Clients : Guarded(d)'
<1> SUFFICES ASSUME IInv, [Next]_vars, NEW d \in Clients, NEW k \in Keys PROVE GuardedKey(d, k)'
  BY Zenon DEF Guarded
<1>a. Shapes /\ Phase(d) /\ CurrentKey(d, k) /\ GuardedKey(d, k)
  BY Zenon DEF IInv, Current, Guarded
<1>b. ctx[d] \in Contexts /\ ctx'[d] \in Contexts
  BY <1>a, NextShapes, Zenon DEF Shapes
<1> ctx[d].base[k] \in Nat /\ ctx'[d].base[k] \in Nat
  BY <1>b, Zenon DEF Contexts
<1> watch[d][k] \in Nat \cup {-1} /\ Unwatched[k] = -1
  BY <1>a, Zenon DEF Shapes, Unwatched
<1> ver[k] \in Nat /\ ver'[k] \in Nat /\ ver[k] <= ver'[k]
  BY <1>a, StoreGrows, Zenon
<1>1. CASE Same(d) \/ Queues(d) \/ Drains(d) \/ Starts(d)
  <2>1. /\ ctx'[d] = ctx[d] /\ watch'[d] = watch[d] /\ InTransaction'[d] = InTransaction[d]
        /\ pc'[d] \in {"run", "flush"} => pc[d] \in {"run", "flush"}
    BY <1>1, Zenon DEF Same, Queues, Drains, Starts, Become
  <2> QED  BY <1>a, <2>1 DEF GuardedKey
<1>2. CASE Rewatches(d)
  <2>1. /\ ctx'[d] = ctx[d] /\ InTransaction'[d] = InTransaction[d] /\ pc'[d] = "idle"
        /\ watch'[d][k] = -1 \/ (~InTransaction[d] /\ watch'[d][k] \in {watch[d][k], ver[k]})
    BY <1>2, Zenon DEF Rewatches, Become
  <2> QED  BY <1>a, <2>1 DEF GuardedKey
<1>3. CASE Opens(d)
  <2>1. ctx[d] = EmptyCtx /\ watch'[d] = watch[d] /\ pc'[d] = "idle"
    BY <1>a, <1>3, Zenon DEF Opens, Phase, Become
  <2>2. ctx'[d] = EmptyCtx \/ ctx'[d] = BeginTx(EmptyCtx)
    BY <1>3, <2>1, Zenon DEF Opens, Become
  <2>3. ctx'[d].tx => ctx'[d].base = ver
    BY <1>a, <1>b, <2>1, <2>2, BeginFrame DEF EmptyCtx
  <2> QED  BY <1>a, <2>1, <2>3, SMTT(60) DEF GuardedKey
<1>4. CASE Executes(d)
  <2>1. ctx[d].tx /\ InTransaction[d] /\ watch'[d] = watch[d] /\ pc'[d] = pc[d]
    BY <1>4, Zenon DEF Executes, Become
  <2>2. \E cmd \in TxnCmds : ctx'[d] = runDataCommand(ctx[d], cmd)
    BY <1>4, Zenon DEF Executes, Become
  <2>3. ctx'[d].base = ctx[d].base /\ ctx[d].deps \subseteq ctx'[d].deps
    BY <1>b, <2>2, RunFrame
  <2> QED  BY <1>a, <2>1, <2>3, SMTT(60) DEF GuardedKey
<1>5. CASE Resets(d) \/ Retries(d) \/ Finishes(d)
  <2>1. /\ ~ctx'[d].tx /\ pc'[d] \notin {"run", "flush"}
        /\ watch'[d] = watch[d] \/ watch'[d] = Unwatched
    BY <1>5, SMTT(60) DEF Resets, Retries, Finishes, Become, EmptyCtx
  <2> QED  BY <1>a, <2>1, SMTT(60) DEF GuardedKey
<1>6. CASE Checks(d)
  <2> DEFINE x == BeginTx(ctx[d])
  <2>1. /\ ctx'[d] = CheckWatches(d, x) /\ InTransaction[d] /\ WatchesHold(d) /\ watch'[d] = watch[d]
    BY <1>6, Zenon DEF Checks, Become
  <2>2. x \in Contexts /\ ((x.base = ctx[d].base /\ ctx[d].tx) \/ x.base = ver)
    BY <1>a, <1>b, BeginFrame, Zenon
  <2> HIDE DEF x
  <2>3. ctx'[d].base = x.base /\ Watched(d) \subseteq ctx'[d].deps
    BY <2>1, <2>2, CheckFrame, SMTT(60)
  <2>4. watch[d][k] # -1 => k \in ctx'[d].deps /\ ver[k] = watch[d][k]
    BY <2>1, <2>3, Zenon DEF Watched, WatchesHold
  <2>5. ctx'[d].base[k] = ver[k] \/ (ctx'[d].base[k] = ctx[d].base[k] /\ ctx[d].tx)
    BY <2>2, <2>3, Zenon
  <2>6. watch[d][k] # -1 => ctx'[d].base[k] = watch[d][k]
    BY <1>a, <2>1, <2>4, <2>5, SMTT(60) DEF CurrentKey, GuardedKey
  <2> QED  BY <1>a, <2>1, <2>4, <2>6, SMTT(60) DEF GuardedKey
<1>7. CASE Forwards(d) \/ (RunsPlain(d) /\ InTransaction[d])
  <2>1. watch'[d] = Unwatched
    BY <1>a, <1>7, Zenon DEF Forwards, RunsPlain, Phase, Become
  <2> QED  BY <2>1, SMTT(60) DEF GuardedKey
<1>8. CASE RunsPlain(d) /\ ~InTransaction[d]
  <2>1. ~InTransaction'[d] /\ pc'[d] = "plain" /\ watch'[d] = watch[d]
    BY <1>8, Zenon DEF RunsPlain, Become
  <2> QED  BY <1>a, <2>1 DEF GuardedKey
<1> QED  BY <1>a, <1>1, <1>2, <1>3, <1>4, <1>5, <1>6, <1>7, <1>8, Moves, Zenon

(* While a client holds the lock of its key, no other plain command writes *)
(* the key, and nobody takes the lock.                                     *)
LEMMA LockFrame ==
  ASSUME IInv, [Next]_vars, NEW d \in Clients, pc[d] = "plain", pc'[d] = "plain",
         NEW k \in Keys, k = QueuedCmds[d][1].key
  PROVE  /\ lock'[k] = d
         /\ (ver'[k] = ver[k] /\ writer'[k] = writer[k]) \/ writer'[k] = "flush"
<1>1. /\ lock[k] = d /\ lock \in [Keys -> Clients \cup {Free}] /\ Free \notin Clients
      /\ pc \in [Clients -> {"idle", "run", "flush", "lock", "plain"}]
  BY FreeAssumption, Zenon DEF IInv, Shapes, Locked
<1>2. \A c \in Clients : pc[c] = "plain" => lock[QueuedCmds[c][1].key] = c /\ QueuedCmds[c][1].key \in Keys
  <2> SUFFICES ASSUME NEW c \in Clients, pc[c] = "plain"
               PROVE  lock[QueuedCmds[c][1].key] = c /\ QueuedCmds[c][1].key \in Keys
    BY Zenon
  <2>1. QueuedCmds[c][1] \in TxnCmds \cup PlainCmds
    BY PlainAccount, Zenon DEF IInv
  <2> QED  BY <2>1, Zenon DEF IInv, Locked, TxnCmds, PlainCmds
<1>3. lock'[k] = d
  <2>1. CASE lock' = lock
    BY <1>1, <2>1, Zenon
  <2>2. ASSUME NEW c \in Clients, PlainRun(c) PROVE lock'[k] = d
    <3>1. /\ lock' = [lock EXCEPT ![QueuedCmds[c][1].key] = c]
          /\ lock[QueuedCmds[c][1].key] \in {Free, c}
      BY <2>2, Zenon DEF PlainRun, KeyFree
    <3> QED  BY <1>1, <3>1, Zenon
  <2>3. ASSUME NEW c \in Clients, PlainFlush(c) PROVE lock'[k] = d
    <3>1. CASE lock' = lock
      BY <1>1, <3>1, Zenon
    <3>2. CASE lock' = [lock EXCEPT ![QueuedCmds[c][1].key] = Free] /\ pc' = [pc EXCEPT ![c] = "idle"]
      <4>1. c # d /\ pc[c] = "plain"
        BY <1>1, <2>3, <3>2, Zenon DEF PlainFlush
      <4>2. QueuedCmds[c][1].key # k
        BY <1>1, <1>2, <4>1, Zenon
      <4> QED  BY <1>1, <3>2, <4>2, Zenon
    <3> QED  BY <2>3, <3>1, <3>2, Zenon DEF PlainFlush, Goto
  <2>4. lock' = lock \/ \E c \in Clients : PlainRun(c) \/ PlainFlush(c)
    BY SMTT(60)
    DEF Next, vars, handleWatch, handleUnwatch, handleMulti, queueCommand, handleDiscard,
        ExecAbort, Disconnect, ExecBegin, ExecForward, ExecRun, ExecFlush, PlainStart
  <2> QED  BY <2>1, <2>2, <2>3, <2>4, Zenon
<1>4. (ver'[k] = ver[k] /\ writer'[k] = writer[k]) \/ writer'[k] = "flush"
  <2>1. CASE UNCHANGED store
    BY <2>1, Zenon DEF store
  <2>2. ASSUME NEW c \in Clients, pc[c] = "flush", Commit(c)
        PROVE  (ver'[k] = ver[k] /\ writer'[k] = writer[k]) \/ writer'[k] = "flush"
    BY <2>2, Zenon DEF Commit
  <2>3. ASSUME NEW c \in Clients, pc[c] = "plain", Commit(c), c # d
        PROVE  ver'[k] = ver[k] /\ writer'[k] = writer[k]
    <3>1. QueuedCmds[c][1].key # k /\ QueuedCmds[c][1].key \in Keys
      BY <1>1, <1>2, <2>3, Zenon
    <3> DEFINE cmd == QueuedCmds[c][1]
               x == ctx[c]
    <3>2. /\ x.del \subseteq {cmd.key}
          /\ x.add = NoEffects \/ x.add = [NoEffects EXCEPT ![cmd.key] = 1]
      BY <2>3, PlainAccount, Zenon DEF IInv
    <3> HIDE DEF cmd
    <3>3. cmd.key # k
      BY <3>1, Zenon DEF cmd
    <3>4. k \notin x.del /\ x.add[k] = 0
      BY <3>2, <3>3, Zenon DEF NoEffects
    <3>5. k \notin Written(x)
      BY <3>4 DEF Written
    <3> QED  BY <2>3, <3>5, Zenon DEF Commit
  <2>4. \/ UNCHANGED store
        \/ \E c \in Clients : c # d /\ pc[c] \in {"flush", "plain"} /\ Commit(c)
    BY <1>1, StoreSteps, Zenon DEF IInv
  <2> QED  BY <2>1, <2>2, <2>3, <2>4, Zenon
<1> QED  BY <1>3, <1>4, Zenon

(* A plain command keeps its lock until it is done.                        *)
LEMMA NextLocked == IInv /\ [Next]_vars => \A d \in Clients : Locked(d)'
<1> SUFFICES ASSUME IInv, [Next]_vars, NEW d \in Clients, pc'[d] = "plain" PROVE Locked(d)'
  BY Zenon DEF Locked
<1>1. Shapes /\ Phase(d) /\ PlainRan(d) /\ Locked(d)
  BY Zenon DEF IInv
<1>2. CASE Same(d)
  <2>1. pc[d] = "plain" /\ QueuedCmds'[d] = QueuedCmds[d] /\ ctx'[d] = ctx[d]
    BY <1>2, Zenon DEF Same, Become
  <2>2. PICK k \in Keys : k = QueuedCmds[d][1].key
    <3>1. QueuedCmds[d][1] \in TxnCmds \cup PlainCmds
      BY <1>1, <2>1, PlainAccount, Zenon
    <3> QED  BY <3>1, Zenon DEF TxnCmds, PlainCmds
  <2>3. /\ lock'[k] = d
        /\ (ver'[k] = ver[k] /\ writer'[k] = writer[k]) \/ writer'[k] = "flush"
    BY <2>1, <2>2, LockFrame, Zenon
  <2>4. ver[k] # ctx[d].base[k] => writer[k] = "flush"
    BY <1>1, <2>1, <2>2, Zenon DEF Locked
  <2> QED  BY <2>1, <2>2, <2>3, <2>4, Zenon DEF Locked
<1>3. CASE RunsPlain(d)
  <2>1. /\ lock'[QueuedCmds[d][1].key] = d /\ ver' = ver /\ QueuedCmds'[d] = QueuedCmds[d]
    BY <1>3, Zenon DEF RunsPlain, Become
  <2>2. ctx'[d].base = ver
    BY <1>1, <1>3, PlainSnapshot, Zenon
  <2> QED  BY <2>1, <2>2, Zenon DEF Locked
<1> QED  BY <1>1, <1>2, <1>3, OnlyPlain, Zenon

(* The store is empty and the clients are idle at the start.               *)
LEMMA InitIInv == Init => IInv
<1> SUFFICES ASSUME Init PROVE IInv
  BY Zenon
<1>1. NoEffects \in [Keys -> Nat] /\ EmptyCtx \in Contexts /\ Unwatched \in [Keys -> Nat \cup {-1}]
  BY EmptyTypes, Zenon DEF NoEffects
<1>2. Shapes
  BY <1>1 DEF Init, Shapes
<1>3. ASSUME NEW c \in Clients PROVE Phase(c) /\ PlainRan(c) /\ Current(c) /\ Guarded(c) /\ Locked(c)
  <2>1. /\ pc[c] = "idle" /\ ~InTransaction[c] /\ QueuedCmds[c] = <<>> /\ ctx[c] = EmptyCtx
        /\ ran[c] = <<>> /\ replies[c] = <<>> /\ watch[c] = Unwatched /\ ver = NoEffects
    BY Zenon DEF Init
  <2>2. ~EmptyCtx.tx
    BY Zenon DEF EmptyCtx
  <2>3. Guarded(c)
    BY <2>1 DEF Guarded, GuardedKey, NoEffects, Unwatched
  <2> QED  BY <2>1, <2>2, <2>3, Zenon DEF Phase, PlainRan, Current, CurrentKey, Locked
<1> QED  BY <1>2, <1>3, Zenon DEF IInv

(* Every step keeps the invariant.                                         *)
LEMMA NextIInv == IInv /\ [Next]_vars => IInv'
BY NextShapes, NextPhase, NextPlainRan, NextCurrent, NextGuarded, NextLocked, Zenon DEF IInv

(* The invariant is inductive.                                             *)
LEMMA InductiveInvariant == Spec => []IInv
BY InitIInv, NextIInv, PTL DEF Spec

(* Only an EXEC, which takes no lock, aborts a plain command: the per-key   *)
(* lock keeps plain commands from aborting each other.                      *)
THEOREM NoAbortStormAlways == Spec => []NoAbortStorm
<1>1. IInv => NoAbortStorm
  <2> SUFFICES ASSUME IInv, NEW c \in Clients, pc[c] = "plain", Conflict(ctx[c])
               PROVE  \E k \in ctx[c].deps : writer[k] = "flush"
    BY Zenon DEF NoAbortStorm
  <2>1. ctx[c].deps = {QueuedCmds[c][1].key}
    BY PlainAccount, Zenon DEF IInv
  <2>2. ver[QueuedCmds[c][1].key] # ctx[c].base[QueuedCmds[c][1].key]
    BY <2>1, Zenon DEF Conflict
  <2> QED  BY <2>1, <2>2, Zenon DEF IInv, Locked
<1> QED  BY <1>1, InductiveInvariant, PTL

(* The keys an EXEC that is applied had watched are at the versions they    *)
(* were watched at, in the state its Flush commits in.                      *)
THEOREM LocalWatchHoldsAlways == Spec => LocalWatchHolds
<1>1. IInv /\ [Next]_vars => [\A c \in Clients : ExecApplied(c) => HeldSince(watch[c])]_vars
  <2> SUFFICES ASSUME IInv, NEW c \in Clients, ExecApplied(c), NEW k \in Keys, watch[c][k] # -1
               PROVE  ver[k] = watch[c][k]
    BY Zenon DEF HeldSince
  <2>1. CASE pc[c] = "flush"
    <3>1. k \in ctx[c].deps /\ ctx[c].base[k] = watch[c][k] /\ ctx[c].tx
      BY <2>1, Zenon DEF IInv, Guarded, GuardedKey, Phase
    <3> QED  BY <3>1, Zenon DEF ExecApplied, Conflict
  <2>2. CASE pc[c] = "plain" /\ InTransaction[c]
    BY <2>2 DEF IInv, Phase, Unwatched
  <2> QED  BY <2>1, <2>2, Zenon DEF ExecApplied
<1> QED  BY <1>1, InductiveInvariant, PTL DEF LocalWatchHolds, Spec

-----------------------------------------------------------------------------
(* The blocking contexts of a connection. *)

\* What each control point of the executor knows about the two fields, which
\* are never written together: the order of the writes is in this table.
FlagsAt ==
    /\ stage \in {"wait", "unmark"} <=> blocked
    /\ IF stage = "idle" THEN unblockCancel = 0
                      ELSE unblockCancel = gen /\ gen # 0

\* A cancel function held by an admin is of this Block call or an older one; if
\* it is of this one, the admin's mode has been recorded.
HeldCancel ==
    \A a \in Admins :
        /\ admin[a].gen <= gen
        /\ (admin[a].at = "cancel" /\ admin[a].gen = gen) => admin[a].mode \in takenModes

\* The modes recorded for this Block call explain the flag and the cancellation.
TakenExplains ==
    /\ unblockError => "error" \in takenModes
    /\ "error" \in takenModes => (unblockError \/ "timeout" \in takenModes)
    /\ cancelMode # "none" => cancelMode \in takenModes

\* The inductive invariant.
ConnInv == ConnTypeOK /\ FlagsAt /\ HeldCancel /\ TakenExplains

-----------------------------------------------------------------------------
\* The initial state satisfies the inductive invariant.
LEMMA InitConnInv == ConnInit => ConnInv
<1> SUFFICES ASSUME ConnInit PROVE ConnInv
  BY Zenon
<1> USE MaxBlocksAssumption DEF ConnInit
<1>1. FlagTypes
  BY Zenon DEF FlagTypes
<1>2. ValueTypes
  BY DEF ValueTypes, NoCall, Calls, Modes
<1>3. FlagsAt
  BY Zenon DEF FlagsAt
<1>4. HeldCancel
  BY DEF HeldCancel, NoCall
<1>5. TakenExplains
  BY Zenon DEF TakenExplains
<1> QED
  BY <1>1, <1>2, <1>3, <1>4, <1>5, Zenon DEF ConnInv, ConnTypeOK

\* Every step of the executor and of every Unblock preserves it.
LEMMA NextConnInv == ConnInv /\ [ConnNext]_connVars => ConnInv'
<1> SUFFICES ASSUME ConnInv, [ConnNext]_connVars PROVE ConnInv'
  BY Zenon
<1>0. FlagTypes /\ ValueTypes /\ FlagsAt /\ HeldCancel /\ TakenExplains
  BY Zenon DEF ConnInv, ConnTypeOK
<1> USE MaxBlocksAssumption, <1>0 DEF flags, context
<1>1. CASE BlockEnter
  <2>1. FlagTypes'
    BY <1>1, Zenon DEF BlockEnter, ResetError, FlagTypes
  <2>2. ValueTypes'
    BY <1>1 DEF BlockEnter, ResetError, ValueTypes, Modes
  <2>3. FlagsAt'
    BY <1>1 DEF BlockEnter, ResetError, FlagsAt, ValueTypes
  <2>4. HeldCancel'
    BY <1>1 DEF BlockEnter, ResetError, HeldCancel, ValueTypes, Calls
  <2>5. TakenExplains'
    BY <1>1, Zenon DEF BlockEnter, ResetError, TakenExplains, ValueTypes, Modes
  <2> QED
    BY <2>1, <2>2, <2>3, <2>4, <2>5, Zenon DEF ConnInv, ConnTypeOK
<1>2. CASE BlockMark
  <2>1. FlagTypes'
    BY <1>2, Zenon DEF BlockMark, FlagTypes
  <2>2. ValueTypes'
    BY <1>2, Zenon DEF BlockMark, ValueTypes, Modes
  <2>3. FlagsAt'
    BY <1>2, Zenon DEF BlockMark, FlagsAt, ValueTypes
  <2>4. HeldCancel'
    BY <1>2, Zenon DEF BlockMark, HeldCancel, ValueTypes, Calls
  <2>5. TakenExplains'
    BY <1>2, Zenon DEF BlockMark, TakenExplains, ValueTypes, Modes
  <2> QED
    BY <2>1, <2>2, <2>3, <2>4, <2>5, Zenon DEF ConnInv, ConnTypeOK
<1>3. CASE Serve
  <2>1. FlagTypes'
    BY <1>3, Zenon DEF Serve, FlagTypes
  <2>2. ValueTypes'
    BY <1>3, Zenon DEF Serve, ValueTypes, Modes
  <2>3. FlagsAt'
    BY <1>3, Zenon DEF Serve, FlagsAt, ValueTypes
  <2>4. HeldCancel'
    BY <1>3, Zenon DEF Serve, HeldCancel, ValueTypes, Calls
  <2>5. TakenExplains'
    BY <1>3, Zenon DEF Serve, TakenExplains, ValueTypes, Modes
  <2> QED
    BY <2>1, <2>2, <2>3, <2>4, <2>5, Zenon DEF ConnInv, ConnTypeOK
<1>4. CASE LeaveCancelled
  <2>1. FlagTypes'
    BY <1>4, Zenon DEF LeaveCancelled, FlagTypes
  <2>2. ValueTypes'
    BY <1>4, Zenon DEF LeaveCancelled, ValueTypes, Modes
  <2>3. FlagsAt'
    BY <1>4, Zenon DEF LeaveCancelled, FlagsAt, ValueTypes
  <2>4. HeldCancel'
    BY <1>4, Zenon DEF LeaveCancelled, HeldCancel, ValueTypes, Calls
  <2>5. TakenExplains'
    BY <1>4, Zenon DEF LeaveCancelled, TakenExplains, ValueTypes, Modes
  <2> QED
    BY <2>1, <2>2, <2>3, <2>4, <2>5, Zenon DEF ConnInv, ConnTypeOK
<1>5. CASE Cleanup
  <2>1. FlagTypes'
    BY <1>5, Zenon DEF Cleanup, FlagTypes
  <2>2. ValueTypes'
    <3>1. /\ UNCHANGED <<gen, takenModes, cancelMode, outcome, admin>>
          /\ stage' \in {"clear", "idle"}
          /\ unblockCancel' \in {unblockCancel, 0}
      BY <1>5, Zenon DEF Cleanup
    <3> QED
      BY <3>1 DEF ValueTypes
  <2>3. FlagsAt'
    BY <1>5 DEF Cleanup, FlagsAt, ValueTypes
  <2>4. HeldCancel'
    BY <1>5, Zenon DEF Cleanup, HeldCancel, ValueTypes, Calls
  <2>5. TakenExplains'
    BY <1>5 DEF Cleanup, TakenExplains, ValueTypes, Modes
  <2> QED
    BY <2>1, <2>2, <2>3, <2>4, <2>5, Zenon DEF ConnInv, ConnTypeOK
<1>6. CASE Timeout
  <2>1. FlagTypes'
    BY <1>6, Zenon DEF Timeout, FlagTypes
  <2>2. ValueTypes'
    BY <1>6, Zenon DEF Timeout, ValueTypes, Modes
  <2>3. FlagsAt'
    BY <1>6, Zenon DEF Timeout, FlagsAt, ValueTypes
  <2>4. HeldCancel'
    BY <1>6, Zenon DEF Timeout, HeldCancel, ValueTypes, Calls
  <2>5. TakenExplains'
    BY <1>6, Zenon DEF Timeout, TakenExplains, ValueTypes, Modes
  <2> QED
    BY <2>1, <2>2, <2>3, <2>4, <2>5, Zenon DEF ConnInv, ConnTypeOK
<1>7. CASE Unregister
  <2>1. FlagTypes'
    BY <1>7, Zenon DEF Unregister, FlagTypes
  <2>2. ValueTypes'
    BY <1>7, Zenon DEF Unregister, ValueTypes, Modes
  <2>3. FlagsAt'
    BY <1>7, Zenon DEF Unregister, FlagsAt, ValueTypes
  <2>4. HeldCancel'
    BY <1>7, Zenon DEF Unregister, HeldCancel, ValueTypes, Calls
  <2>5. TakenExplains'
    BY <1>7, Zenon DEF Unregister, TakenExplains, ValueTypes, Modes
  <2> QED
    BY <2>1, <2>2, <2>3, <2>4, <2>5, Zenon DEF ConnInv, ConnTypeOK
<1>8. ASSUME NEW a \in Admins, Unblock(a) PROVE ConnInv'
  <2>1. ASSUME NEW m \in Modes, Lookup(a, m) PROVE ConnInv'
    <3>1. FlagTypes'
      BY <2>1, Zenon DEF Lookup, Step, FlagTypes
    <3>2. ValueTypes'
      BY <2>1 DEF Lookup, Step, ValueTypes, Modes, Calls
    <3>3. FlagsAt'
      BY <2>1, Zenon DEF Lookup, Step, FlagsAt, ValueTypes
    <3>4. HeldCancel'
      BY <2>1 DEF Lookup, Step, HeldCancel, ValueTypes, Calls
    <3>5. TakenExplains'
      BY <2>1, Zenon DEF Lookup, Step, TakenExplains, ValueTypes, Modes
    <3> QED
      BY <3>1, <3>2, <3>3, <3>4, <3>5, Zenon DEF ConnInv, ConnTypeOK
  <2>2. CASE LoadBlocked(a)
    <3>1. FlagTypes'
      BY <2>2, Zenon DEF LoadBlocked, Step, NoCall, FlagTypes
    <3>2. ValueTypes'
      BY <2>2 DEF LoadBlocked, Step, NoCall, ValueTypes, Modes, Calls
    <3>3. FlagsAt'
      BY <2>2, Zenon DEF LoadBlocked, Step, NoCall, FlagsAt, ValueTypes
    <3>4. HeldCancel'
      BY <2>2 DEF LoadBlocked, Step, NoCall, HeldCancel, ValueTypes, Calls
    <3>5. TakenExplains'
      BY <2>2, Zenon DEF LoadBlocked, Step, NoCall, TakenExplains, ValueTypes, Modes
    <3> QED
      BY <3>1, <3>2, <3>3, <3>4, <3>5, Zenon DEF ConnInv, ConnTypeOK
  <2>3. CASE TakeCancel(a)
    <3>0. /\ admin[a] \in Calls
          /\ admin[a].mode \in Modes
      BY Zenon DEF ValueTypes, Calls
    <3>1. FlagTypes'
      BY <2>3, Zenon DEF TakeCancel, Step, NoCall, FlagTypes
    <3>2. admin' \in [Admins -> Calls]
      <4>1. \/ admin' = [admin EXCEPT ![a] = NoCall]
            \/ admin' = [admin EXCEPT ![a] = [admin[a] EXCEPT !.at = "cancel",
                                                          !.gen = unblockCancel]]
        BY <2>3, Zenon DEF TakeCancel, Step
      <4>2. NoCall \in Calls
        BY DEF NoCall, Calls, Modes
      <4>3. [admin[a] EXCEPT !.at = "cancel", !.gen = unblockCancel] \in Calls
        BY <3>0, Zenon DEF Calls, ValueTypes
      <4> QED
        BY <4>1, <4>2, <4>3, Zenon DEF ValueTypes
    <3>3. ValueTypes'
      BY <2>3, <3>0, <3>2, Zenon DEF TakeCancel, ValueTypes
    <3>4. FlagsAt'
      BY <2>3, Zenon DEF TakeCancel, Step, NoCall, FlagsAt, ValueTypes
    <3>5. CASE unblockCancel = 0
      <4>1. /\ admin' = [admin EXCEPT ![a] = NoCall]
            /\ UNCHANGED <<gen, takenModes, unblockError, cancelMode>>
        BY <2>3, <3>5, Zenon DEF TakeCancel, Step
      <4>2. HeldCancel'
        BY <4>1 DEF NoCall, HeldCancel, ValueTypes, Calls
      <4>3. TakenExplains'
        BY <4>1, Zenon DEF TakenExplains
      <4> QED
        BY <3>1, <3>3, <3>4, <4>2, <4>3, Zenon DEF ConnInv, ConnTypeOK
    <3>6. CASE unblockCancel # 0
      <4>1. /\ admin' = [admin EXCEPT ![a] = [admin[a] EXCEPT !.at = "cancel",
                                                          !.gen = unblockCancel]]
            /\ takenModes' = takenModes \cup {admin[a].mode}
            /\ unblockError' = (admin[a].mode = "error")
            /\ UNCHANGED <<gen, cancelMode>>
        BY <2>3, <3>6, Zenon DEF TakeCancel, Step
      <4>2. unblockCancel <= gen
        BY <3>6 DEF FlagsAt, ValueTypes
      <4>3. HeldCancel'
        BY <3>0, <4>1, <4>2, Zenon DEF HeldCancel, ValueTypes, Calls
      <4>4. CASE admin[a].mode = "error"
        <5>1. unblockError' = TRUE /\ "error" \in takenModes'
          BY <4>1, <4>4, Zenon
        <5>2. TakenExplains'
          BY <4>1, <5>1, Zenon DEF TakenExplains
        <5> QED
          BY <3>1, <3>3, <3>4, <4>3, <5>2, Zenon DEF ConnInv, ConnTypeOK
      <4>5. CASE admin[a].mode = "timeout"
        <5>1. unblockError' = FALSE /\ "timeout" \in takenModes'
          BY <4>1, <4>5, Zenon
        <5>2. TakenExplains'
          BY <4>1, <5>1, Zenon DEF TakenExplains
        <5> QED
          BY <3>1, <3>3, <3>4, <4>3, <5>2, Zenon DEF ConnInv, ConnTypeOK
      <4> QED
        BY <3>0, <4>4, <4>5, Zenon DEF Modes
    <3> QED
      BY <3>5, <3>6, Zenon
  <2>4. CASE CallCancel(a)
    <3>1. FlagTypes'
      BY <2>4, Zenon DEF CallCancel, Step, FlagTypes
    <3>2. ValueTypes'
      BY <2>4 DEF CallCancel, Step, ValueTypes, Modes, Calls
    <3>3. FlagsAt'
      BY <2>4, Zenon DEF CallCancel, Step, FlagsAt, ValueTypes
    <3>4. HeldCancel'
      BY <2>4, Zenon DEF CallCancel, Step, HeldCancel, ValueTypes, Calls
    <3>5. TakenExplains'
      BY <2>4, Zenon
      DEF CallCancel, Step, TakenExplains, HeldCancel, ValueTypes, Modes, Calls
    <3> QED
      BY <3>1, <3>2, <3>3, <3>4, <3>5, Zenon DEF ConnInv, ConnTypeOK
  <2> QED
    BY <1>8, <2>1, <2>2, <2>3, <2>4, Zenon DEF Unblock
<1>9. CASE UNCHANGED connVars
  <2>1. FlagTypes'
    BY <1>9, Zenon DEF connVars, FlagTypes
  <2>2. ValueTypes'
    BY <1>9, Zenon DEF connVars, ValueTypes, Modes
  <2>3. FlagsAt'
    BY <1>9, Zenon DEF connVars, FlagsAt, ValueTypes
  <2>4. HeldCancel'
    BY <1>9, Zenon DEF connVars, HeldCancel, ValueTypes, Calls
  <2>5. TakenExplains'
    BY <1>9, Zenon DEF connVars, TakenExplains, ValueTypes, Modes
  <2> QED
    BY <2>1, <2>2, <2>3, <2>4, <2>5, Zenon DEF ConnInv, ConnTypeOK
<1> QED
  BY <1>1, <1>2, <1>3, <1>4, <1>5, <1>6, <1>7, <1>8, <1>9, Zenon DEF ConnNext, Executor

\* The inductive invariant holds in every reachable state.
LEMMA ConnInvariant == ConnSpec => []ConnInv
BY InitConnInv, NextConnInv, PTL DEF ConnSpec

-----------------------------------------------------------------------------
\* Every variable of Connection's blocking state keeps its type.
THEOREM TypeCorrect == ConnSpec => []ConnTypeOK
BY ConnInvariant, PTL DEF ConnInv

\* Whenever blocked is up, the cancel function of the current Block call is in
\* place: the order of the writes in Block and in its cleanup is sufficient.
THEOREM BlockedHasCancelAlways == ConnSpec => []BlockedHasCancel
<1>1. ConnInv => BlockedHasCancel
  BY Zenon DEF ConnInv, FlagsAt, BlockedHasCancel, ConnTypeOK, ValueTypes
<1> QED
  BY <1>1, ConnInvariant, PTL

\* unblockError is never left over from an earlier command, whatever Unblock
\* calls are still in flight when the next command blocks.
THEOREM ErrorFlagIsCurrentAlways == ConnSpec => []ErrorFlagIsCurrent
<1>1. ConnInv => ErrorFlagIsCurrent
  BY Zenon DEF ConnInv, TakenExplains, ErrorFlagIsCurrent
<1> QED
  BY <1>1, ConnInvariant, PTL

\* A command cancelled by CLIENT UNBLOCK ERROR finds the error flag up, unless a
\* competing CLIENT UNBLOCK TIMEOUT took the same cancel function.
THEOREM ErrorReportedAlways == ConnSpec => []ErrorReported
<1>1. ConnInv => ErrorReported
  BY Zenon DEF ConnInv, TakenExplains, ErrorReported
<1> QED
  BY <1>1, ConnInvariant, PTL

-----------------------------------------------------------------------------
(* Stream IDs. *)


\* StreamID.Compare orders the IDs totally: of two different IDs exactly one is
\* before the other, and "before" is transitive.
LEMMA BeforeIsTotal ==
    ASSUME NEW a \in StreamID, NEW b \in StreamID, NEW c \in StreamID
    PROVE  /\ ~ (Before(a, b) /\ Before(b, a))
           /\ a = b \/ Before(a, b) \/ Before(b, a)
           /\ Before(a, b) /\ Before(b, c) => Before(a, c)
<1>1. /\ a[1] \in Nat /\ a[2] \in Nat /\ b[1] \in Nat /\ b[2] \in Nat
      /\ c[1] \in Nat /\ c[2] \in Nat
  BY WidthAssumption DEF StreamID
<1>2. a[1] = b[1] /\ a[2] = b[2] => a = b
  BY DEF StreamID
<1>3. a = b \/ Before(a, b) \/ Before(b, a)
  BY <1>1, <1>2 DEF Before
<1>4. ~ (Before(a, b) /\ Before(b, a))
  BY <1>1 DEF Before
<1>5. Before(a, b) /\ Before(b, c) => Before(a, c)
  BY <1>1 DEF Before
<1>. QED  BY <1>3, <1>4, <1>5, Zenon

\* generateStreamID, the "*" of XADD, returns an ID that is above the last one at
\* any clock time, unless no larger ID exists: a clock that stands still or goes
\* back and a sequence number at its largest included.
THEOREM AutoIDsAscend ==
    ASSUME NEW last \in StreamID, NEW now \in 0 .. MaxMs, last # MaxStreamID
    PROVE  /\ generateStreamID(last, now) \in StreamID
           /\ Before(last, generateStreamID(last, now))
<1>1. last[1] \in 0 .. MaxMs /\ last[2] \in 0 .. MaxSeq /\ last = <<last[1], last[2]>>
  BY DEF StreamID
<1>2. CASE now > last[1]
  <2>1. generateStreamID(last, now) = <<now, 0>>
    BY <1>1, <1>2, WidthAssumption DEF generateStreamID
  <2>. QED  BY <1>1, <1>2, <2>1, WidthAssumption DEF StreamID, Before
<1>3. CASE ~ (now > last[1]) /\ last[2] < MaxSeq
  <2>1. generateStreamID(last, now) = <<last[1], last[2] + 1>>
    BY <1>1, <1>3, WidthAssumption DEF generateStreamID
  <2>. QED  BY <1>1, <1>3, <2>1, WidthAssumption DEF StreamID, Before
<1>4. CASE ~ (now > last[1]) /\ ~ (last[2] < MaxSeq)
  <2>1. last[2] = MaxSeq
    BY <1>1, <1>4, WidthAssumption
  <2>2. last[1] < MaxMs
    BY <1>1, <2>1, WidthAssumption DEF MaxStreamID
  <2>3. generateStreamID(last, now) = <<(last[1] + 1) % (MaxMs + 1), 0>>
    BY <1>1, <1>4, WidthAssumption, Zenon DEF generateStreamID
  <2>4. (last[1] + 1) % (MaxMs + 1) = last[1] + 1
    BY <1>1, <2>2, WidthAssumption
  <2>. QED  BY <1>1, <2>2, <2>3, <2>4, WidthAssumption DEF StreamID, Before
<1>. QED  BY <1>2, <1>3, <1>4, Zenon

\* When no larger ID exists, "*" gives 0-0 at any clock time, the result handleXAdd
\* turns into an error: a stream that is full stays as it is.
THEOREM FullStreamRefusesAutoID ==
    ASSUME NEW now \in 0 .. MaxMs
    PROVE  generateStreamID(MaxStreamID, now) = MinStreamID
<1>1. generateStreamID(MaxStreamID, now) = <<(MaxMs + 1) % (MaxMs + 1), 0>>
  BY WidthAssumption DEF generateStreamID, MaxStreamID
<1>2. (MaxMs + 1) % (MaxMs + 1) = 0
  BY WidthAssumption
<1>. QED  BY <1>1, <1>2, Zenon DEF MinStreamID

\* The IDs of "ms-*" either ascend or are refused by the comparison with the last
\* ID that XADD makes; the sequence number of a full millisecond wraps to the
\* start of it and never reaches the next one.
THEOREM PartialIDsStayInTheirMillisecond ==
    ASSUME NEW last \in StreamID, NEW ms \in 0 .. MaxMs,
           Before(last, generateStreamIDWithMs(last, ms))
    PROVE  /\ generateStreamIDWithMs(last, ms)[1] = ms
           /\ ms = last[1] => generateStreamIDWithMs(last, ms)[2] = last[2] + 1
<1>1. last[1] \in 0 .. MaxMs /\ last[2] \in 0 .. MaxSeq
  BY Zenon DEF StreamID
<1>2. CASE ms > last[1]
  BY <1>1, <1>2, WidthAssumption DEF generateStreamIDWithMs
<1>3. CASE ms = last[1]
  <2>1. generateStreamIDWithMs(last, ms) = <<ms, (last[2] + 1) % (MaxSeq + 1)>>
    BY <1>1, <1>3, WidthAssumption DEF generateStreamIDWithMs
  <2>2. CASE last[2] < MaxSeq
    <3>1. (last[2] + 1) % (MaxSeq + 1) = last[2] + 1
      BY <1>1, <2>2, WidthAssumption
    <3>. QED  BY <2>1, <3>1
  <2>3. CASE last[2] = MaxSeq
    <3>1. (last[2] + 1) % (MaxSeq + 1) = 0
      BY <2>3, WidthAssumption
    <3>2. ~ Before(last, generateStreamIDWithMs(last, ms))
      BY <1>1, <1>3, <2>1, <3>1, WidthAssumption DEF Before
    <3>. QED  BY <3>2, Zenon
  <2>. QED  BY <1>1, <2>2, <2>3, WidthAssumption
<1>4. CASE ms < last[1]
  <2>1. generateStreamIDWithMs(last, ms) = <<0, 0>>
    BY <1>1, <1>4, WidthAssumption DEF generateStreamIDWithMs, MinStreamID
  <2>2. ~ Before(last, generateStreamIDWithMs(last, ms))
    BY <1>1, <1>4, <2>1, WidthAssumption DEF Before
  <2>. QED  BY <2>2, Zenon
<1>. QED  BY <1>1, <1>2, <1>3, <1>4, WidthAssumption
=============================================================================
