------------------------------ MODULE Blocking ------------------------------
(***************************************************************************)
(* The blocking commands of the Redis front end: BLPOP/BRPOP, BLMPOP,      *)
(* BLMOVE/BRPOPLPUSH, BZPOPMIN/BZPOPMAX and BZMPOP, on top of              *)
(*   - the SubscriptionManager (redis/shared/blocking.go): one FIFO topic  *)
(*     of waiters per key, a one-slot wake signal per waiter;              *)
(*   - the ConnHandler path of Handler.ExecuteInto (redis/handler.go): run *)
(*     the handler, Flush, and run it again when the transaction aborted.  *)
(* Connection.Block/Unblock is the module ConnBlock; here a blocking       *)
(* context is one flag, cancelled by a timeout, a disconnect or CLIENT     *)
(* UNBLOCK alike (CtxDone).                                                *)
(* The effects engine is external.  It is modelled from its use: a         *)
(* transaction that named the tips of a key (a Noop effect with tips)      *)
(* aborts when another flush changed that key after the snapshot; removals *)
(* are by element identity; the callbacks OnKeyDataAdded and OnKeyDeleted  *)
(* run after the flush is visible, in the goroutine that flushed.          *)
(***************************************************************************)
EXTENDS Naturals, Sequences, FiniteSets

CONSTANTS
    Clients,     \* connections that issue blocking commands
    Producers,   \* connections, or the replication receiver, that add and delete data
    Keys,
    Elems,       \* list elements; as a sorted-set member an element is its own score
    StringKeys,  \* keys that may hold a string (the wrong type) at the start
    Commands,    \* the blocking commands clients may issue, each of CommandShape
    MaxCalls,    \* commands per client (a bound of the model)
    MaxRetries,  \* maxTxnRetries of ExecuteInto (10 in the code)
    Nil          \* an emptied slot of Topic.waiters, and "no transaction"

Ends == {"first", "last"}
PopOps == {"lpop", "lmpop", "zpop", "zmpop"}
MoveOps == {"lmove", "rpoplpush"}

CommandShape ==
    [op: PopOps \cup MoveOps, keys: Seq(Keys), dst: Keys, from: Ends, to: Ends,
     count: Nat \ {0}, timeout: BOOLEAN]

ASSUME ConstantsAssumption ==
    /\ Elems \subseteq Nat
    /\ Clients \cap Producers = {}
    /\ Nil \notin Clients
    /\ StringKeys \subseteq Keys
    /\ MaxCalls \in Nat /\ MaxRetries \in Nat
    /\ Commands # {}
    /\ \A m \in Commands : m \in CommandShape /\ m.keys # << >>

VARIABLES
    type,     \* type[k]: the type of the value at k
    vals,     \* vals[k]: its elements, in list order or in score order
    pushed,   \* elements some producer has added
    popped,   \* popped[e]: replies that carried e out of the store
    deleted,  \* elements a DEL destroyed
    queue,    \* queue[k]: Topic.waiters, a client or Nil per slot
    alive,    \* alive[c]: Waiter.alive of c's current registration
    signal,   \* signal[c]: its wake channel holds a signal
    done,     \* done[c]: its blocking context is cancelled
    sawEmpty, \* sawEmpty[c]: keys c found empty while first in line
    cmd, pc, idx, attempt, calls,
    pend,     \* pend[c]: the open transaction of c, or Nil
    moved,    \* moved[c]: keys that other flushes changed since c read them
    todo,     \* todo[p]: engine callbacks p has still to run
    reply     \* reply[c]: outcome of c's last finished command

store == <<type, vals, pushed, popped, deleted>>
waiter == <<queue, alive, signal, done, sawEmpty>>
control == <<cmd, idx, attempt, calls, reply>>
vars == <<store, waiter, control, pc, pend, moved, todo>>

InCommand == {"reg", "try", "pop", "wait"}
Procs == Clients \cup Producers

Init ==
    /\ \E S \in SUBSET StringKeys :
          type = [k \in Keys |-> IF k \in S THEN "string" ELSE "none"]
    /\ vals = [k \in Keys |-> << >>]
    /\ pushed = {} /\ deleted = {}
    /\ popped = [e \in Elems |-> 0]
    /\ queue = [k \in Keys |-> << >>]
    /\ alive = [c \in Clients |-> FALSE]
    /\ signal = [c \in Clients |-> FALSE]
    /\ done = [c \in Clients |-> FALSE]
    /\ sawEmpty = [c \in Clients |-> {}]
    /\ cmd = [c \in Clients |-> CHOOSE m \in Commands : TRUE]
    /\ pc = [c \in Clients |-> "idle"]
    /\ idx = [c \in Clients |-> 1]
    /\ attempt = [c \in Clients |-> 0]
    /\ calls = [c \in Clients |-> 0]
    /\ pend = [c \in Clients |-> Nil]
    /\ moved = [c \in Clients |-> {}]
    /\ todo = [p \in Procs |-> << >>]
    /\ reply = [c \in Clients |-> "none"]

-----------------------------------------------------------------------------
(* The subscription manager *)

IsLive(s) == s # Nil /\ alive[s]

\* The first live waiter of the topic of k, as a set of at most one client.
Oldest(k) ==
    {queue[k][i] : i \in {j \in DOMAIN queue[k] :
        /\ IsLive(queue[k][j])
        /\ \A h \in 1..(j - 1) : ~IsLive(queue[k][h])}}

\* Faulty form: no arrival order.
IsOldestWaiterAlways(c, k) == TRUE

IsOldestWaiter(c, k) == Oldest(k) = {} \/ c \in Oldest(k)

LiveWaiters(k) == {c \in Clients : alive[c] /\ \E i \in DOMAIN queue[k] : queue[k][i] = c}

\* Faulty forms: OnKeyDataAdded not wired; the newest waiter is signalled.
SignalledOnDeleteOnly(n) == IF n.all THEN LiveWaiters(n.key) ELSE {}
SignalledNewest(n) ==
    IF n.all THEN LiveWaiters(n.key)
    ELSE {queue[n.key][i] : i \in {j \in DOMAIN queue[n.key] :
            /\ IsLive(queue[n.key][j])
            /\ \A h \in DOMAIN queue[n.key] : h > j => ~IsLive(queue[n.key][h])}}

\* The clients a notification signals; a full channel keeps its one signal.
Signalled(n) == IF n.all THEN LiveWaiters(n.key) ELSE Oldest(n.key)

Deliver(n) == signal' = [c \in Clients |-> signal[c] \/ c \in Signalled(n)]

\* Faulty form: only the first channel of the registration is left.
CancelFirstOnly(c) ==
    /\ alive' = [alive EXCEPT ![c] = FALSE]
    /\ queue' = [queue EXCEPT ![cmd[c].keys[1]] =
                   [i \in DOMAIN @ |-> IF @[i] = c THEN Nil ELSE @[i]]]
    /\ signal' = [signal EXCEPT ![c] = FALSE]

\* remove: the slot becomes nil, once per channel of the registration.
\* alive is cleared first and every reader skips dead slots, so the whole of
\* Cancel is one step.
Cancel(c) ==
    /\ alive' = [alive EXCEPT ![c] = FALSE]
    /\ queue' = [k \in Keys |-> [i \in DOMAIN queue[k] |->
                   IF queue[k][i] = c THEN Nil ELSE queue[k][i]]]
    /\ signal' = [signal EXCEPT ![c] = FALSE]

-----------------------------------------------------------------------------
(* The store *)

ElemsIn(s) == {s[i] : i \in DOMAIN s}

\* zsetSortedMembers: members in score order.
InsertByScore(s, e) ==
    SelectSeq(s, LAMBDA x : x < e) \o <<e>> \o SelectSeq(s, LAMBDA x : x > e)

Insert(t, s, e, end) ==
    CASE t = "zset" -> InsertByScore(s, e)
      [] t = "list" /\ end = "first" -> <<e>> \o s
      [] OTHER -> Append(s, e)

\* The n elements taken from one end, in the order they are popped.
Take(s, n, end) ==
    LET m == IF n < Len(s) THEN n ELSE Len(s)
    IN  [i \in 1..m |-> IF end = "first" THEN s[i] ELSE s[Len(s) + 1 - i]]

TypeOf(t, s) == IF s = << >> THEN "none" ELSE t

\* A flush by p changed the keys K; only an open transaction can be hurt by it.
Touch(p, K) ==
    moved' = [c \in Clients |->
                IF c = p \/ pend[c] = Nil THEN {} ELSE moved[c] \cup K]

-----------------------------------------------------------------------------
(* The handlers *)

ExpectedType(m) == IF m.op \in {"zpop", "zmpop"} THEN "zset" ELSE "list"
Key(c) == cmd[c].keys[idx[c]]
Available(c, k) == type[k] = ExpectedType(cmd[c])
WrongType(m, k) == type[k] \notin {"none", ExpectedType(m)}
Start(m) == IF m.op \in MoveOps THEN "reg" ELSE "check"

Goto(c, l) == pc' = [pc EXCEPT ![c] = l]

\* The loop over the keys of the command: the next one, or the label after it.
NextKey(c, l, after) ==
    IF idx[c] < Len(cmd[c].keys)
    THEN Goto(c, l) /\ idx' = [idx EXCEPT ![c] = @ + 1]
    ELSE Goto(c, after) /\ idx' = [idx EXCEPT ![c] = 1]

Finish(c, r) == Goto(c, "idle") /\ reply' = [reply EXCEPT ![c] = r]

\* A client sends a command.
Call(c) ==
    /\ pc[c] = "idle" /\ calls[c] < MaxCalls
    /\ calls' = [calls EXCEPT ![c] = @ + 1]
    /\ attempt' = [attempt EXCEPT ![c] = 0]
    /\ idx' = [idx EXCEPT ![c] = 1]
    /\ \E m \in Commands : cmd' = [cmd EXCEPT ![c] = m] /\ Goto(c, Start(m))
    /\ UNCHANGED <<store, waiter, reply, pend, moved, todo>>

\* The WRONGTYPE check before blocking, one snapshot per key.
CheckType(c) ==
    /\ pc[c] = "check"
    /\ IF WrongType(cmd[c], Key(c))
       THEN Finish(c, "wrongtype") /\ UNCHANGED idx
       ELSE NextKey(c, "check", "reg") /\ UNCHANGED reply
    /\ UNCHANGED <<store, waiter, cmd, attempt, calls, pend, moved, todo>>

\* conn.Block and Register: a fresh context and waiter, appended to the topic
\* of each key in turn.
Register(c) ==
    /\ pc[c] = "reg"
    /\ queue' = [queue EXCEPT ![Key(c)] = Append(@, c)]
    /\ IF idx[c] = 1
       THEN /\ alive' = [alive EXCEPT ![c] = TRUE]
            /\ signal' = [signal EXCEPT ![c] = FALSE]
            /\ done' = [done EXCEPT ![c] = FALSE]
            /\ sawEmpty' = [sawEmpty EXCEPT ![c] = {}]
       ELSE UNCHANGED <<alive, signal, done, sawEmpty>>
    /\ NextKey(c, "reg", "try")
    /\ UNCHANGED <<store, cmd, attempt, calls, reply, pend, moved, todo>>

\* tryPop and its siblings first ask whether the registration is first in line.
FirstInLine(c) ==
    /\ pc[c] = "try"
    /\ IF IsOldestWaiter(c, Key(c))
       THEN Goto(c, "pop") /\ UNCHANGED idx
       ELSE NextKey(c, "try", "wait")
    /\ UNCHANGED <<store, waiter, cmd, attempt, calls, reply, pend, moved, todo>>

\* The keys whose tips a pop names in its Noop effect; faulty form: none.
NoTips(k) == {}
Tips(k) == {k}

\* Then they read a snapshot.  With data they open a transaction that depends
\* on the tips they read and removes n elements; the handler cancels the
\* registration and leaves the reply in the output buffer.
PopFrom(c, n) ==
    LET k == Key(c)
    IN  /\ pc[c] = "pop"
        /\ IF Available(c, k)
           THEN /\ pend' = [pend EXCEPT ![c] =
                      [src |-> k, elems |-> Take(vals[k], n, cmd[c].from),
                       deps |-> Tips(k), dst |-> k, move |-> FALSE, to |-> "last"]]
                /\ Cancel(c)
                /\ Goto(c, "flush")
                /\ UNCHANGED <<sawEmpty, idx>>
           ELSE /\ sawEmpty' = [sawEmpty EXCEPT ![c] = @ \cup {k}]
                /\ NextKey(c, "try", "wait")
                /\ UNCHANGED <<pend, queue, alive, signal>>
        /\ UNCHANGED <<store, done, cmd, attempt, calls, reply, moved, todo>>

tryPop(c) == cmd[c].op = "lpop" /\ PopFrom(c, 1)
tryMultiPop(c) == cmd[c].op = "lmpop" /\ PopFrom(c, cmd[c].count)
tryZPop(c) == cmd[c].op = "zpop" /\ PopFrom(c, 1)
tryZMPop(c) == cmd[c].op = "zmpop" /\ PopFrom(c, cmd[c].count)

\* reg.Wait: a select over the wake channel and the context.  When both are
\* ready either branch may run.
WaitWoken(c) ==
    /\ pc[c] = "wait" /\ signal[c]
    /\ signal' = [signal EXCEPT ![c] = FALSE]
    /\ Goto(c, "try")
    /\ UNCHANGED <<store, queue, alive, done, sawEmpty, control, pend, moved, todo>>

WaitCancelled(c) ==
    /\ pc[c] = "wait" /\ done[c]
    /\ Cancel(c)
    /\ Finish(c, "nil")
    /\ UNCHANGED <<store, done, sawEmpty, cmd, idx, attempt, calls, pend, moved, todo>>

Wait(c) == WaitWoken(c) \/ WaitCancelled(c)

\* CancelAndRenotify: Cancel, then Notify on each channel of the registration.
CancelAndRenotify(c) ==
    /\ Cancel(c)
    /\ todo' = [todo EXCEPT ![c] =
                  [i \in DOMAIN cmd[c].keys |-> [all |-> FALSE, key |-> cmd[c].keys[i]]]]

\* doLMove inside the loop of BLMOVE: it never asks whether it is first in line.
doLMove(c) ==
    LET src == Key(c)
        dst == cmd[c].dst
        badDst == dst # src /\ WrongType(cmd[c], dst)
    IN  /\ pc[c] = "try"
        /\ \/ /\ type[src] = "none"                \* nothing to move: wait
              /\ Goto(c, "wait")
              /\ sawEmpty' = [sawEmpty EXCEPT ![c] =
                                IF c \in Oldest(src) THEN @ \cup {src} ELSE @]
              /\ UNCHANGED <<queue, alive, signal, pend, todo, reply>>
           \/ /\ WrongType(cmd[c], src) \/ (type[src] = "list" /\ badDst)
              /\ CancelAndRenotify(c)
              /\ Goto(c, "notify")
              /\ reply' = [reply EXCEPT ![c] = "wrongtype"]
              /\ UNCHANGED <<sawEmpty, pend>>
           \/ /\ type[src] = "list" /\ ~badDst
              /\ pend' = [pend EXCEPT ![c] =
                    [src |-> src, elems |-> Take(vals[src], 1, cmd[c].from),
                     deps |-> Tips(src) \cup (IF type[dst] = "none" THEN {} ELSE {dst}),
                     dst |-> dst, move |-> TRUE, to |-> cmd[c].to]]
              /\ Cancel(c)
              /\ Goto(c, "flush")
              /\ UNCHANGED <<sawEmpty, todo, reply>>
        /\ UNCHANGED <<store, done, cmd, idx, attempt, calls, moved>>

-----------------------------------------------------------------------------
(* Flush, retry and the engine's callbacks *)

MayRetry(c) == attempt[c] < MaxRetries

Conflict(c) == moved[c] \cap pend[c].deps # {}

\* ErrTxnAborted: the output is truncated and the whole handler runs again, up
\* to MaxRetries times; then the client is told to try again.
FlushAborted(c) ==
    /\ pc[c] = "flush" /\ Conflict(c)
    /\ pend' = [pend EXCEPT ![c] = Nil]
    /\ moved' = [moved EXCEPT ![c] = {}]
    /\ idx' = [idx EXCEPT ![c] = 1]
    /\ IF MayRetry(c)
       THEN /\ Goto(c, Start(cmd[c]))
            /\ attempt' = [attempt EXCEPT ![c] = @ + 1]
            /\ UNCHANGED reply
       ELSE Finish(c, "tryagain") /\ UNCHANGED attempt
    /\ UNCHANGED <<store, waiter, cmd, calls, todo>>

\* Whether a removal that empties a key also fires OnKeyDeleted is the
\* engine's choice.
FlushCommitted(c) ==
    LET t == pend[c]
        left == SelectSeq(vals[t.src], LAMBDA e : e \notin ElemsIn(t.elems))
        after == [vals EXCEPT ![t.src] = left]
        final == IF t.move
                 THEN [after EXCEPT ![t.dst] = Insert("list", @, t.elems[1], t.to)]
                 ELSE after
        newType == [k \in Keys |->
                      IF t.move /\ k = t.dst THEN "list"
                      ELSE IF k = t.src THEN TypeOf(type[k], final[k])
                      ELSE type[k]]
        added == IF t.move THEN <<[all |-> FALSE, key |-> t.dst]>> ELSE << >>
        emptied == IF newType[t.src] = "none" THEN <<[all |-> TRUE, key |-> t.src]>> ELSE << >>
    IN  /\ pc[c] = "flush" /\ ~Conflict(c)
        /\ vals' = final
        /\ type' = newType
        /\ popped' = [e \in Elems |->
                        popped[e] + IF ~t.move /\ e \in ElemsIn(t.elems) THEN 1 ELSE 0]
        /\ pend' = [pend EXCEPT ![c] = Nil]
        /\ Touch(c, {t.src, t.dst})
        /\ reply' = [reply EXCEPT ![c] = "data"]
        /\ \E calls_ \in {added, added \o emptied} :
              /\ todo' = [todo EXCEPT ![c] = calls_]
              /\ Goto(c, IF calls_ = << >> THEN "idle" ELSE "notify")
        /\ UNCHANGED <<pushed, deleted, waiter, cmd, idx, attempt, calls>>

Flush(c) == FlushAborted(c) \/ FlushCommitted(c)

\* OnKeyDataAdded -> Notify, OnKeyDeleted -> NotifyAllWaiters, one at a time.
RunCallback(p) ==
    /\ todo[p] # << >>
    /\ Deliver(Head(todo[p]))
    /\ todo' = [todo EXCEPT ![p] = Tail(@)]
    /\ IF p \in Clients /\ Tail(todo[p]) = << >> THEN Goto(p, "idle") ELSE UNCHANGED pc
    /\ UNCHANGED <<store, queue, alive, done, sawEmpty, control, pend, moved>>

\* LPUSH, RPUSH or ZADD of one new element, locally or as a replicated effect.
Push(p, k, e, t, end) ==
    /\ todo[p] = << >>
    /\ e \in Elems \ pushed
    /\ type[k] \in {"none", t}
    /\ pushed' = pushed \cup {e}
    /\ vals' = [vals EXCEPT ![k] = Insert(t, @, e, end)]
    /\ type' = [type EXCEPT ![k] = t]
    /\ Touch(p, {k})
    /\ todo' = [todo EXCEPT ![p] = <<[all |-> FALSE, key |-> k]>>]
    /\ UNCHANGED <<popped, deleted, waiter, control, pc, pend>>

\* DEL.
Del(p, k) ==
    /\ todo[p] = << >>
    /\ type[k] # "none"
    /\ deleted' = deleted \cup ElemsIn(vals[k])
    /\ vals' = [vals EXCEPT ![k] = << >>]
    /\ type' = [type EXCEPT ![k] = "none"]
    /\ Touch(p, {k})
    /\ todo' = [todo EXCEPT ![p] = <<[all |-> TRUE, key |-> k]>>]
    /\ UNCHANGED <<pushed, popped, waiter, control, pc, pend>>

\* The timeout of the command fires, its connection drops, or CLIENT UNBLOCK.
CtxDone(c) ==
    /\ alive[c] /\ cmd[c].timeout /\ ~done[c]
    /\ done' = [done EXCEPT ![c] = TRUE]
    /\ UNCHANGED <<store, queue, alive, signal, sawEmpty, control, pc, pend, moved, todo>>

-----------------------------------------------------------------------------
PopLoop(c) == CheckType(c) \/ Register(c) \/ FirstInLine(c) \/ Wait(c)
MoveLoop(c) == Register(c) \/ doLMove(c) \/ Wait(c)

handleBlockingPop(c) == cmd[c].op = "lpop" /\ (PopLoop(c) \/ tryPop(c))
handleBLMPop(c) == cmd[c].op = "lmpop" /\ (PopLoop(c) \/ tryMultiPop(c))
handleBlockingZPop(c) == cmd[c].op = "zpop" /\ (PopLoop(c) \/ tryZPop(c))
handleBZMPop(c) == cmd[c].op = "zmpop" /\ (PopLoop(c) \/ tryZMPop(c))
handleBLMove(c) == cmd[c].op = "lmove" /\ MoveLoop(c)
handleBRPopLPush(c) == cmd[c].op = "rpoplpush" /\ MoveLoop(c)

ClientStep(c) ==
    \/ handleBlockingPop(c) \/ handleBLMPop(c)
    \/ handleBlockingZPop(c) \/ handleBZMPop(c)
    \/ handleBLMove(c) \/ handleBRPopLPush(c)
    \/ Flush(c)

Produce(p) ==
    \E k \in Keys : \/ Del(p, k)
                    \/ \E e \in Elems, end \in Ends : Push(p, k, e, "list", end)
                    \/ \E e \in Elems : Push(p, k, e, "zset", "last")

Next ==
    \/ \E c \in Clients : Call(c) \/ ClientStep(c) \/ CtxDone(c)
    \/ \E p \in Producers : Produce(p)
    \/ \E p \in Procs : RunCallback(p)

Spec == Init /\ [][Next]_vars

\* A goroutine that can run does run; clients and producers owe nothing.
Fairness ==
    /\ \A c \in Clients : WF_vars(ClientStep(c))
    /\ \A p \in Procs : WF_vars(RunCallback(p))

-----------------------------------------------------------------------------
(* Properties *)

\* Exactly once: an element that was pushed is in one place of one key, or was
\* carried out by exactly one reply, or was deleted, however pops, moves,
\* aborted flushes and retries interleave.
ExactlyOnce ==
    \A e \in pushed :
        Cardinality({x \in Keys \X (1..Cardinality(Elems)) :
                        x[2] <= Len(vals[x[1]]) /\ vals[x[1]][x[2]] = e})
          + popped[e] + Cardinality(deleted \cap {e}) = 1

\* No wake-up is lost between looking and sleeping: a client that found k
\* empty while first in line, and sleeps first in line on k, has a signal
\* pending whenever k holds data, or the callback that will send it is running.
NoLostWakeup ==
    \A c \in Clients : pc[c] = "wait" =>
        \A k \in sawEmpty[c] : (Available(c, k) /\ c \in Oldest(k)) =>
            \/ signal[c]
            \/ \E p \in Procs : \E i \in DOMAIN todo[p] : todo[p][i].key = k

\* A registration never outlives its command: a slot that is not nil belongs to
\* a live waiter whose command is between Register and Cancel and named the key.
NoLeakedWaiter ==
    \A k \in Keys : \A i \in DOMAIN queue[k] :
        LET c == queue[k][i]
        IN  c # Nil => /\ alive[c]
                       /\ pc[c] \in InCommand
                       /\ k \in ElemsIn(cmd[c].keys)

\* BLPOP, BLMPOP and their sorted-set forms serve waiters in arrival order:
\* the client that takes elements of k is the oldest live waiter of k.
FifoService ==
    [][\A c \in Clients :
          (pend[c] = Nil /\ pend'[c] # Nil /\ cmd[c].op \in PopOps)
              => c \in Oldest(pend'[c].src)]_vars

\* A lone blocked client is always served: sleeping on a key that holds data
\* leads to the end of the command or to the data being gone.
BlockedClientServed ==
    \A c \in Clients : \A k \in Keys :
        (pc[c] = "wait" /\ k \in ElemsIn(cmd[c].keys) /\ Available(c, k))
            ~> (pc[c] = "idle" \/ ~Available(c, k))
=============================================================================
