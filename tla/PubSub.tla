------------------------------- MODULE PubSub -------------------------------
(***************************************************************************)
(* Publish/subscribe: the broker (redis/pubsub/manager.go), the message    *)
(* queue of a subscriber (redis/shared/pubsub_client.go), the part of      *)
(* handleConnection in redis/server.go that enters and leaves pub/sub mode *)
(* and delivers messages, and the announcements to the cluster router.     *)
(*                                                                         *)
(* A connection creates a PubSubClient each time it enters pub/sub mode;   *)
(* <<c, k>> is the k-th one of connection c, a session.  Channels and      *)
(* patterns are both topics.                                               *)
(***************************************************************************)
EXTENDS Integers, Sequences, FiniteSets, Functions

CONSTANTS
    Conns, Channels, Patterns,
    Matches,         \* Matches[p]: the channels pattern p matches
    QueueSize,       \* PubsubMsgChanSize
    MaxSessions,     \* MaxSessions[c]: bound on the sessions of connection c
    Scenarios        \* the connections that are open, the versions they ask for with
                     \* HELLO, and bounds on the commands and messages

ASSUME ConnsAssumption == IsFiniteSet(Conns)
\* Patterns is finite: a map iteration lists any part of it.
ASSUME PatternsAssumption ==
    \A S \in SUBSET Patterns : Cardinality(S) \in Nat /\ Bijection(1..Cardinality(S), S) # {}
ASSUME MatchesAssumption == Matches \in [Patterns -> SUBSET Channels]
ASSUME SizeAssumption ==
    /\ QueueSize \in Nat \ {0} /\ MaxSessions \in [Conns -> Nat]
    /\ \A x \in Scenarios :
         x \in [open : SUBSET Conns, hello : SUBSET {2, 3}, cmds : Nat, msgs : Nat]

Topics == Channels \cup Patterns
Sessions == UNION {{c} \X (1..MaxSessions[c]) : c \in Conns}

VARIABLES
    subs,       \* Manager.channels, Manager.patterns
    index,      \* Manager.clientChannels, Manager.clientPatterns
    pend,       \* announcements a connection's goroutine has still to make
    announced,  \* what the peers have recorded
    net,        \* history: announced subscriptions minus unsubscriptions
    pc, cur,    \* executor: control, command being executed
    proto, client, made,   \* protocol, session (0: none), sessions so far
    started,    \* pubsubDeliveryStarted, and pubsubCleanupFunc is set
    ctxDone,    \* connCtx cancelled
    broken,     \* a write failed; every later write of the bufio.Writer fails
    queue, closed, courier, hand,  \* session: msgChan, Close, delivery goroutine
    confirmed, delivered,  \* history: topics confirmed, messages written
    scenario, cmds, msgs

broker == <<subs, index>>
router == <<announced, net>>
conn == <<pc, cur, proto, client, made, started, ctxDone, broken>>
session == <<queue, closed, courier, hand, confirmed, delivered>>
vars == <<broker, pend, router, conn, session, scenario, cmds, msgs>>

NoCmd == [op |-> "other", topics |-> {}]

Init ==
    /\ subs = [t \in Topics |-> {}] /\ index = [s \in Sessions |-> {}]
    /\ pend = [c \in Conns |-> {}]
    /\ announced = {} /\ net = [t \in Topics |-> 0]
    /\ scenario \in Scenarios
    /\ pc = [c \in Conns |-> IF c \in scenario.open THEN "ready" ELSE "closed"]
    /\ cur = [c \in Conns |-> NoCmd]
    /\ proto = [c \in Conns |-> 2]
    /\ client = [c \in Conns |-> 0] /\ made = [c \in Conns |-> 0]
    /\ started = [c \in Conns |-> FALSE] /\ ctxDone = [c \in Conns |-> FALSE]
    /\ broken = [c \in Conns |-> FALSE]
    /\ queue = [s \in Sessions |-> <<>>] /\ closed = [s \in Sessions |-> FALSE]
    /\ courier = [s \in Sessions |-> "none"] /\ hand = [s \in Sessions |-> <<>>]
    /\ confirmed = [s \in Sessions |-> {}] /\ delivered = [s \in Sessions |-> <<>>]
    /\ cmds = 0 /\ msgs = 0

-----------------------------------------------------------------------------
(* The broker, under Manager.mu; announcements follow after the unlock *)

Sess(c) == <<c, client[c]>>
InPubSubMode(c) == client[c] # 0

\* Subscribe, PSubscribe: the first subscriber of a topic is announced.
Subscribe(c, s, T) ==
    /\ subs' = [t \in Topics |-> IF t \in T THEN subs[t] \cup {s} ELSE subs[t]]
    /\ index' = [index EXCEPT ![s] = @ \cup T]
    /\ pend' = [pend EXCEPT ![c] = {<<t, 1>> : t \in {u \in T : subs[u] = {}}}]

\* Faulty form: every leaving subscriber is announced.
LastGoneAlways(s, T) == {t \in T : s \in subs[t]}

LastGone(s, T) == {t \in T : subs[t] # {} /\ subs[t] \subseteq {s}}

\* Unsubscribe, PUnsubscribe and Cleanup: the last one to leave is announced.
Unsubscribe(c, s, T) ==
    /\ subs' = [t \in Topics |-> IF t \in T THEN subs[t] \ {s} ELSE subs[t]]
    /\ index' = [index EXCEPT ![s] = @ \ T]
    /\ pend' = [pend EXCEPT ![c] = {<<t, -1>> : t \in LastGone(s, T)}]

\* announceTransitions, one announcement at a time.
Announce(c) ==
    /\ \E a \in pend[c] :
         /\ pend' = [pend EXCEPT ![c] = @ \ {a}]
         /\ announced' = IF a[2] = 1 THEN announced \cup {a[1]} ELSE announced \ {a[1]}
         /\ net' = [net EXCEPT ![a[1]] = @ + a[2]]
    /\ UNCHANGED <<broker, conn, session, cmds, msgs>>

\* The elements of S in the order of a map iteration.
Iterated(S) == CHOOSE f \in Bijection(1..Cardinality(S), S) : TRUE

\* The topics under which session s hears a message on channel ch.
Heard(s, ch) ==
    LET hears(T) == {t \in T : s \in subs[t] /\ ~closed[s]} IN
    (IF hears({ch}) = {} THEN <<>> ELSE <<ch>>)
       \o Iterated(hears({p \in Patterns : ch \in Matches[p]}))

\* Send: a full msgChan drops the message.
Send(q, m) == SubSeq(q \o m, 1, IF Len(q \o m) > QueueSize THEN QueueSize ELSE Len(q \o m))

deliverLocal(ch) ==
    /\ msgs < scenario.msgs
    /\ msgs' = msgs + 1
    /\ queue' = [s \in Sessions |->
                   Send(queue[s], [i \in DOMAIN Heard(s, ch) |-> <<msgs + 1, Heard(s, ch)[i]>>])]
    /\ UNCHANGED <<broker, pend, router, conn, closed, courier, hand, confirmed, delivered, cmds>>

Publish(ch) == deliverLocal(ch)

\* A peer routes its PUBLISH here if it recorded a matching subscription.
DeliverLocal(ch) ==
    /\ announced \cap ({ch} \cup {p \in Patterns : ch \in Matches[p]}) # {}
    /\ deliverLocal(ch)

-----------------------------------------------------------------------------
(* The executor of a connection: handlers *)

\* The next command; connWriteMu is taken.
Take(c, cmd) ==
    /\ pc[c] = "ready" /\ cmds < scenario.cmds
    /\ cmds' = cmds + 1
    /\ pc' = [pc EXCEPT ![c] = "exec"]
    /\ cur' = [cur EXCEPT ![c] = cmd]

\* handleSubscribe, handlePSubscribe.
handleSubscribe(c, T) ==
    /\ Take(c, [op |-> "subscribe", topics |-> T])
    /\ LET k == IF InPubSubMode(c) THEN client[c] ELSE made[c] + 1 IN
       /\ k <= MaxSessions[c]
       /\ client' = [client EXCEPT ![c] = k]
       /\ made' = [made EXCEPT ![c] = IF k > @ THEN k ELSE @]
       /\ Subscribe(c, <<c, k>>, T)
    /\ UNCHANGED <<router, proto, started, ctxDone, broken, session, msgs>>

\* handleUnsubscribe, handlePUnsubscribe: no argument means all of the kind.
handleUnsubscribe(c, kind, T) ==
    /\ Take(c, [op |-> "unsubscribe", topics |-> T])
    /\ IF InPubSubMode(c)
       THEN Unsubscribe(c, Sess(c), IF T = {} THEN index[Sess(c)] \cap kind ELSE T)
       ELSE UNCHANGED <<broker, pend>>
    /\ UNCHANGED <<router, proto, client, made, started, ctxDone, broken, session, msgs>>

\* handleHello; refused to a RESP2 client in pub/sub mode.
handleHello(c, v) ==
    /\ ~(InPubSubMode(c) /\ proto[c] = 2)
    /\ Take(c, NoCmd)
    /\ proto' = [proto EXCEPT ![c] = v]
    /\ UNCHANGED <<broker, pend, router, client, made, started, ctxDone, broken, session, msgs>>

\* Any other command, or the error that answers it in pub/sub mode.
OtherCommand(c) ==
    /\ Take(c, NoCmd)
    /\ UNCHANGED <<broker, pend, router, proto, client, made, started, ctxDone, broken, session, msgs>>

-----------------------------------------------------------------------------
(* The executor: reply, inline delivery, delivery goroutine, close *)

\* An UNSUBSCRIBE that leaves no subscription ends with Cleanup and Close.
Leaves(c) == cur[c].op = "unsubscribe" /\ InPubSubMode(c) /\ index[Sess(c)] = {}
Stays(c) == InPubSubMode(c) /\ ~Leaves(c)

LeaveIfEmpty(c) ==
    /\ client' = [client EXCEPT ![c] = IF Leaves(c) THEN 0 ELSE @]
    /\ closed' = IF Leaves(c) THEN [closed EXCEPT ![Sess(c)] = TRUE] ELSE closed

\* RESP3: what is queued is written after the reply.
InlineDelivery(c) ==
    IF Stays(c) /\ proto[c] = 3
    THEN /\ delivered' = [delivered EXCEPT ![Sess(c)] = @ \o queue[Sess(c)]]
         /\ queue' = [queue EXCEPT ![Sess(c)] = <<>>]
    ELSE UNCHANGED <<delivered, queue>>

\* Faulty form: RESP3 clients get a delivery goroutine as well.
StartsCourierAlways(c) == Stays(c) /\ ~started[c]

StartsCourier(c) == Stays(c) /\ ~started[c] /\ proto[c] # 3

\* Faulty form: leaving pub/sub mode does not reset pubsubDeliveryStarted.
StartedNotReset(c) == Stays(c) \/ started[c]

StartedNow(c) == Stays(c)

\* The reply is written, then connWriteMu released.
Reply(c) ==
    /\ pc[c] = "exec" /\ pend[c] = {} /\ ~broken[c]
    /\ LeaveIfEmpty(c)
    /\ confirmed' = IF cur[c].op = "subscribe"
                    THEN [confirmed EXCEPT ![Sess(c)] = @ \cup cur[c].topics] ELSE confirmed
    /\ InlineDelivery(c)
    /\ started' = [started EXCEPT ![c] = StartedNow(c)]
    /\ courier' = IF StartsCourier(c) THEN [courier EXCEPT ![Sess(c)] = "select"] ELSE courier
    /\ pc' = [pc EXCEPT ![c] = "ready"] /\ cur' = [cur EXCEPT ![c] = NoCmd]
    /\ UNCHANGED <<broker, pend, router, proto, made, ctxDone, broken, hand, cmds, msgs>>

\* The reply cannot be written: handleConnection returns.
ReplyFails(c) ==
    /\ pc[c] = "exec" /\ pend[c] = {}
    /\ LeaveIfEmpty(c)
    /\ broken' = [broken EXCEPT ![c] = TRUE]
    /\ pc' = [pc EXCEPT ![c] = "exit"] /\ cur' = [cur EXCEPT ![c] = NoCmd]
    /\ UNCHANGED <<broker, pend, router, proto, made, started, ctxDone, queue, courier, hand,
                   confirmed, delivered, cmds, msgs>>

\* QUIT, the end of the input or a failed flush ends the loop.
LoopEnds(c) ==
    /\ pc[c] = "ready"
    /\ pc' = [pc EXCEPT ![c] = "exit"]
    /\ UNCHANGED <<broker, pend, router, cur, proto, client, made, started, ctxDone, broken, session, cmds, msgs>>

\* The reader sees the client go and cancels connCtx.
ReaderEOF(c) ==
    /\ ~ctxDone[c]
    /\ ctxDone' = [ctxDone EXCEPT ![c] = TRUE]
    /\ UNCHANGED <<broker, pend, router, pc, cur, proto, client, made, started, broken, session, cmds, msgs>>

CleanupTopics(s) == index[s]

Cleans(c) == started[c] /\ InPubSubMode(c)

\* pubsubCleanupFunc, if it was set: Cleanup up to its unlock.
Cleanup(c) ==
    /\ pc[c] = "exit"
    /\ pc' = [pc EXCEPT ![c] = "closing"]
    /\ IF Cleans(c)
       THEN LET s == Sess(c)
                T == CleanupTopics(s) IN
            /\ subs' = [t \in Topics |-> IF t \in T THEN subs[t] \ {s} ELSE subs[t]]
            /\ index' = [index EXCEPT ![s] = {}]
            /\ pend' = [pend EXCEPT ![c] = {<<t, -1>> : t \in LastGone(s, T)}]
       ELSE UNCHANGED <<broker, pend>>
    /\ UNCHANGED <<router, cur, proto, client, made, started, ctxDone, broken, session, cmds, msgs>>

\* client.Close, then connCancel and conn.Close.
Closed(c) ==
    /\ pc[c] = "closing" /\ pend[c] = {}
    /\ pc' = [pc EXCEPT ![c] = "closed"]
    /\ client' = [client EXCEPT ![c] = IF Cleans(c) THEN 0 ELSE @]
    /\ closed' = IF Cleans(c) THEN [closed EXCEPT ![Sess(c)] = TRUE] ELSE closed
    /\ ctxDone' = [ctxDone EXCEPT ![c] = TRUE]
    /\ UNCHANGED <<broker, pend, router, cur, proto, made, started, broken, queue, courier, hand,
                   confirmed, delivered, cmds, msgs>>

-----------------------------------------------------------------------------
(* The delivery goroutine of a session *)

CourierTake(s) ==
    /\ courier[s] = "select" /\ queue[s] # <<>>
    /\ hand' = [hand EXCEPT ![s] = <<Head(queue[s])>>]
    /\ queue' = [queue EXCEPT ![s] = Tail(@)]
    /\ courier' = [courier EXCEPT ![s] = "write"]
    /\ UNCHANGED <<broker, pend, router, conn, closed, confirmed, delivered, cmds, msgs>>

\* Faulty form: the message is written without connWriteMu.
MayWriteAlways(s) == TRUE

\* connWriteMu is held while the executor runs a command.
MayWrite(s) == pc[s[1]] # "exec"

CourierWrite(s) ==
    /\ courier[s] = "write" /\ MayWrite(s)
    /\ ~broken[s[1]] /\ pc[s[1]] # "closed"
    /\ courier' = [courier EXCEPT ![s] = "select"]
    /\ hand' = [hand EXCEPT ![s] = <<>>]
    /\ delivered' = [delivered EXCEPT ![s] = @ \o hand[s]]
    /\ UNCHANGED <<broker, pend, router, conn, queue, closed, confirmed, cmds, msgs>>

CourierWriteFails(s) ==
    /\ courier[s] = "write" /\ MayWrite(s)
    /\ courier' = [courier EXCEPT ![s] = "gone"]
    /\ hand' = [hand EXCEPT ![s] = <<>>]
    /\ broken' = [broken EXCEPT ![s[1]] = TRUE]
    /\ UNCHANGED <<broker, pend, router, pc, cur, proto, client, made, started, ctxDone, queue,
                   closed, confirmed, delivered, cmds, msgs>>

CourierStop(s) ==
    /\ courier[s] = "select" /\ (closed[s] \/ ctxDone[s[1]])
    /\ courier' = [courier EXCEPT ![s] = "gone"]
    /\ UNCHANGED <<broker, pend, router, conn, queue, closed, hand, confirmed, delivered, cmds, msgs>>

-----------------------------------------------------------------------------
Handler(c) ==
    \/ \E kind \in {Channels, Patterns} :
         \/ \E T \in SUBSET kind \ {{}} : handleSubscribe(c, T)
         \/ \E T \in SUBSET kind : handleUnsubscribe(c, kind, T)
    \/ \E v \in scenario.hello : handleHello(c, v)
    \/ OtherCommand(c)

Executor(c) == Announce(c) \/ Reply(c) \/ Cleanup(c) \/ Closed(c)

Courier(s) == CourierTake(s) \/ CourierWrite(s)

Step ==
    \/ \E c \in Conns : Handler(c) \/ Executor(c) \/ ReplyFails(c) \/ LoopEnds(c) \/ ReaderEOF(c)
    \/ \E s \in Sessions : Courier(s) \/ CourierWriteFails(s) \/ CourierStop(s)
    \/ \E ch \in Channels : Publish(ch) \/ DeliverLocal(ch)

Next == Step /\ UNCHANGED scenario

Spec == Init /\ [][Next]_vars

\* Goroutines that can run do; clients and the network owe nothing.  A delivery
\* goroutine waiting for connWriteMu gets it in the end (strong fairness: Go's
\* mutex hands over to a starving waiter).
FairSpec ==
    /\ Spec
    /\ \A c \in Conns : WF_vars(Executor(c) /\ UNCHANGED scenario)
    /\ \A s \in Sessions : SF_vars(Courier(s) /\ UNCHANGED scenario)

-----------------------------------------------------------------------------
(* Properties *)

\* A session is listed under a topic exactly when the topic is listed for the
\* session, and a closed session is listed nowhere.
IndexesAgree ==
    \A s \in Sessions :
        /\ \A t \in Topics : (s \in subs[t]) <=> (t \in index[s])
        /\ closed[s] => index[s] = {}

Pending(t, d) == Cardinality({c \in Conns : <<t, d>> \in pend[c]})

\* Every first subscription and every last unsubscription of a topic is announced
\* exactly once: what was announced plus what is still to be announced adds up to
\* whether the topic has subscribers, however the connections interleave.  The
\* broker's two indexes, one of which Cleanup goes by, agree all the while.
TransitionsBalance ==
    /\ IndexesAgree
    /\ \A t \in Topics :
          net[t] + Pending(t, 1) - Pending(t, -1) = (IF subs[t] = {} THEN 0 ELSE 1)

\* server.go: "This ensures pub/sub messages are delivered AFTER the command
\* response": no message is written under a topic before its confirmation.
ConfirmedFirst ==
    \A s \in Sessions : \A i \in DOMAIN delivered[s] : delivered[s][i][2] \in confirmed[s]

\* Within a session messages are written in the order of publication, whether
\* inline (RESP3) or by the delivery goroutine (RESP2), and no more of them wait
\* than msgChan holds, however long the subscriber does not read.
DeliveredInOrder ==
    \A s \in Sessions :
        /\ \A i, j \in DOMAIN delivered[s] : i < j => delivered[s][i][1] <= delivered[s][j][1]
        /\ Len(queue[s]) <= QueueSize

Starving(s) == queue[s] # <<>> /\ proto[s[1]] = 2 /\ client[s[1]] = s[2] /\ pc[s[1]] = "ready"
                  /\ ~ctxDone[s[1]] /\ ~broken[s[1]]

\* server.go: "Start pub/sub message delivery goroutine for RESP2 clients only".
\* A RESP2 subscriber gets what is queued for it without sending anything.
SubscriberServed == \A s \in Sessions : Starving(s) ~> ~Starving(s)
=============================================================================
