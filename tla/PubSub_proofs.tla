--------------------------- MODULE PubSub_proofs ----------------------------
(***************************************************************************)
(* Proofs that, for any connections, topics, queue size and scenarios, a   *)
(* topic's confirmation is written before its messages, messages are       *)
(* written in the order of their publication, and every first and last     *)
(* subscription of a topic is announced exactly once.                      *)
(***************************************************************************)
EXTENDS TLAPS, PubSub, FiniteSetTheorems

Msg == Nat \X Topics

\* What the proofs need to know of the types.
Shapes ==
    /\ scenario \in Scenarios /\ msgs \in Nat
    /\ DOMAIN subs = Topics /\ index \in [Sessions -> SUBSET Topics]
    /\ pend \in [Conns -> SUBSET (Topics \X {1, -1})] /\ net \in [Topics -> Int]
    /\ DOMAIN pc = Conns /\ DOMAIN cur = Conns /\ DOMAIN started = Conns
    /\ DOMAIN broken = Conns
    /\ proto \in [Conns -> {2, 3}] /\ client \in [Conns -> Nat] /\ made \in [Conns -> Nat]
    /\ queue \in [Sessions -> Seq(Msg)] /\ hand \in [Sessions -> Seq(Msg)]
    /\ delivered \in [Sessions -> Seq(Msg)]
    /\ DOMAIN closed = Sessions /\ DOMAIN courier = Sessions /\ DOMAIN confirmed = Sessions

\* A connection is in its last session, which is not closed; a later one is new.  A
\* session of a RESP3 connection has no delivery goroutine, and no session has two.
Modes ==
    /\ \A c \in Conns : client[c] <= made[c] /\ made[c] <= MaxSessions[c]
    /\ \A s \in Sessions :
         /\ closed[s] => client[s[1]] # s[2]
         /\ s[2] > made[s[1]] => courier[s] = "none" /\ ~closed[s]
         /\ courier[s] # "none" /\ client[s[1]] = s[2] => proto[s[1]] = 2 /\ started[s[1]]

\* The topic is confirmed to the session, or is about to be, or the connection
\* cannot be written to any more.
Known(s, t) ==
    \/ t \in confirmed[s] \/ broken[s[1]]
    \/ /\ pc[s[1]] = "exec" /\ cur[s[1]].op = "subscribe"
       /\ t \in cur[s[1]].topics /\ client[s[1]] = s[2]

\* The topic is one the session listens to, or one of a message on its way to it.
Carries(q, t) == \E i \in DOMAIN q : q[i][2] = t
Expects(s, t) == s \in subs[t] \/ Carries(queue[s], t) \/ Carries(hand[s], t)

Heralded == \A s \in Sessions, t \in Topics : Expects(s, t) => Known(s, t)

Ascending(q) == \A i, j \in DOMAIN q : i < j => q[i][1] <= q[j][1]
Precedes(q, r) == \A i \in DOMAIN q, j \in DOMAIN r : q[i][1] <= r[j][1]

\* Written messages precede the one in the delivery goroutine's hand, that one the
\* queued ones, and these the next one published.
InOrder(d, h, q, n) ==
    /\ Ascending(d) /\ Ascending(q) /\ Precedes(d, h) /\ Precedes(d, q) /\ Precedes(h, q)
    /\ \A i \in DOMAIN d : d[i][1] <= n
    /\ \A i \in DOMAIN h : h[i][1] <= n
    /\ \A i \in DOMAIN q : q[i][1] <= n
    /\ Len(q) <= QueueSize /\ Len(h) <= 1

Ordered ==
    \A s \in Sessions : /\ InOrder(delivered[s], hand[s], queue[s], msgs)
                        /\ courier[s] # "write" => hand[s] = <<>>

\* The inductive invariant.
IInv == Shapes /\ Modes /\ Heralded /\ ConfirmedFirst /\ Ordered

(* A session is a connection and a number from 1.                          *)
LEMMA SessionParts == \A s \in Sessions : s[1] \in Conns /\ s[2] \in Nat /\ s[2] > 0
BY SizeAssumption DEF Sessions

(* A session is its connection and its number.                             *)
LEMMA SessionPair ==
  /\ \A s \in Sessions : s = <<s[1], s[2]>>
  /\ \A c \in Conns, k \in Nat : 0 < k /\ k <= MaxSessions[c] => <<c, k>> \in Sessions
BY SizeAssumption DEF Sessions

(* The current session of a connection in pub/sub mode is one.             *)
LEMMA SessIsSession ==
  ASSUME Shapes, Modes, NEW c \in Conns, InPubSubMode(c) PROVE Sess(c) \in Sessions
<1>1. client[c] \in Nat /\ client[c] > 0 /\ client[c] <= MaxSessions[c]
  BY SizeAssumption DEF Shapes, Modes, InPubSubMode
<1> QED  BY <1>1, SessionPair, Zenon DEF Sess

(* A map iteration lists elements of a set of patterns.                    *)
LEMMA IterationLists ==
  ASSUME NEW S \in SUBSET Patterns
  PROVE  Iterated(S) \in Seq(Patterns) /\ \A i \in DOMAIN Iterated(S) : Iterated(S)[i] \in S
<1>1. Iterated(S) \in Bijection(1..Cardinality(S), S)
  BY PatternsAssumption, Zenon DEF Iterated
<1>2. Iterated(S) \in [1..Cardinality(S) -> S]
  BY <1>1, Zenon DEF Bijection, Injection
<1>3. Cardinality(S) \in Nat
  BY PatternsAssumption, Zenon
<1> DEFINE n == Cardinality(S)
           q == [i \in 1..n |-> Iterated(S)[i]]
<1> HIDE DEF n
<1>4. q \in Seq(Patterns) /\ \A i \in DOMAIN q : q[i] \in S
  BY <1>2, <1>3 DEF n
<1>5. Iterated(S) = q
  BY <1>2, Zenon DEF n
<1> QED  BY <1>4, <1>5, Zenon

(* A message is queued for a session under the topics it subscribed to.    *)
LEMMA HeardTopics ==
  ASSUME NEW s \in Sessions, NEW ch \in Channels
  PROVE  /\ Heard(s, ch) \in Seq(Topics)
         /\ \A i \in DOMAIN Heard(s, ch) : s \in subs[Heard(s, ch)[i]]
<1> DEFINE hears(T) == {t \in T : s \in subs[t] /\ ~closed[s]}
           P == hears({p \in Patterns : ch \in Matches[p]})
           first == IF hears({ch}) = {} THEN <<>> ELSE <<ch>>
<1>1. P \in SUBSET Patterns /\ Patterns \subseteq Topics
  BY Zenon DEF Topics
<1>2. Iterated(P) \in Seq(Topics) /\ \A i \in DOMAIN Iterated(P) : Iterated(P)[i] \in P
  BY <1>1, IterationLists
<1>3. \A i \in DOMAIN Iterated(P) : s \in subs[Iterated(P)[i]]
  BY <1>2, Zenon
<1>4. Heard(s, ch) = first \o Iterated(P)
  BY Zenon DEF Heard
<1>5. first \in Seq(Topics) /\ \A i \in DOMAIN first : s \in subs[first[i]]
  <2>1. CASE hears({ch}) = {}
    <3>1. first = <<>>
      BY <2>1, Zenon
    <3> QED  BY <3>1
  <2>2. CASE hears({ch}) # {}
    <3>1. first = <<ch>>
      BY <2>2, Zenon
    <3>2. ch \in Topics /\ s \in subs[ch]
      BY <2>2, Zenon DEF Topics
    <3> HIDE DEF first
    <3> QED  BY <3>1, <3>2
  <2> QED  BY <2>1, <2>2, Zenon
<1> HIDE DEF P, first
<1> QED  BY <1>2, <1>3, <1>4, <1>5

(* The elements of a concatenation.                                        *)
LEMMA Appended ==
  \A a, b \in Seq(Msg) : \A i \in DOMAIN (a \o b) :
     \/ i \in DOMAIN a /\ (a \o b)[i] = a[i]
     \/ i > Len(a) /\ i - Len(a) \in DOMAIN b /\ (a \o b)[i] = b[i - Len(a)]
OBVIOUS

(* Send keeps what is queued and appends what there is room for.           *)
LEMMA SendAppends ==
  ASSUME NEW M, NEW q \in Seq(M), NEW m \in Seq(M), Len(q) <= QueueSize
  PROVE  /\ Send(q, m) \in Seq(M) /\ Len(Send(q, m)) <= QueueSize
         /\ \A i \in DOMAIN Send(q, m) :
              IF i <= Len(q) THEN Send(q, m)[i] = q[i]
              ELSE i - Len(q) \in DOMAIN m /\ Send(q, m)[i] = m[i - Len(q)]
BY SizeAssumption, SMTT(60) DEF Send
(* What deliverLocal queues for a session: its number, under the topics of *)
(* the session, behind what is queued.                                     *)
LEMMA BatchSent ==
  ASSUME Shapes, NEW ch \in Channels, deliverLocal(ch), NEW s \in Sessions,
         Len(queue[s]) <= QueueSize
  PROVE  /\ queue'[s] \in Seq(Msg) /\ Len(queue'[s]) <= QueueSize
         /\ \A i \in DOMAIN queue'[s] :
              \/ i \in DOMAIN queue[s] /\ queue'[s][i] = queue[s][i]
              \/ /\ i > Len(queue[s]) /\ queue'[s][i][1] = msgs + 1
                 /\ queue'[s][i][2] \in Topics /\ s \in subs[queue'[s][i][2]]
<1> DEFINE h == Heard(s, ch)
           m == [i \in DOMAIN h |-> <<msgs + 1, h[i]>>]
<1>1. h \in Seq(Topics) /\ \A i \in DOMAIN h : s \in subs[h[i]]
  BY HeardTopics, Zenon
<1>2. queue'[s] = Send(queue[s], m) /\ queue[s] \in Seq(Msg) /\ msgs \in Nat
  BY Zenon DEF deliverLocal, Shapes
<1> HIDE DEF h
<1>3. m \in Seq(Msg) /\ DOMAIN m = DOMAIN h
  BY <1>1, <1>2 DEF Msg
<1>4. \A i \in DOMAIN m : m[i] = <<msgs + 1, h[i]>> /\ h[i] \in Topics
  BY <1>1
<1> HIDE DEF m
<1>5. /\ Send(queue[s], m) \in Seq(Msg) /\ Len(Send(queue[s], m)) <= QueueSize
      /\ \A i \in DOMAIN Send(queue[s], m) :
            IF i <= Len(queue[s]) THEN Send(queue[s], m)[i] = queue[s][i]
            ELSE i - Len(queue[s]) \in DOMAIN m /\ Send(queue[s], m)[i] = m[i - Len(queue[s])]
  BY <1>2, <1>3, SendAppends
<1> QED  BY <1>1, <1>2, <1>3, <1>4, <1>5

(* Every step keeps the types.                                             *)
LEMMA NextShapes == IInv /\ [Next]_vars => Shapes'
<1> SUFFICES ASSUME Shapes, Modes, Ordered, [Next]_vars PROVE Shapes'
  BY Zenon DEF IInv
<1> UNCHANGED scenario
  BY Zenon DEF Next, vars
<1> USE DEF broker, router, conn, session
<1>1. ASSUME NEW c \in Conns, NEW T \in SUBSET Topics, handleSubscribe(c, T) PROVE Shapes'
  <2>1. pend' \in [Conns -> SUBSET (Topics \X {1, -1})]
    BY <1>1 DEF handleSubscribe, Subscribe, Shapes
  <2>2. client' \in [Conns -> Nat] /\ made' \in [Conns -> Nat]
    BY <1>1 DEF handleSubscribe, InPubSubMode, Shapes
  <2> QED  BY <1>1, <2>1, <2>2, ZenonT(60) DEF handleSubscribe, Take, Subscribe, Shapes
<1>2. ASSUME NEW c \in Conns, NEW kind, NEW T \in SUBSET Topics, handleUnsubscribe(c, kind, T) PROVE Shapes'
  <2>1. pend' \in [Conns -> SUBSET (Topics \X {1, -1})]
    <3> DEFINE U == IF T = {} THEN index[Sess(c)] \cap kind ELSE T
    <3>1. CASE InPubSubMode(c)
      <4>1. U \subseteq Topics
        BY <3>1, SessIsSession, Zenon DEF Shapes
      <4>2. pend' = [pend EXCEPT ![c] = {<<t, -1>> : t \in LastGone(Sess(c), U)}]
        BY <1>2, <3>1, Zenon DEF handleUnsubscribe, Unsubscribe
      <4> HIDE DEF U
      <4>3. LastGone(Sess(c), U) \subseteq Topics
        BY <4>1, Zenon DEF LastGone
      <4> QED  BY <4>2, <4>3 DEF Shapes
    <3>2. CASE ~InPubSubMode(c)
      BY <1>2, <3>2, Zenon DEF handleUnsubscribe, Shapes
    <3> QED  BY <3>1, <3>2, Zenon
  <2>2. DOMAIN subs' = Topics /\ index' \in [Sessions -> SUBSET Topics]
    <3>1. UNCHANGED index \/ \E W : index' = [index EXCEPT ![Sess(c)] = index[Sess(c)] \ W]
      BY <1>2, Zenon DEF handleUnsubscribe, Unsubscribe
    <3> QED  BY <3>1, <1>2 DEF handleUnsubscribe, Unsubscribe, Shapes
  <2> QED  BY <1>2, <2>1, <2>2, Zenon DEF handleUnsubscribe, Take, Shapes
<1>3. ASSUME NEW c \in Conns, NEW v \in scenario.hello, handleHello(c, v) PROVE Shapes'
  BY <1>3, SizeAssumption, Zenon DEF handleHello, Take, Shapes
<1>4. ASSUME NEW c \in Conns, OtherCommand(c) PROVE Shapes'
  BY <1>4, Zenon DEF OtherCommand, Take, NoCmd, Shapes
<1>5. ASSUME NEW c \in Conns, Announce(c) PROVE Shapes'
  BY <1>5, SMTT(60) DEF Announce, Shapes
<1>6. ASSUME NEW c \in Conns, Reply(c) PROVE Shapes'
  <2>1. queue' \in [Sessions -> Seq(Msg)] /\ delivered' \in [Sessions -> Seq(Msg)]
    <3>1. CASE Stays(c) /\ proto[c] = 3
      <4>1. Sess(c) \in Sessions
        BY <3>1, SessIsSession, Zenon DEF Stays
      <4>2. /\ delivered' = [delivered EXCEPT ![Sess(c)] = delivered[Sess(c)] \o queue[Sess(c)]]
            /\ queue' = [queue EXCEPT ![Sess(c)] = <<>>]
        BY <1>6, <3>1, Zenon DEF Reply, InlineDelivery
      <4>3. /\ delivered[Sess(c)] \o queue[Sess(c)] \in Seq(Msg) /\ <<>> \in Seq(Msg)
            /\ delivered \in [Sessions -> Seq(Msg)] /\ queue \in [Sessions -> Seq(Msg)]
        BY <4>1 DEF Shapes
      <4> QED  BY <4>2, <4>3, Zenon
    <3>2. CASE ~(Stays(c) /\ proto[c] = 3)
      BY <1>6, <3>2, Zenon DEF Reply, InlineDelivery, Shapes
    <3> QED  BY <3>1, <3>2, Zenon
  <2>2. client' \in [Conns -> Nat] /\ DOMAIN closed' = Sessions
    BY <1>6, Zenon DEF Reply, LeaveIfEmpty, Shapes
  <2> QED  BY <1>6, <2>1, <2>2, Zenon DEF Reply, Shapes
<1>7. ASSUME NEW c \in Conns, ReplyFails(c) PROVE Shapes'
  BY <1>7, Zenon DEF ReplyFails, LeaveIfEmpty, Leaves, InPubSubMode, Sess, NoCmd, Shapes
<1>8. ASSUME NEW c \in Conns, Cleanup(c) PROVE Shapes'
  <2>1. pend' \in [Conns -> SUBSET (Topics \X {1, -1})]
    <3>1. CASE Cleans(c)
      <4>1. LastGone(Sess(c), CleanupTopics(Sess(c))) \subseteq Topics
        BY <3>1, SessIsSession, Zenon DEF LastGone, CleanupTopics, Cleans, Shapes
      <4>2. pend' = [pend EXCEPT ![c] = {<<t, -1>> : t \in LastGone(Sess(c), CleanupTopics(Sess(c)))}]
        BY <1>8, <3>1, Zenon DEF Cleanup
      <4> QED  BY <4>1, <4>2 DEF Shapes
    <3>2. CASE ~Cleans(c)
      BY <1>8, <3>2, Zenon DEF Cleanup, Shapes
    <3> QED  BY <3>1, <3>2, Zenon
  <2> QED  BY <1>8, <2>1, Zenon DEF Cleanup, Shapes
<1>9. ASSUME NEW c \in Conns, Closed(c) PROVE Shapes'
  BY <1>9, Zenon DEF Closed, Cleans, InPubSubMode, Sess, Shapes
<1>10. ASSUME NEW c \in Conns, LoopEnds(c) \/ ReaderEOF(c) PROVE Shapes'
  BY <1>10, Zenon DEF LoopEnds, ReaderEOF, Shapes
<1>11. ASSUME NEW s \in Sessions, CourierTake(s) PROVE Shapes'
  <2>1. hand' \in [Sessions -> Seq(Msg)] /\ queue' \in [Sessions -> Seq(Msg)]
    BY <1>11 DEF CourierTake, Shapes
  <2> QED  BY <1>11, <2>1, Zenon DEF CourierTake, Shapes
<1>12. ASSUME NEW s \in Sessions, CourierWrite(s) PROVE Shapes'
  BY <1>12 DEF CourierWrite, MayWrite, Shapes
<1>13. ASSUME NEW s \in Sessions, CourierWriteFails(s) PROVE Shapes'
  BY <1>13 DEF CourierWriteFails, Shapes
<1>14. ASSUME NEW s \in Sessions, CourierStop(s) PROVE Shapes'
  BY <1>14, Zenon DEF CourierStop, Shapes
<1>15. ASSUME NEW ch \in Channels, deliverLocal(ch) PROVE Shapes'
  <2>1. queue' \in [Sessions -> Seq(Msg)]
    BY <1>15, BatchSent, Zenon DEF Shapes, deliverLocal, Ordered, InOrder
  <2> QED  BY <1>15, <2>1 DEF deliverLocal, Shapes
<1>16. CASE UNCHANGED vars
  BY <1>16, Zenon DEF vars, Shapes
<1> QED
  BY <1>1, <1>2, <1>3, <1>4, <1>5, <1>6, <1>7, <1>8, <1>9, <1>10, <1>11, <1>12, <1>13,
     <1>14, <1>15, <1>16, Zenon
  DEF Next, Step, Handler, Executor, Courier, Publish, DeliverLocal, Topics

(* A session is entered once, and left for good.                           *)
LEMMA NextModes == IInv /\ [Next]_vars => Modes'
<1> SUFFICES ASSUME Shapes, Modes, [Next]_vars PROVE Modes'
  BY Zenon DEF IInv
<1> \A c \in Conns :
       /\ client[c] \in Nat /\ made[c] \in Nat /\ MaxSessions[c] \in Nat
       /\ proto[c] \in {2, 3}
  BY SizeAssumption, Zenon DEF Shapes
<1> USE DEF broker, router, conn, session
<1>1. ASSUME NEW c \in Conns, NEW T \in SUBSET Topics, handleSubscribe(c, T) PROVE Modes'
  <2> DEFINE k == IF InPubSubMode(c) THEN client[c] ELSE made[c] + 1
  <2>1. k <= MaxSessions[c] /\ client'[c] = k /\ made'[c] = IF k > made[c] THEN k ELSE made[c]
    BY <1>1, Zenon DEF handleSubscribe, Shapes
  <2>2. k \in Nat /\ (k = client[c] \/ (client[c] = 0 /\ k = made[c] + 1))
    BY DEF InPubSubMode, Shapes
  <2>3. UNCHANGED <<closed, courier, proto, started>>
    BY <1>1, Zenon DEF handleSubscribe
  <2>4. \A d \in Conns \ {c} : client'[d] = client[d] /\ made'[d] = made[d]
    BY <1>1, Zenon DEF handleSubscribe, Shapes
  <2> HIDE DEF k
  <2> QED  BY <2>1, <2>2, <2>3, <2>4, SessionParts DEF Modes
<1>2. ASSUME NEW c \in Conns, NEW kind, NEW T \in SUBSET Topics, handleUnsubscribe(c, kind, T) PROVE Modes'
  BY <1>2, SessionParts, Zenon
  DEF handleUnsubscribe, Take, Unsubscribe, InPubSubMode, Sess, LastGone, Shapes, Modes
<1>3. ASSUME NEW c \in Conns, NEW v \in scenario.hello, handleHello(c, v) PROVE Modes'
  BY <1>3, SessionParts, SMTT(60) DEF handleHello, Take, InPubSubMode, NoCmd, Shapes, Modes
<1>4. ASSUME NEW c \in Conns, OtherCommand(c) PROVE Modes'
  BY <1>4, SessionParts, Zenon DEF OtherCommand, Take, NoCmd, Shapes, Modes
<1>5. ASSUME NEW c \in Conns, Announce(c) PROVE Modes'
  BY <1>5, SessionParts, Zenon DEF Announce, Shapes, Modes
<1>6. ASSUME NEW c \in Conns, Reply(c) PROVE Modes'
  <2>1. \A d \in Conns : client'[d] = client[d] \/ (d = c /\ client'[d] = 0)
    BY <1>6, Zenon DEF Reply, LeaveIfEmpty, StartsCourier, Shapes
  <2>2. \A s \in Sessions :
          closed'[s] => closed[s] \/ (s[1] = c /\ s[2] = client[c] /\ client'[c] = 0)
    BY <1>6, SMTT(60) DEF Reply, LeaveIfEmpty, StartsCourier, Sess, Shapes
  <2>3. \A s \in Sessions : courier'[s] = courier[s]
          \/ (s[1] = c /\ s[2] = client[c] /\ proto[c] # 3)
    BY <1>6, SMTT(60) DEF Reply, LeaveIfEmpty, StartsCourier, Sess, Shapes
  <2>4. UNCHANGED <<proto, made>>
    BY <1>6, Zenon DEF Reply
  <2>5. \A d \in Conns : client'[d] # 0 /\ (started[d] \/ d = c) => started'[d]
    BY <1>6, Zenon
    DEF Reply, LeaveIfEmpty, StartsCourier, StartedNow, Stays, InPubSubMode, Shapes
  <2> QED  BY <2>1, <2>2, <2>3, <2>4, <2>5, SessionParts DEF Modes
<1>7. ASSUME NEW c \in Conns, ReplyFails(c) PROVE Modes'
  <2>1. \A d \in Conns : client'[d] = client[d] \/ (d = c /\ client'[d] = 0)
    BY <1>7, Zenon DEF ReplyFails, LeaveIfEmpty, Shapes
  <2>2. \A s \in Sessions :
          closed'[s] => closed[s] \/ (s[1] = c /\ s[2] = client[c] /\ client'[c] = 0)
    BY <1>7 DEF ReplyFails, LeaveIfEmpty, Sess, Shapes
  <2>3. \A s \in Sessions : courier'[s] = courier[s]
    BY <1>7, Zenon DEF ReplyFails, LeaveIfEmpty, Sess, Shapes
  <2>4. UNCHANGED <<proto, made>>
    BY <1>7, Zenon DEF ReplyFails
  <2>5. \A d \in Conns : client'[d] # 0 /\ (started[d]) => started'[d]
    BY <1>7, Zenon DEF ReplyFails, LeaveIfEmpty, Shapes
  <2> QED  BY <2>1, <2>2, <2>3, <2>4, <2>5, SessionParts DEF Modes
<1>8. ASSUME NEW c \in Conns, Cleanup(c) PROVE Modes'
  BY <1>8, SessionParts, Zenon
  DEF Cleanup, Cleans, CleanupTopics, InPubSubMode, Sess, LastGone, Shapes, Modes
<1>9. ASSUME NEW c \in Conns, Closed(c) PROVE Modes'
  <2>1. \A d \in Conns : client'[d] = client[d] \/ (d = c /\ client'[d] = 0)
    BY <1>9, Zenon DEF Closed, Shapes
  <2>2. \A s \in Sessions :
          closed'[s] => closed[s] \/ (s[1] = c /\ s[2] = client[c] /\ client'[c] = 0)
    BY <1>9 DEF Closed, Sess, Shapes
  <2>3. \A s \in Sessions : courier'[s] = courier[s]
    BY <1>9, Zenon DEF Closed, Sess, Shapes
  <2>4. UNCHANGED <<proto, made>>
    BY <1>9, Zenon DEF Closed
  <2>5. \A d \in Conns : client'[d] # 0 /\ (started[d]) => started'[d]
    BY <1>9, Zenon DEF Closed, Shapes
  <2> QED  BY <2>1, <2>2, <2>3, <2>4, <2>5, SessionParts DEF Modes
<1>10. ASSUME NEW c \in Conns, LoopEnds(c) \/ ReaderEOF(c) PROVE Modes'
  BY <1>10, SessionParts, Zenon DEF LoopEnds, ReaderEOF, Shapes, Modes
<1>11. ASSUME NEW s \in Sessions, CourierTake(s) PROVE Modes'
  BY <1>11, SessionParts, Zenon DEF CourierTake, Shapes, Modes
<1>12. ASSUME NEW s \in Sessions, CourierWrite(s) PROVE Modes'
  BY <1>12, SessionParts, Zenon DEF CourierWrite, MayWrite, Shapes, Modes
<1>13. ASSUME NEW s \in Sessions, CourierWriteFails(s) PROVE Modes'
  BY <1>13, SessionParts, Zenon DEF CourierWriteFails, Shapes, Modes
<1>14. ASSUME NEW s \in Sessions, CourierStop(s) PROVE Modes'
  BY <1>14, SessionParts, Zenon DEF CourierStop, Shapes, Modes
<1>15. ASSUME NEW ch \in Channels, deliverLocal(ch) PROVE Modes'
  BY <1>15, SessionParts, Zenon DEF deliverLocal, Shapes, Modes
<1>16. CASE UNCHANGED vars
  BY <1>16, SessionParts, Zenon DEF vars, Shapes, Modes
<1> QED
  BY <1>1, <1>2, <1>3, <1>4, <1>5, <1>6, <1>7, <1>8, <1>9, <1>10, <1>11, <1>12, <1>13,
     <1>14, <1>15, <1>16, Zenon
  DEF Next, Step, Handler, Executor, Courier, Publish, DeliverLocal, Topics

(* What a session knows it goes on knowing.                                *)
LEMMA NextKnown == IInv /\ [Next]_vars => (\A r \in Sessions, t \in Topics : Known(r, t) => Known(r, t)')
<1> SUFFICES ASSUME Shapes, Modes, [Next]_vars PROVE (\A r \in Sessions, t \in Topics : Known(r, t) => Known(r, t)')
  BY Zenon DEF IInv
<1> USE DEF broker, router, conn, session
<1>1. ASSUME NEW c \in Conns, NEW T \in SUBSET Topics, handleSubscribe(c, T) PROVE (\A r \in Sessions, t \in Topics : Known(r, t) => Known(r, t)')
  BY <1>1, SessionParts, Zenon
  DEF handleSubscribe, Take, Subscribe, InPubSubMode, Shapes, Known
<1>2. ASSUME NEW c \in Conns, NEW kind, NEW T \in SUBSET Topics, handleUnsubscribe(c, kind, T) PROVE (\A r \in Sessions, t \in Topics : Known(r, t) => Known(r, t)')
  BY <1>2, SessionParts, Zenon
  DEF handleUnsubscribe, Take, Unsubscribe, InPubSubMode, Sess, LastGone, Shapes, Known
<1>3. ASSUME NEW c \in Conns, NEW v \in scenario.hello, handleHello(c, v) PROVE (\A r \in Sessions, t \in Topics : Known(r, t) => Known(r, t)')
  BY <1>3, SessionParts, Zenon DEF handleHello, Take, InPubSubMode, NoCmd, Shapes, Known
<1>4. ASSUME NEW c \in Conns, OtherCommand(c) PROVE (\A r \in Sessions, t \in Topics : Known(r, t) => Known(r, t)')
  BY <1>4, SessionParts, Zenon DEF OtherCommand, Take, NoCmd, Shapes, Known
<1>5. ASSUME NEW c \in Conns, Announce(c) PROVE (\A r \in Sessions, t \in Topics : Known(r, t) => Known(r, t)')
  BY <1>5, SessionParts, Zenon DEF Announce, Shapes, Known
<1>6. ASSUME NEW c \in Conns, Reply(c) PROVE (\A r \in Sessions, t \in Topics : Known(r, t) => Known(r, t)')
  <2>1. /\ UNCHANGED broken
        /\ \A d \in Conns \ {c} : pc'[d] = pc[d] /\ cur'[d] = cur[d] /\ client'[d] = client[d]
    BY <1>6, Zenon DEF Reply, LeaveIfEmpty, Shapes
  <2>2. \A r \in Sessions : confirmed[r] \subseteq confirmed'[r]
    BY <1>6, Zenon DEF Reply, Shapes
  <2>3. \A r \in Sessions : r[1] = c /\ client[c] = r[2] /\ cur[c].op = "subscribe"
                               => cur[c].topics \subseteq confirmed'[r]
    <3> SUFFICES ASSUME NEW r \in Sessions, r[1] = c, client[c] = r[2], cur[c].op = "subscribe"
                 PROVE  cur[c].topics \subseteq confirmed'[r]
      BY Zenon
    <3>1. r = Sess(c)
      BY SessionPair, Zenon DEF Sess
    <3>2. /\ confirmed' = [confirmed EXCEPT ![Sess(c)] = confirmed[Sess(c)] \cup cur[c].topics]
          /\ DOMAIN confirmed = Sessions
      BY <1>6, Zenon DEF Reply, Shapes
    <3> QED  BY <3>1, <3>2, Zenon
  <2> SUFFICES ASSUME NEW r \in Sessions, NEW t \in Topics, Known(r, t) PROVE Known(r, t)'
    BY Zenon
  <2>4. CASE r[1] = c
    BY <2>1, <2>2, <2>3, <2>4, Zenon DEF Known
  <2>5. CASE r[1] # c
    <3>1. r[1] \in Conns \ {c}
      BY <2>5, SessionParts, Zenon
    <3> QED  BY <2>1, <2>2, <3>1, Zenon DEF Known
  <2> QED  BY <2>4, <2>5, Zenon
<1>7. ASSUME NEW c \in Conns, ReplyFails(c) PROVE (\A r \in Sessions, t \in Topics : Known(r, t) => Known(r, t)')
  BY <1>7, SessionParts, Zenon
  DEF ReplyFails, LeaveIfEmpty, Leaves, InPubSubMode, Sess, NoCmd, Shapes, Known
<1>8. ASSUME NEW c \in Conns, Cleanup(c) PROVE (\A r \in Sessions, t \in Topics : Known(r, t) => Known(r, t)')
  BY <1>8, SessionParts, Zenon
  DEF Cleanup, Cleans, CleanupTopics, InPubSubMode, Sess, LastGone, Shapes, Known
<1>9. ASSUME NEW c \in Conns, Closed(c) PROVE (\A r \in Sessions, t \in Topics : Known(r, t) => Known(r, t)')
  BY <1>9, SessionParts, Zenon DEF Closed, Cleans, InPubSubMode, Sess, Shapes, Known
<1>10. ASSUME NEW c \in Conns, LoopEnds(c) \/ ReaderEOF(c) PROVE (\A r \in Sessions, t \in Topics : Known(r, t) => Known(r, t)')
  BY <1>10, SessionParts, Zenon DEF LoopEnds, ReaderEOF, Shapes, Known
<1>11. ASSUME NEW s \in Sessions, CourierTake(s) PROVE (\A r \in Sessions, t \in Topics : Known(r, t) => Known(r, t)')
  BY <1>11, SessionParts, Zenon DEF CourierTake, Shapes, Known
<1>12. ASSUME NEW s \in Sessions, CourierWrite(s) PROVE (\A r \in Sessions, t \in Topics : Known(r, t) => Known(r, t)')
  BY <1>12, SessionParts, Zenon DEF CourierWrite, MayWrite, Shapes, Known
<1>13. ASSUME NEW s \in Sessions, CourierWriteFails(s) PROVE (\A r \in Sessions, t \in Topics : Known(r, t) => Known(r, t)')
  BY <1>13, SessionParts, Zenon DEF CourierWriteFails, Shapes, Known
<1>14. ASSUME NEW s \in Sessions, CourierStop(s) PROVE (\A r \in Sessions, t \in Topics : Known(r, t) => Known(r, t)')
  BY <1>14, SessionParts, Zenon DEF CourierStop, Shapes, Known
<1>15. ASSUME NEW ch \in Channels, deliverLocal(ch) PROVE (\A r \in Sessions, t \in Topics : Known(r, t) => Known(r, t)')
  BY <1>15, SessionParts, Zenon DEF deliverLocal, Shapes, Known
<1>16. CASE UNCHANGED vars
  BY <1>16, SessionParts, Zenon DEF vars, Shapes, Known
<1> QED
  BY <1>1, <1>2, <1>3, <1>4, <1>5, <1>6, <1>7, <1>8, <1>9, <1>10, <1>11, <1>12, <1>13,
     <1>14, <1>15, <1>16, Zenon
  DEF Next, Step, Handler, Executor, Courier, Publish, DeliverLocal, Topics

(* No message is written before its topic is confirmed.                    *)
LEMMA NextHeralded == IInv /\ [Next]_vars => (Heralded /\ ConfirmedFirst)'
<1> SUFFICES ASSUME Shapes, Modes, Heralded, ConfirmedFirst, Ordered, [Next]_vars PROVE (Heralded /\ ConfirmedFirst)'
  BY Zenon DEF IInv
<1> \A r \in Sessions, t \in Topics : Known(r, t) => Known(r, t)'
  BY NextKnown, Zenon DEF IInv
<1> \A r \in Sessions : queue[r] \in Seq(Msg) /\ hand[r] \in Seq(Msg) /\ delivered[r] \in Seq(Msg)
  BY Zenon DEF Shapes
<1> \A q \in Seq(Msg) : \A i \in DOMAIN q : q[i][2] \in Topics
  BY DEF Msg
<1>h. ASSUME \A r \in Sessions, t \in Topics : Expects(r, t)' => Expects(r, t) \/ Known(r, t)'
      PROVE  Heralded'
  BY <1>h, Zenon DEF Heralded
<1>f. ASSUME \A t \in Topics : subs'[t] \subseteq subs[t],
             UNCHANGED <<queue, hand, delivered, confirmed>>
      PROVE  (Heralded /\ ConfirmedFirst)'
  <2>1. \A r \in Sessions, t \in Topics : Expects(r, t)' => Expects(r, t)
    BY <1>f, Zenon DEF Expects
  <2>2. ConfirmedFirst'
    BY <1>f, Zenon DEF ConfirmedFirst
  <2> QED  BY <1>h, <2>1, <2>2, Zenon
<1> USE DEF broker, router, conn, session
<1>1. ASSUME NEW c \in Conns, NEW T \in SUBSET Topics, handleSubscribe(c, T) PROVE (Heralded /\ ConfirmedFirst)'
  <2>k. PICK k : k = IF InPubSubMode(c) THEN client[c] ELSE made[c] + 1
    BY Zenon
  <2>1. \A t \in Topics : subs'[t] = subs[t] \/ (t \in T /\ subs'[t] = subs[t] \cup {<<c, k>>})
    BY <1>1, <2>k, Zenon DEF handleSubscribe, Subscribe
  <2>2. /\ pc'[c] = "exec" /\ cur'[c] = [op |-> "subscribe", topics |-> T] /\ client'[c] = k
        /\ UNCHANGED <<queue, hand, delivered, confirmed>>
    BY <1>1, <2>k, Zenon DEF handleSubscribe, Take, Shapes
  <2>3. \A t \in T : Known(<<c, k>>, t)'
    BY <2>2 DEF Known
  <2>4. \A r \in Sessions, t \in Topics : Expects(r, t)' => Expects(r, t) \/ Known(r, t)'
    BY <2>1, <2>2, <2>3, Zenon DEF Expects
  <2> QED  BY <1>h, <2>2, <2>4, Zenon DEF ConfirmedFirst
<1>2. ASSUME NEW c \in Conns, NEW kind, NEW T \in SUBSET Topics, handleUnsubscribe(c, kind, T) PROVE (Heralded /\ ConfirmedFirst)'
  BY <1>f, <1>2, SMTT(60) DEF handleUnsubscribe, Unsubscribe
<1>3. ASSUME NEW c \in Conns, NEW v \in scenario.hello, handleHello(c, v) PROVE (Heralded /\ ConfirmedFirst)'
  BY <1>f, <1>3, Zenon DEF handleHello
<1>4. ASSUME NEW c \in Conns, OtherCommand(c) PROVE (Heralded /\ ConfirmedFirst)'
  BY <1>f, <1>4, Zenon DEF OtherCommand
<1>5. ASSUME NEW c \in Conns, Announce(c) PROVE (Heralded /\ ConfirmedFirst)'
  BY <1>f, <1>5, Zenon DEF Announce
<1>6. ASSUME NEW c \in Conns, Reply(c) PROVE (Heralded /\ ConfirmedFirst)'
  <2>1. UNCHANGED <<subs, hand>> /\ \A r \in Sessions : confirmed[r] \subseteq confirmed'[r]
    BY <1>6, Zenon DEF Reply, Shapes
  <2>2. CASE ~(Stays(c) /\ proto[c] = 3)
    <3>1. UNCHANGED <<queue, delivered>>
      BY <1>6, <2>2, Zenon DEF Reply, InlineDelivery
    <3>2. \A r \in Sessions, t \in Topics : Expects(r, t)' => Expects(r, t)
      BY <2>1, <3>1, Zenon DEF Expects
    <3>3. ConfirmedFirst'
      BY <2>1, <3>1, Zenon DEF ConfirmedFirst
    <3> QED  BY <1>h, <3>2, <3>3, Zenon
  <2>3. CASE Stays(c) /\ proto[c] = 3
    <3>1. PICK s \in Sessions : s = Sess(c)
      BY <2>3, SessIsSession, Zenon DEF Stays
    <3>2. /\ queue'[s] = <<>> /\ delivered'[s] = delivered[s] \o queue[s]
          /\ \A r \in Sessions \ {s} : queue'[r] = queue[r] /\ delivered'[r] = delivered[r]
      BY <1>6, <2>3, <3>1, Zenon DEF Reply, InlineDelivery, Shapes
    <3>3. pc'[c] = "ready" /\ broken'[c] = broken[c] /\ ~broken[c] /\ s[1] = c
      BY <1>6, <3>1, Zenon DEF Reply, Shapes, Sess
    <3>4. \A t \in Topics : Carries(queue[s], t) => t \in confirmed'[s]
      <4> SUFFICES ASSUME NEW t \in Topics, Carries(queue[s], t) PROVE t \in confirmed'[s]
        BY Zenon
      <4>1. Known(s, t)'
        BY <3>1, Zenon DEF Heralded, Expects
      <4> QED  BY <3>3, <4>1, Zenon DEF Known
    <3>5. \A i \in DOMAIN queue[s] : queue[s][i][2] \in confirmed'[s]
      BY <3>1, <3>4, Zenon DEF Carries
    <3>6. \A r \in Sessions, t \in Topics : Expects(r, t)' => Expects(r, t)
      BY <2>1, <3>2 DEF Expects, Carries
    <3>7. \A i \in DOMAIN (delivered[s] \o queue[s]) : (delivered[s] \o queue[s])[i][2] \in confirmed'[s]
      <4>1. \A i \in DOMAIN delivered[s] : delivered[s][i][2] \in confirmed'[s]
        BY <2>1, Zenon DEF ConfirmedFirst
      <4>2. delivered[s] \in Seq(Msg) /\ queue[s] \in Seq(Msg)
        BY Zenon
      <4> QED  BY <3>5, <4>1, <4>2, Appended, ZenonT(60)
    <3>8. ConfirmedFirst'
      BY <2>1, <3>2, <3>7, Zenon DEF ConfirmedFirst
    <3> QED  BY <1>h, <3>6, <3>8, Zenon
  <2> QED  BY <2>2, <2>3, Zenon
<1>7. ASSUME NEW c \in Conns, ReplyFails(c) PROVE (Heralded /\ ConfirmedFirst)'
  BY <1>f, <1>7, Zenon DEF ReplyFails
<1>8. ASSUME NEW c \in Conns, Cleanup(c) PROVE (Heralded /\ ConfirmedFirst)'
  BY <1>f, <1>8 DEF Cleanup
<1>9. ASSUME NEW c \in Conns, Closed(c) PROVE (Heralded /\ ConfirmedFirst)'
  BY <1>f, <1>9, Zenon DEF Closed
<1>10. ASSUME NEW c \in Conns, LoopEnds(c) \/ ReaderEOF(c) PROVE (Heralded /\ ConfirmedFirst)'
  BY <1>f, <1>10, Zenon DEF LoopEnds, ReaderEOF
<1>11. ASSUME NEW s \in Sessions, CourierTake(s) PROVE (Heralded /\ ConfirmedFirst)'
  <2>1. UNCHANGED <<subs, delivered, confirmed>>
    BY <1>11, Zenon DEF CourierTake
  <2>2. /\ queue[s] # <<>> /\ queue'[s] = Tail(queue[s]) /\ hand'[s] = <<Head(queue[s])>>
        /\ \A r \in Sessions \ {s} : queue'[r] = queue[r] /\ hand'[r] = hand[r]
    BY <1>11, Zenon DEF CourierTake, Shapes
  <2>3. \A t : Carries(Tail(queue[s]), t) \/ Carries(<<Head(queue[s])>>, t) => Carries(queue[s], t)
    <3>1. queue[s] \in Seq(Msg) /\ queue[s] # <<>>
      BY <2>2, Zenon
    <3>2. /\ \A i \in DOMAIN Tail(queue[s]) :
                i + 1 \in DOMAIN queue[s] /\ Tail(queue[s])[i] = queue[s][i + 1]
          /\ 1 \in DOMAIN queue[s] /\ Head(queue[s]) = queue[s][1]
      BY <3>1
    <3> QED  BY <3>2 DEF Carries
  <2>4. \A r \in Sessions, t \in Topics : Expects(r, t)' => Expects(r, t)
    BY <2>1, <2>2, <2>3, Zenon DEF Expects
  <2> QED  BY <1>h, <2>1, <2>4, Zenon DEF ConfirmedFirst
<1>12. ASSUME NEW s \in Sessions, CourierWrite(s) PROVE (Heralded /\ ConfirmedFirst)'
  <2>1. UNCHANGED <<subs, queue, confirmed>>
    BY <1>12, Zenon DEF CourierWrite
  <2>2. /\ delivered'[s] = delivered[s] \o hand[s] /\ hand'[s] = <<>>
        /\ \A r \in Sessions \ {s} : delivered'[r] = delivered[r] /\ hand'[r] = hand[r]
    BY <1>12, Zenon DEF CourierWrite, Shapes
  <2>3. \A t \in Topics : Carries(hand[s], t) => t \in confirmed[s]
    BY <1>12, Zenon DEF Heralded, Expects, Known, CourierWrite, MayWrite
  <2>4. \A i \in DOMAIN hand[s] : hand[s][i][2] \in confirmed[s]
    BY <2>3, Zenon DEF Carries
  <2>5. \A r \in Sessions, t \in Topics : Expects(r, t)' => Expects(r, t)
    BY <2>1, <2>2 DEF Expects, Carries
  <2>6. \A i \in DOMAIN (delivered[s] \o hand[s]) : (delivered[s] \o hand[s])[i][2] \in confirmed[s]
    <3>1. \A i \in DOMAIN delivered[s] : delivered[s][i][2] \in confirmed[s]
      BY Zenon DEF ConfirmedFirst
    <3>2. delivered[s] \in Seq(Msg) /\ hand[s] \in Seq(Msg)
      BY Zenon
    <3> QED  BY <2>4, <3>1, <3>2, Appended, ZenonT(60)
  <2>7. ConfirmedFirst'
    BY <2>1, <2>2, <2>6, Zenon DEF ConfirmedFirst
  <2> QED  BY <1>h, <2>5, <2>7, Zenon
<1>13. ASSUME NEW s \in Sessions, CourierWriteFails(s) PROVE (Heralded /\ ConfirmedFirst)'
  <2>1. UNCHANGED <<subs, queue, delivered, confirmed>>
    BY <1>13, Zenon DEF CourierWriteFails
  <2>2. \A r \in Sessions : hand'[r] = hand[r] \/ hand'[r] = <<>>
    BY <1>13, Zenon DEF CourierWriteFails, Shapes
  <2>3. \A r \in Sessions, t \in Topics : Expects(r, t)' => Expects(r, t)
    BY <2>1, <2>2 DEF Expects, Carries
  <2> QED  BY <1>h, <2>1, <2>3, Zenon DEF ConfirmedFirst
<1>14. ASSUME NEW s \in Sessions, CourierStop(s) PROVE (Heralded /\ ConfirmedFirst)'
  BY <1>f, <1>14, Zenon DEF CourierStop
<1>15. ASSUME NEW ch \in Channels, deliverLocal(ch) PROVE (Heralded /\ ConfirmedFirst)'
  <2>1. UNCHANGED <<subs, hand, delivered, confirmed>>
    BY <1>15, Zenon DEF deliverLocal
  <2>2. ASSUME NEW r \in Sessions, NEW t \in Topics, Carries(queue'[r], t)
        PROVE  Carries(queue[r], t) \/ r \in subs[t]
    <3>1. PICK i \in DOMAIN queue'[r] : queue'[r][i][2] = t
      BY <2>2, Zenon DEF Carries
    <3>2. Len(queue[r]) <= QueueSize
      BY Zenon DEF Ordered, InOrder
    <3>3. \/ i \in DOMAIN queue[r] /\ queue'[r][i] = queue[r][i]
          \/ queue'[r][i][2] \in Topics /\ r \in subs[queue'[r][i][2]]
      BY <1>15, <3>1, <3>2, BatchSent, Zenon
    <3> QED  BY <3>1, <3>3, Zenon DEF Carries
  <2>3. \A r \in Sessions, t \in Topics : Expects(r, t)' => Expects(r, t)
    BY <2>1, <2>2, Zenon DEF Expects
  <2> QED  BY <1>h, <2>1, <2>3, Zenon DEF ConfirmedFirst
<1>16. CASE UNCHANGED vars
  BY <1>f, <1>16, Zenon DEF vars
<1> QED
  BY <1>1, <1>2, <1>3, <1>4, <1>5, <1>6, <1>7, <1>8, <1>9, <1>10, <1>11, <1>12, <1>13,
     <1>14, <1>15, <1>16, Zenon
  DEF Next, Step, Handler, Executor, Courier, Publish, DeliverLocal, Topics

(* Ascending sequences, one after the other, ascend.                       *)
LEMMA AppendAscending ==
  ASSUME NEW a \in Seq(Msg), NEW b \in Seq(Msg), Ascending(a), Ascending(b), Precedes(a, b)
  PROVE  Ascending(a \o b)
<1> SUFFICES ASSUME NEW i \in DOMAIN (a \o b), NEW j \in DOMAIN (a \o b), i < j
             PROVE  (a \o b)[i][1] <= (a \o b)[j][1]
  BY Zenon DEF Ascending
<1>1. i \in Nat /\ j \in Nat /\ Len(a) \in Nat
  OBVIOUS
<1>2. \/ i \in DOMAIN a /\ (a \o b)[i] = a[i]
      \/ i > Len(a) /\ i - Len(a) \in DOMAIN b /\ (a \o b)[i] = b[i - Len(a)]
  BY Appended, Zenon
<1>3. \/ j \in DOMAIN a /\ (a \o b)[j] = a[j]
      \/ j > Len(a) /\ j - Len(a) \in DOMAIN b /\ (a \o b)[j] = b[j - Len(a)]
  BY Appended, Zenon
<1>4. \A k \in DOMAIN a : k <= Len(a)
  OBVIOUS
<1> QED  BY <1>1, <1>2, <1>3, <1>4, SMTT(60) DEF Ascending, Precedes

(* What holds of both parts of a concatenation against a third.            *)
LEMMA AppendPrecedes ==
  ASSUME NEW a \in Seq(Msg), NEW b \in Seq(Msg), NEW d, Precedes(a, d), Precedes(b, d)
  PROVE  Precedes(a \o b, d)
BY Appended DEF Precedes

(* The empty sequence is in order with any other.                          *)
LEMMA EmptyOrder ==
  /\ Ascending(<<>>) /\ \A q : Precedes(q, <<>>) /\ Precedes(<<>>, q)
  /\ \A n : \A i \in DOMAIN <<>> : <<>>[i][1] <= n
  /\ Len(<<>>) <= QueueSize /\ Len(<<>>) <= 1
<1>1. DOMAIN <<>> = {} /\ Len(<<>>) = 0
  OBVIOUS
<1> QED  BY <1>1, SizeAssumption DEF Ascending, Precedes

(* A message that is taken and lost leaves the rest in order.              *)
LEMMA DropOrder ==
  ASSUME NEW d, NEW h, NEW q, NEW n, InOrder(d, h, q, n) PROVE InOrder(d, <<>>, q, n)
BY EmptyOrder, Zenon DEF InOrder

(* What is taken and written follows what was written.                     *)
LEMMA WriteOrder ==
  ASSUME NEW d \in Seq(Msg), NEW h \in Seq(Msg), NEW q, NEW n, InOrder(d, h, q, n)
  PROVE  InOrder(d \o h, <<>>, q, n)
<1>1. Ascending(h)
  BY DEF InOrder, Ascending
<1>2. Ascending(d \o h) /\ Precedes(d \o h, q)
  BY <1>1, AppendAscending, AppendPrecedes, Zenon DEF InOrder
<1>3. \A i \in DOMAIN (d \o h) : (d \o h)[i][1] <= n
  BY Appended, Zenon DEF InOrder
<1> QED  BY <1>2, <1>3, EmptyOrder, Zenon DEF InOrder

(* What waits and is written inline follows what was written.              *)
LEMMA InlineOrder ==
  ASSUME NEW d \in Seq(Msg), NEW h, NEW q \in Seq(Msg), NEW n, InOrder(d, h, q, n)
  PROVE  InOrder(d \o q, <<>>, <<>>, n)
<1>1. Ascending(d \o q)
  BY AppendAscending, Zenon DEF InOrder
<1>2. \A i \in DOMAIN (d \o q) : (d \o q)[i][1] <= n
  BY Appended, Zenon DEF InOrder
<1> QED  BY <1>1, <1>2, EmptyOrder, Zenon DEF InOrder

(* The first message that waits is taken.                                  *)
LEMMA TakeOrder ==
  ASSUME NEW d, NEW h, NEW q \in Seq(Msg), NEW n, InOrder(d, h, q, n), q # <<>>
  PROVE  InOrder(d, <<Head(q)>>, Tail(q), n)
<1> DEFINE t == Tail(q)
           m == <<Head(q)>>
<1>1. /\ \A i \in DOMAIN t : i \in Nat /\ i + 1 \in DOMAIN q /\ t[i] = q[i + 1]
      /\ Len(t) <= Len(q) /\ Len(q) \in Nat /\ Len(t) \in Nat /\ \A i \in DOMAIN q : i \in Nat
  OBVIOUS
<1>2. 1 \in DOMAIN q /\ DOMAIN m = {1} /\ m[1] = q[1] /\ Len(m) = 1
  OBVIOUS
<1> HIDE DEF t, m
<1>3. Ascending(t)
  <2> SUFFICES ASSUME NEW i \in DOMAIN t, NEW j \in DOMAIN t, i < j PROVE t[i][1] <= t[j][1]
    BY Zenon DEF Ascending
  <2>1. i + 1 \in DOMAIN q /\ j + 1 \in DOMAIN q /\ i + 1 < j + 1
    BY <1>1
  <2>2. q[i + 1][1] <= q[j + 1][1]
    BY <2>1, Zenon DEF InOrder, Ascending
  <2> QED  BY <1>1, <2>2, Zenon
<1>4. Precedes(m, t)
  <2> SUFFICES ASSUME NEW j \in DOMAIN t PROVE q[1][1] <= t[j][1]
    BY <1>2, Zenon DEF Precedes
  <2>1. j + 1 \in DOMAIN q /\ 1 < j + 1
    BY <1>1, <1>2
  <2>2. q[1][1] <= q[j + 1][1]
    BY <1>2, <2>1, Zenon DEF InOrder, Ascending
  <2> QED  BY <1>1, <2>2, Zenon
<1>5. Precedes(d, m) /\ Precedes(d, t)
  BY <1>1, <1>2, Zenon DEF InOrder, Precedes
<1>6. /\ \A i \in DOMAIN m : m[i][1] <= n
      /\ \A i \in DOMAIN t : t[i][1] <= n
  BY <1>1, <1>2, Zenon DEF InOrder
<1>7. Len(t) <= QueueSize /\ Len(m) <= 1
  BY <1>1, <1>2, SizeAssumption DEF InOrder
<1> QED  BY <1>3, <1>4, <1>5, <1>6, <1>7, Zenon DEF InOrder, t, m

(* Messages with a higher number are put behind those that wait.           *)
LEMMA PublishOrder ==
  ASSUME NEW d \in Seq(Msg), NEW h \in Seq(Msg), NEW q \in Seq(Msg), NEW r \in Seq(Msg), NEW n \in Nat,
         InOrder(d, h, q, n), Len(r) <= QueueSize,
         \A i \in DOMAIN r : \/ i \in DOMAIN q /\ r[i] = q[i]
                             \/ i > Len(q) /\ r[i][1] = n + 1
  PROVE  InOrder(d, h, r, n + 1)
<1>1. \A e \in Msg : e[1] \in Nat
  BY Zenon DEF Msg
<1>2. /\ \A i \in DOMAIN d : d[i][1] \in Nat
      /\ \A i \in DOMAIN h : h[i][1] \in Nat
      /\ \A i \in DOMAIN q : q[i][1] \in Nat /\ i \in Nat /\ i <= Len(q)
      /\ \A i \in DOMAIN r : r[i][1] \in Nat /\ i \in Nat
  BY <1>1
<1>3. Len(q) \in Nat
  OBVIOUS
<1>4. /\ \A i \in DOMAIN d : d[i][1] <= n + 1
      /\ \A i \in DOMAIN h : h[i][1] <= n + 1
      /\ \A i \in DOMAIN r : r[i][1] <= n + 1
  <2>1. \A x \in Nat : x <= n => x <= n + 1
    OBVIOUS
  <2>2. \A i \in DOMAIN q : q[i][1] <= n + 1
    BY <1>2, <2>1, Zenon DEF InOrder
  <2>3. \A i \in DOMAIN r : r[i][1] <= n + 1
    BY <1>2, <2>2, SMTT(60)
  <2> QED  BY <1>2, <2>1, <2>3, Zenon DEF InOrder
<1>5. Precedes(d, r)
  BY <1>2, <1>4, Zenon DEF InOrder, Precedes
<1>6. Precedes(h, r)
  BY <1>2, <1>4, Zenon DEF InOrder, Precedes
<1>7. Ascending(r)
  <2> SUFFICES ASSUME NEW i \in DOMAIN r, NEW j \in DOMAIN r, i < j PROVE r[i][1] <= r[j][1]
    BY Zenon DEF Ascending
  <2>1. CASE r[j][1] = n + 1
    BY <1>4, <2>1, Zenon
  <2>2. CASE j \in DOMAIN q /\ r[j] = q[j]
    <3>1. ~(i > Len(q))
      BY <1>2, <1>3, <2>2
    <3>2. i \in DOMAIN q /\ r[i] = q[i]
      BY <3>1, Zenon
    <3> QED  BY <2>2, <3>2, Zenon DEF InOrder, Ascending
  <2> QED  BY <2>1, <2>2, Zenon
<1> QED  BY <1>4, <1>5, <1>6, <1>7, Zenon DEF InOrder

(* Messages keep the order of their publication.                           *)
LEMMA NextOrdered == IInv /\ [Next]_vars => Ordered'
<1> SUFFICES ASSUME Shapes, Modes, Ordered, [Next]_vars PROVE Ordered'
  BY Zenon DEF IInv
<1> \A r \in Sessions : queue[r] \in Seq(Msg) /\ hand[r] \in Seq(Msg) /\ delivered[r] \in Seq(Msg)
  BY Zenon DEF Shapes
<1>f. UNCHANGED <<queue, hand, delivered, courier, msgs>> => Ordered'
  BY Zenon DEF Ordered
<1> USE DEF broker, router, conn, session
<1>1. ASSUME NEW c \in Conns, NEW T \in SUBSET Topics, handleSubscribe(c, T) PROVE Ordered'
  BY <1>f, <1>1, Zenon DEF handleSubscribe
<1>2. ASSUME NEW c \in Conns, NEW kind, NEW T \in SUBSET Topics, handleUnsubscribe(c, kind, T) PROVE Ordered'
  BY <1>f, <1>2, Zenon DEF handleUnsubscribe
<1>3. ASSUME NEW c \in Conns, NEW v \in scenario.hello, handleHello(c, v) PROVE Ordered'
  BY <1>f, <1>3, Zenon DEF handleHello
<1>4. ASSUME NEW c \in Conns, OtherCommand(c) PROVE Ordered'
  BY <1>f, <1>4, Zenon DEF OtherCommand
<1>5. ASSUME NEW c \in Conns, Announce(c) PROVE Ordered'
  BY <1>f, <1>5, Zenon DEF Announce
<1>6. ASSUME NEW c \in Conns, Reply(c) PROVE Ordered'
  <2>1. UNCHANGED <<hand, msgs>>
    BY <1>6, Zenon DEF Reply
  <2>2. \A r \in Sessions : courier'[r] # "write" => hand[r] = <<>>
    <3> SUFFICES ASSUME NEW r \in Sessions, courier'[r] # courier[r] PROVE hand[r] = <<>>
      BY Zenon DEF Ordered
    <3>1. StartsCourier(c) /\ r = Sess(c)
      BY <1>6, Zenon DEF Reply, Shapes
    <3>2. courier[r] = "none"
      BY <3>1, SessionParts, Zenon DEF Modes, StartsCourier, Sess
    <3> QED  BY <3>2, Zenon DEF Ordered
  <2>3. CASE ~(Stays(c) /\ proto[c] = 3)
    <3>1. UNCHANGED <<queue, delivered>>
      BY <1>6, <2>3, Zenon DEF Reply, InlineDelivery
    <3> QED  BY <2>1, <2>2, <3>1, Zenon DEF Ordered
  <2>4. CASE Stays(c) /\ proto[c] = 3
    <3>1. PICK s \in Sessions : s = Sess(c)
      BY <2>4, SessIsSession, Zenon DEF Stays
    <3>2. /\ queue'[s] = <<>> /\ delivered'[s] = delivered[s] \o queue[s]
          /\ \A r \in Sessions \ {s} : queue'[r] = queue[r] /\ delivered'[r] = delivered[r]
      BY <1>6, <2>4, <3>1, Zenon DEF Reply, InlineDelivery, Shapes
    <3>3. hand[s] = <<>>
      <4>1. s[1] = c /\ s[2] = client[c]
        BY <3>1, Zenon DEF Sess
      <4>2. courier[s] = "none"
        BY <2>4, <4>1 DEF Modes
      <4> QED  BY <4>2, Zenon DEF Ordered
    <3>4. InOrder(delivered[s] \o queue[s], <<>>, <<>>, msgs)
      BY InlineOrder, Zenon DEF Ordered
    <3> QED  BY <2>1, <2>2, <3>2, <3>3, <3>4, Zenon DEF Ordered
  <2> QED  BY <2>3, <2>4, Zenon
<1>7. ASSUME NEW c \in Conns, ReplyFails(c) PROVE Ordered'
  BY <1>f, <1>7, Zenon DEF ReplyFails
<1>8. ASSUME NEW c \in Conns, Cleanup(c) PROVE Ordered'
  BY <1>f, <1>8, Zenon DEF Cleanup
<1>9. ASSUME NEW c \in Conns, Closed(c) PROVE Ordered'
  BY <1>f, <1>9, Zenon DEF Closed
<1>10. ASSUME NEW c \in Conns, LoopEnds(c) \/ ReaderEOF(c) PROVE Ordered'
  BY <1>f, <1>10, Zenon DEF LoopEnds, ReaderEOF
<1>11. ASSUME NEW s \in Sessions, CourierTake(s) PROVE Ordered'
  <2>1. UNCHANGED <<delivered, msgs>>
    BY <1>11, Zenon DEF CourierTake
  <2>2. /\ queue[s] # <<>> /\ queue'[s] = Tail(queue[s]) /\ hand'[s] = <<Head(queue[s])>>
        /\ courier'[s] = "write"
        /\ \A r \in Sessions \ {s} :
             queue'[r] = queue[r] /\ hand'[r] = hand[r] /\ courier'[r] = courier[r]
    BY <1>11, Zenon DEF CourierTake, Shapes
  <2>3. InOrder(delivered[s], hand'[s], queue'[s], msgs)
    BY <2>2, TakeOrder, Zenon DEF Ordered
  <2> QED  BY <2>1, <2>2, <2>3, Zenon DEF Ordered
<1>12. ASSUME NEW s \in Sessions, CourierWrite(s) PROVE Ordered'
  <2>1. UNCHANGED <<queue, msgs>>
    BY <1>12, Zenon DEF CourierWrite
  <2>2. /\ delivered'[s] = delivered[s] \o hand[s] /\ hand'[s] = <<>>
        /\ \A r \in Sessions \ {s} :
             delivered'[r] = delivered[r] /\ hand'[r] = hand[r] /\ courier'[r] = courier[r]
    BY <1>12, Zenon DEF CourierWrite, Shapes
  <2>3. InOrder(delivered'[s], hand'[s], queue[s], msgs)
    BY <2>2, WriteOrder, Zenon DEF Ordered
  <2> QED  BY <2>1, <2>2, <2>3, Zenon DEF Ordered
<1>13. ASSUME NEW s \in Sessions, CourierWriteFails(s) PROVE Ordered'
  <2>1. /\ UNCHANGED <<queue, delivered, msgs>>
        /\ \A r \in Sessions : \/ hand'[r] = hand[r] /\ courier'[r] = courier[r]
                               \/ hand'[r] = <<>>
    BY <1>13, Zenon DEF CourierWriteFails, Shapes
  <2> QED  BY <2>1, DropOrder, Zenon DEF Ordered
<1>14. ASSUME NEW s \in Sessions, CourierStop(s) PROVE Ordered'
  <2>1. /\ UNCHANGED <<queue, delivered, hand, msgs>>
        /\ \A r \in Sessions : courier'[r] # "write" => courier[r] # "write"
    BY <1>14, Zenon DEF CourierStop, Shapes
  <2> QED  BY <2>1, Zenon DEF Ordered
<1>15. ASSUME NEW ch \in Channels, deliverLocal(ch) PROVE Ordered'
  <2>1. UNCHANGED <<hand, delivered, courier>> /\ msgs' = msgs + 1 /\ msgs \in Nat
    BY <1>15, Zenon DEF deliverLocal, Shapes
  <2> SUFFICES ASSUME NEW r \in Sessions PROVE InOrder(delivered[r], hand[r], queue'[r], msgs + 1)
    BY <2>1, Zenon DEF Ordered
  <2>2. /\ InOrder(delivered[r], hand[r], queue[r], msgs) /\ queue[r] \in Seq(Msg)
        /\ hand[r] \in Seq(Msg) /\ delivered[r] \in Seq(Msg)
    BY Zenon DEF Ordered
  <2>3. /\ queue'[r] \in Seq(Msg) /\ Len(queue'[r]) <= QueueSize
        /\ \A i \in DOMAIN queue'[r] :
              \/ i \in DOMAIN queue[r] /\ queue'[r][i] = queue[r][i]
              \/ i > Len(queue[r]) /\ queue'[r][i][1] = msgs + 1
    BY <1>15, <2>2, BatchSent, Zenon DEF InOrder
  <2> QED  BY <2>1, <2>2, <2>3, PublishOrder, Zenon
<1>16. CASE UNCHANGED vars
  BY <1>f, <1>16, Zenon DEF vars
<1> QED
  BY <1>1, <1>2, <1>3, <1>4, <1>5, <1>6, <1>7, <1>8, <1>9, <1>10, <1>11, <1>12, <1>13,
     <1>14, <1>15, <1>16, Zenon
  DEF Next, Step, Handler, Executor, Courier, Publish, DeliverLocal, Topics

(* No connection has subscribed at the start.                              *)
LEMMA InitIInv == Init => IInv
<1> SUFFICES ASSUME Init PROVE IInv
  BY Zenon
<1>1. Shapes
  BY SMTT(60) DEF Init, Shapes
<1>2. Modes
  BY SessionParts, SizeAssumption DEF Init, Modes
<1>3. Heralded /\ ConfirmedFirst
  BY DEF Init, Heralded, ConfirmedFirst, Expects, Carries
<1>4. Ordered
  BY EmptyOrder, Zenon DEF Init, Ordered, InOrder
<1> QED  BY <1>1, <1>2, <1>3, <1>4, Zenon DEF IInv

(* The invariant holds in every state.                                     *)
LEMMA InductiveInvariant == Spec => []IInv
<1>1. IInv /\ [Next]_vars => IInv'
  BY NextShapes, NextModes, NextHeralded, NextOrdered, Zenon DEF IInv
<1> QED  BY InitIInv, <1>1, PTL DEF Spec

(* handleConnection and the delivery goroutine write no message before the *)
(* reply that confirms its topic.                                          *)
THEOREM ConfirmedFirstAlways == Spec => []ConfirmedFirst
BY InductiveInvariant, PTL DEF IInv

(* The messages of a session are written in the order of their             *)
(* publication, and no more wait than msgChan holds.                       *)
THEOREM DeliveredInOrderAlways == Spec => []DeliveredInOrder
<1>1. IInv => DeliveredInOrder
  BY Zenon DEF IInv, Ordered, InOrder, Ascending, DeliveredInOrder
<1> QED  BY InductiveInvariant, <1>1, PTL

-----------------------------------------------------------------------------
\* Announcements are pending only while a command or Cleanup runs.  Cleanup leaves
\* the session nothing.
Announcing ==
    \A c \in Conns : /\ pc[c] \notin {"exec", "closing"} => pend[c] = {}
                     /\ pc[c] = "closing" /\ Cleans(c) => index[Sess(c)] = {}

\* The inductive invariant.
Balanced == IInv /\ Announcing /\ TransitionsBalance

(* Announcements are made before the next command is taken.                *)
LEMMA NextAnnouncing == Balanced /\ [Next]_vars => Announcing'
<1> SUFFICES ASSUME Shapes, Modes, Announcing, [Next]_vars PROVE Announcing'
  BY Zenon DEF Balanced, IInv
<1> \A d \in Conns : InPubSubMode(d) => Sess(d) \in Sessions
  BY SessIsSession, Zenon
<1> USE DEF broker, router, conn, session
<1>1. ASSUME NEW c \in Conns, NEW T \in SUBSET Topics, handleSubscribe(c, T) PROVE Announcing'
  BY <1>1, Zenon
  DEF handleSubscribe, Take, Subscribe, InPubSubMode, Shapes, Announcing, Cleans,
      InPubSubMode, Sess
<1>2. ASSUME NEW c \in Conns, NEW kind, NEW T \in SUBSET Topics, handleUnsubscribe(c, kind, T) PROVE Announcing'
  BY <1>2, ZenonT(60)
  DEF handleUnsubscribe, Take, Unsubscribe, InPubSubMode, Sess, LastGone, Shapes,
      Announcing, Cleans, InPubSubMode, Sess
<1>3. ASSUME NEW c \in Conns, NEW v \in scenario.hello, handleHello(c, v) PROVE Announcing'
  BY <1>3, Zenon
  DEF handleHello, Take, InPubSubMode, NoCmd, Shapes, Announcing, Cleans, InPubSubMode, Sess
<1>4. ASSUME NEW c \in Conns, OtherCommand(c) PROVE Announcing'
  BY <1>4, Zenon
  DEF OtherCommand, Take, NoCmd, Shapes, Announcing, Cleans, InPubSubMode, Sess
<1>5. ASSUME NEW c \in Conns, Announce(c) PROVE Announcing'
  BY <1>5, ZenonT(60) DEF Announce, Shapes, Announcing, Cleans, InPubSubMode, Sess
<1>6. ASSUME NEW c \in Conns, Reply(c) PROVE Announcing'
  BY <1>6, Zenon
  DEF Reply, LeaveIfEmpty, InlineDelivery, StartsCourier, StartedNow, Stays, Leaves,
      InPubSubMode, Sess, NoCmd, Shapes, Announcing, Cleans, InPubSubMode, Sess
<1>7. ASSUME NEW c \in Conns, ReplyFails(c) PROVE Announcing'
  BY <1>7, Zenon
  DEF ReplyFails, LeaveIfEmpty, Leaves, InPubSubMode, Sess, NoCmd, Shapes, Announcing,
      Cleans, InPubSubMode, Sess
<1>8. ASSUME NEW c \in Conns, Cleanup(c) PROVE Announcing'
  BY <1>8, ZenonT(60)
  DEF Cleanup, Cleans, CleanupTopics, InPubSubMode, Sess, LastGone, Shapes, Announcing,
      Cleans, InPubSubMode, Sess
<1>9. ASSUME NEW c \in Conns, Closed(c) PROVE Announcing'
  BY <1>9, Zenon
  DEF Closed, Cleans, InPubSubMode, Sess, Shapes, Announcing, Cleans, InPubSubMode, Sess
<1>10. ASSUME NEW c \in Conns, LoopEnds(c) \/ ReaderEOF(c) PROVE Announcing'
  BY <1>10, ZenonT(60)
  DEF LoopEnds, ReaderEOF, Shapes, Announcing, Cleans, InPubSubMode, Sess
<1>11. ASSUME NEW s \in Sessions, CourierTake(s) PROVE Announcing'
  BY <1>11, Zenon DEF CourierTake, Shapes, Announcing, Cleans, InPubSubMode, Sess
<1>12. ASSUME NEW s \in Sessions, CourierWrite(s) PROVE Announcing'
  BY <1>12, Zenon DEF CourierWrite, MayWrite, Shapes, Announcing, Cleans, InPubSubMode, Sess
<1>13. ASSUME NEW s \in Sessions, CourierWriteFails(s) PROVE Announcing'
  BY <1>13, Zenon DEF CourierWriteFails, Shapes, Announcing, Cleans, InPubSubMode, Sess
<1>14. ASSUME NEW s \in Sessions, CourierStop(s) PROVE Announcing'
  BY <1>14, Zenon DEF CourierStop, Shapes, Announcing, Cleans, InPubSubMode, Sess
<1>15. ASSUME NEW ch \in Channels, deliverLocal(ch) PROVE Announcing'
  BY <1>15, Zenon DEF deliverLocal, Shapes, Announcing, Cleans, InPubSubMode, Sess
<1>16. CASE UNCHANGED vars
  BY <1>16, Zenon DEF vars, Shapes, Announcing, Cleans, InPubSubMode, Sess
<1> QED
  BY <1>1, <1>2, <1>3, <1>4, <1>5, <1>6, <1>7, <1>8, <1>9, <1>10, <1>11, <1>12, <1>13,
     <1>14, <1>15, <1>16, Zenon
  DEF Next, Step, Handler, Executor, Courier, Publish, DeliverLocal, Topics

(* A step of one connection changes the count of pending announcements by  *)
(* its own.                                                                *)
LEMMA PendingOfOne ==
  ASSUME NEW c \in Conns, \A d \in Conns \ {c} : pend'[d] = pend[d], NEW t, NEW x
  PROVE  /\ Pending(t, x) \in Nat
         /\ Pending(t, x)' = Pending(t, x) + (IF <<t, x>> \in pend'[c] THEN 1 ELSE 0)
                                           - (IF <<t, x>> \in pend[c] THEN 1 ELSE 0)
<1> DEFINE A == {d \in Conns : <<t, x>> \in pend[d]}
           B == {d \in Conns : <<t, x>> \in pend'[d]}
           R == {d \in Conns \ {c} : <<t, x>> \in pend[d]}
<1>1. IsFiniteSet(R) /\ c \notin R
  BY ConnsAssumption, FS_Subset, Zenon
<1>2. A = (IF <<t, x>> \in pend[c] THEN R \cup {c} ELSE R)
  BY Zenon
<1>3. B = (IF <<t, x>> \in pend'[c] THEN R \cup {c} ELSE R)
  BY Zenon
<1>4. Cardinality(R) \in Nat /\ Cardinality(R \cup {c}) = Cardinality(R) + 1
  BY <1>1, FS_AddElement, FS_CardinalityType, Zenon
<1>5. Pending(t, x) = Cardinality(A) /\ Pending(t, x)' = Cardinality(B)
  BY Zenon DEF Pending
<1> HIDE DEF A, B, R
<1> QED  BY <1>2, <1>3, <1>4, <1>5, SMTT(60)

(* Leaving topics keeps the books.                                         *)
LEMMA UnsubscribeBalances ==
  ASSUME Shapes, TransitionsBalance, NEW c \in Conns, NEW s \in Sessions, NEW U \in SUBSET Topics,
         pend[c] = {},
         subs' = [t \in Topics |-> IF t \in U THEN subs[t] \ {s} ELSE subs[t]],
         index' = [index EXCEPT ![s] = index[s] \ U],
         pend' = [pend EXCEPT ![c] = {<<t, -1>> : t \in LastGone(s, U)}],
         UNCHANGED <<net, closed>>
  PROVE  TransitionsBalance'
<1>1. IndexesAgree'
  BY ZenonT(60) DEF Shapes, TransitionsBalance, IndexesAgree
<1>2. \A d \in Conns \ {c} : pend'[d] = pend[d]
  BY Zenon DEF Shapes
<1>3. pend'[c] = {<<t, -1>> : t \in LastGone(s, U)}
  BY Zenon DEF Shapes
<1>e. ASSUME NEW t, NEW x
      PROVE  /\ Pending(t, x) \in Nat
             /\ <<t, x>> \in pend'[c] => Pending(t, x)' = Pending(t, x) + 1
             /\ <<t, x>> \notin pend'[c] => Pending(t, x)' = Pending(t, x)
  <2>1. <<t, x>> \notin pend[c]
    BY Zenon
  <2>2. /\ Pending(t, x) \in Nat
        /\ Pending(t, x)' = Pending(t, x) + (IF <<t, x>> \in pend'[c] THEN 1 ELSE 0)
                                          - (IF <<t, x>> \in pend[c] THEN 1 ELSE 0)
    BY <1>2, PendingOfOne, Zenon
  <2> QED  BY <2>1, <2>2
<1>4. ASSUME NEW t \in Topics
      PROVE  net'[t] + Pending(t, 1)' - Pending(t, -1)' = (IF subs'[t] = {} THEN 0 ELSE 1)
  <2>1. /\ Pending(t, 1) \in Nat /\ Pending(t, -1) \in Nat /\ net[t] \in Int /\ net' = net
        /\ net[t] + Pending(t, 1) - Pending(t, -1) = (IF subs[t] = {} THEN 0 ELSE 1)
    BY <1>e, Zenon DEF Shapes, TransitionsBalance
  <2>2. Pending(t, 1)' = Pending(t, 1)
    <3>1. <<t, 1>> \notin pend'[c]
      BY <1>3
    <3> QED  BY <1>e, <3>1, Zenon
  <2>3. CASE t \in LastGone(s, U)
    <3>1. subs[t] # {} /\ subs'[t] = {} /\ <<t, -1>> \in pend'[c]
      BY <1>3, <2>3, Zenon DEF LastGone
    <3>2. Pending(t, -1)' = Pending(t, -1) + 1
      BY <1>e, <3>1, Zenon
    <3> QED  BY <2>1, <2>2, <3>1, <3>2, SMTT(60)
  <2>4. CASE t \notin LastGone(s, U)
    <3>1. (subs'[t] = {}) <=> (subs[t] = {})
      BY <2>4, Zenon DEF LastGone
    <3>2. <<t, -1>> \notin pend'[c]
      BY <1>3, <2>4, Zenon
    <3>3. Pending(t, -1)' = Pending(t, -1)
      BY <1>e, <3>2, Zenon
    <3> QED  BY <2>1, <2>2, <3>1, <3>3, Zenon
  <2> QED  BY <2>3, <2>4, Zenon
<1> QED  BY <1>1, <1>4, Zenon DEF TransitionsBalance

(* So does entering topics, for a session that is not closed.              *)
LEMMA SubscribeBalances ==
  ASSUME Shapes, TransitionsBalance, NEW c \in Conns, NEW s \in Sessions, NEW T \in SUBSET Topics,
         pend[c] = {}, ~closed[s],
         subs' = [t \in Topics |-> IF t \in T THEN subs[t] \cup {s} ELSE subs[t]],
         index' = [index EXCEPT ![s] = index[s] \cup T],
         pend' = [pend EXCEPT ![c] = {<<t, 1>> : t \in {u \in T : subs[u] = {}}}],
         UNCHANGED <<net, closed>>
  PROVE  TransitionsBalance'
<1>1. IndexesAgree'
  BY Zenon DEF Shapes, TransitionsBalance, IndexesAgree
<1>2. \A d \in Conns \ {c} : pend'[d] = pend[d]
  BY Zenon DEF Shapes
<1>3. pend'[c] = {<<t, 1>> : t \in {u \in T : subs[u] = {}}}
  BY Zenon DEF Shapes
<1>e. ASSUME NEW t, NEW x
      PROVE  /\ Pending(t, x) \in Nat
             /\ <<t, x>> \in pend'[c] => Pending(t, x)' = Pending(t, x) + 1
             /\ <<t, x>> \notin pend'[c] => Pending(t, x)' = Pending(t, x)
  <2>1. <<t, x>> \notin pend[c]
    BY Zenon
  <2>2. /\ Pending(t, x) \in Nat
        /\ Pending(t, x)' = Pending(t, x) + (IF <<t, x>> \in pend'[c] THEN 1 ELSE 0)
                                          - (IF <<t, x>> \in pend[c] THEN 1 ELSE 0)
    BY <1>2, PendingOfOne, Zenon
  <2> QED  BY <2>1, <2>2
<1>4. ASSUME NEW t \in Topics
      PROVE  net'[t] + Pending(t, 1)' - Pending(t, -1)' = (IF subs'[t] = {} THEN 0 ELSE 1)
  <2>1. /\ Pending(t, 1) \in Nat /\ Pending(t, -1) \in Nat /\ net[t] \in Int /\ net' = net
        /\ net[t] + Pending(t, 1) - Pending(t, -1) = (IF subs[t] = {} THEN 0 ELSE 1)
    BY <1>e, Zenon DEF Shapes, TransitionsBalance
  <2>2. Pending(t, -1)' = Pending(t, -1)
    <3>1. <<t, -1>> \notin pend'[c]
      BY <1>3
    <3> QED  BY <1>e, <3>1, Zenon
  <2>3. CASE t \in T /\ subs[t] = {}
    <3>1. subs'[t] # {} /\ <<t, 1>> \in pend'[c]
      BY <1>3, <2>3, Zenon
    <3>2. Pending(t, 1)' = Pending(t, 1) + 1
      BY <1>e, <3>1, Zenon
    <3> QED  BY <2>1, <2>2, <2>3, <3>1, <3>2
  <2>4. CASE ~(t \in T /\ subs[t] = {})
    <3>1. (subs'[t] = {}) <=> (subs[t] = {})
      BY <2>4, Zenon
    <3>2. <<t, 1>> \notin pend'[c]
      BY <1>3, <2>4, Zenon
    <3>3. Pending(t, 1)' = Pending(t, 1)
      BY <1>e, <3>2, Zenon
    <3> QED  BY <2>1, <2>2, <3>1, <3>3, Zenon
  <2> QED  BY <2>3, <2>4, Zenon
<1> QED  BY <1>1, <1>4, Zenon DEF TransitionsBalance

(* An announcement moves from the pending ones to the recorded ones.       *)
LEMMA AnnounceBalances ==
  ASSUME Shapes, TransitionsBalance, NEW c \in Conns, NEW a \in pend[c],
         pend' = [pend EXCEPT ![c] = pend[c] \ {a}], net' = [net EXCEPT ![a[1]] = net[a[1]] + a[2]],
         UNCHANGED <<subs, index, closed>>
  PROVE  TransitionsBalance'
<1>1. IndexesAgree'
  BY Zenon DEF TransitionsBalance, IndexesAgree
<1>2. \A d \in Conns \ {c} : pend'[d] = pend[d]
  BY Zenon DEF Shapes
<1>3. pend'[c] = pend[c] \ {a} /\ a[1] \in Topics /\ a[2] \in {1, -1} /\ a = <<a[1], a[2]>>
  BY SMTT(60) DEF Shapes
<1>4. ASSUME NEW t \in Topics
      PROVE  net'[t] + Pending(t, 1)' - Pending(t, -1)' = (IF subs'[t] = {} THEN 0 ELSE 1)
  <2>1. /\ Pending(t, 1) \in Nat /\ Pending(t, -1) \in Nat /\ net[t] \in Int
        /\ net[t] + Pending(t, 1) - Pending(t, -1) = (IF subs[t] = {} THEN 0 ELSE 1)
    BY <1>2, PendingOfOne, Zenon DEF Shapes, TransitionsBalance
  <2>2. net'[t] = net[t] + (IF t = a[1] THEN a[2] ELSE 0)
    BY <1>3, <2>1, SMTT(60) DEF Shapes
  <2>3. ASSUME NEW x \in {1, -1}
        PROVE  Pending(t, x)' = Pending(t, x) - (IF t = a[1] /\ x = a[2] THEN 1 ELSE 0)
    <3>1. CASE t = a[1] /\ x = a[2]
      <4>1. <<t, x>> \in pend[c] /\ <<t, x>> \notin pend'[c]
        BY <1>3, <3>1, Zenon
      <4> QED  BY <1>2, <3>1, <4>1, PendingOfOne
    <3>2. CASE ~(t = a[1] /\ x = a[2])
      <4>1. (<<t, x>> \in pend[c]) <=> (<<t, x>> \in pend'[c])
        BY <1>3, <3>2
      <4> QED  BY <1>2, <3>2, <4>1, PendingOfOne
    <3> QED  BY <3>1, <3>2, Zenon
  <2> QED  BY <1>3, <2>1, <2>2, <2>3
<1> QED  BY <1>1, <1>4, Zenon DEF TransitionsBalance

(* Every first and last subscription is announced exactly once.            *)
LEMMA NextBalance == Balanced /\ [Next]_vars => TransitionsBalance'
<1> SUFFICES ASSUME Shapes, Modes, Announcing, TransitionsBalance, [Next]_vars PROVE TransitionsBalance'
  BY Zenon DEF Balanced, IInv
<1>f. UNCHANGED <<subs, index, pend, net, closed>> => TransitionsBalance'
  BY DEF TransitionsBalance, IndexesAgree, Pending
<1> USE DEF broker, router, conn, session
<1>1. ASSUME NEW c \in Conns, NEW T \in SUBSET Topics, handleSubscribe(c, T) PROVE TransitionsBalance'
  <2> DEFINE k == IF InPubSubMode(c) THEN client[c] ELSE made[c] + 1
             s == <<c, k>>
  <2>1. /\ subs' = [t \in Topics |-> IF t \in T THEN subs[t] \cup {s} ELSE subs[t]]
        /\ index' = [index EXCEPT ![s] = index[s] \cup T]
        /\ pend' = [pend EXCEPT ![c] = {<<t, 1>> : t \in {u \in T : subs[u] = {}}}]
        /\ UNCHANGED <<net, closed>> /\ k <= MaxSessions[c]
    BY <1>1, Zenon DEF handleSubscribe, Subscribe
  <2>2. k \in Nat /\ k > 0 /\ (k = client[c] \/ k > made[c])
    BY DEF InPubSubMode, Shapes
  <2>3. s \in Sessions
    BY <2>1, <2>2, SessionPair, Zenon
  <2>4. ~closed[s]
    BY <2>2, <2>3, Zenon DEF Modes
  <2>5. pend[c] = {}
    BY <1>1, Zenon DEF Announcing, handleSubscribe, Take
  <2> HIDE DEF s
  <2> QED  BY <2>1, <2>3, <2>4, <2>5, SubscribeBalances, Zenon
<1>2. ASSUME NEW c \in Conns, NEW kind, NEW T \in SUBSET Topics, handleUnsubscribe(c, kind, T) PROVE TransitionsBalance'
  <2>1. CASE ~InPubSubMode(c)
    <3>1. UNCHANGED <<subs, index, pend, net, closed>>
      BY <1>2, <2>1, Zenon DEF handleUnsubscribe
    <3> QED  BY <1>f, <3>1, Zenon
  <2>m. CASE InPubSubMode(c)
    <3> DEFINE U == IF T = {} THEN index[Sess(c)] \cap kind ELSE T
    <3>1. Sess(c) \in Sessions /\ U \subseteq Topics
      BY <2>m, SessIsSession, Zenon DEF Shapes
    <3>2. /\ subs' = [t \in Topics |-> IF t \in U THEN subs[t] \ {Sess(c)} ELSE subs[t]]
          /\ index' = [index EXCEPT ![Sess(c)] = index[Sess(c)] \ U]
          /\ pend' = [pend EXCEPT ![c] = {<<t, -1>> : t \in LastGone(Sess(c), U)}]
          /\ UNCHANGED <<net, closed>>
      BY <1>2, <2>m, Zenon DEF handleUnsubscribe, Unsubscribe
    <3>3. pend[c] = {}
      BY <1>2, Zenon DEF Announcing, handleUnsubscribe, Take
    <3> HIDE DEF U
    <3> QED  BY <3>1, <3>2, <3>3, UnsubscribeBalances, Zenon DEF Shapes
  <2> QED  BY <2>1, <2>m, Zenon
<1>3. ASSUME NEW c \in Conns, NEW v \in scenario.hello, handleHello(c, v) PROVE TransitionsBalance'
  <2>1. UNCHANGED <<subs, index, pend, net, closed>>
    BY <1>3, Zenon DEF handleHello
  <2> QED  BY <1>f, <2>1, Zenon
<1>4. ASSUME NEW c \in Conns, OtherCommand(c) PROVE TransitionsBalance'
  <2>1. UNCHANGED <<subs, index, pend, net, closed>>
    BY <1>4, Zenon DEF OtherCommand
  <2> QED  BY <1>f, <2>1, Zenon
<1>5. ASSUME NEW c \in Conns, Announce(c) PROVE TransitionsBalance'
  <2>1. PICK a \in pend[c] : /\ pend' = [pend EXCEPT ![c] = pend[c] \ {a}]
                             /\ net' = [net EXCEPT ![a[1]] = net[a[1]] + a[2]]
    BY <1>5, Zenon DEF Announce
  <2>2. UNCHANGED <<subs, index, closed>>
    BY <1>5, Zenon DEF Announce
  <2> QED  BY <2>1, <2>2, AnnounceBalances, Zenon
<1>6. ASSUME NEW c \in Conns, Reply(c) PROVE TransitionsBalance'
  <2>1. UNCHANGED <<subs, index, pend, net>>
    BY <1>6, Zenon DEF Reply
  <2>2. \A s \in Sessions : closed'[s] => closed[s] \/ index[s] = {}
    BY <1>6, Zenon DEF Reply, LeaveIfEmpty, Leaves, Shapes
  <2> QED  BY <2>1, <2>2 DEF TransitionsBalance, IndexesAgree, Pending
<1>7. ASSUME NEW c \in Conns, ReplyFails(c) PROVE TransitionsBalance'
  <2>1. UNCHANGED <<subs, index, pend, net>>
    BY <1>7, Zenon DEF ReplyFails
  <2>2. \A s \in Sessions : closed'[s] => closed[s] \/ index[s] = {}
    BY <1>7, Zenon DEF ReplyFails, LeaveIfEmpty, Leaves, Shapes
  <2> QED  BY <2>1, <2>2 DEF TransitionsBalance, IndexesAgree, Pending
<1>8. ASSUME NEW c \in Conns, Cleanup(c) PROVE TransitionsBalance'
  <2>1. CASE ~Cleans(c)
    <3>1. UNCHANGED <<subs, index, pend, net, closed>>
      BY <1>8, <2>1, Zenon DEF Cleanup
    <3> QED  BY <1>f, <3>1, Zenon
  <2>m. CASE Cleans(c)
    <3> DEFINE U == CleanupTopics(Sess(c))
    <3>1. Sess(c) \in Sessions /\ U \subseteq Topics
      BY <2>m, SessIsSession, Zenon DEF Shapes, Cleans, CleanupTopics
    <3>2. /\ subs' = [t \in Topics |-> IF t \in U THEN subs[t] \ {Sess(c)} ELSE subs[t]]
          /\ index' = [index EXCEPT ![Sess(c)] = index[Sess(c)] \ U]
          /\ pend' = [pend EXCEPT ![c] = {<<t, -1>> : t \in LastGone(Sess(c), U)}]
          /\ UNCHANGED <<net, closed>>
      BY <1>8, <2>m, Zenon DEF Cleanup, CleanupTopics
    <3>3. pend[c] = {}
      BY <1>8, Zenon DEF Announcing, Cleanup
    <3> HIDE DEF U
    <3> QED  BY <3>1, <3>2, <3>3, UnsubscribeBalances, Zenon DEF Shapes
  <2> QED  BY <2>1, <2>m, Zenon
<1>9. ASSUME NEW c \in Conns, Closed(c) PROVE TransitionsBalance'
  <2>1. UNCHANGED <<subs, index, pend, net>>
    BY <1>9, Zenon DEF Closed
  <2>2. \A s \in Sessions : closed'[s] => closed[s] \/ index[s] = {}
    BY <1>9, Zenon DEF Closed, Announcing, Shapes
  <2> QED  BY <2>1, <2>2 DEF TransitionsBalance, IndexesAgree, Pending
<1>10. ASSUME NEW c \in Conns, LoopEnds(c) \/ ReaderEOF(c) PROVE TransitionsBalance'
  <2>1. UNCHANGED <<subs, index, pend, net, closed>>
    BY <1>10, Zenon DEF LoopEnds, ReaderEOF
  <2> QED  BY <1>f, <2>1, Zenon
<1>11. ASSUME NEW s \in Sessions, CourierTake(s) PROVE TransitionsBalance'
  <2>1. UNCHANGED <<subs, index, pend, net, closed>>
    BY <1>11, Zenon DEF CourierTake
  <2> QED  BY <1>f, <2>1, Zenon
<1>12. ASSUME NEW s \in Sessions, CourierWrite(s) PROVE TransitionsBalance'
  <2>1. UNCHANGED <<subs, index, pend, net, closed>>
    BY <1>12, Zenon DEF CourierWrite
  <2> QED  BY <1>f, <2>1, Zenon
<1>13. ASSUME NEW s \in Sessions, CourierWriteFails(s) PROVE TransitionsBalance'
  <2>1. UNCHANGED <<subs, index, pend, net, closed>>
    BY <1>13, Zenon DEF CourierWriteFails
  <2> QED  BY <1>f, <2>1, Zenon
<1>14. ASSUME NEW s \in Sessions, CourierStop(s) PROVE TransitionsBalance'
  <2>1. UNCHANGED <<subs, index, pend, net, closed>>
    BY <1>14, Zenon DEF CourierStop
  <2> QED  BY <1>f, <2>1, Zenon
<1>15. ASSUME NEW ch \in Channels, deliverLocal(ch) PROVE TransitionsBalance'
  <2>1. UNCHANGED <<subs, index, pend, net, closed>>
    BY <1>15, Zenon DEF deliverLocal
  <2> QED  BY <1>f, <2>1, Zenon
<1>16. CASE UNCHANGED vars
  <2>1. UNCHANGED <<subs, index, pend, net, closed>>
    BY <1>16, Zenon DEF vars
  <2> QED  BY <1>f, <2>1, Zenon
<1> QED
  BY <1>1, <1>2, <1>3, <1>4, <1>5, <1>6, <1>7, <1>8, <1>9, <1>10, <1>11, <1>12, <1>13,
     <1>14, <1>15, <1>16, Zenon
  DEF Next, Step, Handler, Executor, Courier, Publish, DeliverLocal, Topics

(* No announcement is pending at the start.                                *)
LEMMA InitBalanced == Init => Announcing /\ TransitionsBalance
<1> SUFFICES ASSUME Init PROVE Announcing /\ TransitionsBalance
  BY Zenon
<1>1. Announcing
  BY Zenon DEF Init, Announcing, Cleans, InPubSubMode
<1>2. \A t, x : {c \in Conns : <<t, x>> \in pend[c]} = {}
  BY Zenon DEF Init
<1>3. \A t, x : Pending(t, x) = 0
  BY <1>2, FS_EmptySet, Zenon DEF Pending
<1>4. IndexesAgree
  BY Zenon DEF Init, IndexesAgree
<1> QED  BY <1>1, <1>3, <1>4, SMTT(60) DEF Init, TransitionsBalance

(* Every first subscription and last unsubscription of a topic is          *)
(* announced exactly once by announceTransitions, however Subscribe,       *)
(* Unsubscribe and Cleanup of any number of connections interleave.        *)
THEOREM TransitionsBalanceAlways == Spec => []TransitionsBalance
<1>1. Balanced /\ [Next]_vars => (Announcing /\ TransitionsBalance)'
  BY NextAnnouncing, NextBalance, Zenon
<1> QED  BY InductiveInvariant, InitBalanced, <1>1, PTL DEF Spec, Balanced
=============================================================================
