-------------------------- MODULE Blocking_proofs ---------------------------
(***************************************************************************)
(* Proofs, for any clients, producers, keys, commands and bounds, that no  *)
(* waiter is left behind by the command that made it, that a blocked       *)
(* client never sleeps on data nobody will tell it of, and that the        *)
(* waiters of a key take from it in the order of their registration.       *)
(***************************************************************************)
EXTENDS TLAPS, Blocking, WellFoundedInduction

(* A non-empty set of numbers has a least element.                         *)
LEMMA Least ==
    ASSUME NEW T, T \subseteq Nat, T # {}
    PROVE  \E m \in T : \A n \in T : m <= n
<1> DEFINE R == OpToRel(<, Nat)
<1>1. IsWellFoundedOn(R, Nat)
  BY NatLessThanWellFounded, Zenon
<1>2. R = {ss \in Nat \X Nat : ss[1] < ss[2]}
  BY Zenon DEF OpToRel
<1> HIDE DEF R
<1>3. PICK x \in T : \A y \in T : ~(<<y, x>> \in R)
  BY <1>1, WFMin, Zenon
<1>4. ASSUME NEW y \in T PROVE x <= y
  <2>1. x \in Nat /\ y \in Nat
    BY Zenon
  <2>2. y < x => <<y, x>> \in {ss \in Nat \X Nat : ss[1] < ss[2]}
    BY <2>1, Zenon
  <2> QED  BY <1>2, <1>3, <2>1, <2>2
<1> QED  BY <1>4, Zenon

\* A callback to run: for the first waiter of a key, or for all of them.
Callbacks == [all: BOOLEAN, key: Keys]

\* Client c has a slot in the topic of k.
InTopic(k, c) == \E i \in DOMAIN queue[k] : queue[k][i] = c

\* Somebody is about to run a callback for k.
Called(k) == \E p \in Procs : \E i \in DOMAIN todo[p] : todo[p][i].key = k

BlockTypes ==
    /\ type = [k \in Keys |-> type[k]]
    /\ queue \in [Keys -> Seq(Clients \cup {Nil})]
    /\ alive \in [Clients -> BOOLEAN] /\ signal \in [Clients -> BOOLEAN]
    /\ sawEmpty \in [Clients -> SUBSET Keys]
    /\ cmd \in [Clients -> Commands]
    /\ idx \in [Clients -> Nat] /\ \A c \in Clients : idx[c] \in DOMAIN cmd[c].keys
    /\ pc = [c \in Clients |-> pc[c]] /\ pend = [c \in Clients |-> pend[c]]
    /\ todo \in [Procs -> Seq(Callbacks)]

\* A waiter is alive from its first topic on until it is cancelled; a client
\* runs callbacks at one place only.
Control(c) ==
    /\ alive[c] <=> pc[c] \in {"try", "pop", "wait"} \/ (pc[c] = "reg" /\ idx[c] # 1)
    /\ pc[c] = "wait" => idx[c] = 1
    /\ pc[c] = "try" /\ cmd[c].op \in MoveOps => idx[c] = 1
    /\ pc[c] = "flush" => pend[c].src \in Keys /\ pend[c].dst \in Keys
    /\ todo[c] # << >> => pc[c] = "notify"

\* It is in the topics of its keys, as far as Register has come, and in no other.
Registered(c) ==
    /\ \A j \in DOMAIN cmd[c].keys :
          alive[c] /\ (pc[c] = "reg" => j < idx[c]) => InTopic(cmd[c].keys[j], c)
    /\ \A k \in Keys : InTopic(k, c) => alive[c] /\ k \in ElemsIn(cmd[c].keys)

\* Who was first in line for a key stays it.
First(c) ==
    /\ pc[c] = "pop" => c \in Oldest(Key(c))
    /\ alive[c] => \A k \in sawEmpty[c] : c \in Oldest(k)

\* A key that c found empty and that holds data by now will wake c, or c is
\* about to look at it again.
Looked(c) ==
    alive[c] =>
        /\ sawEmpty[c] \subseteq ElemsIn(cmd[c].keys)
        /\ pc[c] = "reg" => sawEmpty[c] = {}
        /\ cmd[c].op \in MoveOps => sawEmpty[c] \subseteq {cmd[c].keys[1]}
        /\ \A k \in sawEmpty[c] : Available(c, k) =>
              \/ signal[c]
              \/ Called(k)
              \/ pc[c] # "wait" /\ \E j \in DOMAIN cmd[c].keys : j >= idx[c] /\ cmd[c].keys[j] = k

BlockInv ==
    BlockTypes /\ \A c \in Clients : Control(c) /\ Registered(c) /\ First(c) /\ Looked(c)

(* What a command is.                                                      *)
LEMMA CommandKeys ==
    ASSUME NEW m \in Commands
    PROVE  /\ m.keys \in Seq(Keys) /\ 1 \in DOMAIN m.keys /\ m.dst \in Keys
           /\ m.op \in PopOps \cup MoveOps
           /\ Len(m.keys) \in Nat /\ DOMAIN m.keys = 1 .. Len(m.keys)
           /\ \A j \in DOMAIN m.keys : m.keys[j] \in Keys
<1>1. m \in CommandShape /\ m.keys # << >>
  BY ConstantsAssumption, Zenon
<1>2. m.keys \in Seq(Keys) /\ m.dst \in Keys /\ m.op \in PopOps \cup MoveOps
  BY <1>1, Zenon DEF CommandShape
<1>3. /\ Len(m.keys) \in Nat /\ DOMAIN m.keys = 1 .. Len(m.keys)
      /\ \A j \in DOMAIN m.keys : m.keys[j] \in Keys
  BY <1>2
<1>4. 1 \in DOMAIN m.keys
  BY <1>1, <1>2
<1> QED  BY <1>2, <1>3, <1>4, Zenon

(* The first live waiter of a topic has a slot with only dead ones before  *)
(* it.                                                                     *)
LEMMA OldestSlot ==
    ASSUME NEW k, NEW c
    PROVE  c \in Oldest(k) <=> \E i \in DOMAIN queue[k] :
               queue[k][i] = c /\ IsLive(c) /\ \A h \in 1 .. (i - 1) : ~IsLive(queue[k][h])
BY Zenon DEF Oldest

(* A live waiter with a slot in the topic of k is there to be found, so    *)
(* the oldest waiter exists.                                               *)
LEMMA SomeOldest ==
    ASSUME BlockTypes, NEW k \in Keys, NEW c \in Clients, alive[c], InTopic(k, c)
    PROVE  Oldest(k) # {}
<1> DEFINE T == {i \in DOMAIN queue[k] : IsLive(queue[k][i])}
<1>1. queue[k] \in Seq(Clients \cup {Nil})
  BY Zenon DEF BlockTypes
<1>2. DOMAIN queue[k] \subseteq Nat /\ \A i \in DOMAIN queue[k] : 1 .. i \subseteq DOMAIN queue[k]
  BY <1>1
<1>3. T \subseteq Nat /\ T # {}
  BY <1>2, ConstantsAssumption, Zenon DEF InTopic, IsLive
<1>4. PICK m \in T : \A n \in T : m <= n
  <2> HIDE DEF T
  <2> QED  BY <1>3, Least, Zenon
<1>5. ASSUME NEW h \in 1 .. (m - 1) PROVE ~IsLive(queue[k][h])
  <2>1. h \in DOMAIN queue[k] /\ ~(m <= h)
    BY <1>2, <1>4
  <2> QED  BY <1>4, <2>1, Zenon
<1>6. queue[k][m] \in Oldest(k)
  BY <1>4, <1>5, OldestSlot, Zenon
<1> QED  BY <1>6, Zenon

(* A waiter that is first in line stays it while others leave, or join     *)
(* behind it.                                                              *)
LEMMA OldestStays ==
    ASSUME BlockTypes, NEW k \in Keys, NEW c \in Clients, c \in Oldest(k), alive'[c],
           DOMAIN queue[k] \subseteq DOMAIN queue'[k],
           \A i \in DOMAIN queue[k] : \/ queue'[k][i] = queue[k][i]
                                      \/ queue'[k][i] = Nil /\ queue[k][i] # c,
           \A x \in Clients : InTopic(k, x) /\ alive'[x] => alive[x]
    PROVE  c \in Oldest(k)'
<1>1. PICK i \in DOMAIN queue[k] :
         queue[k][i] = c /\ IsLive(c) /\ \A h \in 1 .. (i - 1) : ~IsLive(queue[k][h])
  BY OldestSlot, Zenon
<1>2. queue[k] \in Seq(Clients \cup {Nil})
  BY Zenon DEF BlockTypes
<1>3. 1 .. (i - 1) \subseteq DOMAIN queue[k]
  BY <1>2
<1>4. queue'[k][i] = c /\ i \in DOMAIN queue'[k] /\ c # Nil
  BY <1>1, ConstantsAssumption, Zenon
<1>5. ASSUME NEW h \in 1 .. (i - 1) PROVE ~IsLive(queue[k][h])'
  <2>1. queue[k][h] \in Clients \cup {Nil} /\ h \in DOMAIN queue[k]
    BY <1>2, <1>3
  <2>2. ~IsLive(queue[k][h])
    BY <1>1, Zenon
  <2>3. CASE queue'[k][h] = Nil
    BY <2>3, Zenon DEF IsLive
  <2>4. CASE queue'[k][h] = queue[k][h] /\ queue[k][h] # Nil
    <3>1. InTopic(k, queue[k][h])
      BY <2>1, Zenon DEF InTopic
    <3> QED  BY <2>1, <2>2, <2>4, <3>1, Zenon DEF IsLive
  <2> QED  BY <2>1, <2>3, <2>4, Zenon
<1>6. (c \in Oldest(k) <=> \E j \in DOMAIN queue[k] :
           queue[k][j] = c /\ IsLive(c) /\ \A h \in 1 .. (j - 1) : ~IsLive(queue[k][h]))'
  BY Zenon DEF Oldest
<1> QED  BY <1>4, <1>5, <1>6, Zenon DEF IsLive

ClientInv(c) == Control(c) /\ Registered(c) /\ First(c) /\ Looked(c)

\* A step of d leaves the control state of c alone.
Same(c) == /\ pc'[c] = pc[c] /\ idx'[c] = idx[c] /\ cmd'[c] = cmd[c] /\ alive'[c] = alive[c]
           /\ sawEmpty'[c] = sawEmpty[c] /\ pend'[c] = pend[c] /\ todo'[c] = todo[c]

\* A step of d adds and empties slots of d only.
Topics(d) ==
    \A k \in Keys :
        /\ DOMAIN queue[k] \subseteq DOMAIN queue'[k]
        /\ \A i \in DOMAIN queue[k] : \/ queue'[k][i] = queue[k][i]
                                      \/ queue[k][i] = d /\ queue'[k][i] = Nil
        /\ \A i \in DOMAIN queue'[k] \ DOMAIN queue[k] : queue'[k][i] = d

\* A key gets data only with a callback to come, and a callback that has run
\* has woken c if c is first in line.
Wakes(c) ==
    \A k \in Keys : /\ type'[k] = type[k] \/ type'[k] = "none" \/ Called(k)'
                    /\ Called(k) => Called(k)' \/ (alive[c] /\ c \in Oldest(k) => signal'[c])

(* A step of another process keeps what is known of client c.              *)
LEMMA Bystander ==
    ASSUME BlockInv, NEW d, NEW c \in Clients, c # d, Same(c), Topics(d), Wakes(c),
           \A x \in Clients : x # d => alive'[x] = alive[x],
           signal[c] => signal'[c]
    PROVE  ClientInv(c)'
<1>1. Control(c)'
  BY Zenon DEF BlockInv, Control, Same
<1>2. \A k \in Keys : InTopic(k, c)' <=> InTopic(k, c)
  <2> TAKE k \in Keys
  <2>1. InTopic(k, c) => InTopic(k, c)'
    BY Zenon DEF Topics, InTopic
  <2>2. ASSUME NEW i \in DOMAIN queue'[k], queue'[k][i] = c PROVE InTopic(k, c)
    <3>1. i \in DOMAIN queue[k]
      BY <2>2, Zenon DEF Topics
    <3>2. queue[k][i] = c
      BY <2>2, <3>1, ConstantsAssumption, Zenon DEF Topics
    <3> QED  BY <3>1, <3>2, Zenon DEF InTopic
  <2> QED  BY <2>1, <2>2, Zenon DEF InTopic
<1>3. Registered(c)'
  <2>1. \A j \in DOMAIN cmd[c].keys : cmd[c].keys[j] \in Keys
    BY CommandKeys, Zenon DEF BlockInv, BlockTypes
  <2> QED  BY <1>2, <2>1, Zenon DEF BlockInv, Registered, Same
<1>4. ASSUME NEW k \in Keys, c \in Oldest(k), alive[c] PROVE c \in Oldest(k)'
  <2>1. \A x \in Clients : InTopic(k, x) /\ alive'[x] => alive[x]
    BY Zenon DEF BlockInv, Registered
  <2>2. alive'[c]
    BY <1>4, Zenon DEF Same
  <2> QED  BY <1>4, <2>1, <2>2, OldestStays, Zenon DEF BlockInv, Topics
<1>5. First(c)'
  <2>1. Key(c) \in Keys /\ Key(c)' = Key(c)
    BY CommandKeys, Zenon DEF BlockInv, BlockTypes, Key, Same
  <2>2. pc[c] = "pop" => c \in Oldest(Key(c)) /\ alive[c]
    BY Zenon DEF BlockInv, First, Control
  <2>3. (pc[c] = "pop" => c \in Oldest(Key(c)))'
    BY <1>4, <2>1, <2>2, Zenon DEF Same
  <2>4. alive[c] => \A k \in sawEmpty[c] : k \in Keys /\ c \in Oldest(k)
    BY Zenon DEF BlockInv, BlockTypes, First
  <2>5. (alive[c] => \A k \in sawEmpty[c] : c \in Oldest(k))'
    BY <1>4, <2>4, Zenon DEF Same
  <2> QED  BY <2>3, <2>5, Zenon DEF First
<1>6. Looked(c)'
  <2>1. ASSUME alive[c], NEW k \in sawEmpty[c], Available(c, k)'
        PROVE  \/ signal'[c]
               \/ Called(k)'
               \/ /\ pc[c] # "wait"
                  /\ \E j \in DOMAIN cmd[c].keys : j >= idx[c] /\ cmd[c].keys[j] = k
    <3>1. k \in Keys /\ c \in Oldest(k)
      BY <2>1, Zenon DEF BlockInv, BlockTypes, First
    <3>2. type'[k] # "none"
      BY <2>1, Zenon DEF Available, ExpectedType, Same
    <3>3. Called(k)' \/ Available(c, k)
      BY <2>1, <3>1, <3>2, Zenon DEF Wakes, Available, Same
    <3>4. \/ signal[c]
          \/ Called(k)
          \/ Called(k)'
          \/ /\ pc[c] # "wait"
             /\ \E j \in DOMAIN cmd[c].keys : j >= idx[c] /\ cmd[c].keys[j] = k
      BY <2>1, <3>3, Zenon DEF BlockInv, Looked
    <3>5. Called(k) => Called(k)' \/ signal'[c]
      BY <2>1, <3>1, Zenon DEF Wakes
    <3> QED  BY <3>4, <3>5, Zenon
  <2>2. alive[c] => /\ sawEmpty[c] \subseteq ElemsIn(cmd[c].keys)
                    /\ pc[c] = "reg" => sawEmpty[c] = {}
                    /\ cmd[c].op \in MoveOps => sawEmpty[c] \subseteq {cmd[c].keys[1]}
    BY Zenon DEF BlockInv, Looked
  <2> QED  BY <2>1, <2>2 DEF Looked, Same
<1> QED  BY <1>1, <1>3, <1>5, <1>6, Zenon DEF ClientInv

(* So a step keeps the invariant if it keeps what is known of its actor.   *)
LEMMA ActorStep ==
    ASSUME BlockInv, BlockTypes', NEW d, Topics(d),
           \A c \in Clients : c # d => Same(c) /\ Wakes(c) /\ (signal[c] => signal'[c]),
           d \in Clients => ClientInv(d)'
    PROVE  BlockInv'
<1>1. ASSUME NEW c \in Clients, c # d PROVE ClientInv(c)'
  <2>1. \A x \in Clients : x # d => alive'[x] = alive[x]
    BY Zenon DEF Same
  <2> QED  BY <1>1, <2>1, Bystander, Zenon
<1>2. \A c \in Clients : ClientInv(c)'
  BY <1>1, Zenon
<1> QED  BY <1>2, Zenon DEF BlockInv, ClientInv

(* A client without a registration has little to keep.                     *)
LEMMA Away ==
    ASSUME NEW d \in Clients, ~alive'[d], Control(d)', \A k \in Keys : ~InTopic(k, d)'
    PROVE  ClientInv(d)'
<1>1. pc'[d] # "pop"
  BY Zenon DEF Control
<1> QED  BY <1>1, Zenon DEF ClientInv, Registered, First, Looked

(* A client that is not alive has no slots.                                *)
LEMMA NoSlots ==
    ASSUME BlockInv, NEW d \in Clients, ~alive[d], UNCHANGED queue
    PROVE  \A k \in Keys : ~InTopic(k, d)'
<1>1. \A k \in Keys : ~InTopic(k, d)
  BY Zenon DEF BlockInv, Registered
<1> QED  BY <1>1, Zenon DEF InTopic

(* A step that leaves the queues alone keeps every other client's slots.   *)
LEMMA QueueKept == ASSUME NEW d, UNCHANGED queue PROVE Topics(d)
BY Zenon DEF Topics

(* A step that leaves the keys and the callbacks alone owes no wake-up.    *)
LEMMA Quiet == ASSUME NEW c, UNCHANGED <<type, todo>> PROVE Wakes(c)
<1>1. \A k \in Keys : Called(k)' = Called(k)
  BY Zenon DEF Called
<1> QED  BY <1>1, Zenon DEF Wakes

(* Cancel empties every slot of its client and touches no other.           *)
LEMMA Cancelled ==
    ASSUME BlockInv, NEW d \in Clients, Cancel(d)
    PROVE  /\ Topics(d)
           /\ queue' \in [Keys -> Seq(Clients \cup {Nil})]
           /\ alive' \in [Clients -> BOOLEAN] /\ signal' \in [Clients -> BOOLEAN]
           /\ ~alive'[d]
           /\ \A c \in Clients : c # d => alive'[c] = alive[c] /\ signal'[c] = signal[c]
           /\ \A k \in Keys : ~InTopic(k, d)'
<1>1. /\ queue \in [Keys -> Seq(Clients \cup {Nil})]
      /\ alive \in [Clients -> BOOLEAN] /\ signal \in [Clients -> BOOLEAN]
  BY Zenon DEF BlockInv, BlockTypes
<1>2. /\ alive' \in [Clients -> BOOLEAN] /\ signal' \in [Clients -> BOOLEAN]
      /\ ~alive'[d]
      /\ \A c \in Clients : c # d => alive'[c] = alive[c] /\ signal'[c] = signal[c]
  BY <1>1, Zenon DEF Cancel
<1>3. ASSUME NEW k \in Keys
      PROVE  /\ DOMAIN queue'[k] = DOMAIN queue[k]
             /\ \A i \in DOMAIN queue[k] :
                   queue'[k][i] = IF queue[k][i] = d THEN Nil ELSE queue[k][i]
             /\ queue'[k] \in Seq(Clients \cup {Nil})
  <2>1. queue'[k] = [i \in DOMAIN queue[k] |-> IF queue[k][i] = d THEN Nil ELSE queue[k][i]]
    BY Zenon DEF Cancel
  <2>2. queue[k] \in Seq(Clients \cup {Nil})
    BY <1>1, Zenon
  <2>3. queue'[k] \in Seq(Clients \cup {Nil})
    BY <2>1, <2>2
  <2> QED  BY <2>1, <2>3, Zenon
<1>4. Topics(d)
  BY <1>3, Zenon DEF Topics
<1>5. queue' \in [Keys -> Seq(Clients \cup {Nil})]
  <2>1. queue' = [k \in Keys |-> queue'[k]]
    BY Zenon DEF Cancel
  <2> QED  BY <1>3, <2>1, Zenon
<1>6. \A k \in Keys : ~InTopic(k, d)'
  BY <1>3, ConstantsAssumption, Zenon DEF InTopic
<1> QED  BY <1>2, <1>4, <1>5, <1>6, Zenon

(* A client sends a command.                                               *)
LEMMA CallStep == ASSUME BlockInv, NEW d \in Clients, Call(d) PROVE BlockInv'
<1>1. PICK m \in Commands : cmd' = [cmd EXCEPT ![d] = m] /\ Goto(d, Start(m))
  BY Zenon DEF Call
<1>2. /\ pc[d] = "idle" /\ idx' = [idx EXCEPT ![d] = 1]
      /\ UNCHANGED <<type, queue, alive, signal, sawEmpty, pend, todo>>
  BY Zenon DEF Call, store, waiter
<1>3. 1 \in DOMAIN m.keys
  BY CommandKeys, Zenon
<1>4. BlockTypes'
  BY <1>1, <1>2, <1>3, Zenon DEF BlockInv, BlockTypes, Goto
<1>5. Control(d)' /\ ~alive'[d]
  <2>1. pc'[d] \in {"reg", "check"} /\ idx'[d] = 1
    BY <1>1, <1>2, Zenon DEF BlockInv, BlockTypes, Goto, Start
  <2> QED  BY <1>2, <2>1, Zenon DEF BlockInv, Control
<1>6. ClientInv(d)'
  BY <1>2, <1>5, Away, NoSlots, Zenon
<1>7. ASSUME NEW c \in Clients, c # d PROVE Same(c) /\ Wakes(c) /\ (signal[c] => signal'[c])
  BY <1>1, <1>2, <1>7, Quiet, Zenon DEF BlockInv, BlockTypes, Same, Goto
<1> QED  BY <1>2, <1>4, <1>6, <1>7, ActorStep, QueueKept, Zenon

(* The loop over the keys of a command.                                    *)
LEMMA NextKeyStep ==
    ASSUME BlockTypes, NEW d \in Clients, NEW l, NEW after, NextKey(d, l, after)
    PROVE  /\ \/ pc'[d] = l /\ idx'[d] = idx[d] + 1 /\ idx[d] < Len(cmd[d].keys)
              \/ pc'[d] = after /\ idx'[d] = 1 /\ idx[d] = Len(cmd[d].keys)
           /\ idx'[d] \in DOMAIN cmd[d].keys /\ idx' \in [Clients -> Nat]
           /\ pc' = [c \in Clients |-> pc'[c]]
           /\ \A c \in Clients : c # d => pc'[c] = pc[c] /\ idx'[c] = idx[c]
<1>1. /\ Len(cmd[d].keys) \in Nat /\ DOMAIN cmd[d].keys = 1 .. Len(cmd[d].keys)
      /\ 1 \in DOMAIN cmd[d].keys /\ idx[d] \in DOMAIN cmd[d].keys
      /\ idx \in [Clients -> Nat] /\ pc = [c \in Clients |-> pc[c]]
  BY CommandKeys, Zenon DEF BlockTypes
<1>2. CASE idx[d] < Len(cmd[d].keys)
  BY <1>1, <1>2 DEF NextKey, Goto
<1>3. CASE ~(idx[d] < Len(cmd[d].keys))
  BY <1>1, <1>3 DEF NextKey, Goto
<1> QED  BY <1>2, <1>3, Zenon

(* The WRONGTYPE check.                                                    *)
LEMMA CheckTypeStep == ASSUME BlockInv, NEW d \in Clients, CheckType(d) PROVE BlockInv'
<1>1. /\ pc[d] = "check"
      /\ UNCHANGED <<type, queue, alive, signal, sawEmpty, cmd, pend, todo>>
  BY Zenon DEF CheckType, store, waiter
<1>2. /\ \/ pc'[d] \in {"idle", "check"}
         \/ pc'[d] = "reg" /\ idx'[d] = 1
      /\ idx'[d] \in DOMAIN cmd[d].keys /\ idx' \in [Clients -> Nat]
      /\ pc' = [c \in Clients |-> pc'[c]]
      /\ \A c \in Clients : c # d => pc'[c] = pc[c] /\ idx'[c] = idx[c]
  <2>1. CASE Finish(d, "wrongtype") /\ UNCHANGED idx
    BY <2>1, Zenon DEF BlockInv, BlockTypes, Finish, Goto
  <2>2. CASE NextKey(d, "check", "reg")
    BY <2>2, NextKeyStep DEF BlockInv
  <2> QED  BY <2>1, <2>2, Zenon DEF CheckType
<1>3. BlockTypes'
  BY <1>1, <1>2, Zenon DEF BlockInv, BlockTypes
<1>4. Control(d)' /\ ~alive'[d]
  BY <1>1, <1>2, Zenon DEF BlockInv, Control
<1>5. ClientInv(d)'
  BY <1>1, <1>4, Away, NoSlots, Zenon
<1>6. ASSUME NEW c \in Clients, c # d PROVE Same(c) /\ Wakes(c) /\ (signal[c] => signal'[c])
  BY <1>1, <1>2, <1>6, Quiet, Zenon DEF Same
<1> QED  BY <1>1, <1>3, <1>5, <1>6, ActorStep, QueueKept, Zenon

(* Register: the client joins the topic of the next key.                   *)
LEMMA RegisterStep == ASSUME BlockInv, NEW d \in Clients, Register(d) PROVE BlockInv'
<1>0. PICK k0 \in Keys : k0 = Key(d)
  BY CommandKeys, Zenon DEF BlockInv, BlockTypes, Key
<1>1. /\ pc[d] = "reg" /\ UNCHANGED <<type, cmd, pend, todo>>
      /\ queue' = [queue EXCEPT ![k0] = Append(@, d)]
      /\ idx[d] = 1 => /\ alive' = [alive EXCEPT ![d] = TRUE]
                       /\ signal' = [signal EXCEPT ![d] = FALSE]
                       /\ sawEmpty' = [sawEmpty EXCEPT ![d] = {}]
      /\ idx[d] # 1 => UNCHANGED <<alive, signal, sawEmpty>>
  BY <1>0, Zenon DEF Register, store
<1>2. /\ \/ pc'[d] = "reg" /\ idx'[d] = idx[d] + 1 /\ idx[d] < Len(cmd[d].keys)
         \/ pc'[d] = "try" /\ idx'[d] = 1 /\ idx[d] = Len(cmd[d].keys)
      /\ idx'[d] \in DOMAIN cmd[d].keys /\ idx' \in [Clients -> Nat]
      /\ pc' = [c \in Clients |-> pc'[c]]
      /\ \A c \in Clients : c # d => pc'[c] = pc[c] /\ idx'[c] = idx[c]
  BY NextKeyStep, Zenon DEF BlockInv, Register
<1>3. /\ k0 \in Keys /\ k0 = cmd[d].keys[idx[d]] /\ idx[d] \in DOMAIN cmd[d].keys /\ idx[d] \in Nat
      /\ Len(cmd[d].keys) \in Nat /\ DOMAIN cmd[d].keys = 1 .. Len(cmd[d].keys)
      /\ \A j \in DOMAIN cmd[d].keys : cmd[d].keys[j] \in Keys
  BY <1>0, CommandKeys, Zenon DEF BlockInv, BlockTypes, Key
<1>4. /\ queue \in [Keys -> Seq(Clients \cup {Nil})]
      /\ alive \in [Clients -> BOOLEAN] /\ signal \in [Clients -> BOOLEAN]
      /\ sawEmpty \in [Clients -> SUBSET Keys]
  BY Zenon DEF BlockInv, BlockTypes
<1>5. /\ queue'[k0] = Append(queue[k0], d) /\ queue[k0] \in Seq(Clients \cup {Nil})
      /\ \A k \in Keys : k # k0 => queue'[k] = queue[k]
      /\ queue' \in [Keys -> Seq(Clients \cup {Nil})]
  <2>1. queue[k0] \in Seq(Clients \cup {Nil}) /\ queue = [k \in Keys |-> queue[k]]
    BY <1>4, Zenon
  <2>2. Append(queue[k0], d) \in Seq(Clients \cup {Nil})
    BY <2>1
  <2>3. queue' = [k \in Keys |-> IF k = k0 THEN Append(queue[k0], d) ELSE queue[k]]
    BY <1>1, <2>1, Zenon
  <2>4. queue'[k0] = Append(queue[k0], d) /\ \A k \in Keys : k # k0 => queue'[k] = queue[k]
    BY <2>3, Zenon
  <2>5. queue' \in [Keys -> Seq(Clients \cup {Nil})]
    BY <1>4, <2>2, <2>3, Zenon
  <2> QED  BY <2>1, <2>4, <2>5, Zenon
<1>6. /\ DOMAIN queue[k0] \subseteq DOMAIN queue'[k0]
      /\ \A i \in DOMAIN queue[k0] : queue'[k0][i] = queue[k0][i]
      /\ \A i \in DOMAIN queue'[k0] \ DOMAIN queue[k0] : queue'[k0][i] = d
      /\ InTopic(k0, d)'
  <2>1. /\ Len(queue[k0]) \in Nat /\ DOMAIN queue[k0] = 1 .. Len(queue[k0])
        /\ DOMAIN queue'[k0] = 1 .. Len(queue[k0]) + 1
        /\ queue'[k0][Len(queue[k0]) + 1] = d
        /\ \A i \in DOMAIN queue[k0] : queue'[k0][i] = queue[k0][i]
    BY <1>5
  <2> QED  BY <2>1 DEF InTopic
<1>7. Topics(d)
  BY <1>5, <1>6, Zenon DEF Topics
<1>8. /\ alive' \in [Clients -> BOOLEAN] /\ signal' \in [Clients -> BOOLEAN]
      /\ sawEmpty' \in [Clients -> SUBSET Keys] /\ alive'[d] /\ sawEmpty'[d] = {}
      /\ \A c \in Clients : c # d => /\ alive'[c] = alive[c] /\ signal'[c] = signal[c]
                                     /\ sawEmpty'[c] = sawEmpty[c]
  <2>1. CASE idx[d] = 1
    BY <1>1, <1>4, <2>1, Zenon
  <2>2. CASE idx[d] # 1
    BY <1>1, <1>4, <2>2 DEF BlockInv, Control, Looked
  <2> QED  BY <2>1, <2>2, Zenon
<1>9. BlockTypes'
  BY <1>1, <1>2, <1>5, <1>8, Zenon DEF BlockInv, BlockTypes
<1>10. Control(d)'
  <2>1. idx[d] + 1 # 1
    BY <1>3
  <2> QED  BY <1>1, <1>2, <1>8, <2>1, Zenon DEF BlockInv, Control
<1>11. Registered(d)'
  <2>1. \A k \in Keys : InTopic(k, d)' <=> InTopic(k, d) \/ k = k0
    BY <1>5, <1>6, Zenon DEF InTopic
  <2>2. ASSUME NEW j \in DOMAIN cmd[d].keys, j < idx[d] \/ j = idx[d]
        PROVE  InTopic(cmd[d].keys[j], d)'
    <3>1. CASE j = idx[d]
      <4>1. cmd'[d].keys[j] = k0
        BY <1>1, <1>3, <3>1, Zenon
      <4> QED  BY <1>6, <4>1, Zenon DEF InTopic
    <3>2. CASE j < idx[d]
      <4>1. alive[d]
        BY <1>1, <1>3, <3>2, SMTT(60) DEF BlockInv, Control
      <4> QED  BY <1>1, <1>3, <2>1, <3>2, <4>1, Zenon DEF BlockInv, Registered
    <3> QED  BY <2>2, <3>1, <3>2, Zenon
  <2>3. \A j \in DOMAIN cmd[d].keys :
            (pc'[d] = "reg" => j < idx'[d]) => InTopic(cmd[d].keys[j], d)'
    <3> TAKE j \in DOMAIN cmd[d].keys
    <3>1. (pc'[d] = "reg" => j < idx'[d]) => j < idx[d] \/ j = idx[d]
      BY <1>2, <1>3
    <3> QED  BY <2>2, <3>1, Zenon
  <2>4. ASSUME NEW k \in Keys, InTopic(k, d)' PROVE k \in ElemsIn(cmd[d].keys)
    <3>1. CASE k = k0
      BY <1>3, <3>1, Zenon DEF ElemsIn
    <3> QED  BY <2>1, <2>4, <3>1, Zenon DEF BlockInv, Registered
  <2> QED  BY <1>1, <1>8, <2>3, <2>4, Zenon DEF Registered
<1>12. First(d)' /\ Looked(d)'
  BY <1>1, <1>2, <1>8, Zenon DEF First, Looked
<1>13. ASSUME NEW c \in Clients, c # d PROVE Same(c) /\ Wakes(c) /\ (signal[c] => signal'[c])
  BY <1>1, <1>2, <1>8, <1>13, Quiet, Zenon DEF Same
<1> QED  BY <1>7, <1>9, <1>10, <1>11, <1>12, <1>13, ActorStep, Zenon DEF ClientInv

(* A registration that no step touches stays as it is.                     *)
LEMMA StillRegistered ==
    ASSUME BlockInv, NEW d \in Clients, UNCHANGED <<queue, alive, cmd>>,
           pc[d] \in {"try", "pop", "wait"}, pc'[d] \in {"try", "pop", "wait"}
    PROVE  /\ Registered(d)' /\ alive[d]
           /\ \A j \in DOMAIN cmd[d].keys : InTopic(cmd[d].keys[j], d)
           /\ \A k \in Keys : Oldest(k)' = Oldest(k)
<1>1. alive[d] /\ pc[d] # "reg" /\ pc'[d] # "reg"
  BY Zenon DEF BlockInv, Control
<1>2. \A j \in DOMAIN cmd[d].keys : InTopic(cmd[d].keys[j], d)
  BY <1>1, Zenon DEF BlockInv, Registered
<1>3. \A k \in Keys : InTopic(k, d) => alive[d] /\ k \in ElemsIn(cmd[d].keys)
  BY Zenon DEF BlockInv, Registered
<1>4. Registered(d)'
  BY <1>1, <1>2, <1>3, Zenon DEF Registered, InTopic
<1>5. \A k \in Keys : Oldest(k)' = Oldest(k)
  BY Zenon DEF Oldest, IsLive
<1> QED  BY <1>1, <1>2, <1>4, <1>5, Zenon

(* FirstInLine: a live waiter that is told to try is first in line, since  *)
(* somebody is.                                                            *)
LEMMA FirstInLineStep ==
    ASSUME BlockInv, NEW d \in Clients, FirstInLine(d), cmd[d].op \in PopOps
    PROVE  BlockInv'
<1>1. /\ pc[d] = "try"
      /\ UNCHANGED <<type, queue, alive, signal, sawEmpty, cmd, pend, todo>>
  BY Zenon DEF FirstInLine, store, waiter
<1>0. PICK k0 \in Keys : k0 = Key(d) /\ idx[d] \in DOMAIN cmd[d].keys /\ k0 = cmd[d].keys[idx[d]]
  BY CommandKeys, Zenon DEF BlockInv, BlockTypes, Key
<1>2. /\ \/ pc'[d] = "pop" /\ idx'[d] = idx[d] /\ IsOldestWaiter(d, k0)
         \/ pc'[d] = "try" /\ idx'[d] = idx[d] + 1 /\ ~IsOldestWaiter(d, k0)
         \/ pc'[d] = "wait" /\ idx'[d] = 1 /\ idx[d] = Len(cmd[d].keys) /\ ~IsOldestWaiter(d, k0)
      /\ idx'[d] \in DOMAIN cmd[d].keys /\ idx' \in [Clients -> Nat]
      /\ pc' = [c \in Clients |-> pc'[c]]
      /\ \A c \in Clients : c # d => pc'[c] = pc[c] /\ idx'[c] = idx[c]
  <2>1. CASE IsOldestWaiter(d, k0)
    <3>1. Goto(d, "pop") /\ UNCHANGED idx
      BY <1>0, <2>1, Zenon DEF FirstInLine
    <3> QED  BY <2>1, <3>1, Zenon DEF BlockInv, BlockTypes, Goto
  <2>2. CASE ~IsOldestWaiter(d, k0)
    <3>1. NextKey(d, "try", "wait")
      BY <1>0, <2>2, Zenon DEF FirstInLine
    <3> QED  BY <2>2, <3>1, NextKeyStep DEF BlockInv
  <2> QED  BY <2>1, <2>2, Zenon
<1>3. BlockTypes'
  BY <1>1, <1>2, Zenon DEF BlockInv, BlockTypes
<1>4. /\ Registered(d)' /\ alive[d]
      /\ \A j \in DOMAIN cmd[d].keys : InTopic(cmd[d].keys[j], d)
      /\ \A k \in Keys : Oldest(k)' = Oldest(k)
  BY <1>1, <1>2, StillRegistered, Zenon
<1>5. Control(d)'
  <2>1. cmd[d].op \notin MoveOps
    BY Zenon DEF PopOps, MoveOps
  <2> QED  BY <1>1, <1>2, <1>4, <2>1, Zenon DEF BlockInv, Control
<1>6. First(d)'
  <2>1. Oldest(k0) # {}
    BY <1>0, <1>4, SomeOldest, Zenon DEF BlockInv
  <2>2. (pc[d] = "pop" => d \in Oldest(Key(d)))'
    <3>1. pc'[d] = "pop" => d \in Oldest(k0) /\ idx'[d] = idx[d]
      BY <1>2, <2>1, Zenon DEF IsOldestWaiter
    <3>2. pc'[d] = "pop" => Key(d)' = k0
      BY <1>0, <1>1, <3>1, Zenon DEF Key
    <3> QED  BY <1>4, <3>1, <3>2, Zenon
  <2>3. (alive[d] => \A k \in sawEmpty[d] : d \in Oldest(k))'
    BY <1>1, <1>4, Zenon DEF BlockInv, BlockTypes, First
  <2> QED  BY <2>2, <2>3, Zenon DEF First
<1>7. Looked(d)'
  <2>1. ~IsOldestWaiter(d, k0) => k0 \notin sawEmpty[d]
    BY <1>4, Zenon DEF BlockInv, First, IsOldestWaiter
  <2>2. ASSUME NEW k \in sawEmpty[d], Available(d, k)'
        PROVE  \/ signal[d]
               \/ Called(k)'
               \/ /\ pc'[d] # "wait"
                  /\ \E j \in DOMAIN cmd[d].keys : j >= idx'[d] /\ cmd[d].keys[j] = k
    <3>1. Available(d, k) /\ Called(k)' = Called(k)
      BY <1>1, <2>2, Zenon DEF Available, Called
    <3>2. CASE \E j \in DOMAIN cmd[d].keys : j >= idx[d] /\ cmd[d].keys[j] = k
      <4>1. PICK j \in DOMAIN cmd[d].keys : j >= idx[d] /\ cmd[d].keys[j] = k
        BY <3>2, Zenon
      <4>2. j \in 1 .. Len(cmd[d].keys) /\ Len(cmd[d].keys) \in Nat /\ idx[d] \in Nat
        BY CommandKeys, Zenon DEF BlockInv, BlockTypes
      <4>3. pc'[d] = "pop" \/ k # k0
        BY <1>2, <2>1, <2>2, Zenon
      <4>4. CASE pc'[d] = "pop"
        BY <1>2, <4>1, <4>4, Zenon
      <4>5. CASE k # k0
        <5>1. j > idx[d]
          BY <1>0, <4>1, <4>2, <4>5
        <5> QED  BY <1>2, <4>1, <4>2, <5>1
      <4> QED  BY <4>3, <4>4, <4>5, Zenon
    <3> QED  BY <1>1, <1>4, <3>1, <3>2, Zenon DEF BlockInv, Looked
  <2>3. /\ sawEmpty[d] \subseteq ElemsIn(cmd[d].keys)
        /\ cmd[d].op \in MoveOps => sawEmpty[d] \subseteq {cmd[d].keys[1]}
    BY <1>4, Zenon DEF BlockInv, Looked
  <2>4. pc'[d] # "reg"
    BY <1>2, Zenon
  <2> QED  BY <1>1, <2>2, <2>3, <2>4, Zenon DEF Looked
<1>8. ASSUME NEW c \in Clients, c # d PROVE Same(c) /\ Wakes(c) /\ (signal[c] => signal'[c])
  BY <1>1, <1>2, <1>8, Quiet, Zenon DEF Same
<1> QED  BY <1>1, <1>3, <1>4, <1>5, <1>6, <1>7, <1>8, ActorStep, QueueKept,
   Zenon DEF ClientInv

(* A client that cancels its registration, and calls back later if at all. *)
LEMMA CancelStep ==
    ASSUME BlockInv, NEW d \in Clients, Cancel(d), UNCHANGED <<type, cmd, idx>>, BlockTypes',
           Control(d)',
           \A c \in Clients : c # d => /\ pc'[c] = pc[c] /\ sawEmpty'[c] = sawEmpty[c]
                                       /\ pend'[c] = pend[c],
           \A p \in Procs : todo'[p] = todo[p] \/ (p = d /\ todo[p] = << >>)
    PROVE  BlockInv'
<1>1. /\ Topics(d) /\ ~alive'[d] /\ \A k \in Keys : ~InTopic(k, d)'
      /\ \A c \in Clients : c # d => alive'[c] = alive[c] /\ signal'[c] = signal[c]
  BY Cancelled, Zenon
<1>2. ClientInv(d)'
  BY <1>1, Away, Zenon
<1>3. ASSUME NEW c \in Clients, c # d PROVE Same(c) /\ Wakes(c) /\ (signal[c] => signal'[c])
  <2>1. todo'[c] = todo[c]
    BY <1>3, Zenon DEF Procs
  <2>2. \A k \in Keys : Called(k) => Called(k)'
    BY DEF Called
  <2> QED  BY <1>1, <1>3, <2>1, <2>2, Zenon DEF Same, Wakes
<1> QED  BY <1>1, <1>2, <1>3, ActorStep, Zenon

(* tryPop and its siblings.                                                *)
LEMMA PopStep ==
    ASSUME BlockInv, NEW d \in Clients, NEW n, PopFrom(d, n), cmd[d].op \in PopOps
    PROVE  BlockInv'
<1>1. pc[d] = "pop" /\ UNCHANGED <<type, cmd, todo>>
  BY Zenon DEF PopFrom, store
<1>0. PICK k0 \in Keys : k0 = Key(d) /\ idx[d] \in DOMAIN cmd[d].keys /\ k0 = cmd[d].keys[idx[d]]
  BY CommandKeys, Zenon DEF BlockInv, BlockTypes, Key
<1>2. cmd[d].op \notin MoveOps
  BY Zenon DEF PopOps, MoveOps
<1>3. CASE Available(d, k0)
  <2> DEFINE t == [src |-> k0, elems |-> Take(vals[k0], n, cmd[d].from), deps |-> Tips(k0),
                   dst |-> k0, move |-> FALSE, to |-> "last"]
  <2>1. /\ Cancel(d) /\ Goto(d, "flush") /\ UNCHANGED <<sawEmpty, idx>>
        /\ pend' = [pend EXCEPT ![d] = t]
    BY <1>0, <1>3, Zenon DEF PopFrom
  <2>2. /\ queue' \in [Keys -> Seq(Clients \cup {Nil})] /\ ~alive'[d]
        /\ alive' \in [Clients -> BOOLEAN] /\ signal' \in [Clients -> BOOLEAN]
    BY <2>1, Cancelled, Zenon
  <2>3. /\ pc'[d] = "flush" /\ pc' = [c \in Clients |-> pc'[c]] /\ pend' = [c \in Clients |-> pend'[c]]
        /\ pend'[d].src \in Keys /\ pend'[d].dst \in Keys
        /\ \A c \in Clients : c # d => pc'[c] = pc[c] /\ pend'[c] = pend[c]
    BY <2>1, Zenon DEF BlockInv, BlockTypes, Goto
  <2>4. BlockTypes'
    BY <1>1, <2>1, <2>2, <2>3, Zenon DEF BlockInv, BlockTypes
  <2>5. Control(d)'
    BY <1>1, <2>2, <2>3, Zenon DEF BlockInv, Control
  <2> QED  BY <1>1, <2>1, <2>3, <2>4, <2>5, CancelStep, Zenon
<1>4. CASE ~Available(d, k0)
  <2>1. /\ sawEmpty' = [sawEmpty EXCEPT ![d] = @ \cup {k0}] /\ NextKey(d, "try", "wait")
        /\ UNCHANGED <<pend, queue, alive, signal>>
    BY <1>0, <1>4, Zenon DEF PopFrom
  <2>2. /\ \/ pc'[d] = "try" /\ idx'[d] = idx[d] + 1
           \/ pc'[d] = "wait" /\ idx'[d] = 1 /\ idx[d] = Len(cmd[d].keys)
        /\ idx'[d] \in DOMAIN cmd[d].keys /\ idx' \in [Clients -> Nat]
        /\ pc' = [c \in Clients |-> pc'[c]]
        /\ \A c \in Clients : c # d => pc'[c] = pc[c] /\ idx'[c] = idx[c]
    BY <2>1, NextKeyStep, Zenon DEF BlockInv
  <2>3. /\ sawEmpty' \in [Clients -> SUBSET Keys] /\ sawEmpty'[d] = sawEmpty[d] \cup {k0}
        /\ \A c \in Clients : c # d => sawEmpty'[c] = sawEmpty[c]
    BY <2>1, Zenon DEF BlockInv, BlockTypes
  <2>4. BlockTypes'
    BY <1>1, <2>1, <2>2, <2>3, Zenon DEF BlockInv, BlockTypes
  <2>5. /\ Registered(d)' /\ alive[d] /\ \A k \in Keys : Oldest(k)' = Oldest(k)
    BY <1>1, <2>1, <2>2, StillRegistered, Zenon
  <2>6. Control(d)'
    BY <1>1, <1>2, <2>1, <2>2, <2>5, Zenon DEF BlockInv, Control
  <2>7. First(d)'
    <3>1. d \in Oldest(k0)
      BY <1>0, <1>1, Zenon DEF BlockInv, First
    <3>2. \A k \in sawEmpty[d] : k \in Keys /\ d \in Oldest(k)
      BY <2>5, Zenon DEF BlockInv, BlockTypes, First
    <3> QED  BY <2>2, <2>3, <2>5, <3>1, <3>2, Zenon DEF First
  <2>8. Looked(d)'
    <3>1. ASSUME NEW k \in sawEmpty'[d], Available(d, k)'
          PROVE  \/ signal[d]
                 \/ Called(k)'
                 \/ /\ pc'[d] # "wait"
                    /\ \E j \in DOMAIN cmd[d].keys : j >= idx'[d] /\ cmd[d].keys[j] = k
      <4>1. Available(d, k) /\ Called(k)' = Called(k)
        BY <1>1, <3>1, Zenon DEF Available, Called
      <4>2. k # k0 /\ k \in sawEmpty[d]
        BY <1>4, <2>3, <3>1, <4>1, Zenon
      <4>3. CASE \E j \in DOMAIN cmd[d].keys : j >= idx[d] /\ cmd[d].keys[j] = k
        <5>1. PICK j \in DOMAIN cmd[d].keys : j >= idx[d] /\ cmd[d].keys[j] = k
          BY <4>3, Zenon
        <5>2. j \in 1 .. Len(cmd[d].keys) /\ Len(cmd[d].keys) \in Nat /\ idx[d] \in Nat
          BY CommandKeys, Zenon DEF BlockInv, BlockTypes
        <5>3. j > idx[d]
          BY <1>0, <4>2, <5>1, <5>2
        <5> QED  BY <2>2, <5>1, <5>2, <5>3
      <4> QED  BY <1>1, <2>5, <4>1, <4>2, <4>3, Zenon DEF BlockInv, Looked
    <3>2. sawEmpty'[d] \subseteq ElemsIn(cmd[d].keys)
      <4>1. sawEmpty[d] \subseteq ElemsIn(cmd[d].keys)
        BY <2>5, Zenon DEF BlockInv, Looked
      <4>2. k0 \in ElemsIn(cmd[d].keys)
        BY <1>0, Zenon DEF ElemsIn
      <4> QED  BY <2>3, <4>1, <4>2, Zenon
    <3>3. pc'[d] # "reg"
      BY <2>2, Zenon
    <3> QED  BY <1>1, <1>2, <2>1, <3>1, <3>2, <3>3, Zenon DEF Looked
  <2>9. ASSUME NEW c \in Clients, c # d PROVE Same(c) /\ Wakes(c) /\ (signal[c] => signal'[c])
    BY <1>1, <2>1, <2>2, <2>3, <2>9, Quiet, Zenon DEF Same
  <2> QED  BY <2>1, <2>4, <2>5, <2>6, <2>7, <2>8, <2>9, ActorStep, QueueKept,
     Zenon DEF ClientInv
<1> QED  BY <1>3, <1>4, Zenon

(* A signal ends the wait, and every key is looked at again.               *)
LEMMA WokenStep == ASSUME BlockInv, NEW d \in Clients, WaitWoken(d) PROVE BlockInv'
<1>1. /\ pc[d] = "wait" /\ signal' = [signal EXCEPT ![d] = FALSE] /\ Goto(d, "try")
      /\ UNCHANGED <<type, queue, alive, sawEmpty, cmd, idx, pend, todo>>
  BY Zenon DEF WaitWoken, store, control
<1>2. /\ pc'[d] = "try" /\ pc' = [c \in Clients |-> pc'[c]] /\ signal' \in [Clients -> BOOLEAN]
      /\ \A c \in Clients : c # d => pc'[c] = pc[c] /\ signal'[c] = signal[c]
  BY <1>1, Zenon DEF BlockInv, BlockTypes, Goto
<1>3. BlockTypes'
  BY <1>1, <1>2, Zenon DEF BlockInv, BlockTypes
<1>4. /\ Registered(d)' /\ alive[d] /\ \A k \in Keys : Oldest(k)' = Oldest(k)
  BY <1>1, <1>2, StillRegistered, Zenon
<1>5. Control(d)' /\ idx[d] = 1
  BY <1>1, <1>2, <1>4, Zenon DEF BlockInv, Control
<1>6. First(d)'
  BY <1>1, <1>2, <1>4 DEF BlockInv, BlockTypes, First
<1>7. Looked(d)'
  <2>1. /\ sawEmpty[d] \subseteq ElemsIn(cmd[d].keys)
        /\ cmd[d].op \in MoveOps => sawEmpty[d] \subseteq {cmd[d].keys[1]}
    BY <1>4, Zenon DEF BlockInv, Looked
  <2>2. \A k \in sawEmpty[d] : \E j \in DOMAIN cmd[d].keys : j >= 1 /\ cmd[d].keys[j] = k
    <3>1. DOMAIN cmd[d].keys = 1 .. Len(cmd[d].keys)
      BY CommandKeys, Zenon DEF BlockInv, BlockTypes
    <3> QED  BY <2>1, <3>1 DEF ElemsIn
  <2> QED  BY <1>1, <1>2, <1>5, <2>1, <2>2, ZenonT(60) DEF Looked
<1>8. ASSUME NEW c \in Clients, c # d PROVE Same(c) /\ Wakes(c) /\ (signal[c] => signal'[c])
  BY <1>1, <1>2, <1>8, Quiet, Zenon DEF Same
<1> QED  BY <1>1, <1>3, <1>4, <1>5, <1>6, <1>7, <1>8, ActorStep, QueueKept,
   Zenon DEF ClientInv

(* The context ends the wait.                                              *)
LEMMA WaitCancelledStep == ASSUME BlockInv, NEW d \in Clients, WaitCancelled(d) PROVE BlockInv'
<1>1. /\ pc[d] = "wait" /\ Cancel(d) /\ Goto(d, "idle")
      /\ UNCHANGED <<type, sawEmpty, cmd, idx, pend, todo>>
  BY Zenon DEF WaitCancelled, Finish, store
<1>2. /\ queue' \in [Keys -> Seq(Clients \cup {Nil})] /\ ~alive'[d]
      /\ alive' \in [Clients -> BOOLEAN] /\ signal' \in [Clients -> BOOLEAN]
  BY <1>1, Cancelled, Zenon
<1>3. /\ pc'[d] = "idle" /\ pc' = [c \in Clients |-> pc'[c]]
      /\ \A c \in Clients : c # d => pc'[c] = pc[c]
  BY <1>1, Zenon DEF BlockInv, BlockTypes, Goto
<1>4. BlockTypes'
  BY <1>1, <1>2, <1>3, Zenon DEF BlockInv, BlockTypes
<1>5. Control(d)'
  BY <1>1, <1>2, <1>3, Zenon DEF BlockInv, Control
<1> QED  BY <1>1, <1>3, <1>4, <1>5, CancelStep, Zenon

(* doLMove: with nothing to move it waits, and has found its only key      *)
(* empty; otherwise it cancels.                                            *)
LEMMA MoveStep ==
    ASSUME BlockInv, NEW d \in Clients, doLMove(d), cmd[d].op \in MoveOps
    PROVE  BlockInv'
<1>1. pc[d] = "try" /\ idx[d] = 1 /\ todo[d] = << >> /\ UNCHANGED <<type, cmd, idx>>
  BY Zenon DEF BlockInv, Control, doLMove, store
<1>0. PICK k0 \in Keys : k0 = Key(d) /\ k0 = cmd[d].keys[1] /\ 1 \in DOMAIN cmd[d].keys
  BY <1>1, CommandKeys, Zenon DEF BlockInv, BlockTypes, Key
<1> DEFINE dst == cmd[d].dst
           t   == [src |-> k0, elems |-> Take(vals[k0], 1, cmd[d].from),
                   deps |-> Tips(k0) \cup (IF type[dst] = "none" THEN {} ELSE {dst}),
                   dst |-> dst, move |-> TRUE, to |-> cmd[d].to]
<1>2. CASE /\ type[k0] = "none" /\ Goto(d, "wait")
           /\ sawEmpty' = [sawEmpty EXCEPT ![d] = IF d \in Oldest(k0) THEN @ \cup {k0} ELSE @]
           /\ UNCHANGED <<queue, alive, signal, pend, todo>>
  <2>2. /\ pc'[d] = "wait" /\ pc' = [c \in Clients |-> pc'[c]]
        /\ \A c \in Clients : c # d => pc'[c] = pc[c]
    BY <1>2, Zenon DEF BlockInv, BlockTypes, Goto
  <2>3. /\ sawEmpty' \in [Clients -> SUBSET Keys]
        /\ sawEmpty'[d] = sawEmpty[d] \/ (sawEmpty'[d] = sawEmpty[d] \cup {k0} /\ d \in Oldest(k0))
        /\ \A c \in Clients : c # d => sawEmpty'[c] = sawEmpty[c]
    BY <1>2, Zenon DEF BlockInv, BlockTypes
  <2>4. BlockTypes'
    BY <1>1, <1>2, <2>2, <2>3, Zenon DEF BlockInv, BlockTypes
  <2>5. /\ Registered(d)' /\ alive[d] /\ \A k \in Keys : Oldest(k)' = Oldest(k)
    BY <1>1, <1>2, <2>2, StillRegistered, Zenon
  <2>6. Control(d)'
    BY <1>1, <1>2, <2>2, <2>5, Zenon DEF BlockInv, Control
  <2>7. First(d)'
    <3>1. \A k \in sawEmpty[d] : k \in Keys /\ d \in Oldest(k)
      BY <2>5, Zenon DEF BlockInv, BlockTypes, First
    <3> QED  BY <2>2, <2>3, <2>5, <3>1, Zenon DEF First
  <2>8. Looked(d)'
    <3>1. sawEmpty[d] \subseteq {k0} /\ k0 \in ElemsIn(cmd[d].keys)
      BY <1>0, <2>5 DEF BlockInv, Looked, ElemsIn
    <3>2. sawEmpty'[d] \subseteq {k0}
      BY <2>3, <3>1, Zenon
    <3>3. ~Available(d, k0)'
      BY <1>1, <1>2, Zenon DEF Available, ExpectedType
    <3> QED  BY <1>0, <1>1, <2>2, <3>1, <3>2, <3>3, Zenon DEF Looked
  <2>9. ASSUME NEW c \in Clients, c # d PROVE Same(c) /\ Wakes(c) /\ (signal[c] => signal'[c])
    BY <1>1, <1>2, <2>2, <2>3, <2>9, Quiet, Zenon DEF Same
  <2> QED  BY <1>2, <2>4, <2>5, <2>6, <2>7, <2>8, <2>9, ActorStep, QueueKept,
     Zenon DEF ClientInv
<1>3. CASE CancelAndRenotify(d) /\ Goto(d, "notify") /\ UNCHANGED <<sawEmpty, pend>>
  <2> DEFINE u == [i \in DOMAIN cmd[d].keys |-> [all |-> FALSE, key |-> cmd[d].keys[i]]]
  <2>1. Cancel(d) /\ todo' = [todo EXCEPT ![d] = u]
    BY <1>3, Zenon DEF CancelAndRenotify
  <2>2. u \in Seq(Callbacks)
    <3>1. /\ Len(cmd[d].keys) \in Nat /\ DOMAIN cmd[d].keys = 1 .. Len(cmd[d].keys)
          /\ \A j \in DOMAIN cmd[d].keys : cmd[d].keys[j] \in Keys
      BY CommandKeys, Zenon DEF BlockInv, BlockTypes
    <3>2. \A j \in DOMAIN cmd[d].keys : [all |-> FALSE, key |-> cmd[d].keys[j]] \in Callbacks
      BY <3>1, Zenon DEF Callbacks
    <3> QED  BY <3>1, <3>2
  <2>3. /\ queue' \in [Keys -> Seq(Clients \cup {Nil})] /\ ~alive'[d]
        /\ alive' \in [Clients -> BOOLEAN] /\ signal' \in [Clients -> BOOLEAN]
    BY <2>1, Cancelled, Zenon
  <2> HIDE DEF u
  <2>4. /\ pc'[d] = "notify" /\ pc' = [c \in Clients |-> pc'[c]]
        /\ \A c \in Clients : c # d => pc'[c] = pc[c]
        /\ todo' \in [Procs -> Seq(Callbacks)]
        /\ \A p \in Procs : p # d => todo'[p] = todo[p]
    BY <1>3, <2>1, <2>2, Zenon DEF BlockInv, BlockTypes, Goto
  <2>5. BlockTypes'
    BY <1>1, <1>3, <2>3, <2>4, Zenon DEF BlockInv, BlockTypes
  <2>6. Control(d)'
    BY <2>3, <2>4, Zenon DEF Control
  <2> QED  BY <1>1, <1>3, <2>1, <2>4, <2>5, <2>6, CancelStep, Zenon
<1>4. CASE /\ Cancel(d) /\ Goto(d, "flush") /\ UNCHANGED <<sawEmpty, todo>>
           /\ pend' = [pend EXCEPT ![d] = t]
  <2>2. /\ queue' \in [Keys -> Seq(Clients \cup {Nil})] /\ ~alive'[d]
        /\ alive' \in [Clients -> BOOLEAN] /\ signal' \in [Clients -> BOOLEAN]
    BY <1>4, Cancelled, Zenon
  <2>3. cmd[d].dst \in Keys
    BY CommandKeys, Zenon DEF BlockInv, BlockTypes
  <2>4. /\ pc'[d] = "flush" /\ pc' = [c \in Clients |-> pc'[c]]
        /\ pend' = [c \in Clients |-> pend'[c]]
        /\ pend'[d].src \in Keys /\ pend'[d].dst \in Keys
        /\ \A c \in Clients : c # d => pc'[c] = pc[c] /\ pend'[c] = pend[c]
    BY <1>4, <2>3, Zenon DEF BlockInv, BlockTypes, Goto
  <2>5. BlockTypes'
    BY <1>1, <1>4, <2>2, <2>4, Zenon DEF BlockInv, BlockTypes
  <2>6. Control(d)'
    BY <1>1, <1>4, <2>2, <2>4, Zenon DEF Control
  <2> QED  BY <1>1, <1>4, <2>4, <2>5, <2>6, CancelStep, Zenon
<1>5. \/ /\ type[k0] = "none" /\ Goto(d, "wait")
         /\ sawEmpty' = [sawEmpty EXCEPT ![d] = IF d \in Oldest(k0) THEN @ \cup {k0} ELSE @]
         /\ UNCHANGED <<queue, alive, signal, pend, todo>>
      \/ CancelAndRenotify(d) /\ Goto(d, "notify") /\ UNCHANGED <<sawEmpty, pend>>
      \/ Cancel(d) /\ Goto(d, "flush") /\ UNCHANGED <<sawEmpty, todo>> /\ pend' = [pend EXCEPT ![d] = t]
  BY <1>0, Zenon DEF doLMove
<1> QED  BY <1>2, <1>3, <1>4, <1>5, Zenon

(* An aborted flush starts the handler again, or gives up.                 *)
LEMMA AbortedStep == ASSUME BlockInv, NEW d \in Clients, FlushAborted(d) PROVE BlockInv'
<1>1. /\ pc[d] = "flush" /\ pend' = [pend EXCEPT ![d] = Nil] /\ idx' = [idx EXCEPT ![d] = 1]
      /\ UNCHANGED <<type, queue, alive, signal, sawEmpty, cmd, todo>>
      /\ \E l \in {"reg", "check", "idle"} : Goto(d, l)
  BY Zenon DEF FlushAborted, store, waiter, Finish, Start
<1>2. 1 \in DOMAIN cmd[d].keys
  BY CommandKeys, Zenon DEF BlockInv, BlockTypes
<1>3. /\ pc'[d] \in {"reg", "check", "idle"} /\ idx'[d] = 1 /\ idx' \in [Clients -> Nat]
      /\ pc' = [c \in Clients |-> pc'[c]] /\ pend' = [c \in Clients |-> pend'[c]]
      /\ \A c \in Clients : c # d => pc'[c] = pc[c] /\ idx'[c] = idx[c] /\ pend'[c] = pend[c]
  BY <1>1, Zenon DEF BlockInv, BlockTypes, Goto
<1>4. BlockTypes'
  BY <1>1, <1>2, <1>3, Zenon DEF BlockInv, BlockTypes
<1>5. Control(d)' /\ ~alive'[d] /\ ~alive[d]
  BY <1>1, <1>3, Zenon DEF BlockInv, Control
<1>6. ClientInv(d)'
  BY <1>1, <1>5, Away, NoSlots, Zenon
<1>7. ASSUME NEW c \in Clients, c # d PROVE Same(c) /\ Wakes(c) /\ (signal[c] => signal'[c])
  BY <1>1, <1>3, <1>7, Quiet, Zenon DEF Same
<1> QED  BY <1>1, <1>4, <1>6, <1>7, ActorStep, QueueKept, Zenon

(* A process that had no callback to run takes some on: the others keep    *)
(* theirs, and the new ones are called.                                    *)
LEMMA NewCallbacks ==
    ASSUME BlockTypes, NEW p \in Procs, todo[p] = << >>, NEW q \in Seq(Callbacks),
           todo' = [todo EXCEPT ![p] = q]
    PROVE  /\ todo' \in [Procs -> Seq(Callbacks)] /\ todo'[p] = q
           /\ \A x \in Procs : x # p => todo'[x] = todo[x]
           /\ \A k \in Keys : Called(k) => Called(k)'
           /\ \A k \in Keys : (\E i \in DOMAIN q : q[i].key = k) => Called(k)'
<1>1. /\ todo' \in [Procs -> Seq(Callbacks)] /\ todo'[p] = q
      /\ \A x \in Procs : x # p => todo'[x] = todo[x]
  BY Zenon DEF BlockTypes
<1>2. \A k \in Keys : Called(k) => Called(k)'
  <2>1. DOMAIN todo[p] = {}
    OBVIOUS
  <2> QED  BY <1>1, <2>1, Zenon DEF Called
<1>3. \A k \in Keys : (\E i \in DOMAIN q : q[i].key = k) => Called(k)'
  BY <1>1, Zenon DEF Called
<1> QED  BY <1>1, <1>2, <1>3, Zenon

(* A flush that commits: the data that a move adds to a key is followed by *)
(* the callback for that key.                                              *)
LEMMA CommittedStep == ASSUME BlockInv, NEW d \in Clients, FlushCommitted(d) PROVE BlockInv'
<1> DEFINE t == pend[d]
<1>1. /\ pc[d] = "flush" /\ UNCHANGED <<queue, alive, signal, sawEmpty, cmd, idx>>
      /\ pend' = [pend EXCEPT ![d] = Nil]
  BY Zenon DEF FlushCommitted, waiter
<1>2. t.src \in Keys /\ t.dst \in Keys /\ ~alive[d] /\ todo[d] = << >> /\ d \in Procs
  BY <1>1, Zenon DEF BlockInv, Control, Procs
<1>3. PICK src \in Keys, dst \in Keys : src = t.src /\ dst = t.dst
  BY <1>2, Zenon
<1>4. /\ type' = [k \in Keys |-> type'[k]]
      /\ \A k \in Keys : type'[k] = type[k] \/ type'[k] = "none" \/ (t.move /\ k = dst)
  <2> DEFINE left  == SelectSeq(vals[t.src], LAMBDA e : e \notin ElemsIn(t.elems))
             after == [vals EXCEPT ![t.src] = left]
             final == IF t.move
                      THEN [after EXCEPT ![t.dst] = Insert("list", @, t.elems[1], t.to)]
                      ELSE after
  <2>1. type' = [k \in Keys |-> IF t.move /\ k = t.dst THEN "list"
                                ELSE IF k = t.src THEN TypeOf(type[k], final[k])
                                ELSE type[k]]
    BY Zenon DEF FlushCommitted
  <2> HIDE DEF final
  <2> QED  BY <1>3, <2>1, Zenon DEF TypeOf
<1>5. PICK q \in Seq(Callbacks) :
         /\ todo' = [todo EXCEPT ![d] = q]
         /\ Goto(d, IF q = << >> THEN "idle" ELSE "notify")
         /\ t.move => \E i \in DOMAIN q : q[i].key = dst
  <2> DEFINE added == IF t.move THEN <<[all |-> FALSE, key |-> t.dst]>> ELSE << >>
             a == [all |-> TRUE, key |-> src]
  <2>1. \E q \in {added, added \o <<a>>, added \o << >>} :
           todo' = [todo EXCEPT ![d] = q] /\ Goto(d, IF q = << >> THEN "idle" ELSE "notify")
    BY <1>3, Zenon DEF FlushCommitted
  <2>2. added \in Seq(Callbacks) /\ <<a>> \in Seq(Callbacks) /\ << >> \in Seq(Callbacks)
    <3>1. << >> \in Seq(Callbacks) /\ <<a>> \in Seq(Callbacks)
      BY DEF Callbacks
    <3>2. <<[all |-> FALSE, key |-> t.dst]>> \in Seq(Callbacks)
      BY <1>2 DEF Callbacks
    <3> QED  BY <3>1, <3>2, Zenon
  <2>3. t.move => 1 \in DOMAIN added /\ added[1].key = dst
    BY <1>3
  <2> HIDE DEF added, a
  <2>4. added \o <<a>> \in Seq(Callbacks) /\ added \o << >> = added
    BY <2>2
  <2>5. t.move => 1 \in DOMAIN (added \o <<a>>) /\ (added \o <<a>>)[1] = added[1]
    BY <2>2, <2>3
  <2>6. CASE /\ todo' = [todo EXCEPT ![d] = added]
             /\ Goto(d, IF added = << >> THEN "idle" ELSE "notify")
    BY <2>2, <2>3, <2>6, Zenon
  <2>7. CASE /\ todo' = [todo EXCEPT ![d] = added \o <<a>>]
             /\ Goto(d, IF added \o <<a>> = << >> THEN "idle" ELSE "notify")
    BY <2>3, <2>4, <2>5, <2>7, Zenon
  <2> QED  BY <2>1, <2>4, <2>6, <2>7, Zenon
<1>6. /\ todo' \in [Procs -> Seq(Callbacks)] /\ todo'[d] = q
      /\ \A x \in Procs : x # d => todo'[x] = todo[x]
      /\ \A k \in Keys : Called(k) => Called(k)'
      /\ t.move => Called(dst)'
  BY <1>2, <1>5, NewCallbacks, Zenon DEF BlockInv
<1>7. /\ pc'[d] = (IF q = << >> THEN "idle" ELSE "notify")
      /\ pc' = [c \in Clients |-> pc'[c]] /\ pend' = [c \in Clients |-> pend'[c]]
      /\ \A c \in Clients : c # d => pc'[c] = pc[c] /\ pend'[c] = pend[c]
  BY <1>1, <1>5, Zenon DEF BlockInv, BlockTypes, Goto
<1>8. BlockTypes'
  BY <1>1, <1>4, <1>6, <1>7, Zenon DEF BlockInv, BlockTypes
<1>9. Control(d)' /\ ~alive'[d]
  BY <1>1, <1>2, <1>6, <1>7, Zenon DEF Control
<1>10. ClientInv(d)'
  BY <1>1, <1>2, <1>9, Away, NoSlots, Zenon
<1>11. ASSUME NEW c \in Clients, c # d PROVE Same(c) /\ Wakes(c) /\ (signal[c] => signal'[c])
  BY <1>1, <1>4, <1>6, <1>7, <1>11, Zenon DEF Same, Wakes, Procs
<1> QED  BY <1>1, <1>8, <1>10, <1>11, ActorStep, QueueKept, Zenon

(* A callback wakes whoever is first in line for its key.                  *)
LEMMA CallbackStep == ASSUME BlockInv, NEW p \in Procs, RunCallback(p) PROVE BlockInv'
<1> DEFINE n == Head(todo[p])
<1>1. /\ todo[p] # << >> /\ Deliver(n) /\ todo' = [todo EXCEPT ![p] = Tail(@)]
      /\ UNCHANGED <<type, queue, alive, sawEmpty, cmd, idx, pend>>
      /\ IF p \in Clients /\ Tail(todo[p]) = << >> THEN Goto(p, "idle") ELSE UNCHANGED pc
  BY Zenon DEF RunCallback, store, control
<1>2. /\ todo \in [Procs -> Seq(Callbacks)] /\ todo[p] \in Seq(Callbacks)
      /\ signal \in [Clients -> BOOLEAN]
  BY Zenon DEF BlockInv, BlockTypes
<1>3. /\ n \in Callbacks /\ n = todo[p][1] /\ Tail(todo[p]) \in Seq(Callbacks)
      /\ \A i \in DOMAIN todo[p] : i # 1 => /\ i - 1 \in DOMAIN Tail(todo[p])
                                            /\ Tail(todo[p])[i - 1] = todo[p][i]
  BY <1>1, <1>2
<1>4. /\ todo' \in [Procs -> Seq(Callbacks)] /\ todo'[p] = Tail(todo[p])
      /\ \A x \in Procs : x # p => todo'[x] = todo[x]
  BY <1>1, <1>2, <1>3, Zenon
<1>5. /\ signal' = [c \in Clients |-> signal[c] \/ c \in Signalled(n)]
      /\ signal' \in [Clients -> BOOLEAN]
  BY <1>1, Zenon DEF Deliver
<1>6. /\ pc' = [c \in Clients |-> pc'[c]]
      /\ \A c \in Clients : c # p => pc'[c] = pc[c]
      /\ p \in Clients => pc'[p] = IF Tail(todo[p]) = << >> THEN "idle" ELSE pc[p]
  BY <1>1, Zenon DEF BlockInv, BlockTypes, Goto
<1>7. BlockTypes'
  BY <1>1, <1>4, <1>5, <1>6, Zenon DEF BlockInv, BlockTypes
<1>8. ASSUME p \in Clients PROVE ClientInv(p)'
  <2>1. pc[p] = "notify" /\ ~alive[p]
    BY <1>1, <1>8, Zenon DEF BlockInv, Control
  <2>2. Control(p)' /\ ~alive'[p]
    BY <1>1, <1>4, <1>6, <1>8, <2>1, Zenon DEF Control
  <2> QED  BY <1>1, <1>8, <2>1, <2>2, Away, NoSlots, Zenon
<1>9. ASSUME NEW c \in Clients, c # p PROVE Same(c) /\ Wakes(c) /\ (signal[c] => signal'[c])
  <2>1. Same(c) /\ (signal[c] => signal'[c])
    BY <1>1, <1>4, <1>5, <1>6, <1>9, Zenon DEF Same, Procs
  <2>2. ASSUME NEW k \in Keys, Called(k), alive[c], c \in Oldest(k) PROVE Called(k)' \/ signal'[c]
    <3>0. PICK x \in Procs : \E i \in DOMAIN todo[x] : todo[x][i].key = k
      BY <2>2, Zenon DEF Called
    <3>1. PICK i \in DOMAIN todo[x] : todo[x][i].key = k
      BY <3>0, Zenon
    <3>2. CASE x # p
      BY <1>4, <3>1, <3>2, Zenon DEF Called
    <3>3. CASE x = p /\ i # 1
      BY <1>3, <1>4, <3>1, <3>3, ZenonT(60) DEF Called
    <3>4. CASE x = p /\ i = 1
      <4>1. n.key = k
        BY <1>3, <3>1, <3>4, Zenon
      <4>2. c \in LiveWaiters(k)
        BY <2>2, OldestSlot DEF LiveWaiters
      <4>3. c \in Signalled(n)
        BY <2>2, <4>1, <4>2, Zenon DEF Signalled
      <4> QED  BY <1>5, <4>3, Zenon
    <3> QED  BY <3>2, <3>3, <3>4, Zenon
  <2>3. Wakes(c)
    BY <1>1, <2>2, Zenon DEF Wakes
  <2> QED  BY <2>1, <2>3, Zenon
<1> QED  BY <1>1, <1>7, <1>8, <1>9, ActorStep, QueueKept, Zenon

(* A producer changes the type of one key and owes a callback for it.      *)
LEMMA ProducerStep ==
    ASSUME BlockInv, NEW p \in Producers, todo[p] = << >>, NEW k \in Keys, NEW t,
           NEW a \in BOOLEAN, type' = [type EXCEPT ![k] = t],
           todo' = [todo EXCEPT ![p] = <<[all |-> a, key |-> k]>>],
           UNCHANGED <<queue, alive, signal, sawEmpty, cmd, idx, pc, pend>>
    PROVE  BlockInv'
<1> DEFINE q == <<[all |-> a, key |-> k]>>
<1>1. q \in Seq(Callbacks) /\ 1 \in DOMAIN q /\ q[1].key = k
  BY DEF Callbacks
<1>2. p \in Procs /\ p \notin Clients
  BY ConstantsAssumption, Zenon DEF Procs
<1>3. todo' = [todo EXCEPT ![p] = q]
  BY Zenon
<1> HIDE DEF q
<1>4. /\ todo' \in [Procs -> Seq(Callbacks)]
      /\ \A x \in Procs : x # p => todo'[x] = todo[x]
      /\ \A x \in Keys : Called(x) => Called(x)'
      /\ Called(k)'
  BY <1>1, <1>2, <1>3, NewCallbacks, Zenon DEF BlockInv
<1>5. type' = [x \in Keys |-> type'[x]] /\ \A x \in Keys : x # k => type'[x] = type[x]
  BY Zenon DEF BlockInv, BlockTypes
<1>6. BlockTypes'
  BY <1>4, <1>5, Zenon DEF BlockInv, BlockTypes
<1>7. ASSUME NEW c \in Clients, c # p PROVE Same(c) /\ Wakes(c) /\ (signal[c] => signal'[c])
  BY <1>4, <1>5, <1>7, Zenon DEF Same, Wakes, Procs
<1> QED  BY <1>2, <1>6, <1>7, ActorStep, QueueKept, Zenon

(* Steps that change nothing the invariant speaks of.                      *)
LEMMA UnseenStep ==
    ASSUME BlockInv,
           UNCHANGED <<type, queue, alive, signal, sawEmpty, cmd, idx, pc, pend, todo>>
    PROVE  BlockInv'
<1>1. BlockTypes'
  BY Zenon DEF BlockInv, BlockTypes
<1>2. ASSUME NEW c \in Clients, c # Nil PROVE Same(c) /\ Wakes(c) /\ (signal[c] => signal'[c])
  BY Quiet, Zenon DEF Same
<1>3. Nil \notin Clients
  BY ConstantsAssumption, Zenon
<1> QED  BY <1>1, <1>2, <1>3, ActorStep, QueueKept, Zenon

\* The steps of a handler, one by one.
HandlerStep(d) ==
    \/ CheckType(d) \/ Register(d) \/ WaitWoken(d) \/ WaitCancelled(d)
    \/ cmd[d].op \in PopOps /\ FirstInLine(d)
    \/ cmd[d].op \in PopOps /\ (PopFrom(d, 1) \/ PopFrom(d, cmd[d].count))
    \/ cmd[d].op \in MoveOps /\ doLMove(d)

(* Every command is made of these steps.                                   *)
LEMMA HandlerSteps ==
    ASSUME NEW d, ClientStep(d)
    PROVE  HandlerStep(d) \/ FlushAborted(d) \/ FlushCommitted(d)
<1> USE DEF HandlerStep, PopLoop, MoveLoop, Wait, PopOps, MoveOps
<1>1. CASE handleBlockingPop(d)
  BY <1>1, Zenon DEF handleBlockingPop, tryPop
<1>2. CASE handleBLMPop(d)
  BY <1>2, Zenon DEF handleBLMPop, tryMultiPop
<1>3. CASE handleBlockingZPop(d)
  BY <1>3, Zenon DEF handleBlockingZPop, tryZPop
<1>4. CASE handleBZMPop(d)
  BY <1>4, Zenon DEF handleBZMPop, tryZMPop
<1>5. CASE handleBLMove(d)
  BY <1>5, Zenon DEF handleBLMove
<1>6. CASE handleBRPopLPush(d)
  BY <1>6, Zenon DEF handleBRPopLPush
<1> QED  BY <1>1, <1>2, <1>3, <1>4, <1>5, <1>6, Zenon DEF ClientStep, Flush

(* The invariant holds at the start.                                       *)
LEMMA InitBlock == ASSUME Init PROVE BlockInv
<1>1. (CHOOSE m \in Commands : TRUE) \in Commands
  BY ConstantsAssumption, Zenon
<1>2. \A c \in Clients : cmd[c] \in Commands /\ 1 \in DOMAIN cmd[c].keys
  BY <1>1, CommandKeys, Zenon DEF Init
<1>3. type = [k \in Keys |-> type[k]]
  BY Zenon DEF Init
<1>4. BlockTypes
  BY <1>1, <1>2, <1>3 DEF Init, BlockTypes
<1>5. ASSUME NEW c \in Clients PROVE Control(c) /\ Registered(c) /\ First(c) /\ Looked(c)
  <2>1. /\ pc[c] = "idle" /\ ~alive[c] /\ todo[c] = << >>
        /\ \A k \in Keys : queue[k] = << >>
    BY Zenon DEF Init, Procs
  <2> QED  BY <2>1 DEF Control, Registered, First, Looked, InTopic
<1> QED  BY <1>4, <1>5, Zenon DEF BlockInv

(* Every step keeps the invariant.                                         *)
LEMMA NextBlock == ASSUME BlockInv, [Next]_vars PROVE BlockInv'
<1>1. ASSUME NEW d \in Clients, ClientStep(d) PROVE BlockInv'
  <2>1. CASE HandlerStep(d)
    BY <2>1, CheckTypeStep, RegisterStep, WokenStep, WaitCancelledStep, FirstInLineStep,
       PopStep, MoveStep, Zenon
    DEF HandlerStep
  <2> QED  BY <1>1, <2>1, HandlerSteps, AbortedStep, CommittedStep, Zenon
<1>2. ASSUME NEW d \in Clients, CtxDone(d) PROVE BlockInv'
  BY <1>2, UnseenStep, Zenon DEF CtxDone, store, control
<1>3. ASSUME NEW p \in Producers, Produce(p) PROVE BlockInv'
  <2>1. ASSUME NEW k \in Keys, Del(p, k) PROVE BlockInv'
    <3>1. /\ todo[p] = << >> /\ type' = [type EXCEPT ![k] = "none"]
          /\ todo' = [todo EXCEPT ![p] = <<[all |-> TRUE, key |-> k]>>]
          /\ UNCHANGED <<queue, alive, signal, sawEmpty, cmd, idx, pc, pend>>
      BY <2>1, Zenon DEF Del, waiter, control
    <3> QED  BY <3>1, ProducerStep, Zenon
  <2>2. ASSUME NEW k \in Keys, NEW e, NEW t, NEW end, Push(p, k, e, t, end) PROVE BlockInv'
    <3>1. /\ todo[p] = << >> /\ type' = [type EXCEPT ![k] = t]
          /\ todo' = [todo EXCEPT ![p] = <<[all |-> FALSE, key |-> k]>>]
          /\ UNCHANGED <<queue, alive, signal, sawEmpty, cmd, idx, pc, pend>>
      BY <2>2, Zenon DEF Push, waiter, control
    <3> QED  BY <3>1, ProducerStep, Zenon
  <2> QED  BY <1>3, <2>1, <2>2, Zenon DEF Produce
<1>4. CASE UNCHANGED vars
  BY <1>4, UnseenStep, Zenon DEF vars, store, waiter, control
<1> QED  BY <1>1, <1>2, <1>3, <1>4, CallStep, CallbackStep, Zenon DEF Next

(* So the invariant always holds.                                          *)
LEMMA BlockAlways == Spec => []BlockInv
BY InitBlock, NextBlock, PTL DEF Spec

(* Whatever clients, keys and commands there are, however pops, moves,     *)
(* aborted flushes and retries interleave, a slot of a topic belongs to a  *)
(* waiter that is alive, of a command that is between Register and Cancel  *)
(* and named the key.                                                      *)
THEOREM NoLeakedWaiterAlways == Spec => []NoLeakedWaiter
<1>1. ASSUME BlockInv PROVE NoLeakedWaiter
  <2>1. ASSUME NEW k \in Keys, NEW i \in DOMAIN queue[k], queue[k][i] # Nil
        PROVE  /\ alive[queue[k][i]] /\ pc[queue[k][i]] \in InCommand
               /\ k \in ElemsIn(cmd[queue[k][i]].keys)
    <3>1. queue[k][i] \in Clients
      BY <1>1, <2>1 DEF BlockInv, BlockTypes
    <3>2. InTopic(k, queue[k][i])
      BY Zenon DEF InTopic
    <3> QED  BY <1>1, <3>1, <3>2, Zenon DEF BlockInv, Registered, Control, InCommand
  <2> QED  BY <2>1, Zenon DEF NoLeakedWaiter
<1> QED  BY <1>1, BlockAlways, PTL

(* No wake-up is lost between looking and sleeping: a client that found a  *)
(* key empty while first in line, and sleeps, has a signal pending when    *)
(* the key holds data, or the callback that sends it is still to run.      *)
THEOREM NoLostWakeupAlways == Spec => []NoLostWakeup
<1>1. ASSUME BlockInv PROVE NoLostWakeup
  <2>1. ASSUME NEW c \in Clients, pc[c] = "wait", NEW k \in sawEmpty[c], Available(c, k)
        PROVE  signal[c] \/ Called(k)
    <3>1. alive[c]
      BY <1>1, <2>1, Zenon DEF BlockInv, Control
    <3> QED  BY <1>1, <2>1, <3>1, Zenon DEF BlockInv, Looked
  <2> QED  BY <2>1, Zenon DEF NoLostWakeup, Called
<1> QED  BY <1>1, BlockAlways, PTL

(* The transactions that a step opens.                                     *)
LEMMA OpensTransaction ==
    ASSUME BlockInv, [Next]_vars, NEW c \in Clients, pend[c] = Nil, pend'[c] # Nil
    PROVE  \/ cmd[c].op \in MoveOps
           \/ pc[c] = "pop" /\ pend'[c].src = Key(c)
<1> DEFINE P == \/ cmd[c].op \in MoveOps
                \/ pc[c] = "pop" /\ pend'[c].src = Key(c)
<1>0. pend = [x \in Clients |-> pend[x]]
  BY Zenon DEF BlockInv, BlockTypes
<1>1. ASSUME NEW d \in Clients, cmd[d].op \in PopOps, NEW n, PopFrom(d, n) PROVE P
  <2>1. Available(d, Key(d))
    BY <1>1, Zenon DEF PopFrom
  <2> DEFINE t == [src |-> Key(d), elems |-> Take(vals[Key(d)], n, cmd[d].from),
                   deps |-> Tips(Key(d)), dst |-> Key(d), move |-> FALSE, to |-> "last"]
  <2>2. pc[d] = "pop" /\ pend' = [pend EXCEPT ![d] = t]
    BY <1>1, <2>1, Zenon DEF PopFrom
  <2>3. c = d
    BY <1>0, <2>2, Zenon
  <2> QED  BY <1>0, <2>2, <2>3, Zenon
<1>2. ASSUME NEW d \in Clients, cmd[d].op \in MoveOps, doLMove(d) PROVE P
  <2>1. UNCHANGED pend \/ \E t : pend' = [pend EXCEPT ![d] = t]
    BY <1>2, Zenon DEF doLMove
  <2> QED  BY <1>0, <1>2, <2>1, Zenon
<1>3. ASSUME NEW d \in Clients, ClientStep(d) PROVE P
  <2>1. CASE UNCHANGED pend \/ pend' = [pend EXCEPT ![d] = Nil]
    BY <1>0, <2>1, Zenon
  <2>2. CASE HandlerStep(d)
    BY <1>1, <1>2, <2>1, <2>2, Zenon
    DEF HandlerStep, CheckType, Register, WaitWoken, WaitCancelled, FirstInLine
  <2> QED  BY <1>3, <2>1, <2>2, HandlerSteps, Zenon DEF FlushAborted, FlushCommitted
<1>4. UNCHANGED pend => P
  BY Zenon
<1> QED  BY <1>3, <1>4, ZenonT(60) DEF Next, Call, CtxDone, Produce, Push, Del,
   RunCallback, vars

(* BLPOP, BLMPOP and their sorted-set forms serve waiters in arrival       *)
(* order: the client that takes elements of a key is its oldest live       *)
(* waiter.  Between the question and the pop others may leave, and join    *)
(* behind it.                                                              *)
THEOREM FifoServiceAlways == Spec => FifoService
<1> DEFINE A == \A c \in Clients :
                    (pend[c] = Nil /\ pend'[c] # Nil /\ cmd[c].op \in PopOps)
                        => c \in Oldest(pend'[c].src)
<1>1. ASSUME BlockInv, [Next]_vars PROVE A
  <2>1. ASSUME NEW c \in Clients, pend[c] = Nil, pend'[c] # Nil, cmd[c].op \in PopOps
        PROVE  c \in Oldest(pend'[c].src)
    <3>1. cmd[c].op \notin MoveOps
      BY <2>1, Zenon DEF PopOps, MoveOps
    <3>2. pc[c] = "pop" /\ pend'[c].src = Key(c)
      BY <1>1, <2>1, <3>1, OpensTransaction, Zenon
    <3> QED  BY <1>1, <3>2, Zenon DEF BlockInv, First
  <2> QED  BY <2>1, Zenon
<1>2. BlockInv /\ [Next]_vars => [A]_vars
  BY <1>1, Zenon
<1> QED  BY <1>2, BlockAlways, PTL DEF Spec, FifoService
=============================================================================
