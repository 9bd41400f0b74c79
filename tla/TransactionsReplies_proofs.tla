--------------------- MODULE TransactionsReplies_proofs ---------------------
(***************************************************************************)
(* Proofs, for any clients, keys, serialized keys and bounds, that what    *)
(* clients were told and what the store holds agree, and that an EXEC is   *)
(* atomic.                                                                 *)
(***************************************************************************)
EXTENDS Redis_proofs, FiniteSetTheorems

\* INCRs of key k among the first n commands of r.
Incrs(r, n, k) == Cardinality({j \in 1..n : r[j] = [op |-> "incr", key |-> k]})

\* Commands r of a transaction were run on context x and replied a: their effects
\* are the increments among them, and their replies those of the snapshot.
Booked(x, r, a) ==
    /\ r \in Seq(TxnCmds) /\ Len(a) = Len(r) /\ x.del = {}
    /\ \A k \in Keys : x.add[k] = Incrs(r, Len(r), k)
    /\ \A i \in DOMAIN r :
         /\ r[i].key \in x.deps
         /\ a[i] = IF r[i].op = "fail" THEN Error ELSE x.snap[r[i].key] + Incrs(r, i, r[i].key)

\* What a client has run in a transaction is booked.
Account(c) == pc[c] # "plain" => Booked(ctx[c], ran[c], replies[c])

\* The inductive invariant.
Accounts ==
    /\ IInv /\ RepliesMatchStore
    /\ acked \in [Keys -> Nat] /\ taken \in [Keys -> Nat]
    /\ \A c \in Clients : Account(c)

(* Counting the increments of a sequence of commands.                      *)
LEMMA IncrsType == \A r, k : \A n \in Nat : Incrs(r, n, k) \in Nat
<1> SUFFICES ASSUME NEW r, NEW k, NEW n \in Nat PROVE Incrs(r, n, k) \in Nat
  BY Zenon
<1>1. IsFiniteSet(1..n)
  BY FS_Interval
<1>2. IsFiniteSet({j \in 1..n : r[j] = [op |-> "incr", key |-> k]})
  BY <1>1, FS_Subset, Zenon
<1> QED  BY <1>2, FS_CardinalityType, Zenon DEF Incrs

(* No commands, no increments.                                             *)
LEMMA IncrsNone == \A r, k : Incrs(r, 0, k) = 0
<1> SUFFICES ASSUME NEW r, NEW k PROVE Incrs(r, 0, k) = 0
  BY Zenon
<1>1. {j \in 1..0 : r[j] = [op |-> "incr", key |-> k]} = {}
  OBVIOUS
<1> QED  BY <1>1, FS_EmptySet, Zenon DEF Incrs

(* One more command.                                                       *)
LEMMA IncrsNext ==
  ASSUME NEW r, NEW k, NEW n \in Nat
  PROVE  Incrs(r, n + 1, k) = Incrs(r, n, k) + (IF r[n + 1] = [op |-> "incr", key |-> k] THEN 1 ELSE 0)
<1> DEFINE S(m) == {j \in 1..m : r[j] = [op |-> "incr", key |-> k]}
<1>0. IsFiniteSet(1..n)
  BY FS_Interval
<1>1. IsFiniteSet(S(n)) /\ n + 1 \notin S(n)
  BY <1>0, FS_Subset
<1>2. CASE r[n + 1] = [op |-> "incr", key |-> k]
  <2>1. S(n + 1) = S(n) \cup {n + 1}
    BY <1>2
  <2>2. Cardinality(S(n + 1)) = Cardinality(S(n)) + 1
    BY <1>1, <2>1, FS_AddElement, Zenon
  <2> QED  BY <1>2, <2>2, Zenon DEF Incrs
<1>3. CASE r[n + 1] # [op |-> "incr", key |-> k]
  <2>1. S(n + 1) = S(n)
    BY <1>3
  <2>2. Incrs(r, n, k) \in Nat
    BY IncrsType, Zenon
  <2> QED  BY <1>3, <2>1, <2>2 DEF Incrs
<1> QED  BY <1>2, <1>3, Zenon

(* Later commands do not count.                                            *)
LEMMA IncrsSame ==
  ASSUME NEW r, NEW q, NEW k, NEW n \in Nat, \A j \in 1..n : r[j] = q[j]
  PROVE  Incrs(r, n, k) = Incrs(q, n, k)
<1>1. {j \in 1..n : r[j] = [op |-> "incr", key |-> k]} = {j \in 1..n : q[j] = [op |-> "incr", key |-> k]}
  BY Zenon
<1> QED  BY <1>1, Zenon DEF Incrs

(* The empty context, also with a snapshot, books no commands.             *)
LEMMA NothingBooked ==
  ASSUME NEW x, x.add = NoEffects, x.del = {} PROVE Booked(x, <<>>, <<>>)
<1>1. <<>> \in Seq(TxnCmds) /\ Len(<<>>) = 0 /\ DOMAIN <<>> = {}
  OBVIOUS
<1>2. \A k \in Keys : x.add[k] = 0
  BY Zenon DEF NoEffects
<1> QED  BY <1>1, <1>2, IncrsNone, Zenon DEF Booked

(* More dependencies change nothing in the books.                          *)
LEMMA DependMore ==
  ASSUME NEW x \in Contexts, NEW r, NEW a, Booked(x, r, a), NEW D
  PROVE  Booked([x EXCEPT !.deps = @ \cup D], r, a)
<1> DEFINE y == [x EXCEPT !.deps = @ \cup D]
<1>1. y.del = x.del /\ y.add = x.add /\ y.snap = x.snap /\ y.deps = x.deps \cup D
  BY Zenon DEF Contexts
<1> HIDE DEF y
<1> QED  BY <1>1, Zenon DEF Booked, y

(* So does checking the watches, which only adds dependencies.             *)
LEMMA WatchesBooked ==
  ASSUME NEW x \in Contexts, NEW r, NEW a, Booked(x, r, a), NEW c
  PROVE  Booked(CheckWatches(c, x), r, a)
BY DependMore, Zenon DEF CheckWatches

(* A command of a transaction is booked.                                   *)
LEMMA RunBooked ==
  ASSUME NEW x \in Contexts, NEW r, NEW a, a \in Seq(Int), Booked(x, r, a), NEW cmd \in TxnCmds
  PROVE  Booked(runDataCommand(x, cmd), Append(r, cmd), Append(a, ReplyOf(x, cmd)))
<1> DEFINE y == runDataCommand(x, cmd)
           s == Append(r, cmd)
           b == Append(a, ReplyOf(x, cmd))
           n == Len(r)
<1>1. cmd.key \in Keys /\ cmd.op \in {"incr", "get", "fail"} /\ cmd = [op |-> cmd.op, key |-> cmd.key]
  BY Zenon DEF TxnCmds
<1>2. /\ r \in Seq(TxnCmds) /\ n \in Nat /\ Len(a) = n /\ x.del = {}
      /\ x.snap \in [Keys -> Nat] /\ x.add \in [Keys -> Nat] /\ x.deps \subseteq Keys
  BY DEF Booked, Contexts
<1>3. /\ s \in Seq(TxnCmds) /\ Len(s) = n + 1 /\ Len(b) = n + 1 /\ DOMAIN s = 1..(n + 1)
      /\ s[n + 1] = cmd /\ b[n + 1] = ReplyOf(x, cmd)
  BY <1>2
<1>4. \A i \in 1..n : s[i] = r[i] /\ b[i] = a[i] /\ i \in DOMAIN r
  BY <1>2
<1>5. /\ y.snap = x.snap /\ y.del = {} /\ y.deps = x.deps \cup {cmd.key}
      /\ y.add = IF cmd.op = "incr" THEN [x.add EXCEPT ![cmd.key] = @ + 1] ELSE x.add
  BY <1>1, <1>2, Zenon DEF runDataCommand, Emitted, Contexts
<1>6. ReplyOf(x, cmd) = IF cmd.op = "fail" THEN Error
                        ELSE x.snap[cmd.key] + x.add[cmd.key] + (IF cmd.op = "incr" THEN 1 ELSE 0)
  BY <1>1, <1>2 DEF ReplyOf, ReadKey
<1> HIDE DEF y, s, b, n
<1>7. \A k \in Keys : \A i \in 0..n : Incrs(s, i, k) = Incrs(r, i, k)
  BY <1>2, <1>4, IncrsSame
<1>8. \A k \in Keys : Incrs(s, n + 1, k) = Incrs(r, n, k) + (IF cmd = [op |-> "incr", key |-> k] THEN 1 ELSE 0)
  <2> TAKE k \in Keys
  <2>1. Incrs(s, n + 1, k) = Incrs(s, n, k) + (IF s[n + 1] = [op |-> "incr", key |-> k] THEN 1 ELSE 0)
    BY <1>2, IncrsNext, ZenonT(60)
  <2> QED  BY <1>2, <1>3, <1>7, <2>1
<1>9. \A k \in Keys : x.add[k] = Incrs(r, n, k)
  BY Zenon DEF Booked, n
<1>10. \A k \in Keys : y.add[k] = Incrs(s, Len(s), k)
  <2> TAKE k \in Keys
  <2>1. CASE cmd = [op |-> "incr", key |-> k]
    BY <1>1, <1>2, <1>3, <1>5, <1>8, <1>9, <2>1
  <2>2. CASE cmd # [op |-> "incr", key |-> k]
    <3>1. y.add[k] = x.add[k]
      BY <1>1, <1>2, <1>5, <2>2, Zenon
    <3> QED  BY <1>2, <1>3, <1>8, <1>9, <2>2, <3>1
  <2> QED  BY <2>1, <2>2, Zenon
<1>11. \A i \in DOMAIN s :
         /\ s[i].key \in y.deps
         /\ b[i] = IF s[i].op = "fail" THEN Error ELSE y.snap[s[i].key] + Incrs(s, i, s[i].key)
  <2> TAKE i \in DOMAIN s
  <2>1. CASE i \in 1..n
    <3>1. /\ r[i].key \in x.deps
          /\ a[i] = IF r[i].op = "fail" THEN Error ELSE x.snap[r[i].key] + Incrs(r, i, r[i].key)
      BY <1>4, <2>1, Zenon DEF Booked
    <3>2. r[i].key \in Keys /\ i \in 0..n
      BY <1>2, <2>1, <3>1
    <3>3. Incrs(s, i, r[i].key) = Incrs(r, i, r[i].key)
      BY <1>7, <3>2, Zenon
    <3> QED  BY <1>4, <1>5, <2>1, <3>1, <3>3, Zenon
  <2>2. CASE i = n + 1
    <3>1. s[i] = cmd /\ b[i] = ReplyOf(x, cmd)
      BY <1>3, <2>2, Zenon
    <3>2. Incrs(s, i, cmd.key) = x.add[cmd.key] + (IF cmd.op = "incr" THEN 1 ELSE 0)
      BY <1>1, <1>8, <1>9, <2>2
    <3>3. x.snap[cmd.key] \in Nat /\ x.add[cmd.key] \in Nat
      BY <1>1, <1>2, Zenon
    <3> QED  BY <1>5, <1>6, <3>1, <3>2, <3>3
  <2> QED  BY <1>2, <1>3, <2>1, <2>2
<1> QED  BY <1>3, <1>5, <1>10, <1>11, Zenon DEF Booked, y, s, b

(* A commit does to a key what the client is told.                         *)
LEMMA CommitBooks ==
  ASSUME Shapes, NEW c \in Clients, Phase(c), PlainRan(c), Account(c), Current(c),
         pc[c] \in {"flush", "plain"}, ~Conflict(ctx[c]), NEW k \in Keys
  PROVE  /\ AckedIncrs(c, k) \in Nat /\ TakenFrom(c, k) \in Nat
         /\ (IF k \in ctx[c].del THEN 0 ELSE value[k]) + ctx[c].add[k] + TakenFrom(c, k)
              = value[k] + AckedIncrs(c, k)
<1> DEFINE x == ctx[c]
<1>1. /\ x \in Contexts /\ x.add \in [Keys -> Nat] /\ x.snap \in [Keys -> Nat] /\ x.deps \subseteq Keys
      /\ value[k] \in Nat /\ replies[c] \in Seq(Int)
  BY Zenon DEF Shapes, Contexts
<1>2. CASE pc[c] = "flush"
  <2> DEFINE n == Len(ran[c])
  <2>1. Booked(x, ran[c], replies[c])
    BY <1>2, Zenon DEF Account
  <2>2. ran[c] \in Seq(TxnCmds) /\ n \in Nat /\ DOMAIN ran[c] = 1..n
    BY <2>1 DEF Booked
  <2>3. \A i \in 1..n : ran[c][i] = [op |-> "incr", key |-> k] => replies[c][i] # Error
    <3> SUFFICES ASSUME NEW i \in 1..n, ran[c][i] = [op |-> "incr", key |-> k] PROVE replies[c][i] # Error
      BY Zenon
    <3>1. replies[c][i] = x.snap[k] + Incrs(ran[c], i, k)
      BY <2>1, <2>2, SMTT(60) DEF Booked
    <3>2. Incrs(ran[c], i, k) \in Nat /\ x.snap[k] \in Nat
      BY <1>1, <2>2, IncrsType, SMTT(60)
    <3> QED  BY <3>1, <3>2 DEF Error
  <2>4. {i \in DOMAIN ran[c] : ran[c][i] = [op |-> "incr", key |-> k] /\ replies[c][i] # Error}
          = {i \in 1..n : ran[c][i] = [op |-> "incr", key |-> k]}
    BY <2>2, <2>3, Zenon
  <2>5. AckedIncrs(c, k) = Incrs(ran[c], n, k)
    BY <2>4, Zenon DEF AckedIncrs, Incrs
  <2>6. x.add[k] = Incrs(ran[c], n, k) /\ x.del = {}
    BY <2>1, Zenon DEF Booked
  <2>7. TakenFrom(c, k) = 0
    <3>1. ran[c] # <<[op |-> "getdel", key |-> k]>>
      <4> SUFFICES ASSUME ran[c] = <<[op |-> "getdel", key |-> k]>> PROVE FALSE
        BY Zenon
      <4>1. [op |-> "getdel", key |-> k] \in TxnCmds
        BY <2>2
      <4> QED  BY <4>1, Zenon DEF TxnCmds
    <3> QED  BY <3>1, Zenon DEF TakenFrom
  <2> HIDE DEF n
  <2> QED  BY <1>1, <2>5, <2>6, <2>7
<1>3. CASE pc[c] = "plain"
  <2> DEFINE cmd == QueuedCmds[c][1]
  <2> DEFINE gone == cmd.op = "getdel" /\ x.snap[cmd.key] > 0
  <2>1. /\ cmd \in TxnCmds \cup PlainCmds /\ ran[c] = <<cmd>>
        /\ x.deps = {cmd.key} /\ (x.tx <=> gone) /\ x.del = IF gone THEN {cmd.key} ELSE {}
        /\ x.add = IF cmd.op = "incr" THEN [NoEffects EXCEPT ![cmd.key] = 1] ELSE NoEffects
        /\ replies[c] = <<IF cmd.op = "fail" THEN Error
                          ELSE x.snap[cmd.key] + (IF cmd.op = "incr" THEN 1 ELSE 0)>>
    BY <1>3, PlainAccount, Zenon
  <2>2. cmd.key \in Keys /\ cmd.op \in {"incr", "get", "fail", "getdel"} /\ cmd = [op |-> cmd.op, key |-> cmd.key]
    BY <2>1, Zenon DEF TxnCmds, PlainCmds
  <2>3. x.snap[cmd.key] \in Nat /\ x.snap[k] \in Nat /\ NoEffects[k] = 0 /\ NoEffects \in [Keys -> Nat]
    BY <1>1, <2>2, Zenon DEF NoEffects
  <2>4. gone => x.snap[cmd.key] = value[cmd.key]
    <3> SUFFICES ASSUME gone PROVE x.snap[cmd.key] = value[cmd.key]
      BY Zenon
    <3>1. x.tx /\ cmd.key \in x.deps
      BY <2>1, Zenon
    <3>2. ver[cmd.key] = x.base[cmd.key]
      BY <3>1, Zenon DEF Conflict
    <3> QED  BY <1>3, <2>2, <3>2, Zenon DEF Current, CurrentKey
  <2> HIDE DEF cmd, x
  <2>5. AckedIncrs(c, k) = IF cmd = [op |-> "incr", key |-> k] THEN 1 ELSE 0
    <3>1. DOMAIN ran[c] = {1} /\ ran[c][1] = cmd
      BY <2>1
    <3>2. CASE cmd = [op |-> "incr", key |-> k]
      <4>1. replies[c][1] # Error
        BY <2>1, <2>3, <3>2 DEF Error
      <4>2. {i \in DOMAIN ran[c] : ran[c][i] = [op |-> "incr", key |-> k] /\ replies[c][i] # Error} = {1}
        BY <3>1, <3>2, <4>1, Zenon
      <4> QED  BY <3>2, <4>2, FS_Singleton, Zenon DEF AckedIncrs
    <3>3. CASE cmd # [op |-> "incr", key |-> k]
      <4>1. {i \in DOMAIN ran[c] : ran[c][i] = [op |-> "incr", key |-> k] /\ replies[c][i] # Error} = {}
        BY <3>1, <3>3, Zenon
      <4> QED  BY <3>3, <4>1, FS_EmptySet, Zenon DEF AckedIncrs
    <3> QED  BY <3>2, <3>3, Zenon
  <2>6. TakenFrom(c, k) = IF cmd = [op |-> "getdel", key |-> k] THEN x.snap[k] ELSE 0
    <3>1. CASE cmd = [op |-> "getdel", key |-> k]
      <4>1. replies[c][1] = x.snap[k]
        BY <2>1, <2>3, <3>1
      <4> QED  BY <2>1, <3>1, <4>1, Zenon DEF TakenFrom
    <3>2. CASE cmd # [op |-> "getdel", key |-> k]
      <4>1. ran[c] # <<[op |-> "getdel", key |-> k]>>
        <5> SUFFICES ASSUME ran[c] = <<[op |-> "getdel", key |-> k]>> PROVE FALSE
          BY Zenon
        <5>1. ran[c][1] = cmd /\ ran[c][1] = [op |-> "getdel", key |-> k]
          BY <2>1
        <5> QED  BY <3>2, <5>1, Zenon
      <4> QED  BY <3>2, <4>1, Zenon DEF TakenFrom
    <3> QED  BY <3>1, <3>2, Zenon
  <2>7. x.add[k] = IF cmd = [op |-> "incr", key |-> k] THEN 1 ELSE 0
    BY <2>1, <2>2, <2>3
  <2>8. k \in x.del <=> cmd = [op |-> "getdel", key |-> k] /\ x.snap[k] > 0
    BY <2>1, <2>2
  <2>9. k \in x.del => x.snap[k] = value[k]
    BY <2>1, <2>4, Zenon
  <2> QED  BY <1>1, <2>3, <2>5, <2>6, <2>7, <2>8, <2>9, SMTT(60) DEF x
<1> QED  BY <1>2, <1>3, Zenon

(* What a client has run stays booked.                                     *)
LEMMA NextAccount == Accounts /\ [Next]_vars => \A d \in Clients : Account(d)'
<1> SUFFICES ASSUME Shapes, [Next]_vars, NEW d \in Clients, Phase(d), Account(d) PROVE Account(d)'
  BY Zenon DEF Accounts, IInv
<1> USE DEF Become
<1> /\ ctx[d] \in Contexts /\ QueuedCmds[d] \in Seq(TxnCmds \cup PlainCmds) /\ ran[d] \in Seq(TxnCmds \cup PlainCmds)
    /\ replies[d] \in Seq(Int) /\ pc[d] \in {"idle", "run", "flush", "lock", "plain"}
    /\ InTransaction[d] \in BOOLEAN /\ ssi \in BOOLEAN /\ watch[d] \in [Keys -> Nat \cup {-1}]
  BY Zenon DEF Shapes

<1> EmptyCtx.add = NoEffects /\ EmptyCtx.del = {} /\ EmptyCtx \in Contexts /\ ~EmptyCtx.tx
  BY EmptyTypes, Zenon DEF EmptyCtx
<1>1. CASE Same(d)
  BY <1>1, Zenon DEF Same, Account
<1>2. CASE Rewatches(d)
  BY <1>2, Zenon DEF Rewatches, Account
<1>3. CASE Opens(d)
  <2>1. ctx[d] = EmptyCtx /\ ran[d] = <<>> /\ replies[d] = <<>> /\ pc'[d] # "plain"
    BY <1>3, Zenon DEF Opens, Phase
  <2>2. ctx'[d].add = NoEffects /\ ctx'[d].del = {} /\ ran'[d] = <<>> /\ replies'[d] = <<>>
    BY <1>3, <2>1, BeginFrame DEF Opens
  <2>3. Booked(ctx'[d], ran'[d], replies'[d])
    BY <2>2, NothingBooked, Zenon
  <2> QED  BY <2>1, <2>3, Zenon DEF Account
<1>4. CASE Queues(d)
  BY <1>4, Zenon DEF Queues, Account
<1>5. CASE Executes(d)
  <2>1. pc[d] # "plain" /\ pc'[d] = pc[d] /\ Booked(ctx[d], ran[d], replies[d])
    BY <1>5, Zenon DEF Executes, Account
  <2>2. PICK cmd \in TxnCmds : /\ ctx'[d] = runDataCommand(ctx[d], cmd) /\ ran'[d] = Append(ran[d], cmd)
                               /\ replies'[d] = Append(replies[d], ReplyOf(ctx[d], cmd))
    BY <1>5, Zenon DEF Executes
  <2>3. Booked(ctx'[d], ran'[d], replies'[d])
    BY <2>1, <2>2, RunBooked
  <2> QED  BY <2>1, <2>3, Zenon DEF Account
<1>6. CASE Resets(d)
  <2>1. Booked(EmptyCtx, <<>>, <<>>)
    BY NothingBooked, Zenon
  <2> QED  BY <1>6, <2>1, Zenon DEF Resets, Account
<1>7. CASE Checks(d)
  <2>1. pc'[d] # "plain" /\ ctx'[d] = CheckWatches(d, BeginTx(ctx[d])) /\ ran'[d] = ran[d] /\ replies'[d] = replies[d]
    BY <1>7, Zenon DEF Checks
  <2>2. BeginTx(ctx[d]) \in Contexts
    BY BeginFrame, Zenon
  <2>3. Booked(BeginTx(ctx[d]), ran[d], replies[d])
    <3>1. CASE ctx[d].tx
      BY <1>7, <3>1, BeginFrame, ZenonT(60) DEF Checks, Account
    <3>2. CASE ~ctx[d].tx
      <4>1. ctx[d] = EmptyCtx /\ ran[d] = <<>> /\ replies[d] = <<>>
        BY <1>7, <3>2, Zenon DEF Checks, Phase
      <4>2. BeginTx(ctx[d]).add = NoEffects /\ BeginTx(ctx[d]).del = {}
        BY <4>1, BeginFrame, Zenon
      <4> QED  BY <4>1, <4>2, NothingBooked, Zenon
    <3> QED  BY <3>1, <3>2, Zenon
  <2>4. Booked(ctx'[d], ran'[d], replies'[d])
    BY <2>1, <2>2, <2>3, WatchesBooked
  <2> QED  BY <2>1, <2>4, Zenon DEF Account
<1>8. CASE Forwards(d)
  <2>1. ctx[d] = EmptyCtx /\ ran[d] = <<>> /\ replies[d] = <<>> /\ pc'[d] # "plain"
    BY <1>8, Zenon DEF Forwards, Phase
  <2>2. ctx'[d].add = NoEffects /\ ctx'[d].del = {} /\ ran'[d] = <<>> /\ replies'[d] = <<>>
    <3>1. ctx'[d] = EmptyCtx \/ ctx'[d] = BeginTx(EmptyCtx)
      BY <1>8, <2>1, Zenon DEF Forwards
    <3>2. ran'[d] = <<>> /\ replies'[d] = <<>>
      BY <1>8, <2>1, Zenon DEF Forwards
    <3>3. EmptyCtx \in Contexts /\ EmptyCtx.add = NoEffects /\ EmptyCtx.del = {}
      BY <2>1, Zenon DEF Shapes, EmptyCtx
    <3>4. BeginTx(EmptyCtx).add = NoEffects /\ BeginTx(EmptyCtx).del = {}
      BY <3>3, BeginFrame, Zenon
    <3> QED  BY <3>1, <3>2, <3>3, <3>4, Zenon
  <2>3. Booked(ctx'[d], ran'[d], replies'[d])
    BY <2>2, NothingBooked, Zenon
  <2> QED  BY <2>1, <2>3, Zenon DEF Account
<1>9. CASE Drains(d)
  BY <1>9, Zenon DEF Drains, Account
<1>10. CASE Starts(d)
  BY <1>10, Zenon DEF Starts, Account
<1>11. CASE RunsPlain(d)
  BY <1>11, Zenon DEF RunsPlain, Account
<1>12. CASE Retries(d)
  <2>1. Booked(EmptyCtx, <<>>, <<>>)
    BY NothingBooked, Zenon
  <2> QED  BY <1>12, <2>1, Zenon DEF Retries, Account
<1>13. CASE Finishes(d)
  <2>1. Booked(EmptyCtx, <<>>, <<>>)
    BY NothingBooked, Zenon
  <2> QED  BY <1>13, <2>1, Zenon DEF Finishes, Account
<1> QED  BY <1>1, <1>2, <1>3, <1>4, <1>5, <1>6, <1>7, <1>8, <1>9, <1>10, <1>11, <1>12,
   <1>13, Moves, Zenon

(* Nothing is lost: what the store holds and what clients were told agree. *)
LEMMA NextReplies ==
  Accounts /\ [Next]_vars =>
    RepliesMatchStore' /\ acked' \in [Keys -> Nat] /\ taken' \in [Keys -> Nat]
<1> SUFFICES ASSUME Accounts, [Next]_vars
             PROVE  RepliesMatchStore' /\ acked' \in [Keys -> Nat] /\ taken' \in [Keys -> Nat]
  BY Zenon
<1>1. Shapes /\ RepliesMatchStore /\ acked \in [Keys -> Nat] /\ taken \in [Keys -> Nat]
  BY Zenon DEF Accounts, IInv
<1>2. CASE UNCHANGED store
  BY <1>1, <1>2, Zenon DEF store, RepliesMatchStore
<1>3. ASSUME NEW c \in Clients, pc[c] \in {"flush", "plain"}, ~Conflict(ctx[c]), Commit(c)
      PROVE  RepliesMatchStore' /\ acked' \in [Keys -> Nat] /\ taken' \in [Keys -> Nat]
  <2>1. ASSUME NEW k \in Keys
        PROVE  /\ AckedIncrs(c, k) \in Nat /\ TakenFrom(c, k) \in Nat
               /\ (IF k \in ctx[c].del THEN 0 ELSE value[k]) + ctx[c].add[k] + TakenFrom(c, k)
                    = value[k] + AckedIncrs(c, k)
    BY <1>3, CommitBooks, Zenon DEF Accounts, IInv
  <2>2. acked' \in [Keys -> Nat] /\ taken' \in [Keys -> Nat]
    BY <1>1, <1>3, <2>1 DEF Commit
  <2>3. ASSUME NEW k \in Keys PROVE value'[k] + taken'[k] = acked'[k]
    <3>1. /\ value[k] \in Nat /\ taken[k] \in Nat /\ acked[k] \in Nat /\ ctx[c].add[k] \in Nat
          /\ value[k] + taken[k] = acked[k]
      BY <1>1, ZenonT(60) DEF Shapes, Contexts, RepliesMatchStore
    <3>2. /\ value'[k] = (IF k \in ctx[c].del THEN 0 ELSE value[k]) + ctx[c].add[k]
          /\ taken'[k] = taken[k] + TakenFrom(c, k) /\ acked'[k] = acked[k] + AckedIncrs(c, k)
      BY <1>3, Zenon DEF Commit
    <3> QED  BY <2>1, <3>1, <3>2
  <2> QED  BY <2>2, <2>3, Zenon DEF RepliesMatchStore
<1> QED  BY <1>1, <1>2, <1>3, StoreSteps, Zenon

(* Nothing has been told at the start.                                     *)
LEMMA InitAccounts == Init => Accounts
<1> SUFFICES ASSUME Init PROVE Accounts
  BY Zenon
<1>1. RepliesMatchStore /\ acked \in [Keys -> Nat] /\ taken \in [Keys -> Nat]
  BY DEF Init, RepliesMatchStore, NoEffects
<1>2. Booked(EmptyCtx, <<>>, <<>>)
  BY NothingBooked, Zenon DEF EmptyCtx
<1>3. \A c \in Clients : Account(c)
  BY <1>2, Zenon DEF Init, Account
<1> QED  BY <1>1, <1>3, InitIInv, Zenon DEF Accounts

(* The invariant is inductive.                                             *)
LEMMA InductiveAccounts == Spec => []Accounts
<1>1. Accounts /\ [Next]_vars => Accounts'
  BY NextIInv, NextAccount, NextReplies, Zenon DEF Accounts
<1> QED  BY InitAccounts, <1>1, PTL DEF Spec

(* Effects and replies agree for any clients, keys, bounds and in either    *)
(* mode: a key holds exactly the increments that were acknowledged, less    *)
(* what GETDEL handed out.  handler.go never lets an aborted, discarded or  *)
(* failing command leave effects that a later Flush publishes.              *)
THEOREM RepliesMatchStoreAlways == Spec => []RepliesMatchStore
<1>1. Accounts => RepliesMatchStore
  BY Zenon DEF Accounts
<1> QED  BY <1>1, InductiveAccounts, PTL

(* An EXEC is atomic: its replies are those of running its commands on the  *)
(* store it commits to, whatever other clients did between its snapshot and *)
(* its Flush.                                                               *)
THEOREM ExecIsAtomicAlways == Spec => ExecIsAtomic
<1>1. Accounts /\ [Next]_vars =>
        [\A c \in Clients : (pc[c] = "flush" /\ ExecApplied(c)) =>
            \A i \in DOMAIN ran[c] : replies[c][i] = SerialReply(c, i)]_vars
  <2> SUFFICES ASSUME Accounts, NEW c \in Clients, pc[c] = "flush", ~Conflict(ctx[c]), NEW i \in DOMAIN ran[c]
               PROVE  replies[c][i] = SerialReply(c, i)
    BY Zenon DEF ExecApplied
  <2> DEFINE k == ran[c][i].key
  <2>1. Booked(ctx[c], ran[c], replies[c]) /\ ctx[c].tx /\ Current(c) /\ Shapes
    BY Zenon DEF Accounts, IInv, Account, Phase
  <2>2. /\ k \in ctx[c].deps
        /\ replies[c][i] = IF ran[c][i].op = "fail" THEN Error ELSE ctx[c].snap[k] + Incrs(ran[c], i, k)
    BY <2>1, Zenon DEF Booked
  <2>3. k \in Keys
    BY <2>1, <2>2, Zenon DEF Shapes, Contexts
  <2>4. ctx[c].snap[k] = value[k]
    BY <2>1, <2>2, <2>3, Zenon DEF Conflict, Current, CurrentKey
  <2> QED  BY <2>2, <2>4, Zenon DEF SerialReply, Incrs
<1> QED  BY <1>1, InductiveAccounts, PTL DEF ExecIsAtomic, Spec
=============================================================================
