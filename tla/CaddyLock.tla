------------------------------ MODULE CaddyLock ------------------------------
(***************************************************************************)
(* The distributed lock of the Caddy storage module (caddy/lock.go,        *)
(* caddy/waiters.go): one lock name, callers on several nodes (processes), *)
(* leases that expire, and one refresh goroutine per acquisition.          *)
(*                                                                         *)
(* Every operation on the lock key is a transaction of the effects engine: *)
(* Watch, BeginTx, CheckWatches and GetSnapshot are the read step, Flush   *)
(* the commit step, which fails if another commit came in between.  The    *)
(* engine calls OnKeyDataAdded/OnKeyDeleted on every node after a commit.  *)
(***************************************************************************)
EXTENDS Naturals, FiniteSets

CONSTANTS
    Callers, Nodes,
    NodeOf,    \* NodeOf[c]: the process a caller belongs to
    MaxAcq     \* acquisitions of the lock (a bound of the model)

ASSUME NodeOfAssumption == NodeOf \in [Callers -> Nodes]
ASSUME MaxAcqAssumption == MaxAcq \in Nat

Ids == 1..MaxAcq

VARIABLES
    lockId,             \* the acquisition whose value the key holds (0: none)
    owner,              \* the process (owner token) of each acquisition
    expired,            \* the lease in the store has run out
    acqs,               \* acquisitions so far
    validC, validR,     \* transactions (of callers, of refreshers) no commit disturbed
    pc, acq,            \* each caller: control, acquisition
    sub,                \* each caller's wake channel
    wake,               \* callbacks a node has still to run
    heldLocks,          \* each node's table of refresh goroutines
    ref, stop, ctxDone, \* each refresher: control, stop channel closed, Lock's ctx done
    lost,               \* history: acquisitions whose lease ran out, or that their
                        \* own process unlocked
    alive               \* nodes that have not crashed

lock == <<lockId, owner, expired, lost>>
caller == <<pc, acq, sub>>
refresher == <<heldLocks, ref, stop, ctxDone>>
vars == <<lock, acqs, validC, validR, caller, wake, refresher, alive>>

Init ==
    /\ lockId = 0 /\ expired = FALSE /\ acqs = 0
    /\ validC = {} /\ validR = {}
    /\ pc = [c \in Callers |-> "idle"]
    /\ acq = [c \in Callers |-> 0] /\ sub = [c \in Callers |-> "none"]
    /\ wake = [n \in Nodes |-> FALSE]
    /\ heldLocks = [n \in Nodes |-> 0]
    /\ ref = [i \in Ids |-> "none"] /\ stop = [i \in Ids |-> FALSE]
    /\ ctxDone = [i \in Ids |-> FALSE] /\ owner = [i \in Ids |-> "none"]
    /\ lost = [i \in Ids |-> FALSE]
    /\ alive = Nodes

-----------------------------------------------------------------------------
(* The engine *)

\* snapIsHeld: GetSnapshot hides a removed or expired value.
snapIsHeld == lockId # 0 /\ ~expired

\* Faulty form: any holder passes for the owner.
ownerMatchesAny(n) == TRUE

ownerMatches(n) == owner[lockId] = n

\* A commit disturbs every open transaction and is announced on every node.
Committed ==
    /\ validC' = {} /\ validR' = {}
    /\ wake' = [n \in Nodes |-> TRUE]

Goto(c, l) == pc' = [pc EXCEPT ![c] = l]

\* The lease runs out: its holder was slow, paused, cut off or is gone.
Expire ==
    /\ snapIsHeld
    /\ expired' = TRUE /\ lost' = [lost EXCEPT ![lockId] = TRUE]
    /\ UNCHANGED <<lockId, owner, acqs, validC, validR, caller, wake, refresher, alive>>

-----------------------------------------------------------------------------
(* waiters *)

\* wake closes every channel in the node's table and empties it.
WakeNode(n) ==
    /\ wake[n] /\ n \in alive
    /\ wake' = [wake EXCEPT ![n] = FALSE]
    /\ sub' = [c \in Callers |-> IF NodeOf[c] = n /\ sub[c] = "open" THEN "closed" ELSE sub[c]]
    /\ UNCHANGED <<lock, acqs, validC, validR, pc, acq, refresher, alive>>

-----------------------------------------------------------------------------
(* Lock and TryLock *)

\* The lock is not available: TryLock returns, Lock waits.
NotAcquired(c) == \E l \in {"idle", "subscribe"} : Goto(c, l)

Call(c) ==
    /\ pc[c] \in {"idle", "failed"}
    /\ Goto(c, "read")
    /\ UNCHANGED <<lock, acqs, validC, validR, acq, sub, wake, refresher, alive>>

\* attemptAcquire up to the snapshot.
AcquireRead(c) ==
    /\ pc[c] = "read"
    /\ IF snapIsHeld
       THEN NotAcquired(c) /\ UNCHANGED validC
       ELSE Goto(c, "commit") /\ validC' = validC \cup {c}
    /\ UNCHANGED <<lock, acqs, validR, acq, sub, wake, refresher, alive>>

\* Flush of the acquisition.
AcquireCommit(c) ==
    /\ pc[c] = "commit"
    /\ IF c \in validC
       THEN /\ acqs < MaxAcq
            /\ acqs' = acqs + 1
            /\ lockId' = acqs + 1 /\ expired' = FALSE
            /\ owner' = [owner EXCEPT ![acqs + 1] = NodeOf[c]]
            /\ acq' = [acq EXCEPT ![c] = acqs + 1]
            /\ Committed
            /\ Goto(c, "start")
       ELSE /\ NotAcquired(c)
            /\ UNCHANGED <<lockId, owner, expired, acqs, acq, validC, validR, wake>>
    /\ UNCHANGED <<lost, sub, refresher, alive>>

\* startRefresh: a refresher that is still tracked is told to stop, the new one
\* takes its place in heldLocks.
startRefresh(c) ==
    /\ pc[c] = "start"
    /\ LET n == NodeOf[c] IN
       /\ stop' = IF heldLocks[n] # 0 THEN [stop EXCEPT ![heldLocks[n]] = TRUE] ELSE stop
       /\ heldLocks' = [heldLocks EXCEPT ![n] = acq[c]]
       /\ ref' = [ref EXCEPT ![acq[c]] = "select"]
    /\ Goto(c, "held")
    /\ UNCHANGED <<lock, acqs, validC, validR, acq, sub, wake, ctxDone, alive>>

\* Faulty form of waitHeld: the snapshot is read before subscribing.
waitHeldSnapshotFirst(c) ==
    \/ /\ pc[c] = "subscribe"
       /\ Goto(c, IF snapIsHeld THEN "snapshot" ELSE "read")
       /\ UNCHANGED sub
    \/ /\ pc[c] = "snapshot"
       /\ sub' = [sub EXCEPT ![c] = "open"]
       /\ Goto(c, "select")
    \/ /\ pc[c] = "select" /\ sub[c] = "closed"
       /\ sub' = [sub EXCEPT ![c] = "none"]
       /\ Goto(c, "read")

\* waitHeld: subscribe, read the lease, wait for the channel, the lease's end
\* (which the timer may see late or, after a renewal, early) or the context.
waitHeld(c) ==
    \/ /\ pc[c] = "subscribe"
       /\ sub' = [sub EXCEPT ![c] = "open"]
       /\ Goto(c, "snapshot")
    \/ /\ pc[c] = "snapshot"
       /\ IF snapIsHeld THEN Goto(c, "select") /\ UNCHANGED sub
          ELSE Goto(c, "read") /\ sub' = [sub EXCEPT ![c] = "none"]
    \/ /\ pc[c] = "select" /\ sub[c] = "closed"
       /\ sub' = [sub EXCEPT ![c] = "none"]
       /\ Goto(c, "read")

Wait(c) ==
    /\ waitHeld(c)
    /\ UNCHANGED <<lock, acqs, validC, validR, acq, wake, refresher, alive>>

WaitEnds(c, l) ==
    /\ pc[c] = "select"
    /\ sub' = [sub EXCEPT ![c] = "none"]
    /\ Goto(c, l)
    /\ UNCHANGED <<lock, acqs, validC, validR, acq, wake, refresher, alive>>

\* Faulty form: no timer, only the wake channel ends the wait.
WaitNoTimer(c) == sub[c] = "closed" /\ WaitEnds(c, "read")

WaitTimer(c) == WaitEnds(c, "read")
WaitCancelled(c) == WaitEnds(c, "idle")

-----------------------------------------------------------------------------
(* RenewLockLease and Unlock *)

\* renewLease up to the snapshot; an unheld or foreign lock is lost.
RenewRead(c) ==
    /\ pc[c] = "held"
    /\ IF snapIsHeld /\ ownerMatches(NodeOf[c])
       THEN Goto(c, "renew") /\ validC' = validC \cup {c}
       ELSE Goto(c, "lost") /\ UNCHANGED validC
    /\ UNCHANGED <<lock, acqs, validR, acq, sub, wake, refresher, alive>>

\* Its Flush: the lease starts again, or the lock is reported lost.
RenewCommit(c) ==
    /\ pc[c] = "renew"
    /\ IF c \in validC
       THEN Goto(c, "held") /\ expired' = FALSE /\ Committed
       ELSE Goto(c, "lost") /\ UNCHANGED <<expired, validC, validR, wake>>
    /\ UNCHANGED <<lockId, owner, lost, acqs, acq, sub, refresher, alive>>

\* Faulty form: the entry of the stopped refresher stays in heldLocks.
stopRefreshKeepsEntry(c) ==
    /\ pc[c] \in {"held", "lost"}
    /\ LET h == heldLocks[NodeOf[c]] IN
       stop' = IF h # 0 THEN [stop EXCEPT ![h] = TRUE] ELSE stop
    /\ Goto(c, "unlock")
    /\ UNCHANGED <<lock, acqs, validC, validR, acq, sub, wake, heldLocks, ref, ctxDone, alive>>

\* stopRefresh: the refresher in heldLocks is told to stop; nobody waits for it.
stopRefresh(c) ==
    /\ pc[c] \in {"held", "lost"}
    /\ LET n == NodeOf[c] IN
       /\ stop' = IF heldLocks[n] # 0 THEN [stop EXCEPT ![heldLocks[n]] = TRUE] ELSE stop
       /\ heldLocks' = [heldLocks EXCEPT ![n] = 0]
    /\ Goto(c, "unlock")
    /\ UNCHANGED <<lock, acqs, validC, validR, acq, sub, wake, ref, ctxDone, alive>>

Returned(c) == Goto(c, "idle") /\ acq' = [acq EXCEPT ![c] = 0]

UnlockRead(c) ==
    /\ pc[c] = "unlock"
    /\ IF snapIsHeld /\ ownerMatches(NodeOf[c])
       THEN Goto(c, "remove") /\ validC' = validC \cup {c} /\ UNCHANGED acq
       ELSE Returned(c) /\ UNCHANGED validC
    /\ UNCHANGED <<lock, acqs, validR, sub, wake, refresher, alive>>

\* Flush of the removal; ErrTxnAborted counts as "we don't own it anymore".
UnlockCommit(c) ==
    /\ pc[c] = "remove"
    /\ IF c \in validC
       THEN /\ lockId' = 0 /\ expired' = FALSE /\ Committed
            /\ lost' = IF owner[lockId] = NodeOf[c] THEN [lost EXCEPT ![lockId] = TRUE] ELSE lost
       ELSE UNCHANGED <<lockId, expired, lost, validC, validR, wake>>
    /\ Returned(c)
    /\ UNCHANGED <<owner, acqs, sub, refresher, alive>>

\* The work was abandoned: the holder never calls Unlock.
Abandon(c) ==
    /\ pc[c] \in {"held", "lost"}
    /\ ctxDone' = [ctxDone EXCEPT ![acq[c]] = TRUE]
    /\ Returned(c)
    /\ UNCHANGED <<lock, acqs, validC, validR, sub, wake, heldLocks, ref, stop, alive>>

\* The engine fails: Lock and Unlock return its error, whatever they were doing.
EngineError(c) ==
    /\ pc[c] \in {"read", "commit", "snapshot", "unlock", "remove"}
    /\ Goto(c, "failed")
    /\ acq' = [acq EXCEPT ![c] = 0] /\ sub' = [sub EXCEPT ![c] = "none"]
    /\ UNCHANGED <<lock, acqs, validC, validR, wake, refresher, alive>>

-----------------------------------------------------------------------------
(* refreshLoop *)

CancelCtx(i) ==
    /\ ref[i] \in {"select", "renew"} /\ ~ctxDone[i]
    /\ ctxDone' = [ctxDone EXCEPT ![i] = TRUE]
    /\ UNCHANGED <<lock, acqs, validC, validR, caller, wake, heldLocks, ref, stop, alive>>

RefGoto(i, l) == ref' = [ref EXCEPT ![i] = l]

RefreshStop(i) ==
    /\ ref[i] = "select" /\ stop[i]
    /\ RefGoto(i, "gone")
    /\ UNCHANGED <<lock, acqs, validC, validR, caller, wake, heldLocks, stop, ctxDone, alive>>

\* Faulty form: the loop does not select on the caller's context.
RefreshCtxIgnored(i) == FALSE /\ UNCHANGED vars

RefreshCtxDone(i) ==
    /\ ref[i] = "select" /\ ctxDone[i]
    /\ RefGoto(i, "delete")
    /\ UNCHANGED <<lock, acqs, validC, validR, caller, wake, heldLocks, stop, ctxDone, alive>>

\* The ticker fires: refreshOnce reads the lock.
RefreshTick(i) ==
    /\ ref[i] = "select"
    /\ IF snapIsHeld /\ ownerMatches(owner[i])
       THEN RefGoto(i, "renew") /\ validR' = validR \cup {i}
       ELSE RefGoto(i, "delete") /\ UNCHANGED validR
    /\ UNCHANGED <<lock, acqs, validC, caller, wake, heldLocks, stop, ctxDone, alive>>

\* refreshOnce commits the new lease or finds the lock lost.
RefreshCommit(i) ==
    /\ ref[i] = "renew"
    /\ IF i \in validR
       THEN RefGoto(i, "select") /\ expired' = FALSE /\ Committed
       ELSE RefGoto(i, "delete") /\ UNCHANGED <<expired, validC, validR, wake>>
    /\ UNCHANGED <<lockId, owner, lost, acqs, caller, heldLocks, stop, ctxDone, alive>>

\* The loop ends by deleting whatever heldLocks holds for the key.
RefreshDelete(i) ==
    /\ ref[i] = "delete"
    /\ RefGoto(i, "gone")
    /\ heldLocks' = [heldLocks EXCEPT ![owner[i]] = 0]
    /\ UNCHANGED <<lock, acqs, validC, validR, caller, wake, stop, ctxDone, alive>>

-----------------------------------------------------------------------------
\* A process dies; its lease stays until it runs out.
Crash(n) ==
    /\ n \in alive
    /\ alive' = alive \ {n}
    /\ pc' = [c \in Callers |-> IF NodeOf[c] = n THEN "dead" ELSE pc[c]]
    /\ ref' = [i \in Ids |-> IF owner[i] = n /\ ref[i] # "none" THEN "gone" ELSE ref[i]]
    /\ UNCHANGED <<lock, acqs, validC, validR, acq, sub, wake, heldLocks, stop, ctxDone>>

CallerStep(c) ==
    \/ AcquireRead(c) \/ AcquireCommit(c) \/ startRefresh(c) \/ Wait(c)
    \/ RenewCommit(c) \/ stopRefresh(c) \/ UnlockRead(c) \/ UnlockCommit(c)

RefreshEnd(i) == RefreshStop(i) \/ RefreshCtxDone(i)

RefreshWork(i) == RefreshCommit(i) \/ RefreshDelete(i)

Next ==
    \/ Expire
    \/ \E n \in Nodes : WakeNode(n) \/ Crash(n)
    \/ \E c \in Callers :
          Call(c) \/ CallerStep(c) \/ WaitTimer(c) \/ WaitCancelled(c) \/ RenewRead(c) \/ Abandon(c)
          \/ EngineError(c)
    \/ \E i \in Ids : CancelCtx(i) \/ RefreshEnd(i) \/ RefreshWork(i) \/ RefreshTick(i)

Spec == Init /\ [][Next]_vars

\* The lease runs out and no refresher of its owner is there to renew it.
LeaseRunsOut ==
    /\ Expire
    /\ \A i \in Ids : owner[i] = owner[lockId] => ref[i] \notin {"select", "renew"}

\* Goroutines that can run do, and a lease that nobody renews ends.  A refresher whose stop channel is closed or whose
\* context is done competes with its ticker in one select, which chooses at
\* random among the ready cases: strong fairness.
FairSpec ==
    /\ Spec
    /\ WF_vars(LeaseRunsOut)
    /\ \A n \in Nodes : WF_vars(WakeNode(n))
    /\ \A c \in Callers : WF_vars(CallerStep(c)) /\ WF_vars(WaitTimer(c))
    /\ \A i \in Ids : WF_vars(RefreshWork(i)) /\ SF_vars(RefreshEnd(i))

-----------------------------------------------------------------------------
(* Properties *)

HoldingSteps == {"start", "held", "renew", "lost", "unlock", "remove"}
Holding(c) == pc[c] \in HoldingSteps

\* The lease is what protects the holder: until its lease runs out, the lock in
\* the store is the holder's, from the acquisition to the end of its Unlock,
\* whatever waiters, refreshers, stale holders of other processes and crashes do.
\* In particular two such holders cannot exist.  The owner token names the process,
\* so a caller of the same process whose own lease ran out can still unlock it.
LeaseProtects ==
    \A c \in Callers : (Holding(c) /\ ~lost[acq[c]]) => lockId = acq[c]

\* lock.go: "Subscribing BEFORE the snapshot read closes the lost-wake window".
\* A caller in the select of waitHeld whose lock was released has its channel
\* closed, or its node has yet to run the callback of that commit.
NoLostRelease ==
    \A c \in Callers : (pc[c] = "select" /\ lockId = 0)
        => sub[c] = "closed" \/ wake[NodeOf[c]]

\* Closing a closed channel panics.  startRefresh and stopRefresh close the stop
\* channel they find in heldLocks, so a tracked channel is never closed already,
\* in whatever order holders, refreshers and stale Unlocks of a process run.
NoDoubleClose ==
    \A n \in Nodes : heldLocks[n] # 0 => ~stop[heldLocks[n]]

Abandoned(i) ==
    /\ i <= acqs
    /\ \/ ctxDone[i] /\ \A c \in Callers : acq[c] # i
       \/ owner[i] \notin alive

\* lock.go: a caller "that gets ctx-cancelled without calling Unlock would keep
\* extending the lease forever, blocking TTL-based steal recovery".  It does not:
\* the lock of a caller that gave up or crashed becomes free.
AbandonedLockExpires ==
    \A i \in Ids : Abandoned(i) ~> (lockId # i \/ expired)

\* A caller of Lock does not sleep for ever: it looks at the lock again.
WaiterLooksAgain ==
    \A c \in Callers : (pc[c] \in {"subscribe", "snapshot", "select"})
        ~> (pc[c] \notin {"subscribe", "snapshot", "select"})

\* lock.go: "Stop the refresh goroutine first so it can't race against our REMOVE
\* with a fresh ExpiresAt emit".  When Unlock returns without an error, the
\* caller's acquisition is no longer in force.
UnlockReleases ==
    [][\A c \in Callers :
          (pc[c] \in {"unlock", "remove"} /\ pc'[c] = "idle")
              => (lockId' # acq[c] \/ expired')]_vars
=============================================================================
