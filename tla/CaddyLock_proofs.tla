-------------------------- MODULE CaddyLock_proofs ---------------------------
(***************************************************************************)
(* Proofs that, for any processes, callers and number of acquisitions, the *)
(* lease protects its holder, no release is missed by a waiter and no stop *)
(* channel is closed twice.                                                *)
(***************************************************************************)
EXTENDS TLAPS, CaddyLock

USE NodeOfAssumption, MaxAcqAssumption

\* What the proofs need to know of the types.
Shapes ==
    /\ acqs \in Nat /\ acqs <= MaxAcq /\ lockId \in Nat
    /\ acq \in [Callers -> Nat] /\ heldLocks \in [Nodes -> Nat]
    /\ sub \in [Callers -> {"none", "open", "closed"}]
    /\ DOMAIN pc = Callers /\ DOMAIN wake = Nodes
    /\ DOMAIN owner = Ids /\ DOMAIN ref = Ids /\ DOMAIN stop = Ids /\ DOMAIN lost = Ids

\* An acquisition is of one caller, of the process its owner token names.  Its
\* refresher does not exist before startRefresh.
Holders ==
    /\ \A c \in Callers : Holding(c) =>
          acq[c] \in Ids /\ acq[c] <= acqs /\ owner[acq[c]] = NodeOf[c]
    /\ \A c, d \in Callers : Holding(c) /\ Holding(d) /\ acq[c] = acq[d] => c = d
    /\ \A c \in Callers : pc[c] = "start" => ref[acq[c]] = "none"

\* A refresher in heldLocks was started, by its process, and not told to stop.
Tracked ==
    /\ \A i \in Ids : (i > acqs => ref[i] = "none") /\ (stop[i] => ref[i] # "none")
    /\ \A n \in Nodes : heldLocks[n] # 0 => /\ heldLocks[n] \in Ids /\ owner[heldLocks[n]] = n
                                            /\ ref[heldLocks[n]] # "none"
                                            /\ ~stop[heldLocks[n]]

\* An expired lease is a lost one.  An acquisition that can still commit has seen
\* the lock free, and an Unlock that can has seen its process own it; so it still is.
Leases ==
    /\ lockId <= acqs
    /\ lockId # 0 /\ expired => lost[lockId]
    /\ \A c \in Callers : c \in validC /\ pc[c] = "commit" => ~snapIsHeld
    /\ \A c \in Callers : c \in validC /\ pc[c] = "remove" =>
          lockId \in Ids /\ owner[lockId] = NodeOf[c]

\* A caller that looks at the lease or waits for its end has subscribed.
Subscribed == \A c \in Callers : pc[c] \in {"snapshot", "select"} => sub[c] # "none"

\* The inductive invariant.
IInv == Shapes /\ Holders /\ Tracked /\ Leases /\ LeaseProtects /\ Subscribed /\ NoLostRelease

\* What most steps leave of the holders and of the refreshers.
HoldersKept ==
    /\ acqs' = acqs /\ owner' = owner
    /\ \A d \in Callers : /\ pc'[d] \in HoldingSteps => Holding(d) /\ acq'[d] = acq[d]
                          /\ pc'[d] = "start" => pc[d] = "start"
    /\ \A i \in Ids : ref[i] = "none" => ref'[i] = "none"

RefsKept ==
    /\ acqs' = acqs /\ owner' = owner /\ stop' = stop /\ heldLocks' = heldLocks
    /\ \A i \in Ids : ref'[i] = "none" <=> ref[i] = "none"

(* The acquisitions are the numbers from 1 to MaxAcq.                      *)
LEMMA IdsNat == \A i : i \in Ids <=> i \in Nat /\ 0 < i /\ i <= MaxAcq
BY DEF Ids

(* No caller holds the lock at the start.                                  *)
LEMMA InitIInv == Init => IInv
<1> SUFFICES ASSUME Init PROVE IInv
  BY Zenon
<1>1. Shapes
  BY DEF Init, Shapes
<1>2. Holders /\ LeaseProtects
  BY Zenon DEF Init, Holders, LeaseProtects, Holding, HoldingSteps
<1>3. Tracked
  BY Zenon DEF Init, Tracked
<1>4. Leases /\ Subscribed /\ NoLostRelease
  BY DEF Init, Leases, Subscribed, NoLostRelease
<1> QED  BY <1>1, <1>2, <1>3, <1>4, Zenon DEF IInv

(* Every step keeps the types.                                             *)
LEMMA NextShapes == IInv /\ [Next]_vars => Shapes'
<1> SUFFICES ASSUME IInv, [Next]_vars PROVE Shapes'
  BY Zenon
<1>t. Shapes
  BY Zenon DEF IInv
<1> USE DEF lock, caller, refresher, Goto
<1>1. CASE Expire
  BY <1>t, <1>1, Zenon DEF Expire, Shapes
<1>2. ASSUME NEW n \in Nodes, WakeNode(n) PROVE Shapes'
  BY <1>t, <1>2, Zenon DEF WakeNode, Shapes
<1>3. ASSUME NEW n \in Nodes, Crash(n) PROVE Shapes'
  BY <1>t, <1>3, Zenon DEF Crash, Shapes
<1>4. ASSUME NEW c \in Callers, Call(c) PROVE Shapes'
  BY <1>t, <1>4, Zenon DEF Call, Shapes
<1>5. ASSUME NEW c \in Callers, AcquireRead(c) PROVE Shapes'
  BY <1>t, <1>5, Zenon DEF AcquireRead, NotAcquired, Shapes
<1>6. ASSUME NEW c \in Callers, AcquireCommit(c) PROVE Shapes'
  BY <1>t, <1>6 DEF AcquireCommit, NotAcquired, Committed, Shapes
<1>7. ASSUME NEW c \in Callers, startRefresh(c) PROVE Shapes'
  BY <1>t, <1>7, Zenon DEF startRefresh, Shapes
<1>8. ASSUME NEW c \in Callers, Wait(c) PROVE Shapes'
  BY <1>t, <1>8, Zenon DEF Wait, waitHeld, Shapes
<1>9. ASSUME NEW c \in Callers, WaitTimer(c) \/ WaitCancelled(c) PROVE Shapes'
  BY <1>t, <1>9, Zenon DEF WaitTimer, WaitCancelled, WaitEnds, Shapes
<1>10. ASSUME NEW c \in Callers, RenewRead(c) PROVE Shapes'
  BY <1>t, <1>10, Zenon DEF RenewRead, Shapes
<1>11. ASSUME NEW c \in Callers, RenewCommit(c) PROVE Shapes'
  BY <1>t, <1>11, Zenon DEF RenewCommit, Committed, Shapes
<1>12. ASSUME NEW c \in Callers, stopRefresh(c) PROVE Shapes'
  BY <1>t, <1>12, Zenon DEF stopRefresh, Shapes
<1>13. ASSUME NEW c \in Callers, UnlockRead(c) PROVE Shapes'
  BY <1>t, <1>13 DEF UnlockRead, Returned, Shapes
<1>14. ASSUME NEW c \in Callers, UnlockCommit(c) PROVE Shapes'
  BY <1>t, <1>14 DEF UnlockCommit, Returned, Committed, Shapes
<1>15. ASSUME NEW c \in Callers, Abandon(c) \/ EngineError(c) PROVE Shapes'
  BY <1>t, <1>15 DEF Abandon, EngineError, Returned, Shapes
<1>16. ASSUME NEW i \in Ids, CancelCtx(i) \/ RefreshEnd(i) PROVE Shapes'
  BY <1>t, <1>16, Zenon
  DEF CancelCtx, RefreshEnd, RefreshStop, RefreshCtxDone, RefGoto, Shapes
<1>17. ASSUME NEW i \in Ids, RefreshCommit(i) PROVE Shapes'
  BY <1>t, <1>17, Zenon DEF RefreshCommit, RefGoto, Committed, Shapes
<1>18. ASSUME NEW i \in Ids, RefreshDelete(i) PROVE Shapes'
  <2>1. heldLocks' \in [Nodes -> Nat]
    BY <1>t, <1>18, Zenon DEF RefreshDelete, Shapes
  <2> QED  BY <1>t, <2>1, <1>18, Zenon DEF RefreshDelete, RefGoto, Shapes
<1>19. ASSUME NEW i \in Ids, RefreshTick(i) PROVE Shapes'
  BY <1>t, <1>19, Zenon DEF RefreshTick, RefGoto, Shapes
<1>20. CASE UNCHANGED vars
  BY <1>t, <1>20, Zenon DEF vars, Shapes
<1> QED
  BY <1>1, <1>2, <1>3, <1>4, <1>5, <1>6, <1>7, <1>8, <1>9, <1>10, <1>11, <1>12, <1>13,
     <1>14, <1>15, <1>16, <1>17, <1>18, <1>19, <1>20, Zenon
  DEF Next, CallerStep, RefreshWork

(* An acquisition keeps its caller, process and refresher.                 *)
LEMMA NextHolders == IInv /\ [Next]_vars => Holders'
<1> SUFFICES ASSUME IInv, [Next]_vars PROVE Holders'
  BY Zenon
<1>t. Shapes /\ Holders /\ Tracked
  BY Zenon DEF IInv
<1>f. HoldersKept => Holders'
  <2> SUFFICES ASSUME HoldersKept PROVE Holders'
    BY Zenon
  <2>1. \A c \in Callers : pc[c] = "start" => Holding(c)
    BY Zenon DEF Holding, HoldingSteps
  <2>2. \A c \in Callers : pc'[c] = "start" =>
          pc'[c] \in HoldingSteps /\ acq'[c] = acq[c] /\ ref'[acq[c]] = "none"
    BY <1>t, <2>1, Zenon DEF HoldersKept, Holders, Holding, HoldingSteps
  <2> QED  BY <1>t, <2>2, ZenonT(60) DEF HoldersKept, Holders, Holding
<1> USE DEF lock, caller, refresher, Goto, Holding, HoldingSteps
<1>1. CASE Expire
  <2>1. HoldersKept
    BY <1>t, <1>1, Zenon DEF Expire, HoldersKept, Shapes
  <2> QED  BY <1>f, <2>1, Zenon
<1>2. ASSUME NEW n \in Nodes, WakeNode(n) PROVE Holders'
  <2>1. HoldersKept
    BY <1>t, <1>2, Zenon DEF WakeNode, HoldersKept, Shapes
  <2> QED  BY <1>f, <2>1, Zenon
<1>3. ASSUME NEW n \in Nodes, Crash(n) PROVE Holders'
  <2>1. HoldersKept
    BY <1>t, <1>3, Zenon DEF Crash, HoldersKept, Shapes
  <2> QED  BY <1>f, <2>1, Zenon
<1>4. ASSUME NEW c \in Callers, Call(c) PROVE Holders'
  <2>1. HoldersKept
    BY <1>t, <1>4, Zenon DEF Call, HoldersKept, Shapes
  <2> QED  BY <1>f, <2>1, Zenon
<1>5. ASSUME NEW c \in Callers, AcquireRead(c) PROVE Holders'
  <2>1. HoldersKept
    BY <1>t, <1>5, Zenon DEF AcquireRead, NotAcquired, HoldersKept, Shapes
  <2> QED  BY <1>f, <2>1, Zenon
<1>6. ASSUME NEW c \in Callers, AcquireCommit(c) PROVE Holders'
  <2>1. CASE c \in validC
    <3>1. acqs' = acqs + 1 /\ acqs + 1 \in Ids /\ ref' = ref /\ ref[acqs + 1] = "none"
      BY <1>t, <1>6, <2>1, IdsNat DEF AcquireCommit, Shapes, Tracked
    <3>2. /\ acq'[c] = acqs + 1 /\ pc'[c] = "start" /\ owner'[acqs + 1] = NodeOf[c]
          /\ \A d \in Callers \ {c} : pc'[d] = pc[d] /\ acq'[d] = acq[d]
          /\ \A i \in Ids : i # acqs + 1 => owner'[i] = owner[i]
      BY <1>t, <1>6, <2>1, <3>1, Zenon DEF AcquireCommit, Shapes
    <3>3. \A d \in Callers \ {c} : pc'[d] \in HoldingSteps =>
             /\ Holding(d) /\ acq'[d] \in Ids
             /\ acq'[d] <= acqs /\ acq'[d] # acqs + 1
      BY <1>t, <3>2, IdsNat DEF Shapes, Holders
    <3> QED  BY <1>t, <3>1, <3>2, <3>3, IdsNat DEF Shapes, Holders
  <2>2. CASE c \notin validC
    <3>1. HoldersKept
      BY <1>t, <1>6, <2>2, Zenon DEF AcquireCommit, NotAcquired, HoldersKept, Shapes
    <3> QED  BY <1>f, <3>1, Zenon
  <2> QED  BY <2>1, <2>2, Zenon
<1>7. ASSUME NEW c \in Callers, startRefresh(c) PROVE Holders'
  <2>1. /\ acqs' = acqs /\ owner' = owner /\ acq' = acq
        /\ \A d \in Callers : pc'[d] = IF d = c THEN "held" ELSE pc[d]
        /\ \A i \in Ids : i # acq[c] => ref'[i] = ref[i]
    BY <1>t, <1>7, Zenon DEF startRefresh, Shapes
  <2> QED  BY <1>t, <1>7, <2>1 DEF startRefresh, Shapes, Holders
<1>8. ASSUME NEW c \in Callers, Wait(c) PROVE Holders'
  <2>1. HoldersKept
    BY <1>t, <1>8, Zenon DEF Wait, waitHeld, HoldersKept, Shapes
  <2> QED  BY <1>f, <2>1, Zenon
<1>9. ASSUME NEW c \in Callers, WaitTimer(c) \/ WaitCancelled(c) PROVE Holders'
  <2>1. HoldersKept
    BY <1>t, <1>9, Zenon DEF WaitTimer, WaitCancelled, WaitEnds, HoldersKept, Shapes
  <2> QED  BY <1>f, <2>1, Zenon
<1>10. ASSUME NEW c \in Callers, RenewRead(c) PROVE Holders'
  <2>1. HoldersKept
    BY <1>t, <1>10, Zenon DEF RenewRead, HoldersKept, Shapes
  <2> QED  BY <1>f, <2>1, Zenon
<1>11. ASSUME NEW c \in Callers, RenewCommit(c) PROVE Holders'
  <2>1. HoldersKept
    BY <1>t, <1>11, Zenon DEF RenewCommit, Committed, HoldersKept, Shapes
  <2> QED  BY <1>f, <2>1, Zenon
<1>12. ASSUME NEW c \in Callers, stopRefresh(c) PROVE Holders'
  <2>1. HoldersKept
    BY <1>t, <1>12, Zenon DEF stopRefresh, HoldersKept, Shapes
  <2> QED  BY <1>f, <2>1, Zenon
<1>13. ASSUME NEW c \in Callers, UnlockRead(c) PROVE Holders'
  <2>1. HoldersKept
    BY <1>t, <1>13, Zenon DEF UnlockRead, Returned, HoldersKept, Shapes
  <2> QED  BY <1>f, <2>1, Zenon
<1>14. ASSUME NEW c \in Callers, UnlockCommit(c) PROVE Holders'
  <2>1. HoldersKept
    BY <1>t, <1>14, Zenon DEF UnlockCommit, Returned, Committed, HoldersKept, Shapes
  <2> QED  BY <1>f, <2>1, Zenon
<1>15. ASSUME NEW c \in Callers, Abandon(c) \/ EngineError(c) PROVE Holders'
  <2>1. HoldersKept
    BY <1>t, <1>15, ZenonT(60) DEF Abandon, EngineError, Returned, HoldersKept, Shapes
  <2> QED  BY <1>f, <2>1, Zenon
<1>16. ASSUME NEW i \in Ids, CancelCtx(i) \/ RefreshEnd(i) PROVE Holders'
  <2>1. HoldersKept
    BY <1>t, <1>16, Zenon
    DEF CancelCtx, RefreshEnd, RefreshStop, RefreshCtxDone, RefGoto, HoldersKept, Shapes
  <2> QED  BY <1>f, <2>1, Zenon
<1>17. ASSUME NEW i \in Ids, RefreshCommit(i) PROVE Holders'
  <2>1. HoldersKept
    BY <1>t, <1>17, Zenon DEF RefreshCommit, RefGoto, Committed, HoldersKept, Shapes
  <2> QED  BY <1>f, <2>1, Zenon
<1>18. ASSUME NEW i \in Ids, RefreshDelete(i) PROVE Holders'
  <2>1. HoldersKept
    BY <1>t, <1>18, Zenon DEF RefreshDelete, RefGoto, HoldersKept, Shapes
  <2> QED  BY <1>f, <2>1, Zenon
<1>19. ASSUME NEW i \in Ids, RefreshTick(i) PROVE Holders'
  <2>1. HoldersKept
    BY <1>t, <1>19, Zenon DEF RefreshTick, RefGoto, HoldersKept, Shapes
  <2> QED  BY <1>f, <2>1, Zenon
<1>20. CASE UNCHANGED vars
  <2>1. HoldersKept
    BY <1>t, <1>20, Zenon DEF vars, HoldersKept, Shapes
  <2> QED  BY <1>f, <2>1, Zenon
<1> QED
  BY <1>1, <1>2, <1>3, <1>4, <1>5, <1>6, <1>7, <1>8, <1>9, <1>10, <1>11, <1>12, <1>13,
     <1>14, <1>15, <1>16, <1>17, <1>18, <1>19, <1>20, Zenon
  DEF Next, CallerStep, RefreshWork

(* A tracked refresher is not told to stop.                                *)
LEMMA NextTracked == IInv /\ [Next]_vars => Tracked'
<1> SUFFICES ASSUME IInv, [Next]_vars PROVE Tracked'
  BY Zenon
<1>t. Shapes /\ Holders /\ Tracked
  BY Zenon DEF IInv
<1> USE DEF lock, caller, refresher, Goto, Holding, HoldingSteps
<1>f. RefsKept => Tracked'
  BY <1>t DEF RefsKept, Shapes, Tracked
<1>1. CASE Expire
  BY <1>t, <1>1, Zenon DEF Expire, Shapes, Holders, Tracked
<1>2. ASSUME NEW n \in Nodes, WakeNode(n) PROVE Tracked'
  BY <1>t, <1>2, Zenon DEF WakeNode, Shapes, Holders, Tracked
<1>3. ASSUME NEW n \in Nodes, Crash(n) PROVE Tracked'
  BY <1>t, <1>3, Zenon DEF Crash, Shapes, Holders, Tracked
<1>4. ASSUME NEW c \in Callers, Call(c) PROVE Tracked'
  BY <1>t, <1>4, Zenon DEF Call, Shapes, Holders, Tracked
<1>5. ASSUME NEW c \in Callers, AcquireRead(c) PROVE Tracked'
  BY <1>t, <1>5, Zenon DEF AcquireRead, NotAcquired, Shapes, Holders, Tracked
<1>6. ASSUME NEW c \in Callers, AcquireCommit(c) PROVE Tracked'
  <2>1. /\ acqs' \in {acqs, acqs + 1} /\ ref' = ref /\ stop' = stop /\ heldLocks' = heldLocks
        /\ \A i \in Ids : i # acqs + 1 => owner'[i] = owner[i]
    BY <1>t, <1>6, Zenon DEF AcquireCommit, Shapes
  <2>2. \A i \in Ids : ref[i] # "none" => i # acqs + 1
    BY <1>t, IdsNat DEF Shapes, Tracked
  <2> QED  BY <1>t, <2>1, <2>2, IdsNat DEF Shapes, Tracked
<1>7. ASSUME NEW c \in Callers, startRefresh(c) PROVE Tracked'
  BY <1>t, <1>7 DEF startRefresh, Shapes, Holders, Tracked
<1>8. ASSUME NEW c \in Callers, Wait(c) PROVE Tracked'
  BY <1>t, <1>8, Zenon DEF Wait, waitHeld, Shapes, Holders, Tracked
<1>9. ASSUME NEW c \in Callers, WaitTimer(c) \/ WaitCancelled(c) PROVE Tracked'
  BY <1>t, <1>9 DEF WaitTimer, WaitCancelled, WaitEnds, Shapes, Holders, Tracked
<1>10. ASSUME NEW c \in Callers, RenewRead(c) PROVE Tracked'
  BY <1>t, <1>10, Zenon DEF RenewRead, Shapes, Holders, Tracked
<1>11. ASSUME NEW c \in Callers, RenewCommit(c) PROVE Tracked'
  BY <1>t, <1>11, Zenon DEF RenewCommit, Committed, Shapes, Holders, Tracked
<1>12. ASSUME NEW c \in Callers, stopRefresh(c) PROVE Tracked'
  BY <1>t, <1>12 DEF stopRefresh, Shapes, Holders, Tracked
<1>13. ASSUME NEW c \in Callers, UnlockRead(c) PROVE Tracked'
  BY <1>t, <1>13, Zenon DEF UnlockRead, Returned, Shapes, Holders, Tracked
<1>14. ASSUME NEW c \in Callers, UnlockCommit(c) PROVE Tracked'
  BY <1>t, <1>14, Zenon DEF UnlockCommit, Returned, Committed, Shapes, Holders, Tracked
<1>15. ASSUME NEW c \in Callers, Abandon(c) \/ EngineError(c) PROVE Tracked'
  BY <1>t, <1>15 DEF Abandon, EngineError, Returned, Shapes, Holders, Tracked
<1>16. ASSUME NEW i \in Ids, CancelCtx(i) \/ RefreshEnd(i) PROVE Tracked'
  <2>1. RefsKept
    BY <1>t, <1>16, Zenon
    DEF CancelCtx, RefreshEnd, RefreshStop, RefreshCtxDone, RefGoto, RefsKept, Shapes
  <2> QED  BY <1>f, <2>1, Zenon
<1>17. ASSUME NEW i \in Ids, RefreshCommit(i) PROVE Tracked'
  <2>1. RefsKept
    BY <1>t, <1>17, Zenon DEF RefreshCommit, RefGoto, Committed, RefsKept, Shapes
  <2> QED  BY <1>f, <2>1, Zenon
<1>18. ASSUME NEW i \in Ids, RefreshDelete(i) PROVE Tracked'
  BY <1>t, <1>18, Zenon DEF RefreshDelete, RefGoto, Shapes, Holders, Tracked
<1>19. ASSUME NEW i \in Ids, RefreshTick(i) PROVE Tracked'
  <2>1. RefsKept
    BY <1>t, <1>19, Zenon DEF RefreshTick, RefGoto, RefsKept, Shapes
  <2> QED  BY <1>f, <2>1, Zenon
<1>20. CASE UNCHANGED vars
  BY <1>t, <1>20, Zenon DEF vars, Shapes, Holders, Tracked
<1> QED
  BY <1>1, <1>2, <1>3, <1>4, <1>5, <1>6, <1>7, <1>8, <1>9, <1>10, <1>11, <1>12, <1>13,
     <1>14, <1>15, <1>16, <1>17, <1>18, <1>19, <1>20, Zenon
  DEF Next, CallerStep, RefreshWork

(* A commit finds the lock as its transaction read it.                     *)
LEMMA NextLeases == IInv /\ [Next]_vars => Leases'
<1> SUFFICES ASSUME IInv, [Next]_vars PROVE Leases'
  BY Zenon
<1>t. Shapes /\ Leases
  BY Zenon DEF IInv
<1> USE DEF lock, caller, refresher, Goto
<1>1. CASE Expire
  BY <1>t, <1>1, IdsNat DEF Expire, Shapes, Leases, snapIsHeld
<1>2. ASSUME NEW n \in Nodes, WakeNode(n) PROVE Leases'
  BY <1>t, <1>2, Zenon DEF WakeNode, Shapes, Leases, snapIsHeld, ownerMatches
<1>3. ASSUME NEW n \in Nodes, Crash(n) PROVE Leases'
  BY <1>t, <1>3, Zenon DEF Crash, Shapes, Leases, snapIsHeld, ownerMatches
<1>4. ASSUME NEW c \in Callers, Call(c) PROVE Leases'
  BY <1>t, <1>4, Zenon DEF Call, Shapes, Leases, snapIsHeld, ownerMatches
<1>5. ASSUME NEW c \in Callers, AcquireRead(c) PROVE Leases'
  BY <1>t, <1>5, ZenonT(60)
  DEF AcquireRead, NotAcquired, Shapes, Leases, snapIsHeld, ownerMatches
<1>6. ASSUME NEW c \in Callers, AcquireCommit(c) PROVE Leases'
  BY <1>t, <1>6
  DEF AcquireCommit, NotAcquired, Committed, Shapes, Leases, snapIsHeld, ownerMatches
<1>7. ASSUME NEW c \in Callers, startRefresh(c) PROVE Leases'
  BY <1>t, <1>7, Zenon DEF startRefresh, Shapes, Leases, snapIsHeld, ownerMatches
<1>8. ASSUME NEW c \in Callers, Wait(c) PROVE Leases'
  BY <1>t, <1>8, Zenon DEF Wait, waitHeld, Shapes, Leases, snapIsHeld, ownerMatches
<1>9. ASSUME NEW c \in Callers, WaitTimer(c) \/ WaitCancelled(c) PROVE Leases'
  BY <1>t, <1>9
  DEF WaitTimer, WaitCancelled, WaitEnds, Shapes, Leases, snapIsHeld, ownerMatches
<1>10. ASSUME NEW c \in Callers, RenewRead(c) PROVE Leases'
  BY <1>t, <1>10 DEF RenewRead, Shapes, Leases, snapIsHeld, ownerMatches
<1>11. ASSUME NEW c \in Callers, RenewCommit(c) PROVE Leases'
  BY <1>t, <1>11, Zenon DEF RenewCommit, Committed, Shapes, Leases, snapIsHeld, ownerMatches
<1>12. ASSUME NEW c \in Callers, stopRefresh(c) PROVE Leases'
  BY <1>t, <1>12, Zenon DEF stopRefresh, Shapes, Leases, snapIsHeld, ownerMatches
<1>13. ASSUME NEW c \in Callers, UnlockRead(c) PROVE Leases'
  BY <1>t, <1>13, IdsNat DEF UnlockRead, Returned, Shapes, Leases, snapIsHeld, ownerMatches
<1>14. ASSUME NEW c \in Callers, UnlockCommit(c) PROVE Leases'
  BY <1>t, <1>14
  DEF UnlockCommit, Returned, Committed, Shapes, Leases, snapIsHeld, ownerMatches
<1>15. ASSUME NEW c \in Callers, Abandon(c) \/ EngineError(c) PROVE Leases'
  BY <1>t, <1>15
  DEF Abandon, EngineError, Returned, Shapes, Leases, snapIsHeld, ownerMatches
<1>16. ASSUME NEW i \in Ids, CancelCtx(i) \/ RefreshEnd(i) PROVE Leases'
  BY <1>t, <1>16
  DEF CancelCtx, RefreshEnd, RefreshStop, RefreshCtxDone, RefGoto, Shapes, Leases,
      snapIsHeld, ownerMatches
<1>17. ASSUME NEW i \in Ids, RefreshCommit(i) PROVE Leases'
  BY <1>t, <1>17, Zenon
  DEF RefreshCommit, RefGoto, Committed, Shapes, Leases, snapIsHeld, ownerMatches
<1>18. ASSUME NEW i \in Ids, RefreshDelete(i) PROVE Leases'
  BY <1>t, <1>18, Zenon DEF RefreshDelete, RefGoto, Shapes, Leases, snapIsHeld, ownerMatches
<1>19. ASSUME NEW i \in Ids, RefreshTick(i) PROVE Leases'
  BY <1>t, <1>19, Zenon DEF RefreshTick, RefGoto, Shapes, Leases, snapIsHeld, ownerMatches
<1>20. CASE UNCHANGED vars
  BY <1>t, <1>20, Zenon DEF vars, Shapes, Leases, snapIsHeld, ownerMatches
<1> QED
  BY <1>1, <1>2, <1>3, <1>4, <1>5, <1>6, <1>7, <1>8, <1>9, <1>10, <1>11, <1>12, <1>13,
     <1>14, <1>15, <1>16, <1>17, <1>18, <1>19, <1>20, Zenon
  DEF Next, CallerStep, RefreshWork

(* The lock of a holder is taken only when its lease is lost.              *)
LEMMA NextProtects == IInv /\ [Next]_vars => LeaseProtects'
<1> SUFFICES ASSUME IInv, [Next]_vars PROVE LeaseProtects'
  BY Zenon
<1>t. Shapes /\ Holders /\ Leases /\ LeaseProtects
  BY Zenon DEF IInv
<1> USE DEF lock, caller, refresher, Goto, Holding, HoldingSteps
<1>1. CASE Expire
  BY <1>t, <1>1, Zenon DEF Expire, Shapes, Holders, Leases, LeaseProtects, snapIsHeld
<1>2. ASSUME NEW n \in Nodes, WakeNode(n) PROVE LeaseProtects'
  BY <1>t, <1>2, Zenon DEF WakeNode, Shapes, Holders, Leases, LeaseProtects, snapIsHeld
<1>3. ASSUME NEW n \in Nodes, Crash(n) PROVE LeaseProtects'
  BY <1>t, <1>3, Zenon DEF Crash, Shapes, Holders, Leases, LeaseProtects, snapIsHeld
<1>4. ASSUME NEW c \in Callers, Call(c) PROVE LeaseProtects'
  BY <1>t, <1>4, Zenon DEF Call, Shapes, Holders, Leases, LeaseProtects, snapIsHeld
<1>5. ASSUME NEW c \in Callers, AcquireRead(c) PROVE LeaseProtects'
  BY <1>t, <1>5
  DEF AcquireRead, NotAcquired, Shapes, Holders, Leases, LeaseProtects, snapIsHeld
<1>6. ASSUME NEW c \in Callers, AcquireCommit(c) PROVE LeaseProtects'
  <2>1. CASE c \in validC
    <3>1. /\ lockId' = acqs + 1 /\ lost' = lost /\ acq'[c] = acqs + 1
          /\ \A d \in Callers \ {c} : (pc'[d] \in HoldingSteps => Holding(d)) /\ acq'[d] = acq[d]
      BY <1>t, <1>6, <2>1, Zenon DEF AcquireCommit, Shapes
    <3>2. \A d \in Callers \ {c} : Holding(d) => lost[acq[d]]
      BY <1>t, <1>6, <2>1, IdsNat
      DEF AcquireCommit, Holders, Leases, LeaseProtects, snapIsHeld
    <3> HIDE DEF HoldingSteps
    <3> QED  BY <3>1, <3>2, Zenon DEF LeaseProtects
  <2>2. CASE c \notin validC
    BY <1>t, <1>6, <2>2, Zenon DEF AcquireCommit, NotAcquired, Shapes, LeaseProtects
  <2> QED  BY <2>1, <2>2, Zenon
<1>7. ASSUME NEW c \in Callers, startRefresh(c) PROVE LeaseProtects'
  BY <1>t, <1>7, ZenonT(60)
  DEF startRefresh, Shapes, Holders, Leases, LeaseProtects, snapIsHeld
<1>8. ASSUME NEW c \in Callers, Wait(c) PROVE LeaseProtects'
  BY <1>t, <1>8 DEF Wait, waitHeld, Shapes, Holders, Leases, LeaseProtects, snapIsHeld
<1>9. ASSUME NEW c \in Callers, WaitTimer(c) \/ WaitCancelled(c) PROVE LeaseProtects'
  BY <1>t, <1>9
  DEF WaitTimer, WaitCancelled, WaitEnds, Shapes, Holders, Leases, LeaseProtects, snapIsHeld
<1>10. ASSUME NEW c \in Callers, RenewRead(c) PROVE LeaseProtects'
  BY <1>t, <1>10 DEF RenewRead, Shapes, Holders, Leases, LeaseProtects, snapIsHeld
<1>11. ASSUME NEW c \in Callers, RenewCommit(c) PROVE LeaseProtects'
  BY <1>t, <1>11
  DEF RenewCommit, Committed, Shapes, Holders, Leases, LeaseProtects, snapIsHeld
<1>12. ASSUME NEW c \in Callers, stopRefresh(c) PROVE LeaseProtects'
  BY <1>t, <1>12 DEF stopRefresh, Shapes, Holders, Leases, LeaseProtects, snapIsHeld
<1>13. ASSUME NEW c \in Callers, UnlockRead(c) PROVE LeaseProtects'
  BY <1>t, <1>13
  DEF UnlockRead, Returned, Shapes, Holders, Leases, LeaseProtects, snapIsHeld
<1>14. ASSUME NEW c \in Callers, UnlockCommit(c) PROVE LeaseProtects'
  <2>1. \A d \in Callers : /\ pc'[d] \in HoldingSteps => d # c /\ Holding(d)
                           /\ d # c => acq'[d] = acq[d]
    BY <1>t, <1>14, Zenon DEF UnlockCommit, Returned, Shapes
  <2>a. Holding(c) /\ \A d \in Callers : Holding(d) => acq[d] \in Ids /\ (d # c => acq[d] # acq[c])
    BY <1>t, <1>14, Zenon DEF Holders, UnlockCommit
  <2>b. \A i \in Ids : lost[i] => lost'[i]
    BY <1>t, <1>14, Zenon DEF UnlockCommit, Shapes
  <2>2. CASE c \in validC
    <3>1. \A d \in Callers : pc'[d] \in HoldingSteps /\ lockId = acq[d] => lost'[acq[d]]
      BY <1>t, <1>14, <2>2, ZenonT(60) DEF UnlockCommit, Shapes, Leases
    <3>2. \A d \in Callers : pc'[d] \in HoldingSteps => acq'[d] = acq[d] /\ (lockId' = acq[d] \/ lost'[acq[d]])
      <4> TAKE d \in Callers
      <4> HAVE pc'[d] \in HoldingSteps
      <4>1. acq'[d] = acq[d] /\ acq[d] \in Ids /\ (lockId = acq[d] \/ lost[acq[d]])
        BY <1>t, <2>1, <2>a, Zenon DEF LeaseProtects
      <4> QED  BY <2>b, <3>1, <4>1, Zenon
    <3> QED  BY <3>2, Zenon DEF LeaseProtects
  <2>3. CASE c \notin validC
    <3>1. lockId' = lockId
      BY <1>14, <2>3, Zenon DEF UnlockCommit
    <3>2. \A d \in Callers : pc'[d] \in HoldingSteps => acq'[d] = acq[d] /\ (lockId' = acq[d] \/ lost'[acq[d]])
      <4> TAKE d \in Callers
      <4> HAVE pc'[d] \in HoldingSteps
      <4>1. acq'[d] = acq[d] /\ acq[d] \in Ids /\ (lockId = acq[d] \/ lost[acq[d]])
        BY <1>t, <2>1, <2>a, Zenon DEF LeaseProtects
      <4> QED  BY <2>b, <3>1, <4>1, Zenon
    <3> QED  BY <3>2, Zenon DEF LeaseProtects
  <2> QED  BY <2>2, <2>3, Zenon
<1>15. ASSUME NEW c \in Callers, Abandon(c) \/ EngineError(c) PROVE LeaseProtects'
  BY <1>t, <1>15
  DEF Abandon, EngineError, Returned, Shapes, Holders, Leases, LeaseProtects, snapIsHeld
<1>16. ASSUME NEW i \in Ids, CancelCtx(i) \/ RefreshEnd(i) PROVE LeaseProtects'
  BY <1>t, <1>16
  DEF CancelCtx, RefreshEnd, RefreshStop, RefreshCtxDone, RefGoto, Shapes, Holders, Leases,
      LeaseProtects, snapIsHeld
<1>17. ASSUME NEW i \in Ids, RefreshCommit(i) PROVE LeaseProtects'
  BY <1>t, <1>17, Zenon
  DEF RefreshCommit, RefGoto, Committed, Shapes, Holders, Leases, LeaseProtects, snapIsHeld
<1>18. ASSUME NEW i \in Ids, RefreshDelete(i) PROVE LeaseProtects'
  BY <1>t, <1>18, Zenon
  DEF RefreshDelete, RefGoto, Shapes, Holders, Leases, LeaseProtects, snapIsHeld
<1>19. ASSUME NEW i \in Ids, RefreshTick(i) PROVE LeaseProtects'
  BY <1>t, <1>19, Zenon
  DEF RefreshTick, RefGoto, Shapes, Holders, Leases, LeaseProtects, snapIsHeld
<1>20. CASE UNCHANGED vars
  BY <1>t, <1>20, Zenon DEF vars, Shapes, Holders, Leases, LeaseProtects, snapIsHeld
<1> QED
  BY <1>1, <1>2, <1>3, <1>4, <1>5, <1>6, <1>7, <1>8, <1>9, <1>10, <1>11, <1>12, <1>13,
     <1>14, <1>15, <1>16, <1>17, <1>18, <1>19, <1>20, Zenon
  DEF Next, CallerStep, RefreshWork

(* A release is announced to every node, and each wakes its subscribers.   *)
LEMMA NextReleases == IInv /\ [Next]_vars => (Subscribed /\ NoLostRelease)'
<1> SUFFICES ASSUME IInv, [Next]_vars PROVE (Subscribed /\ NoLostRelease)'
  BY Zenon
<1>t. Shapes /\ Subscribed /\ NoLostRelease
  BY Zenon DEF IInv
<1> USE DEF lock, caller, refresher, Goto
<1>1. CASE Expire
  BY <1>t, <1>1, Zenon DEF Expire, Shapes, Subscribed, NoLostRelease, snapIsHeld
<1>2. ASSUME NEW n \in Nodes, WakeNode(n) PROVE (Subscribed /\ NoLostRelease)'
  <2>1. \A c \in Callers : sub[c] # "none" /\ NodeOf[c] = n => sub'[c] = "closed"
    BY <1>t, <1>2, Zenon DEF WakeNode, Shapes
  <2>2. \A c \in Callers : NodeOf[c] # n => sub'[c] = sub[c] /\ wake'[NodeOf[c]] = wake[NodeOf[c]]
    BY <1>t, <1>2, Zenon DEF WakeNode, Shapes
  <2> QED  BY <1>t, <1>2, <2>1, <2>2, Zenon DEF WakeNode, Subscribed, NoLostRelease
<1>3. ASSUME NEW n \in Nodes, Crash(n) PROVE (Subscribed /\ NoLostRelease)'
  BY <1>t, <1>3, Zenon DEF Crash, Shapes, Subscribed, NoLostRelease, snapIsHeld
<1>4. ASSUME NEW c \in Callers, Call(c) PROVE (Subscribed /\ NoLostRelease)'
  BY <1>t, <1>4, Zenon DEF Call, Shapes, Subscribed, NoLostRelease, snapIsHeld
<1>5. ASSUME NEW c \in Callers, AcquireRead(c) PROVE (Subscribed /\ NoLostRelease)'
  BY <1>t, <1>5, Zenon
  DEF AcquireRead, NotAcquired, Shapes, Subscribed, NoLostRelease, snapIsHeld
<1>6. ASSUME NEW c \in Callers, AcquireCommit(c) PROVE (Subscribed /\ NoLostRelease)'
  BY <1>t, <1>6, ZenonT(60)
  DEF AcquireCommit, NotAcquired, Committed, Shapes, Subscribed, NoLostRelease, snapIsHeld
<1>7. ASSUME NEW c \in Callers, startRefresh(c) PROVE (Subscribed /\ NoLostRelease)'
  BY <1>t, <1>7, Zenon DEF startRefresh, Shapes, Subscribed, NoLostRelease, snapIsHeld
<1>8. ASSUME NEW c \in Callers, Wait(c) PROVE (Subscribed /\ NoLostRelease)'
  BY <1>t, <1>8 DEF Wait, waitHeld, Shapes, Subscribed, NoLostRelease, snapIsHeld
<1>9. ASSUME NEW c \in Callers, WaitTimer(c) \/ WaitCancelled(c) PROVE (Subscribed /\ NoLostRelease)'
  BY <1>t, <1>9
  DEF WaitTimer, WaitCancelled, WaitEnds, Shapes, Subscribed, NoLostRelease, snapIsHeld
<1>10. ASSUME NEW c \in Callers, RenewRead(c) PROVE (Subscribed /\ NoLostRelease)'
  BY <1>t, <1>10, Zenon DEF RenewRead, Shapes, Subscribed, NoLostRelease, snapIsHeld
<1>11. ASSUME NEW c \in Callers, RenewCommit(c) PROVE (Subscribed /\ NoLostRelease)'
  BY <1>t, <1>11, ZenonT(60)
  DEF RenewCommit, Committed, Shapes, Subscribed, NoLostRelease, snapIsHeld
<1>12. ASSUME NEW c \in Callers, stopRefresh(c) PROVE (Subscribed /\ NoLostRelease)'
  BY <1>t, <1>12, Zenon DEF stopRefresh, Shapes, Subscribed, NoLostRelease, snapIsHeld
<1>13. ASSUME NEW c \in Callers, UnlockRead(c) PROVE (Subscribed /\ NoLostRelease)'
  BY <1>t, <1>13, Zenon
  DEF UnlockRead, Returned, Shapes, Subscribed, NoLostRelease, snapIsHeld
<1>14. ASSUME NEW c \in Callers, UnlockCommit(c) PROVE (Subscribed /\ NoLostRelease)'
  BY <1>t, <1>14, Zenon
  DEF UnlockCommit, Returned, Committed, Shapes, Subscribed, NoLostRelease, snapIsHeld
<1>15. ASSUME NEW c \in Callers, Abandon(c) \/ EngineError(c) PROVE (Subscribed /\ NoLostRelease)'
  <2>1. CASE Abandon(c)
    BY <1>t, <2>1, Zenon DEF Abandon, Returned, Shapes, Subscribed, NoLostRelease
  <2>2. CASE EngineError(c)
    BY <1>t, <2>2, Zenon DEF EngineError, Shapes, Subscribed, NoLostRelease
  <2> QED  BY <1>15, <2>1, <2>2, Zenon
<1>16. ASSUME NEW i \in Ids, CancelCtx(i) \/ RefreshEnd(i) PROVE (Subscribed /\ NoLostRelease)'
  BY <1>t, <1>16
  DEF CancelCtx, RefreshEnd, RefreshStop, RefreshCtxDone, RefGoto, Shapes, Subscribed,
      NoLostRelease, snapIsHeld
<1>17. ASSUME NEW i \in Ids, RefreshCommit(i) PROVE (Subscribed /\ NoLostRelease)'
  BY <1>t, <1>17, Zenon
  DEF RefreshCommit, RefGoto, Committed, Shapes, Subscribed, NoLostRelease, snapIsHeld
<1>18. ASSUME NEW i \in Ids, RefreshDelete(i) PROVE (Subscribed /\ NoLostRelease)'
  BY <1>t, <1>18, Zenon
  DEF RefreshDelete, RefGoto, Shapes, Subscribed, NoLostRelease, snapIsHeld
<1>19. ASSUME NEW i \in Ids, RefreshTick(i) PROVE (Subscribed /\ NoLostRelease)'
  BY <1>t, <1>19, Zenon
  DEF RefreshTick, RefGoto, Shapes, Subscribed, NoLostRelease, snapIsHeld
<1>20. CASE UNCHANGED vars
  BY <1>t, <1>20, Zenon DEF vars, Shapes, Subscribed, NoLostRelease, snapIsHeld
<1> QED
  BY <1>1, <1>2, <1>3, <1>4, <1>5, <1>6, <1>7, <1>8, <1>9, <1>10, <1>11, <1>12, <1>13,
     <1>14, <1>15, <1>16, <1>17, <1>18, <1>19, <1>20, Zenon
  DEF Next, CallerStep, RefreshWork

(* The invariant holds in every state.                                     *)
LEMMA InductiveInvariant == Spec => []IInv
<1>1. IInv /\ [Next]_vars => IInv'
  BY NextShapes, NextHolders, NextTracked, NextLeases, NextProtects, NextReleases, Zenon
  DEF IInv
<1> QED  BY InitIInv, <1>1, PTL DEF Spec

(* Until its lease runs out the holder's acquisition is the one in the     *)
(* store: attemptAcquire, renewLease, Unlock and refreshOnce of any number *)
(* of processes, with their watches, never take it.                        *)
THEOREM LeaseProtectsAlways == Spec => []LeaseProtects
BY InductiveInvariant, PTL DEF IInv

(* waitHeld sleeps through no release: the waiter's channel is closed, or  *)
(* the callback of the releasing commit is still to run on its node.       *)
THEOREM NoLostReleaseAlways == Spec => []NoLostRelease
BY InductiveInvariant, PTL DEF IInv

(* startRefresh and stopRefresh never close a stop channel twice.          *)
THEOREM NoDoubleCloseAlways == Spec => []NoDoubleClose
<1>1. IInv => NoDoubleClose
  BY Zenon DEF IInv, Tracked, NoDoubleClose
<1> QED  BY InductiveInvariant, <1>1, PTL
=============================================================================
