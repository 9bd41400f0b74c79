------------------------------ MODULE ConnBlock ------------------------------
(***************************************************************************)
(* Connection.Block, its cleanup and Connection.Unblock                    *)
(* (redis/shared/handler_interface.go): one connection runs blocking       *)
(* commands one after the other while other connections send it CLIENT     *)
(* UNBLOCK.  blocked is an atomic flag, unblockCancel and unblockError are *)
(* guarded by unblockMu, and the three are not written together.  A cancel *)
(* function belongs to one Block call: it is modelled by the number of     *)
(* that call, and calling an old one cancels a context nobody waits on.    *)
(***************************************************************************)
EXTENDS Naturals

CONSTANTS
    Admins,    \* connections that issue CLIENT UNBLOCK
    MaxBlocks  \* Block calls of the connection (a bound of the model)

ASSUME MaxBlocksAssumption == MaxBlocks \in Nat

VARIABLES
    stage,         \* the executor of the connection
    gen,           \* Block calls so far, the identity of the current context
    ctxDone,       \* the current context is cancelled
    cancelMode,    \* ... by an Unblock, whose mode this is
    blocked, unblockCancel, unblockError,
    takenModes,    \* modes of the Unblock calls that took the current cancel function
    outcome,       \* how the last command ended
    registered,    \* the client registry knows the connection
    admin          \* admin[a]: progress of a's Unblock call

context == <<stage, gen, ctxDone, cancelMode, outcome>>
flags == <<blocked, unblockCancel, unblockError, takenModes>>
connVars == <<context, flags, registered, admin>>

Modes == {"timeout", "error"}
Calls == [at: {"idle", "load", "lock", "cancel"}, mode: Modes, gen: 0..MaxBlocks]
NoCall == [at |-> "idle", mode |-> "timeout", gen |-> 0]

ConnInit ==
    /\ stage = "idle" /\ gen = 0
    /\ ctxDone = FALSE /\ cancelMode = "none"
    /\ blocked = FALSE /\ unblockCancel = 0 /\ unblockError = FALSE
    /\ takenModes = {}
    /\ outcome = "none"
    /\ registered = TRUE
    /\ admin = [a \in Admins |-> NoCall]

-----------------------------------------------------------------------------
(* Block and its cleanup *)

\* Faulty form: the error flag of the previous command survives.
ResetErrorSkipped == UNCHANGED unblockError
ResetError == unblockError' = FALSE

BlockEnter ==
    /\ stage = "idle" /\ registered /\ gen < MaxBlocks
    /\ gen' = gen + 1
    /\ ctxDone' = FALSE /\ cancelMode' = "none"
    /\ unblockCancel' = gen + 1
    /\ ResetError /\ takenModes' = {}
    /\ stage' = "mark"
    /\ UNCHANGED <<blocked, outcome, registered, admin>>

BlockMark ==
    /\ stage = "mark"
    /\ blocked' = TRUE
    /\ stage' = "wait"
    /\ UNCHANGED <<gen, ctxDone, cancelMode, outcome, unblockCancel,
                   unblockError, takenModes, registered, admin>>

\* The timeout fires, or the connection's own context is cancelled.
Timeout ==
    /\ stage \in {"mark", "wait"} /\ ~ctxDone
    /\ ctxDone' = TRUE
    /\ UNCHANGED <<stage, gen, cancelMode, outcome, flags, registered, admin>>

\* The handler found data.
Serve ==
    /\ stage = "wait"
    /\ outcome' = "data" /\ stage' = "unmark"
    /\ UNCHANGED <<gen, ctxDone, cancelMode, flags, registered, admin>>

\* Wait returned an error: the reply depends on WasUnblockedWithError.
LeaveCancelled ==
    /\ stage = "wait" /\ ctxDone
    /\ outcome' = IF unblockError THEN "unblocked" ELSE "nil"
    /\ stage' = "unmark"
    /\ UNCHANGED <<gen, ctxDone, cancelMode, flags, registered, admin>>

\* cleanup: cancel the contexts, clear blocked, then clear unblockCancel.
Cleanup ==
    \/ /\ stage = "unmark"
       /\ ctxDone' = TRUE
       /\ blocked' = FALSE /\ stage' = "clear"
       /\ UNCHANGED <<gen, cancelMode, outcome, unblockCancel,
                      unblockError, takenModes, registered, admin>>
    \/ /\ stage = "clear"
       /\ unblockCancel' = 0 /\ stage' = "idle"
       /\ UNCHANGED <<gen, ctxDone, cancelMode, outcome, blocked,
                      unblockError, takenModes, registered, admin>>

\* The connection closes after its last command and leaves the registry.
Unregister ==
    /\ stage = "idle" /\ registered
    /\ registered' = FALSE
    /\ UNCHANGED <<context, flags, admin>>

-----------------------------------------------------------------------------
(* CLIENT UNBLOCK *)

Step(a, s) == admin' = [admin EXCEPT ![a] = s]

\* ClientRegistry.Unblock looks the client up.
Lookup(a, m) ==
    /\ admin[a].at = "idle" /\ registered
    /\ Step(a, [at |-> "load", mode |-> m, gen |-> 0])
    /\ UNCHANGED <<context, flags, registered>>

\* Unblock first loads the blocked flag, without the mutex.
LoadBlocked(a) ==
    /\ admin[a].at = "load"
    /\ Step(a, IF blocked THEN [admin[a] EXCEPT !.at = "lock"] ELSE NoCall)
    /\ UNCHANGED <<context, flags, registered>>

\* Faulty form: the mode is recorded only after the context was cancelled.
TakeCancelNoMode(a) ==
    /\ admin[a].at = "lock"
    /\ IF unblockCancel # 0
       THEN /\ takenModes' = takenModes \cup {admin[a].mode}
            /\ Step(a, [admin[a] EXCEPT !.at = "cancel", !.gen = unblockCancel])
       ELSE Step(a, NoCall) /\ UNCHANGED takenModes
    /\ UNCHANGED <<context, blocked, unblockCancel, unblockError, registered>>

\* Under unblockMu it takes the cancel function and records the mode.
TakeCancel(a) ==
    /\ admin[a].at = "lock"
    /\ IF unblockCancel # 0
       THEN /\ unblockError' = (admin[a].mode = "error")
            /\ takenModes' = takenModes \cup {admin[a].mode}
            /\ Step(a, [admin[a] EXCEPT !.at = "cancel", !.gen = unblockCancel])
       ELSE Step(a, NoCall) /\ UNCHANGED <<unblockError, takenModes>>
    /\ UNCHANGED <<context, blocked, unblockCancel, registered>>

\* Faulty form: a cancel function that does not reach the context.
CallCancelNoEffect(a) ==
    /\ admin[a].at = "cancel"
    /\ Step(a, [admin[a] EXCEPT !.at = "idle"])
    /\ UNCHANGED <<context, flags, registered>>

\* Then it calls the cancel function and reports success.
CallCancel(a) ==
    /\ admin[a].at = "cancel"
    /\ IF admin[a].gen = gen /\ ~ctxDone
       THEN ctxDone' = TRUE /\ cancelMode' = admin[a].mode
       ELSE UNCHANGED <<ctxDone, cancelMode>>
    /\ Step(a, [admin[a] EXCEPT !.at = "idle"])
    /\ UNCHANGED <<stage, gen, outcome, flags, registered>>

Unblock(a) ==
    \/ \E m \in Modes : Lookup(a, m)
    \/ LoadBlocked(a) \/ TakeCancel(a) \/ CallCancel(a)

-----------------------------------------------------------------------------
Executor == BlockEnter \/ BlockMark \/ Serve \/ LeaveCancelled \/ Cleanup

ConnNext == Executor \/ Timeout \/ Unregister \/ \E a \in Admins : Unblock(a)

ConnSpec == ConnInit /\ [][ConnNext]_connVars

\* The executor leaves a wait whose context is done and finishes its cleanup; an
\* Unblock call that took the cancel function calls it.  Data need never come.
ConnFairness ==
    /\ WF_connVars(BlockMark) /\ WF_connVars(LeaveCancelled) /\ WF_connVars(Cleanup)
    /\ \A a \in Admins : WF_connVars(CallCancel(a))

-----------------------------------------------------------------------------
(* Properties *)

FlagTypes ==
    /\ ctxDone \in BOOLEAN /\ blocked \in BOOLEAN
    /\ unblockError \in BOOLEAN /\ registered \in BOOLEAN

ValueTypes ==
    /\ stage \in {"idle", "mark", "wait", "unmark", "clear"}
    /\ gen \in 0..MaxBlocks
    /\ unblockCancel \in 0..MaxBlocks
    /\ takenModes \subseteq Modes
    /\ cancelMode \in Modes \cup {"none"}
    /\ outcome \in {"none", "data", "nil", "unblocked"}
    /\ admin \in [Admins -> Calls]

\* Every variable has its type.
ConnTypeOK == FlagTypes /\ ValueTypes

\* handler_interface.go:153 and :173: Unblock never sees blocked == true with
\* unblockCancel == nil, neither while Block sets the two nor while cleanup
\* clears them; and the cancel function it would take is the current one.
BlockedHasCancel == blocked => unblockCancel = gen /\ gen # 0

\* WasUnblockedWithError speaks of this command: while a command blocks, the
\* error flag is set only if CLIENT UNBLOCK ERROR took this very context's
\* cancel function.  A late Unblock of the previous command cannot leak into it.
ErrorFlagIsCurrent ==
    (stage \in {"mark", "wait"} /\ unblockError) => "error" \in takenModes

\* A command that CLIENT UNBLOCK ERROR cancelled answers with the UNBLOCKED
\* error: the flag is up before the context is done, unless a second Unblock in
\* TIMEOUT mode reached the same command.
ErrorReported ==
    (stage = "wait" /\ cancelMode = "error") =>
        unblockError \/ "timeout" \in takenModes

\* CLIENT UNBLOCK is not lost: once an admin holds the cancel function of the
\* context a command waits on, that wait ends.
UnblockEndsWait ==
    \A a \in Admins : \A g \in 1..MaxBlocks :
        (admin[a].at = "cancel" /\ admin[a].gen = g /\ gen = g /\ stage \in {"mark", "wait"})
            ~> ~(gen = g /\ stage \in {"mark", "wait"})
=============================================================================
