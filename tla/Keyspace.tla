------------------------------ MODULE Keyspace ------------------------------
(***************************************************************************)
(* The store the data commands work on, modelled from how the handlers use *)
(* the effects engine: GetSnapshot returns a reduced value, Emit appends   *)
(* effects to the command's context and the dispatcher publishes them all  *)
(* or, after an error reply, none of them (redis/command_execution.go).    *)
(*                                                                         *)
(* A value has a collection kind, a type tag, a scalar, keyed elements or  *)
(* an ordered sequence, and deadlines of the key and of single elements.   *)
(* A deadline is the time left; Never stands for no deadline.              *)
(***************************************************************************)
EXTENDS Integers, Sequences, FiniteSets, TLC

CONSTANTS
    Names,       \* key names
    Groups,      \* consumer groups of streams
    MaxTTL,      \* the longest deadline in the model
    PerSecond    \* units of time in a second

ASSUME TTLAssumption == MaxTTL \in Nat /\ PerSecond \in Nat \ {0}

VARIABLES
    work,        \* the commands of this behaviour (a set of command names)
    db,          \* the reduced value of each key
    sub,         \* the sub-keys a stream leaves beside it: groups, producers
    last         \* history: what the last command was meant to do

kvars == <<work, db, sub, last>>

Never == 0
Past == -1      \* a deadline that has come
Keep == -2      \* the deadline the key has
Deadlines == 0 .. MaxTTL

Nil == [t |-> "nil"]
NoElems == [x \in {} |-> 0]

\* A key that GetSnapshot does not find, or finds removed.
Missing == [kind |-> "none", tag |-> "none", scalar |-> Nil, elems |-> NoElems,
            left |-> NoElems, order |-> <<>>, exp |-> Never]

NoSub == [groups |-> {}, producers |-> FALSE]

Exists(v) == v.kind # "none"

-----------------------------------------------------------------------------
(* Effects: [key, op, x, id].  An INSERT of a scalar replaces whatever the    *)
(* key held and its deadline, not its tag; inserts of elements leave the      *)
(* deadline of the key alone; metadata alone makes no key; a collection that  *)
(* a command leaves without elements is no key.                               *)

Without(f, id) == [x \in DOMAIN f \ {id} |-> f[x]]

Emptied(v) ==
    IF \/ v.kind = "keyed" /\ v.elems = NoElems /\ v.scalar = Nil
       \/ v.kind = "ordered" /\ v.order = <<>>
    THEN Missing ELSE v

Reduced(v, e) ==
    CASE e.op = "scalar" -> [Missing EXCEPT !.kind = "scalar", !.tag = v.tag, !.scalar = e.x]
      [] e.op = "elem" -> [v EXCEPT !.kind = "keyed", !.elems = (e.id :> e.x) @@ @,
                                    !.left = Without(@, e.id)]
      [] e.op = "unelem" -> [v EXCEPT !.elems = Without(@, e.id), !.left = Without(@, e.id)]
      [] e.op = "order" -> [v EXCEPT !.kind = "ordered", !.order = e.x]
      [] e.op = "remove" -> Missing
      [] e.op = "tag" -> IF Exists(v) THEN [v EXCEPT !.tag = e.x] ELSE v
      [] e.op = "ttl" -> CASE ~Exists(v) -> v
                           [] Exists(v) /\ e.x = Past -> Missing
                           [] OTHER -> [v EXCEPT !.exp = e.x]
      [] e.op = "elemttl" -> IF e.id \notin DOMAIN v.elems THEN v
                             ELSE [v EXCEPT !.left = IF e.x = Never THEN Without(@, e.id)
                                                     ELSE (e.id :> e.x) @@ @]
      [] OTHER -> v

\* The values after the effects fx, in their order.
Applied(d, fx) ==
    LET after[n \in 0 .. Len(fx)] ==
          IF n = 0 THEN d
          ELSE [after[n - 1] EXCEPT ![fx[n].key] = Reduced(@, fx[n])]
    IN  [k \in DOMAIN d |-> Emptied(after[Len(fx)][k])]

\* The keyspace as a command with these effects would leave it.
After(fx) == Applied(db, fx)

Effect(k, op, id, x) == <<[key |-> k, op |-> op, id |-> id, x |-> x]>>
InsertScalar(k, x) == Effect(k, "scalar", 0, x)
InsertElem(k, id, x) == Effect(k, "elem", id, x)
RemoveElem(k, id) == Effect(k, "unelem", id, 0)
SetOrder(k, s) == Effect(k, "order", 0, s)
TypeTag(k, t) == Effect(k, "tag", 0, t)
ExpiresAt(k, t) == Effect(k, "ttl", 0, t)
ElementExpiresAt(k, id, t) == Effect(k, "elemttl", id, t)
emitDeleteKey(k) == Effect(k, "remove", 0, 0)

\* When(c, fx): effects a handler emits under a condition.
When(c, fx) == IF c THEN fx ELSE <<>>

-----------------------------------------------------------------------------
(* Commands *)

Did(class, keys, ttl) == [class |-> class, keys |-> keys, ttl |-> ttl]

\* Faulty form: the effects emitted before the error are published.
runDataCommandFlushes(fx, s, does) ==
    /\ \/ db' = Applied(db, fx) /\ sub' = s /\ last' = does
       \/ /\ \E n \in 0 .. Len(fx) - 1 : db' = Applied(db, SubSeq(fx, 1, n))
          /\ last' = Did("failed", <<>>, Keep) /\ UNCHANGED sub
    /\ UNCHANGED work

\* A command publishes its effects fx and the sub-keys s.  When a read or an
\* emit fails it replies with an error and the savepoint is restored.
runDataCommand(fx, s, does) ==
    /\ \/ db' = Applied(db, fx) /\ sub' = s /\ last' = does
       \/ last' = Did("failed", <<>>, Keep) /\ UNCHANGED <<db, sub>>
    /\ UNCHANGED work

\* A command that touches no stream sub-keys.
Run(fx, does) == runDataCommand(fx, sub, does)

Does(cmd) == cmd \in work

-----------------------------------------------------------------------------
(* Time: keys and elements whose deadline has come are gone. *)

Aged(v) ==
    IF v.exp = 1 THEN Missing
    ELSE LET due == {x \in DOMAIN v.left : v.left[x] = 1}
             rest == [x \in DOMAIN v.left \ due |-> v.left[x] - 1]
         IN  Emptied([v EXCEPT !.exp = IF @ = Never THEN Never ELSE @ - 1,
                               !.elems = [x \in DOMAIN v.elems \ due |-> v.elems[x]],
                               !.left = rest])

Tick ==
    /\ Does("TIME")
    /\ db' = [k \in Names |-> Aged(db[k])]
    /\ last' = Did("time", <<>>, Keep)
    /\ UNCHANGED <<work, sub>>
=============================================================================
