--------------------------- MODULE RedisKeyspace ----------------------------
(***************************************************************************)
(* What the data commands promise, whatever type they work on.  A key has  *)
(* a value, a tuple whose first member is its type, or none, and the time  *)
(* left to live.  Every command belongs to one class, and the class bounds *)
(* what it may do: which keys it may touch, what becomes of their type and *)
(* of their deadline.                                                      *)
(***************************************************************************)
EXTENDS Integers, Sequences

CONSTANTS
    Names,       \* key names
    NoValue      \* the value of a missing key

VARIABLES
    val,         \* the value a reader sees
    ttl,         \* the time left, or Never
    did          \* the class, the keys and the deadline of the last command

avars == <<val, ttl, did>>

Never == 0
Keep == -2

Here(k) == val[k] # NoValue
TypeOf(x) == x[1]
Touched == {did'.keys[i] : i \in DOMAIN did'.keys}

\* Nothing but the keys of the command changes.
OthersUntouched ==
    \A k \in Names \ Touched : val'[k] = val[k] /\ ttl'[k] = ttl[k]

\* The deadline a writing command leaves on k; only that of a string can be kept.
NewDeadline(k) ==
    ttl'[k] = IF did'.ttl # Keep THEN did'.ttl
              ELSE IF Here(k) /\ TypeOf(val[k]) = "string" /\ ~val[k][2] THEN ttl[k] ELSE Never

\* A write replaces the value by a string.
Write ==
    /\ did'.class = "write" /\ OthersUntouched
    /\ \A k \in Touched : val'[k] # NoValue /\ TypeOf(val'[k]) = "string" /\ NewDeadline(k)

\* A command that only creates never replaces a string.
Create ==
    /\ did'.class = "create" /\ OthersUntouched
    /\ \A k \in Touched : /\ ~Here(k) \/ TypeOf(val[k]) # "string"
                          /\ val'[k] # NoValue /\ TypeOf(val'[k]) = "string" /\ NewDeadline(k)

\* An edit keeps the type and the deadline of the key, or empties it.
Edit ==
    /\ did'.class = "edit" /\ OthersUntouched
    /\ \A k \in Touched :
          \/ val'[k] = NoValue /\ ttl'[k] = Never
          \/ /\ val'[k] # NoValue /\ (Here(k) => TypeOf(val'[k]) = TypeOf(val[k]))
             /\ ttl'[k] = IF Here(k) THEN ttl[k] ELSE Never

\* The result of an operation on other keys replaces the destination, whatever its type.
Store ==
    /\ did'.class = "store"
    /\ LET d == did'.keys[1] IN
       /\ \A k \in Names \ {d} : val'[k] = val[k] /\ ttl'[k] = ttl[k]
       /\ ttl'[d] = Never

Delete ==
    /\ did'.class = "delete" /\ OthersUntouched
    /\ \A k \in Touched : Here(k) /\ val'[k] = NoValue /\ ttl'[k] = Never

\* Elements go from one key to the other, of the same type; deadlines stay.
Transfer ==
    /\ did'.class = "transfer" /\ OthersUntouched
    /\ \A k \in Touched : /\ (Here(k) /\ val'[k] # NoValue) =>
                                 TypeOf(val'[k]) = TypeOf(val[k]) /\ ttl'[k] = ttl[k]
                          /\ (~Here(k) \/ val'[k] = NoValue) => ttl'[k] = Never

\* The value and the deadline move as they are.  A string with bits laid over
\* it (second member TRUE) does not: its base is left behind.
Arrives(a, b) ==
    /\ ttl'[b] = ttl[a] \/ val'[b] = NoValue
    /\ val'[b] = val[a] \/ val[a][2]

Move ==
    /\ did'.class = "move" /\ OthersUntouched
    /\ LET a == did'.keys[1]
           b == did'.keys[2]
       IN  a # b /\ Arrives(a, b) /\ val'[a] = NoValue /\ ttl'[a] = Never

Copy ==
    /\ did'.class = "copy"
    /\ LET a == did'.keys[1]
           b == did'.keys[2]
       IN  Arrives(a, b) /\ \A k \in Names \ {b} : val'[k] = val[k] /\ ttl'[k] = ttl[k]

Deadline ==
    /\ did'.class = "deadline" /\ OthersUntouched
    /\ \A k \in Touched : Here(k) /\ val'[k] = val[k] /\ ttl'[k] = did'.ttl

\* A command that answers with an error leaves no trace.
Failed == did'.class = "failed" /\ UNCHANGED <<val, ttl>>

\* What is due goes; a collection may lose elements and then go.
Time ==
    /\ did'.class = "time"
    /\ \A k \in Names :
          IF ttl[k] = 1 THEN val'[k] = NoValue /\ ttl'[k] = Never
          ELSE \/ val'[k] = NoValue /\ ttl'[k] = Never /\ (Here(k) => TypeOf(val[k]) = "hash")
               \/ /\ val'[k] = val[k] \/ (Here(k) /\ TypeOf(val'[k]) = "hash" /\ TypeOf(val[k]) = "hash")
                  /\ ttl'[k] = IF ttl[k] = Never THEN Never ELSE ttl[k] - 1

\* Any keyspace may be found at the start; a missing key has no deadline.
Init == \A k \in Names : ~Here(k) => ttl[k] = Never

Next ==
    \/ Write \/ Create \/ Edit \/ Store \/ Delete \/ Transfer
    \/ Move \/ Copy \/ Deadline \/ Failed \/ Time

Spec == Init /\ [][Next]_avars
=============================================================================
