----------------------------- MODULE MCCaddyLock -----------------------------
(* Small instances of CaddyLock for TLC. *)
EXTENDS CaddyLock, TLC

CONSTANTS c1, c2, n1, n2

TwoNodes == (c1 :> n1) @@ (c2 :> n2)

\* The nodes are interchangeable, each together with its caller.
NodeSwap ==
    {p \in Permutations({c1, c2, n1, n2}) :
        {p[c1], p[c2]} = Callers /\ \A c \in Callers : NodeOf[p[c]] = p[NodeOf[c]]}
=============================================================================
