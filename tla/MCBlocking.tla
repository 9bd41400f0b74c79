----------------------------- MODULE MCBlocking -----------------------------
(* Small instances of Blocking for TLC. *)
EXTENDS Blocking, TLC

CONSTANTS c1, c2, p1, k1, k2

Cmd(op, keys, dst, n, t) ==
    [op |-> op, keys |-> keys, dst |-> dst, from |-> "first",
     to |-> "last", count |-> n, timeout |-> t]

\* Pops from both ends and both types, and moves between keys and onto the key itself.
MixedCommands ==
    {Cmd("lpop", <<k2>>, k2, 1, FALSE), Cmd("lmpop", <<k1, k2>>, k1, 2, TRUE),
     Cmd("zpop", <<k1>>, k1, 1, FALSE), Cmd("zmpop", <<k1>>, k1, 2, FALSE),
     Cmd("lmove", <<k1>>, k2, 1, FALSE),
     [Cmd("rpoplpush", <<k1>>, k1, 1, FALSE) EXCEPT !.from = "last", !.to = "first"]}

ClientSymmetry == Permutations(Clients)
=============================================================================
