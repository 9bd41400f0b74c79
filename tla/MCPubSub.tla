------------------------------ MODULE MCPubSub ------------------------------
(* Small instances of PubSub for TLC. *)
EXTENDS PubSub

CONSTANTS ch, p, c1, c2

\* One channel and one pattern that matches it.
OnePattern == [q \in {p} |-> {ch}]

SessionBounds == [c \in {c1, c2} |-> IF c = c1 THEN 2 ELSE 1]

\* Two connections that subscribe, unsubscribe and disconnect; and one that
\* subscribes again and switches to RESP3 while messages overflow its queue.
TwoScenarios ==
    {[open |-> {c1, c2}, hello |-> {}, cmds |-> 3, msgs |-> 0],
     [open |-> {c1}, hello |-> {3}, cmds |-> 3, msgs |-> 3]}
=============================================================================
