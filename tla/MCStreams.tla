------------------------------ MODULE MCStreams ------------------------------
(* Small instances of Streams for TLC. *)
EXTENDS Streams

CONSTANTS g1, g2, bob

NoTrim == [minId |-> MinStreamID, maxLen |-> -1, approx |-> FALSE,
           limit |-> 0, hasExplicitLimit |-> FALSE]

\* XTRIM: MINID, MAXLEN exact and approximate, with and without LIMIT.
XTrims ==
    {[NoTrim EXCEPT !.minId = <<1, 0>>], [NoTrim EXCEPT !.maxLen = 0],
     [NoTrim EXCEPT !.maxLen = 1], [NoTrim EXCEPT !.maxLen = 1, !.approx = TRUE],
     [NoTrim EXCEPT !.maxLen = 0, !.approx = TRUE, !.limit = 1, !.hasExplicitLimit = TRUE]}

\* XADD: also both strategies, and a LIMIT without "~".
XAddTrims ==
    {[NoTrim EXCEPT !.maxLen = 1],
     [NoTrim EXCEPT !.minId = <<1, 0>>, !.maxLen = 1],
     [NoTrim EXCEPT !.minId = <<1, 0>>, !.limit = 1, !.hasExplicitLimit = TRUE]}

UsableIDs == StreamID \ {MinStreamID}

TwoIDs == {<<0, 1>>, <<1, 0>>}

Base ==
    [cmds |-> {}, ids |-> TwoIDs, iids |-> {}, trims |-> {}, groups |-> {g1},
     consumers |-> {bob}, modes |-> {"KEEPREF"}, inFlight |-> 1]

\* The log and its producers.
LogWork ==
    [Base EXCEPT !.cmds = {"XADD", "XTRIM", "XDEL", "XDELEX", "XSETID", "XIDMPRECORD",
                           "XCFGSET", "DEL", "DELEX"},
                 !.ids = UsableIDs, !.iids = IIDs, !.trims = AddTrims, !.groups = {}]

\* Two clients race on a group.
RaceWork ==
    [Base EXCEPT !.cmds = {"XADD", "XDEL", "XGROUP CREATE", "XGROUP DESTROY", "XGROUP SETID",
                           "XGROUP DELCONSUMER", "XREADGROUP", "XACK", "XAUTOCLAIM"},
                 !.inFlight = 2]

\* Two consumers take entries from each other.
ClaimWork ==
    [Base EXCEPT !.cmds = {"XADD", "XDEL", "XGROUP CREATE", "XGROUP DELCONSUMER", "XREADGROUP",
                           "XACK", "XCLAIM", "XAUTOCLAIM"},
                 !.consumers = Consumers]

\* Two groups and the reference modes.
RefWork ==
    [Base EXCEPT !.cmds = {"XADD", "XTRIM", "XDELEX", "XGROUP CREATE", "XREADGROUP", "XACK",
                           "XACKDEL"},
                 !.trims = AddTrims, !.groups = {g1, g2}, !.modes = RefModes]

\* The key is deleted under its group.
DelWork ==
    [Base EXCEPT !.cmds = {"XADD", "XTRIM", "XGROUP CREATE", "XGROUP DESTROY", "XREADGROUP",
                           "XACK", "XCLAIM", "XAUTOCLAIM", "DEL", "DELEX"}]

ClientSymmetry == Permutations(Clients)

AllWork == {LogWork, RaceWork, ClaimWork, RefWork, DelWork}
=============================================================================
