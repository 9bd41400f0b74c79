----------------------------- MODULE MCStrings ------------------------------
(***************************************************************************)
(* Strings, bitmaps, keys and deadlines on two keys.  A workload is the    *)
(* set of commands of a behaviour and the keyspaces it starts from.        *)
(***************************************************************************)
EXTENDS KeyCommands

MCNames == {"k1", "k2"}
MCTexts == {<<Digit(7)>>, <<0, 15>>}
MCDeltas == {-1, 3}
MCBitOffsets == {0, 6}
MCFields ==
    LET sc(op, s, n, o, x, f) ==
          [op |-> op, signed |-> s, bits |-> n, o |-> o, x |-> x, overflow |-> f]
    IN  {sc("get", TRUE, 3, 2, 0, "wrap"), sc("set", FALSE, 2, 2, 5, "wrap"),
         sc("incrby", TRUE, 2, 3, 1, "sat"), sc("incrby", FALSE, 2, 3, 3, "fail")}

Fresh(keys) == [k \in MCNames |-> IF k \in DOMAIN keys THEN keys[k] ELSE Missing]
Str(s) == [Missing EXCEPT !.kind = "scalar", !.tag = "string", !.scalar = raw(s)]
Lst == [Missing EXCEPT !.kind = "ordered", !.tag = "list", !.order = <<1>>]
Strm == [Missing EXCEPT !.kind = "ordered", !.tag = "stream", !.order = <<1>>]
Hsh == [Missing EXCEPT !.kind = "keyed", !.tag = "hash", !.elems = (1 :> 1) @@ (2 :> 0),
                       !.left = (1 :> 2)]
Bmp == [Missing EXCEPT !.kind = "keyed", !.tag = "bitmap", !.elems = (0 :> 1) @@ (6 :> 0)]
Over == [Str(<<9>>) EXCEPT !.kind = "keyed", !.elems = (3 :> 1)]
Dies(v, t) == [v EXCEPT !.exp = t]
NoSubs == {[k \in MCNames |-> NoSub]}
AllSubs == [MCNames -> [groups: SUBSET Groups, producers: {FALSE}]]

Work(cmds, dbs, subs) == [cmds |-> cmds, dbs |-> dbs, subs |-> subs]
Words(n) == UNION {[1 .. i -> {1, 2}] : i \in 0 .. n}

Workloads == <<
    Work({"SET", "SETNX", "SETEX", "GETSET", "GETDEL", "GETEX", "TIME"},
         {Fresh("k1" :> Lst), Fresh("k2" :> Dies(Lst, 1))}, NoSubs),
    Work({"MSET", "MSETNX", "MSETEX", "GETDEL", "TIME"},
         {Fresh("k1" :> Lst), Fresh("k2" :> Dies(Str(<<0, 15>>), 1))}, NoSubs),
    Work({"APPEND", "SETRANGE", "GETDEL", "TIME"},
         {Fresh("k1" :> Dies(Str(<<3>>), 2) @@ "k2" :> Lst)}, NoSubs),
    Work({"INCRBY", "DECRBY", "INCRBYFLOAT", "TIME"},
         {Fresh("k1" :> v @@ "k2" :> Lst) : v \in
            {Missing, Dies(Str(<<Minus, Digit(8)>>), 2), Str(<<Digit(7)>>), Str(<<Minus>>),
             Str(<<Digit(1), Point, Digit(5)>>)}}, NoSubs),
    Work({"SETBIT", "BITFIELD", "GETDEL", "TIME"},
         {Fresh("k1" :> v @@ "k2" :> Lst) : v \in {Missing, Dies(Str(<<9>>), 1)}}, NoSubs),
    Work({"BITOP", "GETDEL"},
         {Fresh("k1" :> Bmp @@ "k2" :> v) : v \in {Missing, Over, Dies(Lst, 1)}}, NoSubs),
    Work({"RENAME", "COPY", "PERSIST", "PEXPIRE", "PEXPIREAT"},
         {Fresh("k1" :> Dies(Over, 1) @@ "k2" :> v) : v \in {Missing, Bmp}}, NoSubs),
    Work({"DEL", "DELEX", "RENAME", "RENAMENX", "COPY", "EXPIRE", "EXPIREAT", "PERSIST", "TIME"},
         {Fresh("k1" :> v @@ "k2" :> w) : v, w \in {Missing, Dies(Str(<<3>>), 1), Strm, Hsh}},
         NoSubs),
    Work({"DEL", "RENAME", "RENAMENX", "COPY", "SETEX"},
         {Fresh("k1" :> v @@ "k2" :> w) : v, w \in {Missing, Str(<<3>>), Strm}}, AllSubs),
    Work({}, {Fresh("k1" :> Str(a) @@ "k2" :> Str(b)) : a \in Words(4), b \in Words(4)}, NoSubs)>>

Init ==
    \E i \in DOMAIN Workloads :
        /\ work = Workloads[i].cmds
        /\ db \in Workloads[i].dbs
        /\ sub \in Workloads[i].subs
        /\ last = Did("init", <<>>, Keep)

Next == BitmapNext \/ StringNext \/ KeyNext \/ Tick

Spec == Init /\ [][Next]_kvars
=============================================================================
