------------------------ MODULE LbsDynamodbInvariant ------------------------
(***************************************************************************)
(* The inductive invariant of LbsDynamodb, DynInv, and what a step does    *)
(* that keeps it, GoodStep.                                                *)
(*                                                                         *)
(* Why the properties need it: a block is acknowledged when its process    *)
(* learns that lastblk is stored, and by then another process may own the  *)
(* metadata.  That no takeover loses the block or gives its number away    *)
(* follows from what every compare-and-swap under way says, also one that  *)
(* a process sent before it was replaced or died, or sent twice: IcasInv.  *)
(***************************************************************************)
EXTENDS LbsDynamodb, SetFacts

(***************************************************************************)
(* Types                                                                   *)
(***************************************************************************)
\* The metadata item.
ItemRec == [nextblk : Nat, deletedto : Nat, generation : Nat,
            lastblk : Nat \cup {-1}, pid : Nat]

\* The phases of a process that owns the metadata, or did when it last heard.
Working == {"running", "stopping"}

\* The requests that a handler may make.
Outs ==
    ({"getmd"} \X {<<>>}) \cup ({"icas"} \X (ItemRec \X ItemRec))
    \cup ({"put", "delete", "get", "getc"} \X {<<b>> : b \in Nat})

\* A process whose requests to make are in O; one in the middle of a handler.
ProcWith(O) ==
    [phase : {"off", "reading", "claiming", "running", "stopping", "done", "exited"},
     pid : Nat, stored : MTuple, storing : MTuple, latest : MTuple,
     write_inprogress : BOOLEAN, write_wanted : BOOLEAN,
     nextblk : Nat, lastblk : Nat \cup {-1},
     append : [old : Nat, nblks : Nat, nblks_left : Nat],
     gets : SUBSET [blk : Nat, due : BOOLEAN],
     N : Nat, M : Nat, flushed : Nat, ip : SUBSET Nat, shuttingdown : 0 .. 2,
     shutdown : BOOLEAN, conn : {"none", "accepting", "open", "dying"}, out : O]

Handling == ProcWith(SUBSET Outs)

(***************************************************************************)
(* What holds of a process by itself                                       *)
(***************************************************************************)
\* The callback that the next metadata write will have, that the one in progress
\* has; the tuple last sent.
Later(s) == s.latest.cb
Now(s) == IF s.write_inprogress THEN s.storing.cb ELSE NoCallback
Sent(s) == IF s.write_inprogress THEN s.storing ELSE s.stored

\* The metadata write that an APPEND waits for.
Stage(s) == IF Later(s) # NoCallback THEN Later(s) ELSE Now(s)

\* No field of the tuple or item u is behind that of t.
Upto(t, u) ==
    t.nextblk <= u.nextblk /\ t.deletedto <= u.deletedto /\ t.lastblk <= u.lastblk

\* The three tuples of struct metadata follow each other, and an APPEND moves
\* nextblk on when its write is stored.
Tuples(s) ==
    /\ s.pid > 0
    /\ s.latest.generation = Sent(s).generation + 1 /\ Upto(Sent(s), s.latest)
    /\ s.write_inprogress => /\ s.storing.generation = s.stored.generation + 1
                             /\ Upto(s.stored, s.storing)
    /\ s.latest.nextblk = s.nextblk /\ s.latest.lastblk = s.lastblk
    /\ s.lastblk < s.nextblk
    /\ s.stored.lastblk < s.stored.nextblk /\ Sent(s).lastblk < Sent(s).nextblk
    /\ Sent(s).nextblk = IF Later(s) = "nextblk" THEN s.append.old ELSE s.nextblk
    /\ s.stored.nextblk = IF Stage(s) = "nextblk"
                          THEN s.append.old ELSE s.nextblk

\* One APPEND at a time, and one callback for it: what the assertions on
\* callback_state and nblks_left need.
Appending(s) ==
    /\ s.append.nblks <= MaxAppend /\ s.append.nblks_left <= s.append.nblks
    /\ Later(s) = NoCallback \/ Now(s) = NoCallback
    /\ s.append.nblks = 0 =>
          s.append = NoAppend /\ Stage(s) = NoCallback
    /\ s.append.nblks > 0 => s.append.old + s.append.nblks = s.nextblk
    /\ Stage(s) = "nextblk" => s.append.nblks_left = s.append.nblks
    /\ Stage(s) = "lastblk" => s.append.nblks_left = 0
    /\ Now(s) = "lastblk" => s.storing.lastblk = s.lastblk

\* The limits of the deleter.
Limits(s) ==
    /\ IsFiniteSet(s.ip) /\ Cardinality(s.ip) <= MAXINPROGRESS
    /\ s.M <= s.stored.deletedto + MAXUNRECORDED

\* The deleter: what is in progress lies between deletedto and M, and N.  When it
\* waits for its last write, that write is on its way.
Deleting(s) ==
    /\ Limits(s)
    /\ \A b \in s.ip : b < s.M /\ b < s.N /\ s.latest.deletedto <= b
    /\ s.flushed <= s.latest.deletedto /\ s.latest.deletedto <= s.M
    /\ s.phase = "running" <=> s.shuttingdown = 0
    /\ s.shuttingdown = 2 =>
          /\ s.ip = {} /\ s.latest.deletedto = s.M
          /\ \/ s.stored.deletedto = s.M \/ s.write_wanted
             \/ s.write_inprogress /\ s.storing.deletedto = s.M

\* The requests that the handler has made so far are those of its process.
Asking(s) ==
    \A o \in s.out :
        /\ o[1] \in {"icas", "put", "delete", "get", "getc"}
        /\ o[1] = "icas" =>
              /\ s.write_inprogress
              /\ o[2] = <<Item(s.stored, s.pid), Item(s.storing, s.pid)>>
        /\ o[1] = "put" => /\ s.append.old <= o[2][1] /\ o[2][1] < s.nextblk
        /\ o[1] = "delete" => o[2][1] \in s.ip

\* What writemetadata needs of a process, and what every handler keeps.
Core(s) == Tuples(s) /\ Appending(s) /\ Deleting(s) /\ Asking(s)

\* The deleter's last flush is stored, or will be.
Flushed(s) ==
    \/ s.flushed <= s.stored.deletedto \/ s.write_wanted
    \/ s.write_inprogress /\ s.flushed <= s.storing.deletedto

Local(s) == Core(s) /\ Flushed(s)

\* The same when no handler is at work.
AtRest(s) ==
    /\ s.write_wanted => s.write_inprogress
    /\ Later(s) # NoCallback => s.write_wanted
    /\ s.phase = "running" => s.M >= s.N \/ s.ip # {} \/ s.write_inprogress
    /\ s.phase = "stopping" => s.shutdown \/ s.ip # {} \/ s.write_inprogress

\* A process that does not own the metadata yet.
Fresh(s) ==
    /\ ~s.write_inprogress /\ ~s.write_wanted /\ s.append = NoAppend /\ s.gets = {}
    /\ s.N = 0 /\ s.M = 0 /\ s.flushed = 0 /\ s.ip = {} /\ s.shuttingdown = 0
    /\ s.conn = "none"
    /\ s.phase = "off" => s.pid = 0
    /\ s.phase = "claiming" => s.pid > 0 /\ s.stored.cb = NoCallback

\* What holds of a process between two handlers.
OneProc(s) ==
    /\ Limits(s) /\ s.append.nblks_left <= MaxAppend /\ s.ip \subseteq Blocks
    /\ s.conn # "none" => s.phase = "running"
    /\ s.phase \in {"off", "reading", "claiming"} => Fresh(s)
    /\ s.phase \in Working =>
          /\ Local(s) /\ AtRest(s) /\ s.nextblk <= run.maxblk
          /\ s.N <= freed /\ s.N <= run.maxblk

ProcInv == \A p \in Daemons : OneProc(proc[p])

(***************************************************************************)
(* Messages                                                                *)
(***************************************************************************)
\* What a request carries.
ArgOK(op, arg) ==
    /\ op \in {"getmd", "icas", "put", "delete", "get", "getc"}
    /\ op = "icas" => arg \in ItemRec \X ItemRec
    /\ op \in {"put", "delete", "get", "getc"} => arg = <<arg[1]>> /\ arg[1] \in Nat

\* The types of the variables.
Types ==
    /\ md \in ItemRec /\ pids \in Nat /\ freed \in Nat /\ run \in Run
    /\ data \subseteq Blocks /\ acked \subseteq Blocks /\ written \subseteq Blocks
    /\ denied \subseteq Nat
    /\ proc \in [Daemons -> ProcWith({{}})]
    /\ \A m \in net :
          /\ m = [p |-> m.p, op |-> m.op, arg |-> m.arg, live |-> m.live]
          /\ m.p \in Daemons /\ m.live \in BOOLEAN /\ ArgOK(m.op, m.arg)
    /\ \A a \in ans : a.p \in Daemons /\ ArgOK(a.op, a.arg)

\* A process has at most one request of a kind under way: one about the
\* metadata, one PUT and one DELETE of a block, one read of it.
SameKind(op1, arg1, op2, arg2) ==
    \/ op1 \in {"icas", "getmd"} /\ op2 \in {"icas", "getmd"}
    \/ /\ arg1 = arg2
       /\ \/ op1 = op2 /\ op1 \in {"put", "delete"}
          \/ op1 \in {"get", "getc"} /\ op2 \in {"get", "getc"}

Twins(m, n) == m.p = n.p /\ SameKind(m.op, m.arg, n.op, n.arg)

Alone ==
    /\ \A m, n \in net : m.live /\ n.live /\ Twins(m, n) => m = n
    /\ \A a, b \in ans : Twins(a, b) => a = b
    /\ \A m \in net : \A a \in ans : m.live => ~Twins(m, a)

(***************************************************************************)
(* The metadata                                                            *)
(***************************************************************************)
\* A later item has replaced x, for ever.
Past(x) ==
    \/ x.generation < md.generation
    \/ x.generation = md.generation /\ x.pid < md.pid

\* y claims the item x; y is a write by the owner of x.
Claim(x, y) == y = [x EXCEPT !.pid = y.pid] /\ x.pid < y.pid
Write(x, y) == y.pid = x.pid /\ y.generation = x.generation + 1 /\ Upto(x, y)

\* What an item says is true: its blocks exist, and what it says is deleted was
\* deleted, and was to be freed.
Good(x) ==
    /\ x.lastblk < x.nextblk /\ x.nextblk <= run.maxblk /\ x.pid <= pids
    /\ \A b \in 0 .. x.deletedto - 1 : b \in deleted /\ b < freed

\* The process waits for the compare-and-swap of x by y.
Asked(s, x, y) ==
    \/ /\ s.phase \in Working /\ s.write_inprogress
       /\ x = Item(s.stored, s.pid) /\ y = Item(s.storing, s.pid)
    \/ /\ s.phase = "claiming" /\ ~s.write_inprogress
       /\ Claim(x, y) /\ y = Item(s.stored, s.pid)

\* It is the last one that the process sent, and it may be stored yet.
Current(s, x, y) ==
    IF s.write_inprogress
    THEN x = Item(s.stored, s.pid) /\ y = Item(s.storing, s.pid)
    ELSE s.phase \notin Working /\ y = Item(s.stored, s.pid)

\* A compare-and-swap under way, whether its process waits for it, has given it
\* up or is gone: it can only be stored if it is the last one of its process.
IcasMsg(m) ==
    LET x == m.arg[1]
        y == m.arg[2]
    IN /\ Claim(x, y) \/ Write(x, y)
       /\ Good(x) /\ Good(y) /\ y.pid > 0
       /\ \A q \in Daemons \ {m.p} : proc[q].pid # y.pid
       /\ y.pid <= proc[m.p].pid
       /\ Past(x) \/ y.pid < proc[m.p].pid \/ Current(proc[m.p], x, y)
       /\ m.live => Asked(proc[m.p], x, y)

\* An answer to one: if it was stored, the item is that one or has moved on.
IcasAns(a) ==
    LET x == a.arg[1]
        y == a.arg[2]
    IN /\ Asked(proc[a.p], x, y) /\ Good(y) /\ a.res \in BOOLEAN
       /\ a.res => (y = md \/ Past(y)) /\ Upto(y, md)

\* The compare-and-swaps.
IcasInv ==
    /\ \A m \in net : m.op = "icas" => IcasMsg(m)
    /\ \A a \in ans : a.op = "icas" => IcasAns(a)

\* The reads of the metadata.
ReadInv ==
    /\ \A m \in net : m.op = "getmd" /\ m.live => proc[m.p].phase = "reading"
    /\ \A a \in ans : a.op = "getmd" =>
        /\ proc[a.p].phase = "reading" /\ a.res \in ItemRec /\ Good(a.res)

\* Process IDs are unique, and the process that the item names knows the item, or
\* has the write of it in progress.
OwnerInv ==
    /\ Good(md)
    /\ \A p \in Daemons : proc[p].pid <= pids
    /\ \A p, q \in Daemons : proc[p].pid = proc[q].pid /\ proc[p].pid > 0 => p = q
    /\ \A p \in Daemons : LET s == proc[p] IN
          md.pid = s.pid /\ s.pid > 0 =>
              \/ md = Item(s.stored, s.pid)
              \/ s.write_inprogress /\ md = Item(s.storing, s.pid)

(***************************************************************************)
(* The blocks                                                              *)
(***************************************************************************)
\* The DELETEs below M are in progress or done.
DoneBelow(s) == \A b \in 0 .. s.M - 1 : b \in s.ip \/ (b \in deleted /\ b < freed)

\* The DELETEs, also those of a process that is gone.
DeleteInv ==
    /\ \A p \in Daemons : proc[p].phase \in Working => DoneBelow(proc[p])
    /\ \A m \in net : m.op = "delete" =>
          /\ m.arg[1] < freed
          /\ m.live => proc[m.p].phase \in Working /\ m.arg[1] \in proc[m.p].ip
    /\ \A a \in ans : a.op = "delete" =>
          /\ a.arg[1] < freed /\ a.arg[1] \in deleted
          /\ proc[a.p].phase \in Working /\ a.arg[1] \in proc[a.p].ip

\* The APPEND of the process waits for its PUTs; the blocks that it waits for; the
\* blocks of the APPEND.
Putting(s) ==
    s.phase \in Working /\ s.append.nblks > 0 /\ Stage(s) = NoCallback

Owed(p) ==
    {b \in Blocks : \/ \E m \in net : m.p = p /\ m.op = "put" /\ m.live /\ m.arg[1] = b
                    \/ \E a \in ans : a.p = p /\ a.op = "put" /\ a.arg[1] = b}

InRange(s, b) == s.append.old <= b /\ b < s.nextblk

\* p waits for as many PUTs as it should, and what it has PUT is there.
PutProc(p) ==
    /\ Putting(proc[p]) => /\ proc[p].append.nblks_left > 0
                           /\ proc[p].append.nblks_left = Cardinality(Owed(p))
    /\ proc[p].phase \in Working /\ proc[p].append.nblks > 0
          /\ Stage(proc[p]) # "nextblk" =>
       \A b \in Blocks : InRange(proc[p], b) =>
          \/ b \in data \/ b < freed
          \/ \E m \in net : m.p = p /\ m.op = "put" /\ m.live /\ m.arg[1] = b

\* The PUTs, also those of a process that is gone.
PutInv ==
    /\ \A m \in net : m.op = "put" =>
          /\ m.arg[1] \in Blocks
          /\ m.live => Putting(proc[m.p]) /\ InRange(proc[m.p], m.arg[1])
    /\ \A a \in ans : a.op = "put" =>
          /\ Putting(proc[a.p]) /\ InRange(proc[a.p], a.arg[1])
          /\ a.arg[1] \in data \/ a.arg[1] < freed
    /\ \A p \in Daemons : PutProc(p)

\* An acknowledged block is there, and the item and its owner say so.  So they
\* will if a process that was replaced learns that its last write was stored.
AckedInv ==
    /\ \A b \in acked : (b >= freed => b \in data) /\ b <= md.lastblk
    /\ \A p \in Daemons : md.pid = proc[p].pid /\ proc[p].pid > 0 =>
          /\ \A b \in acked : b <= proc[p].stored.lastblk
          /\ \A a \in ans : a.op = "icas" /\ a.p # p /\ a.res =>
                a.arg[2].lastblk <= proc[p].stored.lastblk

\* p may write the blocks of its APPEND, or will know that it may.
Granted(p) ==
    LET s == proc[p] IN
    /\ s.phase \in Working /\ s.write_inprogress /\ s.storing.cb = "nextblk"
    /\ \/ md = Item(s.storing, s.pid)
       \/ \E a \in ans : a.p = p /\ a.op = "icas" /\ a.res

\* The numbers of the blocks that were PUT, and of those granted to processes,
\* are used up, and no two processes are granted the same.
WrittenInv ==
    /\ \A b \in written : b < md.nextblk
    /\ \A p \in Daemons : Granted(p) =>
          /\ proc[p].nextblk <= md.nextblk
          /\ \A b \in written : ~InRange(proc[p], b)
          /\ \A q \in Daemons \ {p} : Granted(q) =>
                \/ proc[p].nextblk <= proc[q].append.old
                \/ proc[q].nextblk <= proc[p].append.old

\* The weak and the consistent read of a block.
Reads == {"get", "getc"}

\* A read is for a GET; a consistent read that finds nothing is of a block to free.
GetMsg(m) == proc[m.p].phase \in Working /\ \E g \in proc[m.p].gets : g.blk = m.arg[1]

GetAns(a) ==
    /\ proc[a.p].phase \in Working /\ a.res \in BOOLEAN
    /\ \E g \in proc[a.p].gets : g.blk = a.arg[1]
    /\ a.op = "getc" /\ ~a.res =>
          \A g \in proc[a.p].gets : g.blk = a.arg[1] /\ g.due => g.blk < freed

\* The GETs in progress.  One that is due came after the acknowledgment.
GetProc(s) ==
    /\ \A g \in s.gets : g.due => g.blk \in acked
    /\ \A g, h \in s.gets : g.blk = h.blk => g = h

\* The GETs.
GetInv ==
    /\ \A m \in net : m.op \in Reads /\ m.live => GetMsg(m)
    /\ \A a \in ans : a.op \in Reads => GetAns(a)
    /\ \A p \in Daemons : proc[p].phase \in Working => GetProc(proc[p])
    /\ \A b \in denied : b < freed

\* A request of p, or an answer to it, is under way; one for the block b.
Awaits(p, op) ==
    (\E m \in net : m.p = p /\ m.live /\ m.op = op) \/ (\E a \in ans : a.p = p /\ a.op = op)

AwaitsBlock(p, ops, b) ==
    \/ \E m \in net : m.p = p /\ m.live /\ m.op \in ops /\ m.arg = <<b>>
    \/ \E a \in ans : a.p = p /\ a.op \in ops /\ a.arg = <<b>>

\* What a process waits for is under way.
WaitProc(p) ==
    /\ proc[p].phase = "reading" => Awaits(p, "getmd")
    /\ proc[p].phase = "claiming" => Awaits(p, "icas")
    /\ proc[p].phase \in Working =>
          /\ proc[p].write_inprogress => Awaits(p, "icas")
          /\ \A b \in proc[p].ip : AwaitsBlock(p, {"delete"}, b)
          /\ \A g \in proc[p].gets : AwaitsBlock(p, Reads, g.blk)

WaitInv == \A p \in Daemons : WaitProc(p)

(***************************************************************************)
(* The invariant                                                           *)
(***************************************************************************)
DynInv ==
    /\ Types /\ ProcInv /\ Alone /\ IcasInv /\ ReadInv /\ OwnerInv /\ DeleteInv
    /\ PutInv /\ AckedInv /\ WrittenInv /\ GetInv /\ WaitInv

\* What MetadataForward says of a step, and what every step is shown to do.
Onward ==
    /\ md' # md =>
            \/ md' = [md EXCEPT !.pid = md'.pid]
            \/ /\ md'.pid = md.pid
               /\ md'.generation = md.generation + 1
               /\ md'.nextblk >= md.nextblk /\ md'.deletedto >= md.deletedto
               /\ md'.lastblk >= md.lastblk
    /\ \A m \in net' \ net : m.op = "put" /\ m.live => m.arg[1] \notin written

\* A step that keeps the invariant and moves the metadata on.
GoodStep == DynInv' /\ Onward

(***************************************************************************)
(* What the handlers do                                                    *)
(***************************************************************************)
\* What a function that a handler calls keeps of the process: s before, t after.
Kept(s, t) ==
    /\ t.phase = s.phase /\ t.pid = s.pid /\ t.conn = s.conn /\ t.gets = s.gets
    /\ t.nextblk = s.nextblk /\ t.lastblk = s.lastblk /\ t.append = s.append
    /\ t.N = s.N /\ t.stored = s.stored /\ Stage(t) = Stage(s)
    /\ \/ t.write_inprogress = s.write_inprogress /\ t.storing = s.storing
       \/ ~s.write_inprogress /\ t.write_inprogress

\* What it asks for: a metadata write if none is in progress, and new DELETEs.
Asks(s, t) ==
    /\ s.out \subseteq t.out
    /\ \A o \in t.out \ s.out :
          \/ o[1] = "icas" /\ ~s.write_inprogress
          \/ \E b \in t.ip \ s.ip : o = <<"delete", <<b>>>>
    /\ t.write_inprogress /\ ~s.write_inprogress =>
          <<"icas", <<Item(t.stored, t.pid), Item(t.storing, t.pid)>>>> \in t.out
    /\ s.ip \subseteq t.ip /\ s.M <= t.M
    /\ \A b \in s.M .. t.M - 1 : b \in t.ip /\ b \notin s.ip
    /\ \A b \in t.ip \ s.ip : <<"delete", <<b>>>> \in t.out /\ b >= s.M

\* What poke and writemetadata make of a process.
Poked(s, t) ==
    /\ t \in Handling /\ Local(t) /\ Kept(s, t) /\ Asks(s, t)
    /\ (Later(s) # NoCallback => s.write_wanted) => (Later(t) # NoCallback => t.write_wanted)
    /\ t.write_wanted => t.write_inprogress \/ s.write_wanted
    /\ t.phase = "running" =>
          t.M >= t.N \/ t.ip # {} \/ t.write_inprogress \/ t.write_wanted
    /\ t.phase = "stopping" =>
          t.shutdown \/ t.ip # {} \/ t.write_inprogress \/ t.write_wanted

\* The state u of a process after the handler that leaves it in state t.
Settled(t, u) ==
    /\ u.phase = t.phase /\ u.pid = t.pid /\ u.conn = t.conn /\ u.gets = t.gets
    /\ u.nextblk = t.nextblk /\ u.lastblk = t.lastblk /\ u.append = t.append
    /\ u.N = t.N /\ u.M = t.M /\ u.ip = t.ip /\ u.flushed = t.flushed
    /\ u.shuttingdown = t.shuttingdown /\ u.shutdown = t.shutdown
    /\ u.stored = t.stored /\ u.storing = t.storing /\ u.latest = t.latest
    /\ u.write_inprogress = t.write_inprogress /\ u.write_wanted = t.write_wanted
    /\ u.out = {}

\* The state s0 that an answer or a request makes of the process s, where it concerns
\* the deleter or the connection.
Resumed(s, s0) ==
    /\ s0.pid = s.pid /\ s0.nextblk = s.nextblk /\ s0.lastblk = s.lastblk
    /\ s0.append = s.append /\ s0.M = s.M /\ s0.flushed = s.flushed
    /\ s0.stored = s.stored /\ s0.storing = s.storing /\ s0.latest = s.latest
    /\ s0.write_inprogress = s.write_inprogress /\ s0.write_wanted = s.write_wanted
    /\ s0.ip \subseteq s.ip /\ s0.N >= s.N
    /\ \/ s0.phase = s.phase /\ s0.shuttingdown = s.shuttingdown
       \/ s0.phase = "stopping" /\ s0.shuttingdown = 1

\* The PUTs that callback_append_put_nextblk makes.
NewPuts(s) == {<<"put", <<b>>>> : b \in s.append.old .. s.append.old + s.append.nblks - 1}

\* A handler of p that leaves p in state t, with its requests in t.out, and takes
\* the answers A.
Step(p, t, A) ==
    /\ p \in Daemons /\ t \in Handling
    /\ proc' \in [Daemons -> ProcWith({{}})]
    /\ \A q \in Daemons \ {p} : proc'[q] = proc[q]
    /\ Settled(t, proc'[p])
    /\ net \subseteq net'
    /\ \A m \in net' \ net : \E o \in t.out : m = Request(p, o[1], o[2])
    /\ \A o \in t.out : Request(p, o[1], o[2]) \in net'
    /\ ans' = ans \ A /\ \A a \in A : a.p = p
    /\ written' = written \cup {o[2][1] : o \in {r \in t.out : r[1] = "put"}}
    /\ md' = md /\ data' = data /\ deleted' = deleted
    /\ run' \in Run /\ run'.maxblk = run.maxblk
    /\ pids' \in Nat /\ pids' >= pids /\ freed' \in Nat /\ freed' >= freed
=============================================================================
