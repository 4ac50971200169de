---------------------------- MODULE LbsDynamodb ----------------------------
(***************************************************************************)
(* The block store that keeps each block in a DynamoDB item                *)
(* (lbs-dynamodb/): state.c, metadata.c, deleteto.c and dispatch.c, for    *)
(* any number of processes that take the metadata over from each other.    *)
(*                                                                         *)
(* A handler is an operator from the state of a process to its state, in   *)
(* which "out" collects the requests that the handler makes.               *)
(*                                                                         *)
(* DynamoDB, and the dynamodb-kv daemon in front of it, serve requests in  *)
(* any order.  A request that times out is made again, and what became of  *)
(* the first attempt is not known: it may be served much later, even when  *)
(* the process has died.                                                   *)
(***************************************************************************)
EXTENDS Integers, FiniteSets, FiniteSetsExt

CONSTANTS
    Daemons,        \* processes, each of which starts at most once
    MAXINPROGRESS,  \* DELETEs in progress at once
    MAXUNRECORDED,  \* DELETEs to replay after a crash
    MaxAppend,      \* bound: blocks in an APPEND
    Runs            \* what may happen: a set of the records in Run

\* The processes started with -1; and the bounds: what the client of a process
\* does, whether a process starts and may die, the block numbers, and how many
\* GETs, lost connections and requests made again there are.
Run == [opt_1 : SUBSET Daemons,
        does : [Daemons -> SUBSET {"start", "get", "append", "free", "drop", "crash"}],
        maxblk : Nat, get : Nat, drop : Nat, retry : Nat]

ASSUME LbsDynamodbAssumption ==
    /\ MAXINPROGRESS \in Nat \ {0} /\ MAXUNRECORDED \in Nat \ {0}
    /\ MaxAppend \in Nat \ {0}
    /\ Runs \subseteq Run

VARIABLES
    md,         \* the item "metadata"
    data,       \* the numbers of the blocks that are in the data table
    net,        \* requests under way
    ans,        \* answers under way
    proc,       \* the processes
    run,        \* the options of the processes, and what may still happen
    pids,       \* process IDs drawn so far
    acked,      \* blocks of the APPENDs that were answered
    freed,      \* the highest block number of a FREE
    written,    \* blocks that were ever PUT
    deleted,    \* blocks for which a DELETE was ever served
    denied      \* blocks a GET did not find though they were acked before

dynamo == <<md, data>>
ghosts == <<acked, freed, written, deleted, denied>>
vars == <<md, data, net, ans, proc, run, pids, ghosts>>

Blocks == 0 .. run.maxblk - 1

\* What struct mtuple says of the block numbers; cb is callback_state.
NoCallback == "none"
Tuple(n, dt, g, l, cb) ==
    [nextblk |-> n, deletedto |-> dt, generation |-> g, lastblk |-> l, cb |-> cb]

\* The 104 bytes of the item, but for the item size and the table ID.
Item(t, pid) ==
    [nextblk |-> t.nextblk, deletedto |-> t.deletedto,
     generation |-> t.generation, lastblk |-> t.lastblk, pid |-> pid]

\* The item lbs-dynamodb-init writes; its lastblk is 2^64 - 1.
NewTuple == Tuple(0, 0, 0, -1, NoCallback)

NoAppend == [old |-> 0, nblks |-> 0, nblks_left |-> 0]

Off == [phase |-> "off", pid |-> 0,
        stored |-> NewTuple, storing |-> NewTuple, latest |-> NewTuple,
        write_inprogress |-> FALSE, write_wanted |-> FALSE,
        nextblk |-> 0, lastblk |-> -1, append |-> NoAppend, gets |-> {},
        N |-> 0, M |-> 0, flushed |-> 0, ip |-> {}, shuttingdown |-> 0,
        shutdown |-> FALSE, conn |-> "none", out |-> {}]

Init ==
    /\ md = Item(NewTuple, 0)
    /\ data = {} /\ net = {} /\ ans = {}
    /\ proc = [p \in Daemons |-> Off]
    /\ run \in Runs /\ pids = 0
    /\ acked = {} /\ freed = 0 /\ written = {} /\ deleted = {} /\ denied = {}

\* A request of the process p; live says that p waits for its answer.
Request(p, op, arg) == [p |-> p, op |-> op, arg |-> arg, live |-> TRUE]

\* The process p is in state s after a handler, which took the answers a.
Become(p, s, a) ==
    /\ proc' = [proc EXCEPT ![p] = [s EXCEPT !.out = {}]]
    /\ net' = net \cup {Request(p, o[1], o[2]) : o \in s.out}
    /\ ans' = ans \ a
    /\ written' = written \cup {o[2][1] : o \in {r \in s.out : r[1] = "put"}}

\* The process p is gone, and so is whoever waits for its answers.
Gone(p, phase) ==
    /\ proc' = [proc EXCEPT ![p].phase = phase, ![p].conn = "none"]
    /\ net' = {[m EXCEPT !.live = @ /\ m.p # p] : m \in net}
    /\ ans' = {a \in ans : a.p # p}
    /\ UNCHANGED written

(***************************************************************************)
(* metadata.c                                                              *)
(***************************************************************************)
writemetadata(s) ==
    IF s.write_inprogress THEN [s EXCEPT !.write_wanted = TRUE]
    ELSE [s EXCEPT !.write_inprogress = TRUE, !.write_wanted = FALSE,
                   !.storing = s.latest,
                   !.latest.cb = NoCallback, !.latest.generation = @ + 1,
                   !.out = @ \cup {<<"icas", <<Item(s.stored, s.pid),
                                               Item(s.latest, s.pid)>>>>}]

metadata_nextblk_write(s, n) ==
    writemetadata([s EXCEPT !.latest.nextblk = n, !.latest.cb = "nextblk"])

metadata_lastblk_write(s, n) ==
    writemetadata([s EXCEPT !.latest.lastblk = n, !.latest.cb = "lastblk"])

(***************************************************************************)
(* deleteto.c: ip is the list of the DELETEs in progress, which is sorted. *)
(***************************************************************************)
IssueDeletes(s) ==
    LET k == Max({0, Min({s.N - s.M, MAXINPROGRESS - Cardinality(s.ip),
                          s.stored.deletedto + MAXUNRECORDED - s.M})})
        new == s.M .. s.M + k - 1
    IN [s EXCEPT !.M = @ + k, !.ip = @ \cup new,
                 !.out = @ \cup {<<"delete", <<b>>>> : b \in new}]

\* Mutant: DELETEs in progress count as done.
DeletedToIssued(s) == s.M

\* The DELETEs below it are done.
DeletedTo(s) == IF s.ip # {} THEN Min(s.ip) ELSE s.M

\* The stored value is far behind, and no flush has been asked for lately.
FarBehind(s) ==
    /\ DeletedTo(s) - s.stored.deletedto > MAXUNRECORDED \div 2
    /\ DeletedTo(s) - s.flushed > MAXUNRECORDED \div 4

poke(s) ==
    LET told == [s EXCEPT !.latest.deletedto = DeletedTo(s)]
        uptodate == s.stored.deletedto = DeletedTo(s)
    IN CASE s.shuttingdown = 0 /\ FarBehind(s) ->
              writemetadata([IssueDeletes(told) EXCEPT !.flushed = DeletedTo(s)])
         [] s.shuttingdown = 0 /\ ~FarBehind(s) -> IssueDeletes(told)
         [] s.shuttingdown > 0 /\ s.ip # {} -> told
         [] s.shuttingdown > 0 /\ s.ip = {} /\ uptodate ->
              [told EXCEPT !.shutdown = TRUE]
         [] s.shuttingdown = 1 /\ s.ip = {} /\ ~uptodate ->
              [writemetadata(told) EXCEPT !.shuttingdown = 2]
         [] s.shuttingdown = 2 /\ s.ip = {} /\ ~uptodate -> told

\* A DELETE is done.
callback_done(p) ==
    \E a \in ans :
        /\ a.p = p /\ a.op = "delete"
        /\ Become(p, poke([proc[p] EXCEPT !.ip = @ \ {a.arg[1]}]), {a})
        /\ UNCHANGED <<dynamo, run, pids, acked, freed, deleted, denied>>

(***************************************************************************)
(* state.c                                                                 *)
(***************************************************************************)
callback_append_put_nextblk(s) ==
    LET new == s.append.old .. s.append.old + s.append.nblks - 1
    IN [s EXCEPT !.out = @ \cup {<<"put", <<b>>>> : b \in new}]

callback_append_put_lastblk(s) == [s EXCEPT !.append = NoAppend]

\* A block has been stored.
callback_append_put_blks(p) ==
    \E a \in ans :
        LET s == [proc[p] EXCEPT !.append.nblks_left = @ - 1] IN
        /\ a.p = p /\ a.op = "put"
        /\ Become(p, IF s.append.nblks_left > 0 THEN s
                     ELSE metadata_lastblk_write([s EXCEPT !.lastblk = s.nextblk - 1],
                                                 s.nextblk - 1), {a})
        /\ UNCHANGED <<dynamo, run, pids, acked, freed, deleted, denied>>

\* Mutant: a weak read is believed.
CallbackGetWeak(p) ==
    \E a \in ans : \E g \in proc[p].gets :
        /\ a.p = p /\ a.op \in {"get", "getc"} /\ a.arg = <<g.blk>>
        /\ Become(p, [proc[p] EXCEPT !.gets = @ \ {g}], {a})
        /\ denied' = IF ~a.res /\ g.due THEN denied \cup {g.blk} ELSE denied
        /\ UNCHANGED <<dynamo, run, pids, acked, freed, deleted>>

\* The answer to a GET: found, not found, or not found by a weak read.
callback_get(p) ==
    \E a \in ans : \E g \in proc[p].gets :
        /\ a.p = p /\ a.op \in {"get", "getc"} /\ a.arg = <<g.blk>>
        /\ IF ~a.res /\ a.op = "get"
           THEN /\ Become(p, [proc[p] EXCEPT !.out = {<<"getc", a.arg>>}], {a})
                /\ UNCHANGED denied
           ELSE /\ Become(p, [proc[p] EXCEPT !.gets = @ \ {g}], {a})
                /\ denied' = IF ~a.res /\ g.due THEN denied \cup {g.blk} ELSE denied
        /\ UNCHANGED <<dynamo, run, pids, acked, freed, deleted>>

(***************************************************************************)
(* metadata.c: the answers to the ICAS of the metadata.                    *)
(***************************************************************************)
CallbackState(s) ==
    CASE s.stored.cb = "nextblk" -> callback_append_put_nextblk(s)
      [] s.stored.cb = "lastblk" -> callback_append_put_lastblk(s)
      [] s.stored.cb = NoCallback -> s

\* Mutant: a write that was wanted meanwhile is forgotten.
MetadataStoredOnce(s) ==
    poke(CallbackState([s EXCEPT !.write_inprogress = FALSE, !.stored = s.storing]))

MetadataStored(s) ==
    LET s1 == poke(CallbackState([s EXCEPT !.write_inprogress = FALSE,
                                           !.stored = s.storing]))
    IN IF s1.write_wanted THEN writemetadata(s1) ELSE s1

callback_writemetadata(p) ==
    \E a \in ans :
        /\ a.p = p /\ a.op = "icas" /\ proc[p].phase # "claiming"
        /\ IF a.res
           THEN /\ Become(p, MetadataStored(proc[p]), {a})
                /\ acked' = IF proc[p].storing.cb # "lastblk" THEN acked
                            ELSE acked \cup (proc[p].append.old .. proc[p].lastblk)
           ELSE Gone(p, "exited") /\ UNCHANGED acked
        /\ UNCHANGED <<dynamo, run, pids, freed, deleted, denied>>

\* main, as far as metadata_init
metadata_init(p) ==
    /\ proc[p].phase = "off" /\ "start" \in run.does[p]
    /\ Become(p, [Off EXCEPT !.phase = "reading", !.out = {<<"getmd", <<>>>>}], {})
    /\ UNCHANGED <<dynamo, run, pids, acked, freed, deleted, denied>>

\* Mutant: the process keeps the ID that it read.
ReadmetadataSameID(p) ==
    \E a \in ans :
        LET t == a.res IN
        /\ a.p = p /\ a.op = "getmd"
        /\ Become(p, [proc[p] EXCEPT
                        !.phase = "claiming", !.pid = t.pid,
                        !.stored = Tuple(t.nextblk, t.deletedto, t.generation,
                                         t.lastblk, NoCallback),
                        !.out = {<<"icas", <<t, t>>>>}], {a})
        /\ UNCHANGED <<dynamo, run, pids, acked, freed, deleted, denied>>

\* The process draws an ID nobody had before.
callback_readmetadata(p) ==
    \E a \in ans :
        LET t == a.res IN
        /\ a.p = p /\ a.op = "getmd"
        /\ pids' = pids + 1
        /\ Become(p, [proc[p] EXCEPT
                        !.phase = "claiming", !.pid = pids',
                        !.stored = Tuple(t.nextblk, t.deletedto, t.generation,
                                         t.lastblk, NoCallback),
                        !.out = {<<"icas", <<t, [t EXCEPT !.pid = pids']>>>>}], {a})
        /\ UNCHANGED <<dynamo, run, acked, freed, deleted, denied>>

\* Mutant: blocks are numbered from the last one stored.
ClaimedLast(s) ==
    [s EXCEPT !.phase = "running", !.conn = "accepting",
              !.latest = [s.stored EXCEPT !.generation = @ + 1],
              !.M = s.stored.deletedto,
              !.nextblk = s.stored.lastblk + 1, !.lastblk = s.stored.lastblk]

\* The rest of metadata_init, deleteto_init and state_init.
Claimed(s) ==
    [s EXCEPT !.phase = "running", !.conn = "accepting",
              !.latest = [s.stored EXCEPT !.generation = @ + 1],
              !.M = s.stored.deletedto,
              !.nextblk = s.stored.nextblk, !.lastblk = s.stored.lastblk]

callback_claimmetadata(p) ==
    \E a \in ans :
        /\ a.p = p /\ a.op = "icas" /\ proc[p].phase = "claiming"
        /\ Become(p, IF a.res THEN Claimed(proc[p])
                     ELSE [proc[p] EXCEPT !.phase = "reading",
                                          !.out = {<<"getmd", <<>>>>}], {a})
        /\ UNCHANGED <<dynamo, run, pids, acked, freed, deleted, denied>>

(***************************************************************************)
(* dispatch.c and main.c                                                   *)
(***************************************************************************)
callback_accept(p) ==
    /\ proc[p].conn = "accepting"
    /\ Become(p, [proc[p] EXCEPT !.conn = "open"], {})
    /\ UNCHANGED <<dynamo, run, pids, acked, freed, deleted, denied>>

GotGet(p) ==
    /\ proc[p].conn = "open" /\ run.get > 0
    /\ run' = [run EXCEPT !.get = @ - 1]
    /\ \E b \in Blocks :
          /\ \A g \in proc[p].gets : g.blk # b
          /\ Become(p, [proc[p] EXCEPT !.gets = @ \cup {[blk |-> b, due |-> b \in acked]},
                                       !.out = {<<"get", <<b>>>>}], {})
    /\ UNCHANGED <<dynamo, pids, acked, freed, deleted, denied>>

\* state_append.  An APPEND is refused, and nothing changes, if one is in
\* progress or its first block is not nextblk.
GotAppend(p) ==
    LET s == proc[p] IN
    /\ s.conn = "open" /\ s.append = NoAppend
    /\ \E n \in 1 .. MaxAppend :
          /\ s.nextblk + n <= run.maxblk
          /\ Become(p, metadata_nextblk_write(
                [s EXCEPT !.append = [old |-> s.nextblk, nblks |-> n, nblks_left |-> n],
                          !.nextblk = @ + n], s.nextblk + n), {})
    /\ UNCHANGED <<dynamo, run, pids, acked, freed, deleted, denied>>

\* deleteto_deleteto.  The client keeps at least the last block that it knows
\* to be stored: the root of its tree.
GotFree(p) ==
    LET s == proc[p] IN
    /\ s.conn = "open"
    /\ \E n \in 0 .. s.stored.lastblk :
          /\ Become(p, poke([s EXCEPT !.N = Max({@, n})]), {})
          /\ freed' = Max({freed, n})
    /\ UNCHANGED <<dynamo, run, pids, acked, deleted, denied>>

\* The client goes away, sends something that is no request, or asks for
\* parameters while an APPEND is in progress.
dropconnection(p) ==
    /\ proc[p].conn = "open" /\ run.drop > 0
    /\ run' = [run EXCEPT !.drop = @ - 1]
    /\ Become(p, [proc[p] EXCEPT !.conn = "dying"], {})
    /\ UNCHANGED <<dynamo, pids, acked, freed, deleted, denied>>

npending(s) == Cardinality(s.gets) + IF s.append = NoAppend THEN 0 ELSE 1

\* dispatch_done and, with -1, state_free and deleteto_stop
dispatch_done(p) ==
    LET s == proc[p] IN
    /\ s.conn = "dying" /\ npending(s) = 0
    /\ Become(p, IF p \in run.opt_1
                 THEN poke([s EXCEPT !.conn = "none", !.phase = "stopping",
                                     !.shuttingdown = 1])
                 ELSE [s EXCEPT !.conn = "accepting"], {})
    /\ UNCHANGED <<dynamo, run, pids, acked, freed, deleted, denied>>

\* deleteto_stop returns; metadata_free, and the end of main
metadata_free(p) ==
    /\ proc[p].shutdown /\ proc[p].phase = "stopping"
    /\ Gone(p, "done")
    /\ UNCHANGED <<dynamo, run, pids, acked, freed, deleted, denied>>

Crash(p) ==
    /\ "crash" \in run.does[p]
    /\ proc[p].phase \notin {"off", "done", "exited"}
    /\ Gone(p, "exited")
    /\ UNCHANGED <<dynamo, run, pids, acked, freed, deleted, denied>>

(***************************************************************************)
(* dynamodb-kv and DynamoDB                                                *)
(***************************************************************************)
\* What the request m may be answered.  A weak read may miss the latest PUT or
\* DELETE of the block.
Results(m) ==
    CASE m.op \in {"put", "delete"} -> {TRUE}
      [] m.op = "icas"  -> {md \in {m.arg[1], m.arg[2]}}
      [] m.op = "getmd" -> {md}
      [] m.op = "getc"  -> {m.arg[1] \in data}
      [] m.op = "get"   -> IF m.arg[1] \in written \cap (data \cup deleted)
                           THEN BOOLEAN ELSE {FALSE}

Serve(m) ==
    /\ net' = net \ {m}
    /\ data' = CASE m.op = "put"    -> data \cup {m.arg[1]}
                 [] m.op = "delete" -> data \ {m.arg[1]}
                 [] OTHER           -> data
    /\ md' = IF m.op = "icas" /\ md = m.arg[1] THEN m.arg[2] ELSE md
    /\ deleted' = IF m.op = "delete" THEN deleted \cup {m.arg[1]} ELSE deleted
    /\ \E r \in Results(m) :
          ans' = IF ~m.live THEN ans
                 ELSE ans \cup {[p |-> m.p, op |-> m.op, arg |-> m.arg, res |-> r]}
    /\ UNCHANGED <<proc, run, pids, acked, freed, written, denied>>

\* An attempt times out: the request is made again.
Timeout(m) ==
    /\ m.live /\ run.retry > 0
    /\ m.op \in {"put", "delete", "icas"}
    /\ run' = [run EXCEPT !.retry = @ - 1]
    /\ net' = net \cup {[m EXCEPT !.live = FALSE]}
    /\ UNCHANGED <<dynamo, ans, proc, pids, ghosts>>

Handle(p) ==
    \/ callback_done(p) \/ callback_append_put_blks(p) \/ callback_get(p)
    \/ callback_writemetadata(p)
    \/ callback_readmetadata(p) \/ callback_claimmetadata(p)
    \/ dispatch_done(p) \/ metadata_free(p)

Client(p) ==
    \/ callback_accept(p)
    \/ "get" \in run.does[p] /\ GotGet(p)
    \/ "append" \in run.does[p] /\ GotAppend(p)
    \/ "free" \in run.does[p] /\ GotFree(p)
    \/ "drop" \in run.does[p] /\ dropconnection(p)

Next ==
    \/ \E p \in Daemons : metadata_init(p) \/ Handle(p) \/ Client(p) \/ Crash(p)
    \/ \E m \in net : Serve(m) \/ Timeout(m)

Spec == Init /\ [][Next]_vars

(***************************************************************************)
(* Properties                                                              *)
(***************************************************************************)
MTuple == [nextblk : Nat, deletedto : Nat, generation : Nat, lastblk : Nat \cup {-1},
           cb : {NoCallback, "nextblk", "lastblk"}]

\* The types of the variables, with the limits of the deleter.
TypeOK ==
    /\ DOMAIN md = {"nextblk", "deletedto", "generation", "lastblk", "pid"}
    /\ run \in Run /\ data \subseteq Blocks
    /\ \A m \in net : m.p \in Daemons /\ m.live \in BOOLEAN
    /\ \A p \in Daemons :
          /\ proc[p].phase \in {"off", "reading", "claiming", "running", "stopping",
                                "done", "exited"}
          /\ proc[p].conn \in {"none", "accepting", "open", "dying"}
          /\ {proc[p].stored, proc[p].storing, proc[p].latest} \subseteq MTuple
          /\ proc[p].append.nblks_left \in 0 .. MaxAppend
          /\ proc[p].ip \subseteq Blocks /\ Cardinality(proc[p].ip) <= MAXINPROGRESS
          /\ proc[p].M <= proc[p].stored.deletedto + MAXUNRECORDED

\* A block whose APPEND was answered is in the table until it is freed, and
\* the metadata says so, whichever process stored it and whoever took over; and
\* the process that owns the metadata tells its client (PARAMS2) of it.
AckedKept ==
    \A b \in acked :
        /\ (b >= freed => b \in data) /\ b <= md.lastblk
        /\ \A p \in Daemons :
              proc[p].phase = "running" /\ md.pid = proc[p].pid => b <= proc[p].stored.lastblk

\* A GET finds a block that was acknowledged before it came, unless the block
\* is freed.
ReadsFind == \A b \in denied : b < freed

\* The metadata records only DELETEs that were served, of blocks to free, and
\* the deleter is within its two limits.
DeletedRecorded ==
    /\ TypeOK
    /\ \A b \in 0 .. md.deletedto - 1 : b \in deleted /\ b < freed

\* The metadata never goes back, and only the process that owns it changes
\* more than the owner.  No block number is written by two APPENDs: "we never
\* reuse block IDs".
MetadataForward ==
    [][/\ md' # md =>
            \/ md' = [md EXCEPT !.pid = md'.pid]
            \/ /\ md'.pid = md.pid
               /\ md'.generation = md.generation + 1
               /\ md'.nextblk >= md.nextblk /\ md'.deletedto >= md.deletedto
               /\ md'.lastblk >= md.lastblk
       /\ \A m \in net' \ net : m.op = "put" /\ m.live => m.arg[1] \notin written]_vars

\* An APPEND in progress waits for one thing: the next metadata write, the one
\* in progress, or its PUTs.  So each callback comes once, and the assertions
\* on callback_state and nblks_left hold.
AppendWaitsOnce ==
    \A p \in Daemons : proc[p].phase \in {"running", "stopping"} =>
        LET s == proc[p]
            later == s.latest.cb # NoCallback
            now == s.write_inprogress /\ s.storing.cb # NoCallback
            puts == Cardinality({m \in net : m.p = p /\ m.op = "put" /\ m.live})
                    + Cardinality({a \in ans : a.p = p /\ a.op = "put"})
        IN /\ ~(later /\ now)
           /\ (later \/ now) => puts = 0 /\ s.append # NoAppend
           /\ s.append # NoAppend => later \/ now \/ puts = s.append.nblks_left
           /\ puts > 0 => puts = s.append.nblks_left

\* A process for which nothing is under way has nothing left to do: no client
\* waits for it, the deleter is where it should be whatever the limits, and
\* deleteto_stop returns.  (A handler runs only when an answer comes.)  And
\* what an APPEND waits for is one thing.
NothingStuck ==
    /\ AppendWaitsOnce
    /\ \A p \in Daemons :
        LET s == proc[p]
            waits == \/ \E m \in net : m.p = p /\ m.live
                     \/ \E a \in ans : a.p = p
        IN waits
           \/ /\ s.phase = "running" =>
                   /\ s.append = NoAppend /\ s.gets = {}
                   /\ s.M >= s.N /\ s.ip = {} /\ ~s.write_inprogress
              /\ s.phase = "stopping" => s.shutdown
              /\ s.phase \notin {"reading", "claiming"}
=============================================================================
