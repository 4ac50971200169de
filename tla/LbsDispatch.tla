---------------------------- MODULE LbsDispatch -----------------------------
(***************************************************************************)
(* The front end of the lbs block store: the event loop of lbs/dispatch.c, *)
(* dispatch_request.c and dispatch_response.c, which serves one connection *)
(* at a time, and the threads of worker.c it hands work to.  The threads   *)
(* work on a BlockStore, which is what LbsStorage implements.              *)
(*                                                                         *)
(* A request's ID is its number in the order the requests are read; the ID *)
(* of an APPEND also stands for the data it writes.                        *)
(***************************************************************************)
EXTENDS Integers, Sequences, FiniteSets

CONSTANTS
    nreaders,       \* the number of reader threads
    MaxBlk,         \* bound: block numbers stay below MaxBlk
    MaxAppend,      \* bound: blocks in one APPEND
    MaxRequests,    \* bound: requests read
    MaxConns        \* bound: connections accepted

ASSUME LbsDispatchAssumption ==
    /\ nreaders \in Nat \ {0}
    /\ MaxBlk \in Nat /\ MaxAppend \in Nat \ {0}
    /\ MaxRequests \in Nat /\ MaxConns \in Nat

VARIABLES
    opt_1,                              \* the option -1: exit after one connection
    accepting, reading, npending,       \* D->accepting, D->read_cookie, D->npending
    readq,                              \* D->readq_head: [id, blkno]
    readers_idle,                       \* D->readers_idle, a stack
    writer_busy, deleter_busy,
    ctl,                                \* struct workctl of each thread
    spair,                              \* thread IDs on the way to workdone
    victim,                             \* the thread dispatch_done is at
    log, next, stable, freed, pend,     \* the BlockStore
    reqs,                               \* ghost: the requests read, and their answers
    conn,                               \* ghost: connections accepted
    assertOK                            \* ghost: no assert() has failed

Store == INSTANCE BlockStore
store == <<log, next, stable, freed, pend>>
netvars == <<opt_1, accepting, reading, conn>>
dispatch == <<npending, readq, readers_idle, writer_busy, deleter_busy>>
vars == <<netvars, dispatch, ctl, spair, victim, store, reqs, assertOK>>

writer == nreaders
deleter == nreaders + 1
Workers == 0 .. nreaders + 1
Nobody == -1

NoData == 0         \* storage_read found no block
OldData == -1       \* some block that may have been deleted

NoWork == [op |-> "none", blkno |-> 0, n |-> 0, id |-> 0]

\* worker_create, and the state of its thread: "run" holds the mutex, "wait"
\* has released it in pthread_cond_wait.
NewWorker == [pc |-> "run", haswork |-> FALSE, workdone |-> FALSE, suicide |-> FALSE,
              work |-> NoWork, data |-> NoData]

\* dispatch_init, and the first dispatch_accept.
Init ==
    /\ opt_1 \in BOOLEAN
    /\ accepting = TRUE /\ reading = FALSE /\ npending = 0 /\ readq = <<>>
    /\ readers_idle = [i \in 1 .. nreaders |-> i - 1]
    /\ writer_busy = FALSE /\ deleter_busy = FALSE
    /\ ctl = [w \in Workers |-> NewWorker]
    /\ spair = <<>> /\ victim = Nobody
    /\ reqs = <<>> /\ conn = 0 /\ assertOK = TRUE
    /\ Store!Init

-----------------------------------------------------------------------------
(***************************************************************************)
(* worker.c                                                                *)
(***************************************************************************)

\* Mutant: the thread sleeps without looking whether it has work.
WorkSleepUnchecked(w) ==
    /\ ctl[w].pc = "run" /\ ~ctl[w].suicide
    /\ ctl' = [ctl EXCEPT ![w].pc = "wait"]
    /\ UNCHANGED <<netvars, dispatch, spair, victim, store, reqs, assertOK>>

\* workthread: nothing to do, so release the mutex and sleep.
WorkSleep(w) ==
    /\ ctl[w].pc = "run" /\ ~ctl[w].suicide
    /\ ~ctl[w].haswork \/ ctl[w].workdone
    /\ ctl' = [ctl EXCEPT ![w].pc = "wait"]
    /\ UNCHANGED <<netvars, dispatch, spair, victim, store, reqs, assertOK>>

WorkDie(w) ==
    /\ ctl[w].pc = "run" /\ ctl[w].suicide
    /\ ctl' = [ctl EXCEPT ![w].pc = "dead"]
    /\ UNCHANGED <<netvars, dispatch, spair, victim, store, reqs, assertOK>>

HasWork(w, op) ==
    /\ ctl[w].pc = "run" /\ ~ctl[w].suicide
    /\ ctl[w].haswork /\ ~ctl[w].workdone /\ ctl[w].work.op = op

\* Mutant: the dispatcher is told before the block is in the buffer.
FinishEarly(w, data) ==
    /\ ctl' = [ctl EXCEPT ![w].workdone = TRUE]
    /\ spair' = Append(spair, w)
    /\ UNCHANGED <<netvars, dispatch, victim, reqs, assertOK>>

\* The work is done: tell the dispatcher, and go round the loop.
Finish(w, data) ==
    /\ ctl' = [ctl EXCEPT ![w].workdone = TRUE, ![w].data = data]
    /\ spair' = Append(spair, w)
    /\ UNCHANGED <<netvars, dispatch, victim, reqs, assertOK>>

\* A block that was freed may be found or not.
WorkRead(w) ==
    /\ HasWork(w, "read")
    /\ LET b == ctl[w].work.blkno IN
       \E data \in IF b \in DOMAIN log THEN {log[b]}
                   ELSE IF b < freed THEN {NoData, OldData} ELSE {NoData} :
          Finish(w, data)
    /\ UNCHANGED store

WorkWriteStart(w) ==
    /\ HasWork(w, "write")
    /\ Store!AppendStart(ctl[w].work.id, ctl[w].work.n)
    /\ UNCHANGED <<netvars, dispatch, ctl, spair, victim, reqs, assertOK>>

WorkWriteDone(w) ==
    /\ HasWork(w, "write")
    /\ Store!AppendDone
    /\ Finish(w, NoData)

WorkDelete(w) ==
    /\ HasWork(w, "delete")
    /\ Store!Free(ctl[w].work.blkno)
    /\ Finish(w, NoData)

\* worker_assign and worker_getdone need the mutex, which a thread at work holds.
Unlocked(w) == ctl[w].pc = "wait"

Assigned(w, op, blkno, n, id) ==
    [ctl[w] EXCEPT !.pc = "run", !.haswork = TRUE, !.workdone = FALSE,
                   !.work = [op |-> op, blkno |-> blkno, n |-> n, id |-> id]]

-----------------------------------------------------------------------------
(***************************************************************************)
(* dispatch_request.c, entered by gotrequest for each request it reads.    *)
(***************************************************************************)

\* A request, and the block a GET must be served.
NewReq(type, blkno, n) ==
    [type |-> type, blkno |-> blkno, n |-> n, conn |-> conn, answers |-> <<>>,
     status |-> 0, value |-> 0,
     must |-> IF type = "get" /\ blkno \in DOMAIN log THEN log[blkno] ELSE NoData]

\* proto_lbs_response_*: the response goes to the connection that is open.
Answer(r, status, value) ==
    [r EXCEPT !.answers = Append(@, conn), !.status = status, !.value = value]

ReadRequest(r) ==
    /\ reading /\ Len(reqs) < MaxRequests
    /\ reqs' = Append(reqs, r)
    /\ UNCHANGED <<netvars, spair, victim>>

\* dispatch_request_pokereadq: as long as there is an idle reader, the one on
\* top of the stack takes the first read of the queue.
PokeReadq(c, q, idle, ok) ==
    LET n == IF Len(q) < Len(idle) THEN Len(q) ELSE Len(idle)
        reader(i) == idle[Len(idle) + 1 - i]
        taken == {reader(i) : i \in 1 .. n}
        read(w) == q[CHOOSE i \in 1 .. n : reader(i) = w] IN
    /\ \A w \in taken : Unlocked(w)
    /\ assertOK' = (ok /\ \A w \in taken : ~c[w].haswork)
    /\ ctl' = [w \in Workers |->
                 IF w \in taken THEN Assigned(w, "read", read(w).blkno, 0, read(w).id)
                 ELSE c[w]]
    /\ readq' = SubSeq(q, n + 1, Len(q))
    /\ readers_idle' = SubSeq(idle, 1, Len(idle) - n)

\* dispatch_request_params and dispatch_request_params2
RequestParams ==
    /\ ~writer_busy
    /\ ReadRequest(Answer(NewReq("params", 0, 0), 0, next))
    /\ UNCHANGED <<dispatch, ctl, store, assertOK>>

\* dispatch_request_get
RequestGet(b) ==
    /\ ReadRequest(NewReq("get", b, 0))
    /\ npending' = npending + 1
    /\ PokeReadq(ctl, Append(readq, [id |-> Len(reqs'), blkno |-> b]), readers_idle,
                 assertOK)
    /\ UNCHANGED <<writer_busy, deleter_busy, store>>

\* dispatch_request_append
RequestAppend(b, n) ==
    /\ IF b # next \/ writer_busy
       THEN /\ ReadRequest(Answer(NewReq("append", b, n), 1, -1))
            /\ UNCHANGED <<npending, writer_busy, ctl, assertOK>>
       ELSE /\ ReadRequest(NewReq("append", b, n))
            /\ Unlocked(writer)
            /\ assertOK' = (assertOK /\ ~ctl[writer].haswork)
            /\ npending' = npending + 1 /\ writer_busy' = TRUE
            /\ ctl' = [ctl EXCEPT ![writer] = Assigned(writer, "write", b, n, Len(reqs'))]
    /\ UNCHANGED <<readq, readers_idle, deleter_busy, store>>

\* dispatch_request_free, which answers at once, whatever the deleter does.
RequestFree(b) ==
    /\ ReadRequest(Answer(NewReq("free", b, 0), 0, 0))
    /\ IF deleter_busy THEN UNCHANGED <<deleter_busy, ctl, assertOK>>
       ELSE /\ Unlocked(deleter)
            /\ assertOK' = (assertOK /\ ~ctl[deleter].haswork)
            /\ deleter_busy' = TRUE
            /\ ctl' = [ctl EXCEPT ![deleter] = Assigned(deleter, "delete", b, 0, Len(reqs'))]
    /\ UNCHANGED <<npending, readq, readers_idle, writer_busy, store>>

(***************************************************************************)
(* dispatch_response.c and dispatch.c                                      *)
(***************************************************************************)

\* dispatch_response_send: what the response to the work of a thread is.
Response(w) ==
    LET work == ctl[w].work
        r == reqs[work.id] IN
    CASE work.op = "read" -> Answer(r, IF ctl[w].data = NoData THEN 1 ELSE 0, ctl[w].data)
      [] work.op = "write" -> Answer(r, 0, next)
      [] OTHER -> r

\* worker_getdone: the thread's work is taken away; nobody reads it again.
TakenBack(w) == [ctl[w] EXCEPT !.haswork = FALSE, !.work = NoWork, !.data = NoData]

\* workdone: a thread's ID has been read from the socket.
WorkDone ==
    LET w == Head(spair)
        c == [ctl EXCEPT ![w] = TakenBack(w)]
        ok == assertOK /\ ctl[w].haswork /\ ctl[w].workdone IN
    /\ victim = Nobody /\ spair # <<>> /\ Unlocked(w)
    /\ spair' = Tail(spair)
    /\ reqs' = [reqs EXCEPT ![ctl[w].work.id] = Response(w)]
    /\ npending' = IF w = deleter THEN npending ELSE npending - 1
    /\ deleter_busy' = (deleter_busy /\ w # deleter)
    /\ writer_busy' = (writer_busy /\ w # writer)
    /\ IF w < nreaders
       THEN PokeReadq(c, readq, Append(readers_idle, w), ok)
       ELSE /\ ctl' = c /\ assertOK' = ok
            /\ UNCHANGED <<readq, readers_idle>>
    /\ UNCHANGED <<netvars, victim, store>>

\* Mutant: the reads that are forgotten are still owed.
DropConnectionOwing ==
    /\ reading' = FALSE
    /\ npending' = npending
    /\ readq' = <<>>

\* dropconnection: reads that no thread has taken are forgotten.
DropConnection ==
    /\ reading' = FALSE
    /\ npending' = npending - Len(readq)
    /\ readq' = <<>>

\* gotrequest finds the connection closed or the request malformed, or refuses
\* it: an APPEND of another block size, PARAMS during an APPEND.
BadRequest ==
    /\ reading
    /\ DropConnection
    /\ UNCHANGED <<opt_1, accepting, conn, readers_idle, writer_busy, deleter_busy, ctl, spair,
                   victim, store, reqs, assertOK>>

\* netbuf_write cannot write, and calls back.
WriteFailed ==
    /\ ~accepting /\ victim = Nobody
    /\ DropConnection
    /\ UNCHANGED <<opt_1, accepting, conn, readers_idle, writer_busy, deleter_busy, ctl, spair,
                   victim, store, reqs, assertOK>>

\* callback_accept
Accept ==
    /\ accepting /\ conn < MaxConns
    /\ accepting' = FALSE /\ reading' = TRUE /\ conn' = conn + 1
    /\ npending' = 0 /\ readq' = <<>>
    /\ UNCHANGED <<opt_1, readers_idle, writer_busy, deleter_busy, ctl, spair, victim, store,
                   reqs, assertOK>>

\* dispatch_alive
Alive == accepting \/ reading \/ npending > 0

\* dispatch_close, then dispatch_accept or, with -1, dispatch_done.
Close ==
    /\ ~Alive /\ victim = Nobody
    /\ accepting' = ~opt_1
    /\ victim' = IF opt_1 THEN 0 ELSE Nobody
    /\ UNCHANGED <<opt_1, reading, conn, dispatch, ctl, spair, store, reqs, assertOK>>

\* Mutant: the thread is told to die but not woken up.
WorkerKillQuiet ==
    /\ victim \in Workers /\ Unlocked(victim)
    /\ ctl' = [ctl EXCEPT ![victim].suicide = TRUE]
    /\ UNCHANGED <<netvars, dispatch, spair, victim, store, reqs, assertOK>>

\* worker_kill: tell the thread to die, and wake it up ...
WorkerKill ==
    /\ victim \in Workers /\ Unlocked(victim)
    /\ ctl' = [ctl EXCEPT ![victim].suicide = TRUE, ![victim].pc = "run"]
    /\ UNCHANGED <<netvars, dispatch, spair, victim, store, reqs, assertOK>>

\* ... and wait for it to be dead.
WorkerJoin ==
    /\ victim \in Workers /\ ctl[victim].pc = "dead"
    /\ victim' = victim + 1
    /\ UNCHANGED <<netvars, dispatch, ctl, spair, store, reqs, assertOK>>

-----------------------------------------------------------------------------
Work(w) ==
    \/ WorkSleep(w) \/ WorkDie(w)
    \/ WorkRead(w) \/ WorkWriteStart(w) \/ WorkWriteDone(w) \/ WorkDelete(w)

Client ==
    \/ RequestParams
    \/ \E b \in 0 .. MaxBlk - 1 : RequestGet(b)
    \/ \E b \in 0 .. MaxBlk, n \in 1 .. MaxAppend : b + n <= MaxBlk /\ RequestAppend(b, n)
    \/ \E b \in 0 .. next : RequestFree(b)
    \/ BadRequest \/ WriteFailed
    \/ Accept

Next ==
    \/ \E w \in Workers : Work(w)
    \/ Client
    \/ WorkDone \/ Close \/ WorkerKill \/ WorkerJoin

Spec == Init /\ [][Next]_vars

\* Threads are scheduled, and the event loop runs: it handles the completions
\* it is told of and tests dispatch_alive.  Nothing is assumed of the client.
Fairness ==
    /\ \A w \in Workers : WF_vars(Work(w))
    /\ WF_vars(WorkDone) /\ WF_vars(Close) /\ WF_vars(WorkerKill) /\ WF_vars(WorkerJoin)

FairSpec == Spec /\ Fairness

-----------------------------------------------------------------------------
(***************************************************************************)
(* Properties                                                              *)
(***************************************************************************)

\* The types of struct dispatch_state and struct workctl.
TypeOK ==
    /\ opt_1 \in BOOLEAN /\ accepting \in BOOLEAN /\ reading \in BOOLEAN
    /\ npending \in Nat
    /\ writer_busy \in BOOLEAN /\ deleter_busy \in BOOLEAN
    /\ readq \in Seq([id: Nat, blkno: Nat])
    /\ readers_idle \in Seq(0 .. nreaders - 1) /\ spair \in Seq(Workers)
    /\ ctl \in [Workers ->
          [pc: {"run", "wait", "dead"}, haswork: BOOLEAN, workdone: BOOLEAN, suicide: BOOLEAN,
           work: [op: {"none", "read", "write", "delete"}, blkno: Nat, n: Nat, id: Nat],
           data: Int]]
    /\ victim \in -1 .. nreaders + 2

\* D->npending counts exactly the responses still owed (the reads in the queue,
\* the reads and the write the threads have), and the dispatcher's idea of who is
\* busy is the threads' own, across dropped connections and new ones.  So the
\* assert()s of worker_assign and worker_getdone hold: no thread is given work
\* before the dispatcher has taken back what it had.
OwedResponses ==
    /\ TypeOK /\ assertOK
    /\ ~accepting =>
          npending = Len(readq) + Cardinality({w \in 0 .. writer : ctl[w].haswork})
    /\ writer_busy = ctl[writer].haswork /\ deleter_busy = ctl[deleter].haswork
    /\ {readers_idle[i] : i \in DOMAIN readers_idle}
          = {w \in 0 .. nreaders - 1 : ~ctl[w].haswork}
    /\ readq # <<>> => readers_idle = <<>>

\* Every request gets at most one response, on the connection it came from,
\* though work outlives the connection that asked for it.  The block number in
\* the response to an APPEND, which storage_nextblock gives only when the
\* response is made, is the one after the blocks of that APPEND; a GET is answered
\* with the block if the store had it when the GET was read and no FREE has
\* covered it since.
AnsweredRight ==
    \A i \in DOMAIN reqs :
        LET r == reqs[i] IN
        /\ r.answers \in {<<>>, <<r.conn>>}
        /\ r.answers # <<>> =>
              /\ r.type = "append" /\ r.status = 0 => r.value = r.blkno + r.n
              /\ r.type = "get" /\ r.must # NoData => r.value = r.must \/ r.blkno < freed

\* Every request is answered in the end unless its connection is dropped.
EveryRequestAnswered ==
    \A i \in 1 .. MaxRequests :
        i \in DOMAIN reqs ~>
            /\ i \in DOMAIN reqs
            /\ reqs[i].answers # <<>> \/ ~reading \/ conn # reqs[i].conn

\* After a connection is dropped lbs gets to the next one, or with -1 is done:
\* dispatch_alive is not kept true by a response that will never be sent, and
\* every worker_kill returns.
ConnectionsEnd == (~accepting /\ ~reading) ~> (accepting \/ victim = nreaders + 2)
=============================================================================
