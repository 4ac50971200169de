----------------------------- MODULE DynamodbKv -----------------------------
(***************************************************************************)
(* kivaloo-dynamodb-kv: a connection's requests (dynamodb-kv/dispatch.c)   *)
(* go to a queue for writes and one for reads, which limit the rate, time  *)
(* out and retry (lib/dynamodb/dynamodb_request_queue.c, over the heap of  *)
(* PtrHeap.tla) the conditional operations of lib/dynamodb/dynamodb_kv.c;  *)
(* dynamodb-kv/capacity.c sets the queues' rates.  Capacities are in       *)
(* hundredths of a unit.  The client counts with one item: CREATE 1, then  *)
(* ICAS 1 to 2 and so on, each after the last was acknowledged, and writes *)
(* a second item and reads in between.                                     *)
(***************************************************************************)
EXTENDS Integers, Sequences, SequencesExt, FiniteSets, PtrHeap

CONSTANTS
    BurstSeconds,   \* seconds of capacity in flight at once (5 in the code)
    MaxBurst,       \* most capacity in flight at once (500 units)
    FullBucket,     \* initial, and in the model greatest, bucket_cap
    Capacities,     \* provisioned capacities, in units per second
    UnitCosts,      \* capacity a request may use, in units
    OtherOps,       \* besides counting: of "GET", "GETC", "PUT" and "DELETE"
    MaxReqs,        \* bound on the requests of the client
    MaxFaults,      \* bound on failures and on timeouts of requests in flight
    MaxConns,       \* bound on the connections
    MaxReads        \* bound on the DescribeTable responses

VARIABLES
    main,       \* "capacity", "accept", "serve", "exit" or "failed"
    D,          \* struct dispatch_state: reading or not, the in-progress list
    Q,          \* the two struct dynamodb_request_queue
    req,        \* requests by number
    table,      \* the items of the table; 0 if there is none
    stray,      \* requests given up on whose effect is yet to come
    M,          \* struct capacity_reader: "http" or "timer" pending; done
    acked,      \* the client's count: the last value known to be stored
    faults, conns, reads

kvvars == <<main, D, Q, req, table, stray, M, acked, faults, conns, reads>>

(***************************************************************************)
(* dynamodb_kv.c: what the requests ask of DynamoDB                        *)
(***************************************************************************)

\* Mutant: an ICAS whose condition does not allow for its own earlier effect.
IcasNotIdempotent(r, v) == v = r.old

dynamodb_kv_icas(r, v) == v = r.old \/ v = r.new

dynamodb_kv_create(r, v) == v = 0 \/ v = r.new

Condition(r, v) ==
    CASE r.op = "ICAS" -> dynamodb_kv_icas(r, v)
      [] r.op = "CREATE" -> dynamodb_kv_create(r, v)
      [] OTHER -> TRUE

\* The item after the request: DELETE removes it, reads leave it.
Effect(r, v) ==
    IF r.op \in {"GET", "GETC"} \/ ~Condition(r, v) THEN v
    ELSE IF r.op = "DELETE" THEN 0 ELSE r.new

(***************************************************************************)
(* dynamodb_request_queue.c                                                *)
(***************************************************************************)
setcapacity(q, c) ==
    [q EXCEPT !.cappers = IF c > 0 THEN 100 * c ELSE FullBucket,
              !.maxburst = IF c > 0 /\ c * BurstSeconds * 100 < MaxBurst
                           THEN c * BurstSeconds * 100 ELSE MaxBurst]

dynamodb_request_queue_init ==
    setcapacity([mu |-> 100, bucket |-> FullBucket, cappers |-> 0, maxburst |-> 0,
                 timer |-> FALSE, immediate |-> FALSE, inflight |-> 0, over |-> FALSE,
                 reqs |-> ptrheap_init], 0)

\* compar: waiting before in progress, then by priority, then by arrival.
Rank(rs) == [i \in DOMAIN rs |->
                (IF rs[i].timeout THEN 10000 ELSE 0) + 100 * rs[i].prio + i]

NoRes == [status |-> "none", value |-> 0]

Poked(q) == [q EXCEPT !.immediate = TRUE]

\* dynamodb_request_queue: request i joins the queue.
Queued(q, rs, i) == Poked([q EXCEPT !.reqs = ptrheap_add(@, i, Rank(rs))])

\* sendreq: the timeout is set and the request made.
sendreq(st, i) ==
    LET rs == [st.req EXCEPT ![i].timeout = TRUE, ![i].http = "sent",
                             ![i].tries = @ + 1]
    IN [req |-> rs,
        q |-> [st.q EXCEPT !.inflight = @ + 1,
                           !.reqs = ptrheap_increase(@, st.q.reqs.rc[i], Rank(rs))]]

Need(q) == (q.inflight + 1) * q.mu

\* runqueue's loop.
RECURSIVE SendAll(_)
SendAll(st) ==
    IF Need(st.q) > st.q.maxburst \/ Need(st.q) > st.q.bucket \/ st.q.reqs.elems = <<>>
    THEN st
    ELSE LET i == ptrheap_getmin(st.q.reqs)
         IN IF st.req[i].timeout THEN st ELSE SendAll(sendreq(st, i))

Smaller(a, b) == IF a < b THEN a ELSE b

\* runqueue, when the time since the last time brought so much capacity; over
\* remembers whether a single request was more than the burst limit.
runqueue(q, rs, bump) ==
    LET st == SendAll([q |-> [q EXCEPT !.bucket = Smaller(FullBucket, @ + bump)],
                       req |-> rs])
    IN [st EXCEPT !.q.timer = @ \/ Need(st.q) > st.q.bucket,
                  !.q.over = st.q.mu > st.q.maxburst]

poke_immediate(w) ==
    /\ Q[w].immediate
    /\ \E b \in {0, Q[w].cappers} :
          LET st == runqueue([Q[w] EXCEPT !.immediate = FALSE], req, b)
          IN Q' = [Q EXCEPT ![w] = st.q] /\ req' = st.req
    /\ UNCHANGED <<main, D, table, stray, M, acked, faults, conns, reads>>

\* The timer runs for as long as a unit of capacity takes to arrive.
poke_timer(w) ==
    /\ Q[w].timer
    /\ LET st == runqueue([Q[w] EXCEPT !.timer = FALSE], req, Smaller(100, Q[w].cappers))
       IN Q' = [Q EXCEPT ![w] = st.q] /\ req' = st.req
    /\ UNCHANGED <<main, D, table, stray, M, acked, faults, conns, reads>>

InQueue(i) == \E w \in {"W", "R"} : i \in DOMAIN Q[w].reqs.rc

\* A request on its way may take effect even if nobody waits for it any more.
Strays(i) == IF req[i].http = "sent" THEN {<<i, req[i].tries>>} ELSE {}

\* Mutant: the heap is not told that the request moved forward.
CallbackTimeoutUnsorted(i) ==
    /\ InQueue(i) /\ req[i].timeout
    /\ req[i].http # "no" => faults < MaxFaults
    /\ faults' = IF req[i].http # "no" THEN faults + 1 ELSE faults
    /\ stray' = stray \cup Strays(i)
    /\ LET w == req[i].q
           rs == [req EXCEPT ![i].timeout = FALSE, ![i].http = "no",
                             ![i].res = NoRes]
       IN /\ req' = rs
          /\ Q' = [Q EXCEPT ![w] = Poked([@ EXCEPT
                     !.inflight = IF req[i].http # "no" THEN @ - 1 ELSE @])]
    /\ UNCHANGED <<main, D, table, M, acked, conns, reads>>

\* The request is given up on, if it has not failed yet, and waits again.
callback_timeout(i) ==
    /\ InQueue(i) /\ req[i].timeout
    /\ req[i].http # "no" => faults < MaxFaults
    /\ faults' = IF req[i].http # "no" THEN faults + 1 ELSE faults
    /\ stray' = stray \cup Strays(i)
    /\ LET w == req[i].q
           rs == [req EXCEPT ![i].timeout = FALSE, ![i].http = "no",
                             ![i].res = NoRes]
       IN /\ req' = rs
          /\ Q' = [Q EXCEPT ![w] = Poked([@ EXCEPT
                     !.inflight = IF req[i].http # "no" THEN @ - 1 ELSE @,
                     !.reqs = ptrheap_decrease(@, Q[w].reqs.rc[i], Rank(rs))])]
    /\ UNCHANGED <<main, D, table, M, acked, conns, reads>>

\* extractcapacity, with the rolling average and the bucket.
Charge(q, c) ==
    IF c = 0 THEN q
    ELSE [q EXCEPT !.mu = @ + ((100 * c - @) \div 100),
                   !.bucket = IF @ > 100 * c THEN @ - 100 * c ELSE 0]

\* dispatch.c, callback_response: the status, and the value a read found.
Status(r, res) ==
    IF res.status = "200"
    THEN IF r.op \in {"GET", "GETC"} /\ res.value = 0 THEN 2 ELSE 0
    ELSE IF res.status = "ccf" THEN 2 ELSE 1

\* callback_reqdone: what can go wrong leaves the request to its timeout;
\* anything else is passed on (callback_response) and dequeued.
callback_reqdone(i, res, c) ==
    LET w == req[i].q
        r == req[i]
        q == [Charge(Q[w], c) EXCEPT !.inflight = @ - 1]
        again == res.status \in {"none", "5xx", "exceeded"}
        rs == [req EXCEPT ![i].http = "no", ![i].timeout = again, ![i].res = NoRes,
                 ![i].ans = IF again THEN @
                            ELSE Append(@, [status |-> Status(r, res), value |-> res.value])]
    IN /\ req' = rs
       /\ Q' = [Q EXCEPT ![w] = Poked(
             IF res.status = "exceeded" THEN [q EXCEPT !.bucket = 0]
             ELSE IF again THEN q
             ELSE [q EXCEPT !.reqs = ptrheap_delete(@, q.reqs.rc[i], Rank(req))])]
       /\ IF again THEN UNCHANGED <<D, acked>>
          ELSE /\ D' = [D EXCEPT !.ip = SelectSeq(@, LAMBDA j : j # i)]
               /\ acked' = IF r.key = "k" /\ r.q = "W" /\ res.status = "200"
                           THEN r.new ELSE acked

(***************************************************************************)
(* DynamoDB                                                                *)
(***************************************************************************)

\* A request in flight, or one given up on, is carried out.  An eventually
\* consistent GET may find the item as it was before the last write.
Carry ==
    \/ \E i \in DOMAIN req :
          /\ req[i].http = "sent"
          /\ LET r == req[i]
                 v == table[r.key]
             IN \E seen \in IF r.op = "GET" /\ v > 0 THEN {v - 1, v} ELSE {v} :
                /\ table' = [table EXCEPT ![r.key] = Effect(r, v)]
                /\ req' = [req EXCEPT ![i].http = "done",
                             ![i].res = [status |-> IF Condition(r, v) THEN "200" ELSE "ccf",
                                         value |-> seen]]
          /\ UNCHANGED stray
    \/ \E s \in stray :
          LET r == req[s[1]]
          IN /\ table' = [table EXCEPT ![r.key] = Effect(r, @)]
             /\ stray' = stray \ {s}
             /\ UNCHANGED req
Carried ==
    Carry /\ UNCHANGED <<main, D, Q, M, acked, faults, conns, reads>>

Response ==
    \E i \in DOMAIN req :
       /\ \/ /\ req[i].http = "done"
             /\ \E c \in UnitCosts : callback_reqdone(i, req[i].res, c)
             /\ UNCHANGED <<faults, stray>>
          \/ /\ req[i].http # "no" /\ faults < MaxFaults
             /\ faults' = faults + 1
             /\ \E s \in {"none", "5xx", "exceeded"} :
                   /\ s = "exceeded" => req[i].http = "sent"
                   /\ callback_reqdone(i, [status |-> s, value |-> 0], 0)
                   /\ stray' = IF s = "none" THEN stray \cup Strays(i) ELSE stray
       /\ UNCHANGED <<main, table, M, conns, reads>>

(***************************************************************************)
(* capacity.c                                                              *)
(***************************************************************************)

\* DescribeTable fails, is refused, or gives the table's capacities: none that
\* can be read, PAY_PER_REQUEST, or provisioned ones.
callback_readmetadata ==
    /\ M.pending = "http" /\ reads < MaxReads
    /\ reads' = reads + 1
    /\ \/ M' = [M EXCEPT !.pending = "timer"] /\ UNCHANGED <<Q, main>>
       \/ main' = "failed" /\ UNCHANGED <<Q, M>>
       \/ /\ M' = [pending |-> "timer", done |-> TRUE]
          /\ \/ UNCHANGED Q
             \/ Q' = [w \in {"W", "R"} |-> setcapacity(Q[w], 0)]
             \/ \E w, r \in Capacities :
                   Q' = [Q EXCEPT !["W"] = setcapacity(@, w), !["R"] = setcapacity(@, r)]
          /\ main' = IF main = "capacity" THEN "accept" ELSE main
    /\ UNCHANGED <<D, req, table, stray, acked, faults, conns>>

callback_timer ==
    /\ M.pending = "timer" /\ reads < MaxReads
    /\ M' = [M EXCEPT !.pending = "http"]
    /\ UNCHANGED <<main, D, Q, req, table, stray, acked, faults, conns, reads>>

(***************************************************************************)
(* dispatch.c                                                              *)
(***************************************************************************)
Init ==
    /\ main = "capacity" /\ D = [reading |-> FALSE, ip |-> <<>>]
    /\ Q = [w \in {"W", "R"} |-> dynamodb_request_queue_init]
    /\ req = <<>> /\ table = [k |-> 0, d |-> 0] /\ stray = {}
    /\ M = [pending |-> "http", done |-> FALSE]
    /\ acked = 0 /\ faults = 0 /\ conns = 0 /\ reads = 0

callback_accept ==
    /\ main = "accept" /\ conns < MaxConns
    /\ main' = "serve" /\ conns' = conns + 1
    /\ D' = [reading |-> TRUE, ip |-> <<>>]
    /\ UNCHANGED <<Q, req, table, stray, M, acked, faults, reads>>

\* The queue and priority gotrequest chooses.
QueueOf(op) == IF op \in {"GET", "GETC"} THEN "R" ELSE "W"
Prio(op) == IF op = "DELETE" THEN 1 ELSE 0

Counting == \E i \in DOMAIN req : req[i].key = "k" /\ req[i].q = "W" /\ InQueue(i)

\* What the client may ask for next.
Wanted ==
    {x \in [op : OtherOps, key : {"k", "d"}, old : {0}, new : {0, 1}] :
        /\ x.key = "k" <=> QueueOf(x.op) = "R"
        /\ x.new = 1 <=> x.op = "PUT"}
    \cup (IF conns > 1 \/ Counting THEN {}
          ELSE {[op |-> IF acked = 0 THEN "CREATE" ELSE "ICAS", key |-> "k",
                 old |-> acked, new |-> acked + 1]})

NewRequest(x) ==
    [op |-> x.op, key |-> x.key, old |-> x.old, new |-> x.new, q |-> QueueOf(x.op),
     prio |-> Prio(x.op), http |-> "no", timeout |-> FALSE, tries |-> 0,
     since |-> acked, res |-> NoRes, ans |-> <<>>]

\* All the requests that have arrived, one or several, are queued.
gotrequest ==
    /\ main = "serve" /\ D.reading /\ Len(req) < MaxReqs
    /\ \E n \in 1 .. Smaller(2, MaxReqs - Len(req)) : \E xs \in [1 .. n -> Wanted] :
          LET Arrive(st, x) ==
                  LET rs == Append(st.req, NewRequest(x))
                  IN [req |-> rs, Q |-> [st.Q EXCEPT ![QueueOf(x.op)] = Queued(@, rs, Len(rs))]]
              st1 == FoldLeft(Arrive, [req |-> req, Q |-> Q], xs)
          IN /\ Cardinality({i \in 1 .. n : xs[i].key = "k" /\ xs[i].new > 0}) <= 1
             /\ req' = st1.req /\ Q' = st1.Q
             /\ D' = [D EXCEPT !.ip = @ \o [i \in 1 .. n |-> Len(req) + i]]
    /\ UNCHANGED <<main, table, stray, M, acked, faults, conns, reads>>

flush(q) ==
    [q EXCEPT !.reqs = ptrheap_init,
              !.inflight = @ - Cardinality({i \in DOMAIN q.reqs.rc : req[i].http # "no"})]

\* The wait fails, a packet is bad, or a response cannot be written.
dropconnection ==
    /\ main = "serve" /\ D.reading
    /\ D' = [reading |-> FALSE, ip |-> <<>>]
    /\ Q' = [w \in {"W", "R"} |-> flush(Q[w])]
    /\ stray' = stray \cup UNION {Strays(i) : i \in DOMAIN req}
    /\ req' = [i \in DOMAIN req |-> [req[i] EXCEPT !.http = "no", !.timeout = FALSE,
                                                      !.res = NoRes]]
    /\ UNCHANGED <<main, table, M, acked, faults, conns, reads>>

dispatch_alive == D.reading

dispatch_done ==
    /\ main = "serve" /\ ~dispatch_alive
    /\ main' \in {"accept", "exit"}
    /\ UNCHANGED <<D, Q, req, table, stray, M, acked, faults, conns, reads>>

\* The program has ended, or the bounds are reached.
Over ==
    /\ main \in {"exit", "failed", "accept"} \/ reads = MaxReads \/ Len(req) = MaxReqs
    /\ UNCHANGED kvvars

\* events_run runs the immediate callbacks before any others.
Idle == main \notin {"exit", "failed"} /\ ~Q["W"].immediate /\ ~Q["R"].immediate

Next ==
    \/ main \notin {"exit", "failed"} /\ \E w \in {"W", "R"} : poke_immediate(w)
    \/ dispatch_done
    \/ Idle /\ \/ \E w \in {"W", "R"} : poke_timer(w)
               \/ \E i \in DOMAIN req : callback_timeout(i)
               \/ Response
               \/ callback_readmetadata \/ callback_timer
               \/ callback_accept \/ gotrequest \/ dropconnection
               \/ Carried
    \/ Over

(***************************************************************************)
(* Properties                                                              *)
(***************************************************************************)

\* However often a CREATE or ICAS is timed out and sent again, and however
\* late the copies take effect: an acknowledged value is never undone, the
\* sole writer is never told that the condition failed, and a consistent read
\* returns a value at least as new as the last one acknowledged before it.
RetriesIdempotent ==
    /\ table["k"] >= acked
    /\ table["k"] <= acked + 1
    /\ \A i \in DOMAIN req : req[i].ans # <<>> =>
          /\ req[i].q = "W" => req[i].ans[1].status = 0
          /\ req[i].op = "GETC" => req[i].ans[1].value >= req[i].since

\* In each queue: the count of requests in flight is right; the heap's record
\* cookies are the elements' positions and its first element the one to send
\* next, although priorities change under it; and a request that waits is not
\* forgotten: a callback is pending that runs the queue, or others are out
\* whose callbacks will, unless one request alone was over the burst limit.
\* The dispatcher's list is what the queues hold, and each is answered once.
QueuesSound ==
    /\ \A w \in {"W", "R"} :
          LET H == Q[w].reqs
              n == Len(H.elems)
          IN /\ Q[w].inflight = Cardinality({i \in DOMAIN H.rc : req[i].http # "no"})
             /\ DOMAIN H.rc = {H.elems[p] : p \in 1 .. n}
             /\ \A p \in 1 .. n : H.rc[H.elems[p]] = p
             /\ \A p \in 1 .. n : Rank(req)[H.elems[1]] <= Rank(req)[H.elems[p]]
             /\ n > 0 /\ ~(\E i \in DOMAIN H.rc : req[i].timeout)
                  => Q[w].immediate \/ Q[w].timer \/ Q[w].over
             /\ \A i \in DOMAIN H.rc : req[i].http # "no" => req[i].timeout
    /\ {D.ip[n] : n \in DOMAIN D.ip} = DOMAIN Q["W"].reqs.rc \cup DOMAIN Q["R"].reqs.rc
    /\ ~D.reading => D.ip = <<>>
    /\ \A i \in DOMAIN req : Len(req[i].ans) <= (IF InQueue(i) THEN 0 ELSE 1)

=============================================================================
