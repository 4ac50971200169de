------------------------------ MODULE S3Proxy ------------------------------
(***************************************************************************)
(* kivaloo-s3: one connection at a time (s3/dispatch.c, s3/main.c) hands   *)
(* its requests to a queue that performs a bounded number of HTTP requests *)
(* at once and retries failures (lib/s3/s3_request_queue.c), each to an    *)
(* endpoint drawn from a pool (lib/s3/s3_serverpool.c) that a DNS process  *)
(* feeds (s3/dns.c).                                                       *)
(***************************************************************************)
EXTENDS Naturals, Sequences, SequencesExt

CONSTANTS
    reqsip_max,     \* HTTP requests in progress at once
    Endpoints,      \* addresses of S3
    MaxReqs,        \* bound on the requests the clients send
    MaxFails,       \* bound on the HTTP requests that fail or get a 500 or 503
    MaxConns,       \* bound on the connections
    MaxExpiries     \* bound on how often an address reaches its EOL

VARIABLES
    main,       \* what main() does: "accept", "serve" or "exit"
    D,          \* struct dispatch_state: reading or not, the in-progress list
    Q,          \* struct s3_request_queue: pending and in-progress requests
    pool,       \* struct s3_serverpool: addresses, each with EOL ahead or not
    picked,     \* the pool an address was last picked from
    DR,         \* struct dns_reader: the address it is about to add, if any
    answers,    \* responses sent, <<request, status>> in order
    nreqs, fails, conns, expiries

pxvars == <<main, D, Q, pool, picked, DR, answers, nreqs, fails, conns, expiries>>

(***************************************************************************)
(* s3_serverpool.c                                                         *)
(***************************************************************************)

\* The last endpoint takes the place of the one that is deleted.
endpoint_free(p, i) == SubSeq([p EXCEPT ![i] = p[Len(p)]], 1, Len(p) - 1)

\* The loop of s3_serverpool_pick, from place i down; the last one stays.
RECURSIVE Prune(_, _)
Prune(p, i) ==
    IF i = 0 THEN p
    ELSE IF p[i].fresh \/ Len(p) = 1 THEN Prune(p, i - 1)
    ELSE Prune(endpoint_free(p, i), i - 1)

s3_serverpool_add(p, a) ==
    IF \E i \in DOMAIN p : p[i].sa = a
    THEN [i \in DOMAIN p |-> IF p[i].sa = a THEN [p[i] EXCEPT !.fresh = TRUE] ELSE p[i]]
    ELSE Append(p, [sa |-> a, fresh |-> TRUE])

(***************************************************************************)
(* s3_request_queue.c.  st is the queue with the pool it picks from.       *)
(***************************************************************************)
poke(st) ==
    IF st.queued = <<>> \/ Len(st.ip) = reqsip_max THEN st
    ELSE LET p == Prune(st.pool, Len(st.pool))
         IN [st EXCEPT !.queued = Tail(@), !.ip = Append(@, Head(st.queued)),
                       !.pool = p, !.picked = p]

s3_request_queue(st, r) == poke([st EXCEPT !.queued = Append(@, r)])

s3_request_queue_flush(st) == [st EXCEPT !.queued = <<>>, !.ip = <<>>]

St == [queued |-> Q.queued, ip |-> Q.ip, pool |-> pool, picked |-> picked]

Become(st) ==
    /\ Q' = [queued |-> st.queued, ip |-> st.ip]
    /\ pool' = st.pool /\ picked' = st.picked

\* http_request gives no response, or one with a status and perhaps a body
\* whose ETag is right.
Statuses == {"none", "500", "503", "404", "200"}
TryAgain(res) == res.status \in {"none", "500", "503"}

(***************************************************************************)
(* dispatch.c                                                              *)
(***************************************************************************)
Init ==
    /\ main = "accept" /\ D = [reading |-> FALSE, ip |-> <<>>]
    /\ Q = [queued |-> <<>>, ip |-> <<>>]
    /\ pool \in {SetToSeq({[sa |-> a, fresh |-> TRUE] : a \in E})
                    : E \in SUBSET Endpoints \ {{}}}
    /\ picked = pool /\ DR = "idle"
    /\ answers = <<>> /\ nreqs = 0 /\ fails = 0 /\ conns = 0 /\ expiries = 0

callback_accept ==
    /\ main = "accept" /\ conns < MaxConns
    /\ main' = "serve" /\ conns' = conns + 1
    /\ D' = [reading |-> TRUE, ip |-> <<>>]
    /\ UNCHANGED <<Q, pool, picked, DR, answers, nreqs, fails, expiries>>

Drop(st) ==
    /\ Become(s3_request_queue_flush(st))
    /\ D' = [reading |-> FALSE, ip |-> <<>>]

Request(id) == [id |-> id, type |-> IF id % 2 = 0 THEN "GET" ELSE "PUT"]

\* gotrequest: requests are queued until no more have arrived, or until one
\* cannot be read and the connection is dropped.
gotrequest ==
    /\ main = "serve" /\ D.reading
    /\ \E k \in 0 .. MaxReqs - nreqs, bad \in BOOLEAN :
          LET rs == [i \in 1 .. k |-> Request(nreqs + i)]
              st == FoldLeft(s3_request_queue, St, rs)
          IN /\ k > 0 \/ bad
             /\ nreqs' = nreqs + k
             /\ IF bad THEN Drop(st)
                ELSE Become(st) /\ D' = [D EXCEPT !.ip = @ \o rs]
    /\ UNCHANGED <<main, DR, answers, fails, conns, expiries>>

\* The wait for a request fails, or a response cannot be written.
dropconnection ==
    /\ main = "serve" /\ D.reading
    /\ Drop(St)
    /\ UNCHANGED <<main, DR, answers, nreqs, fails, conns, expiries>>

\* callback_response: the status sent on.
Reply(r, res) == IF r.type = "GET" /\ ~res.etag THEN "0" ELSE res.status

Without(s, r) == SelectSeq(s, LAMBDA x : x # r)

\* Mutant: the queue is not poked when a request has to be tried again.
CallbackReqdoneQuiet(r, res) ==
    /\ fails' = fails + (IF TryAgain(res) THEN 1 ELSE 0)
    /\ LET st == [St EXCEPT !.ip = Without(@, r)]
       IN IF TryAgain(res)
          THEN /\ Become([st EXCEPT !.queued = Append(@, r)])
               /\ UNCHANGED <<D, answers>>
          ELSE /\ answers' = Append(answers, <<r.id, Reply(r, res)>>)
               /\ D' = [D EXCEPT !.ip = Without(@, r)]
               /\ Become(poke(st))

\* callback_reqdone: a failure goes to the end of the queue; anything else
\* goes upstream; and the queue is poked.
callback_reqdone(r, res) ==
    /\ fails' = fails + (IF TryAgain(res) THEN 1 ELSE 0)
    /\ LET st == [St EXCEPT !.ip = Without(@, r)]
       IN IF TryAgain(res)
          THEN /\ Become(poke([st EXCEPT !.queued = Append(@, r)]))
               /\ UNCHANGED <<D, answers>>
          ELSE /\ answers' = Append(answers, <<r.id, Reply(r, res)>>)
               /\ D' = [D EXCEPT !.ip = Without(@, r)]
               /\ Become(poke(st))

HttpDone ==
    /\ \E i \in DOMAIN Q.ip, s \in Statuses, e \in BOOLEAN :
          LET res == [status |-> s, etag |-> e]
          IN /\ TryAgain(res) => fails < MaxFails
             /\ callback_reqdone(Q.ip[i], res)
    /\ UNCHANGED <<main, DR, nreqs, conns, expiries>>

dispatch_alive == D.reading

\* The next connection, or with -1 the end: the queue is freed.
dispatch_done ==
    /\ main = "serve" /\ ~dispatch_alive
    /\ main' \in {"accept", "exit"}
    /\ D' = [reading |-> FALSE, ip |-> <<>>]
    /\ UNCHANGED <<Q, pool, picked, DR, answers, nreqs, fails, conns, expiries>>

(***************************************************************************)
(* dns.c and time                                                          *)
(***************************************************************************)

\* The length, then the address, arrives from the DNS process.
callback_read_len ==
    /\ main # "exit" /\ DR = "idle"
    /\ DR' \in Endpoints
    /\ UNCHANGED <<main, D, Q, pool, picked, answers, nreqs, fails, conns, expiries>>

callback_read_addr ==
    /\ main # "exit" /\ DR # "idle"
    /\ pool' = s3_serverpool_add(pool, DR)
    /\ DR' = "idle"
    /\ UNCHANGED <<main, D, Q, picked, answers, nreqs, fails, conns, expiries>>

Expire ==
    /\ main # "exit" /\ expiries < MaxExpiries
    /\ \E i \in DOMAIN pool :
          /\ pool[i].fresh
          /\ pool' = [pool EXCEPT ![i].fresh = FALSE]
    /\ expiries' = expiries + 1
    /\ UNCHANGED <<main, D, Q, picked, DR, answers, nreqs, fails, conns>>

\* The bounds on the environment are reached.
Over ==
    /\ \/ main = "exit"
       \/ main = "accept" /\ conns = MaxConns
    /\ UNCHANGED pxvars

Next ==
    \/ callback_accept \/ gotrequest \/ dropconnection \/ HttpDone
    \/ dispatch_done \/ callback_read_len \/ callback_read_addr
    \/ Expire \/ Over

(***************************************************************************)
(* Properties                                                              *)
(***************************************************************************)

\* The dispatcher and the queue agree on what is in progress, so that
\* dispatch_done finds nothing left and no callback reaches a freed request;
\* a request waits only while all HTTP slots are in use, retries included; each
\* is answered at most once, with a status the queue does not retry, GET data
\* only when its ETag was right; and an endpoint past its EOL is used only if
\* it is the last one.
S3Requests ==
    /\ {D.ip[i] : i \in DOMAIN D.ip} = {Q.queued[i] : i \in DOMAIN Q.queued}
                                           \cup {Q.ip[i] : i \in DOMAIN Q.ip}
    /\ Len(D.ip) = Len(Q.queued) + Len(Q.ip)
    /\ ~D.reading => D.ip = <<>>
    /\ Q.queued # <<>> => Len(Q.ip) = reqsip_max
    /\ \A i, j \in DOMAIN answers : answers[i][1] = answers[j][1] => i = j
    /\ \A i \in DOMAIN answers :
          /\ answers[i][2] \in {"200", "404", "0"}
          /\ answers[i][1] \notin {D.ip[j].id : j \in DOMAIN D.ip}
    /\ Len(picked) > 0
    /\ Len(picked) = 1 \/ \A i \in DOMAIN picked : picked[i].fresh

=============================================================================
