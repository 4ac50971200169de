-------------------------------- MODULE Mux ---------------------------------
(***************************************************************************)
(* The request multiplexer (mux/dispatch.c, mux/main.c): it accepts up to  *)
(* nsock_active_max connections and forwards their requests over one       *)
(* request queue to the target.                                            *)
(***************************************************************************)
EXTENDS WireRequestQueue

CONSTANTS
    Clients,            \* those who connect
    Listeners,          \* the listening sockets
    nsock_active_max,   \* -n, or the largest size_t
    MaxReq,             \* bound: requests of each client
    MaxConnect          \* bound: connections of each client

ASSUME MuxAssumption ==
    /\ Listeners # {}
    /\ {"none", "readpackets"} \cap Clients = {}   \* the values of busy
    /\ nsock_active_max \in Nat \ {0}
    /\ MaxReq \in [Clients -> Nat] /\ MaxConnect \in [Clients -> Nat]

VARIABLES
    d,          \* struct dispatch_state and its sockets; error: a callback failed
    main,       \* "running", or how main ended: "done" or "error"
    backlog,    \* clients whose connection is not accepted yet
    gone,       \* clients that closed, or sent what is not a packet
    inbox,      \* requests on their way from each client
    asked,      \* the number of requests sent by each client
    since,      \* that number when the client connected
    connects,   \* the number of connections of each client
    out         \* responses written to each client's connection

clients == <<backlog, gone, inbox, asked, since, connects>>
vars == <<queue, d, main, clients, out>>

Request == UNION {[conn : {c}, ID : 1 .. MaxReq[c]] : c \in Clients}
Response(c) == [ID : 1 .. MaxReq[c], body : Request]

\* dispatch_init
Init ==
    /\ QInit
    /\ d = [accept_cookie |-> Listeners, sock_active |-> {}, reading |-> {},
            nrequests |-> [c \in Clients |-> 0], failed |-> FALSE, error |-> FALSE]
    /\ main = "running"
    /\ backlog = {} /\ gone = {}
    /\ inbox = [c \in Clients |-> <<>>] /\ out = [c \in Clients |-> {}]
    /\ asked = [c \in Clients |-> 0] /\ since = asked /\ connects = asked

accept_stop(s) == [s EXCEPT !.accept_cookie = {}]

\* An accept that is in progress already is an error.
accept_start(s) ==
    IF s.accept_cookie = {}
    THEN [s EXCEPT !.accept_cookie = Listeners] ELSE [s EXCEPT !.error = TRUE]

\* dropconn as if it looked at the number of connections after its decrement
DropconnsAfter(s, C) ==
    LET t == [s EXCEPT !.sock_active = @ \ C] IN
    IF C # {} /\ Cardinality(t.sock_active) = nsock_active_max
    THEN accept_start(t) ELSE t

\* dropconn, one after the other, of the connections in C: only the first may
\* find as many in use as there can be.
dropconn(s, C) ==
    LET t == [s EXCEPT !.sock_active = @ \ C] IN
    IF C # {} /\ Cardinality(s.sock_active) = nsock_active_max
    THEN accept_start(t) ELSE t

\* reqdone that drops a connection although it still owes responses
ReqdoneEager(s, c) ==
    LET t == [s EXCEPT !.nrequests[c] = @ - 1] IN
    IF c \notin t.reading THEN dropconn(t, {c}) ELSE t

\* The connection is dead once we neither read from it nor owe it anything.
reqdone(s, c) ==
    LET t == [s EXCEPT !.nrequests[c] = @ - 1] IN
    IF t.nrequests[c] = 0 /\ c \notin t.reading THEN dropconn(t, {c}) ELSE t

\* A failed request that does not stop the other connections
FailedAlone(s, c) == [accept_stop(reqdone(s, c)) EXCEPT !.failed = TRUE]

\* What callback_gotresponse does when the request failed, readreq_cancel
\* included.
Failed(s, c) ==
    LET t == [accept_stop(reqdone(s, c)) EXCEPT !.failed = TRUE] IN
    dropconn([t EXCEPT !.reading = {}], {e \in t.reading : t.nrequests[e] = 0})

\* The sockets of the connections that d' has dropped are closed; a client of
\* one of them may connect again.
Become(s) ==
    LET kept == d.sock_active \cap s.sock_active IN
    /\ d' = s
    /\ main' = IF s.error THEN "error" ELSE "running"
    /\ gone' = gone \ (d.sock_active \ kept)
    /\ inbox' = [c \in Clients |-> IF c \in kept \cup backlog THEN inbox[c] ELSE <<>>]
    /\ UNCHANGED <<backlog, asked, since, connects>>

\* What was written to a connection goes with it.
callback_gotresponse(F, P, ok) ==
    LET s == IF ok THEN reqdone(d, F.conn) ELSE Failed(d, F.conn) IN
    /\ Become(s)
    /\ out' = [c \in Clients |->
                 IF c \notin s.sock_active THEN {}
                 ELSE IF ok /\ c = F.conn THEN out[c] \cup {[ID |-> F.ID, body |-> P.body]}
                 ELSE out[c]]

Unconcerned == UNCHANGED <<d, main, clients, out>>

callback_gotconn(c) ==
    LET s == [accept_stop(d) EXCEPT !.sock_active = @ \cup {c},
                                    !.reading = @ \cup {c}] IN
    /\ Idle /\ d.accept_cookie # {}
    /\ c \in backlog
    /\ backlog' = backlog \ {c}
    /\ d' = IF Cardinality(s.sock_active) < nsock_active_max THEN accept_start(s) ELSE s
    /\ main' = IF d'.error THEN "error" ELSE main
    /\ UNCHANGED <<queue, gone, inbox, asked, since, connects, out>>

\* The accept itself fails.
GotconnFail ==
    /\ main = "running" /\ Idle
    /\ \E L \in d.accept_cookie :
          d' = [d EXCEPT !.accept_cookie = @ \ {L}, !.error = TRUE]
    /\ main' = "error"
    /\ UNCHANGED <<queue, clients, out>>

\* One request of the loop in callback_gotrequests.
Forward(c) ==
    LET F == [conn |-> c, ID |-> Head(inbox[c])] IN
    /\ inbox[c] # <<>>
    /\ inbox' = [inbox EXCEPT ![c] = Tail(@)]
    /\ RequestqueueAdd(F, F)
    /\ d' = [d EXCEPT !.nrequests[c] = @ + 1, !.reading = @ \ {c}]
    /\ busy' = c
    /\ UNCHANGED <<target, wire, resp, main, backlog, gone, asked, since, connects, out>>

callback_gotrequests(c) ==
    /\ Idle /\ c \in d.reading
    /\ Forward(c)

GotrequestsMore(c) ==
    /\ busy = c
    /\ Forward(c)

\* readreq
GotrequestsDone(c) ==
    /\ busy = c
    /\ busy' = "none" /\ d' = [d EXCEPT !.reading = @ \cup {c}]
    /\ UNCHANGED <<q, imm, target, wire, resp, main, clients, out>>

\* The client is gone, or what it sent is not a packet.
GotrequestsFail(c) ==
    LET s == [d EXCEPT !.reading = @ \ {c}] IN
    /\ c \in gone /\ inbox[c] = <<>>
    /\ busy = c \/ (Idle /\ c \in d.reading)
    /\ busy' = "none"
    /\ Become(IF s.nrequests[c] = 0 THEN dropconn(s, {c}) ELSE s)
    /\ out' = [e \in Clients |-> IF e \in d'.sock_active THEN out[e] ELSE {}]
    /\ UNCHANGED <<q, imm, target, wire, resp>>

dispatch_alive == ~d.failed \/ d.sock_active # {}

\* main looks at dispatch_alive each time events_run has nothing left to do.
MainDone ==
    /\ main = "running" /\ Idle /\ ~dispatch_alive
    /\ main' = "done"
    /\ UNCHANGED <<queue, d, clients, out>>

(***************************************************************************)
(* The clients.                                                            *)
(***************************************************************************)
ClientConnects(c) ==
    /\ c \notin d.sock_active \cup backlog
    /\ connects[c] < MaxConnect[c]
    /\ connects' = [connects EXCEPT ![c] = @ + 1]
    /\ since' = [since EXCEPT ![c] = asked[c]]
    /\ backlog' = backlog \cup {c}
    /\ UNCHANGED <<queue, d, main, gone, inbox, asked, out>>

ClientSends(c) ==
    /\ c \in (d.sock_active \cup backlog) \ gone
    /\ asked[c] < MaxReq[c]
    /\ asked' = [asked EXCEPT ![c] = @ + 1]
    /\ inbox' = [inbox EXCEPT ![c] = Append(@, asked[c] + 1)]
    /\ UNCHANGED <<queue, d, main, backlog, gone, since, connects, out>>

ClientCloses(c) ==
    /\ c \in (d.sock_active \cup backlog) \ gone
    /\ gone' = gone \cup {c}
    /\ UNCHANGED <<queue, d, main, backlog, inbox, asked, since, connects, out>>

Client(c) ==
    /\ main = "running"
    /\ ClientConnects(c) \/ ClientSends(c) \/ ClientCloses(c)

Handle(c) ==
    /\ main = "running"
    /\ \/ callback_gotconn(c)
       \/ callback_gotrequests(c)
       \/ GotrequestsMore(c)
       \/ GotrequestsDone(c)
       \/ GotrequestsFail(c)

Queue ==
    /\ main = "running"
    /\ \/ /\ readpackets \/ ReadpacketsMore
          /\ IF Matched
             THEN callback_gotresponse(q.reqs[Head(resp).ID], Head(resp), TRUE)
             ELSE Unconcerned
       \/ failreq /\ callback_gotresponse(Head(imm), Bogus, FALSE)
       \/ /\ ReadpacketsDone \/ ReadpacketsFail \/ Written \/ WriteFail
          /\ Unconcerned

Target ==
    /\ main = "running"
    /\ TargetAnswers \/ TargetGarbles \/ TargetCloses
    /\ Unconcerned

Next ==
    \/ \E c \in Clients : Handle(c) \/ Client(c)
    \/ GotconnFail
    \/ Queue
    \/ MainDone
    \/ Target

Spec == Init /\ [][Next]_vars

\* The event loop gets to every callback whose event has happened, and the
\* target answers what it is asked.
Fairness ==
    /\ \A c \in Clients : WF_vars(Handle(c))
    /\ WF_vars(Queue)
    /\ WF_vars(MainDone)
    /\ WF_vars(Target /\ TargetAnswers)

FairSpec == Spec /\ Fairness

(***************************************************************************)
(* Properties                                                              *)
(***************************************************************************)

\* Each variable has its type.
TypeOK ==
    /\ DOMAIN q.reqs \subseteq 0 .. q.next - 1
    /\ \A id \in DOMAIN q.reqs : q.reqs[id] \in Request
    /\ q.failed \in BOOLEAN /\ q.reading \in BOOLEAN
    /\ imm \in Seq(Request)
    /\ busy \in {"none", "readpackets"} \cup Clients
    /\ d \in [accept_cookie : SUBSET Listeners, sock_active : SUBSET Clients,
              reading : SUBSET Clients, nrequests : [Clients -> Nat],
              failed : BOOLEAN, error : BOOLEAN]
    /\ main \in {"running", "done", "error"}
    /\ \A c \in Clients : out[c] \subseteq Response(c)

\* Where in the map or sequence f the requests of the connection c are.
Of(f, c) == {x \in DOMAIN f : f[x].conn = c}

\* The callbacks still to come for a connection.
Pending(c) == Cardinality(Of(q.reqs, c)) + Cardinality(Of(imm, c))

\* The count of what a connection is owed (nrequests) is the number of
\* callbacks the request queue will make for it: none is lost when the queue
\* fails, and none comes after the connection has been freed by dropconn.  No
\* connection is left that nothing would ever drop: each one is being read, or
\* has a response to come (the reaping in reqdone, callback_gotrequests and
\* readreq_cancel).
CountsPending ==
    /\ TypeOK
    /\ \A c \in Clients :
          /\ d.nrequests[c] = Pending(c)
          /\ Pending(c) > 0 => c \in d.sock_active
          /\ c \in d.sock_active => c \in d.reading \/ busy = c \/ d.nrequests[c] > 0

\* Until the target fails, connections are accepted exactly while there are
\* fewer than the limit, on every socket, and accept_start never finds an
\* accept in progress.
AcceptsBelowLimit ==
    /\ main = "error" \/ ~d.error
    /\ ~d.failed /\ ~d.error =>
          d.accept_cookie = IF Cardinality(d.sock_active) < nsock_active_max
                            THEN Listeners ELSE {}

\* A response goes to the connection its request came from, under the ID the
\* client gave it, and never to a later connection of the same client.
Routed ==
    \A c \in Clients : \A r \in out[c] :
        r.body = [conn |-> c, ID |-> r.ID] /\ r.ID > since[c]

\* Each request forwarded is answered, or its connection dropped; and the
\* connection of a client that went away is dropped.
Responded ==
    \A c \in Clients :
        /\ d.nrequests[c] > 0 ~> (d.nrequests[c] = 0 \/ main # "running")
        /\ c \in gone /\ c \in d.sock_active ~> (c \notin d.sock_active \/ main # "running")

\* Once a request has found the target gone and no connection is accepted any
\* more, the multiplexer exits.
FailedExits == <>[](d.failed /\ d.accept_cookie = {}) => <>(main # "running")
=============================================================================
