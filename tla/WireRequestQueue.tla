-------------------------- MODULE WireRequestQueue --------------------------
(***************************************************************************)
(* A queue of requests to a server over one connection                     *)
(* (lib/wire/wire_requestqueue.c): every request added gets exactly one    *)
(* callback, with the server's response or with a failure.  The callback   *)
(* is the business of the module that uses the queue: it conjoins to a     *)
(* step with a callback (a packet that is Matched, and failreq) what the   *)
(* callback does to its own state.                                         *)
(***************************************************************************)
EXTENDS Integers, Sequences, FiniteSets

VARIABLES
    q,          \* struct wire_requestqueue, with the packets its writer holds
    imm,        \* cookies of the failreq callbacks that are scheduled
    busy,       \* the callback whose loop over packets is running
    target,     \* "open" until the server closes the connection
    wire,       \* requests that reached the server
    resp        \* responses on their way back

queue == <<q, imm, busy, target, wire, resp>>

\* The ID of a response that is corrupt, or belongs to no request.
Bogus == -1

\* wire_requestqueue_init
QInit ==
    /\ q = [reqs |-> <<>>, next |-> 0, failed |-> FALSE, reading |-> TRUE,
            WQ |-> <<>>]
    /\ imm = <<>> /\ busy = "none"
    /\ target = "open" /\ wire = {} /\ resp = <<>>

\* The event loop takes a network event only when no immediate event is left.
Idle == busy = "none" /\ imm = <<>>

\* The IDs in S as seqptrmap goes through them.
InOrder(S) ==
    {ids \in [1 .. Cardinality(S) -> S] :
        \A i, j \in 1 .. Cardinality(S) : i < j => ids[i] < ids[j]}

\* failqueue that forgets the requests the writer has not sent yet
FailqueueSent ==
    /\ q' = [q EXCEPT !.failed = TRUE, !.reading = FALSE, !.WQ = <<>>, !.reqs = <<>>]
    /\ \E ids \in InOrder(DOMAIN q.reqs \ {q.WQ[i].ID : i \in DOMAIN q.WQ}) :
          imm' = imm \o [i \in DOMAIN ids |-> q.reqs[ids[i]]]

\* The pending requests fail, in the order of their IDs and not before the
\* event loop is back in control.
failqueue ==
    /\ q' = [q EXCEPT !.failed = TRUE, !.reading = FALSE, !.WQ = <<>>, !.reqs = <<>>]
    /\ \E ids \in InOrder(DOMAIN q.reqs) :
          imm' = imm \o [i \in DOMAIN ids |-> q.reqs[ids[i]]]

\* wire_requestqueue_add that drops a request added after the queue failed
RequestqueueAddDropped(cookie, body) ==
    /\ q' = IF q.failed THEN q
            ELSE [q EXCEPT !.reqs = [id \in DOMAIN @ \cup {q.next} |->
                                        IF id = q.next THEN cookie ELSE @[id]],
                           !.next = @ + 1,
                           !.WQ = Append(@, [ID |-> q.next, body |-> body])]
    /\ UNCHANGED imm

RequestqueueAdd(cookie, body) ==
    IF q.failed
    THEN imm' = Append(imm, cookie) /\ UNCHANGED q
    ELSE /\ q' = [q EXCEPT !.reqs = [id \in DOMAIN @ \cup {q.next} |->
                                        IF id = q.next THEN cookie ELSE @[id]],
                           !.next = @ + 1,
                           !.WQ = Append(@, [ID |-> q.next, body |-> body])]
         /\ UNCHANGED imm

\* seqptrmap_delete
Without(Q, ID) == [Q EXCEPT !.reqs = [id \in DOMAIN @ \ {ID} |-> @[id]]]

\* The next packet answers a pending request.
Matched == resp # <<>> /\ Head(resp).ID \in DOMAIN q.reqs

\* One packet of the loop in readpackets: the callback of its request if there
\* is one, and the end of the queue if not.
ReadPacket ==
    /\ resp # <<>>
    /\ resp' = Tail(resp)
    /\ IF Matched
       THEN /\ busy' = "readpackets"
            /\ q' = [Without(q, Head(resp).ID) EXCEPT !.reading = FALSE]
            /\ UNCHANGED imm
       ELSE busy' = "none" /\ failqueue
    /\ UNCHANGED <<target, wire>>

readpackets ==
    /\ Idle /\ q.reading
    /\ ReadPacket

ReadpacketsMore ==
    /\ busy = "readpackets"
    /\ ReadPacket

\* No complete packet is left in the buffer: wait for another one.
ReadpacketsDone ==
    /\ busy = "readpackets"
    /\ busy' = "none" /\ q' = [q EXCEPT !.reading = TRUE]
    /\ UNCHANGED <<imm, target, wire, resp>>

\* The end of the stream, or an error, where a packet was expected.
ReadpacketsFail ==
    /\ Idle /\ q.reading
    /\ target = "closed" /\ resp = <<>>
    /\ failqueue
    /\ UNCHANGED <<busy, target, wire, resp>>

\* A failed request has its callback.
failreq ==
    /\ busy = "none" /\ imm # <<>>
    /\ imm' = Tail(imm)
    /\ UNCHANGED <<q, busy, target, wire, resp>>

\* writbuf: a write is over, or has failed.
Written ==
    /\ Idle /\ q.WQ # <<>>
    /\ q' = [q EXCEPT !.WQ = Tail(@)]
    /\ wire' = wire \cup {Head(q.WQ)}
    /\ UNCHANGED <<imm, busy, target, resp>>

WriteFail ==
    /\ Idle /\ q.WQ # <<>>
    /\ target = "closed"
    /\ failqueue
    /\ UNCHANGED <<busy, target, wire, resp>>

(***************************************************************************)
(* The server: it answers in any order, may send what nobody asked for,    *)
(* and may go away.                                                        *)
(***************************************************************************)
TargetAnswers ==
    /\ target = "open"
    /\ \E P \in wire : wire' = wire \ {P} /\ resp' = Append(resp, P)
    /\ UNCHANGED <<q, imm, busy, target>>

TargetGarbles ==
    /\ target = "open"
    /\ \A i \in DOMAIN resp : resp[i].ID # Bogus
    /\ resp' = Append(resp, [ID |-> Bogus, body |-> <<>>])
    /\ UNCHANGED <<q, imm, busy, target, wire>>

TargetCloses ==
    /\ target = "open"
    /\ target' = "closed"
    /\ UNCHANGED <<q, imm, busy, wire, resp>>
=============================================================================
