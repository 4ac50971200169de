------------------------------ MODULE Protocols ------------------------------
(***************************************************************************)
(* A conversation in one of kivaloo's four request protocols, seen in one  *)
(* direction: packets are encoded, framed, written to a connection, read   *)
(* from it in whatever pieces arrive, and decoded.                         *)
(*                                                                         *)
(*   dir = "request":  a client sends requests, a server parses them       *)
(*                     (the loop over proto_*_request_read);               *)
(*   dir = "response": a server answers requests, a client's callbacks get *)
(*                     the answers (the loop of wire_requestqueue.c's      *)
(*                     readpackets, which looks requests up by ID).        *)
(*                                                                         *)
(* The conversation conv is [proto, dir, reqs, msgs, slow]: the requests   *)
(* by ID, and the packets [ID, buf] in the order in which they are         *)
(* written.  If slow, sends and receives may move any number of units.     *)
(***************************************************************************)
EXTENDS Stream

CONSTANTS Byte, MAXLEN, ValueMax,
          Conversations,    \* the conversations that are checked
          SocketSize        \* units that a socket holds

K == INSTANCE ProtoKvlds
L == INSTANCE ProtoLbs
S == INSTANCE ProtoS3
D == INSTANCE ProtoDynamodbKv

Request(p, r) ==
  CASE p = "kvlds" -> K!Request(r) [] p = "lbs" -> L!Request(r)
    [] p = "s3" -> S!Request(r)    [] p = "ddbkv" -> D!Request(r)

Parse(p, buf) ==
  CASE p = "kvlds" -> K!request_parse(buf) [] p = "lbs" -> L!request_parse(buf)
    [] p = "s3" -> S!request_parse(buf) [] p = "ddbkv" -> D!request_parse(buf)

Response(p, r, a) ==
  CASE p = "kvlds" -> K!Response(r, a) [] p = "lbs" -> L!Response(r, a)
    [] p = "s3" -> S!Response(r, a)    [] p = "ddbkv" -> D!Response(r, a)

Callback(p, r, null, buf) ==
  CASE p = "kvlds" -> K!Callback(r, null, buf)
    [] p = "lbs"   -> L!Callback(r, null, buf)
    [] p = "s3"    -> S!Callback(r, null, buf)
    [] p = "ddbkv" -> D!Callback(r, null, buf)

VARIABLES
  conv,     \* the conversation
  todo,     \* packets that are still to be written
  W,        \* the buffered writer
  net,      \* the units in the connection
  open,     \* FALSE once the sender has closed the connection
  faulty,   \* the connection has damaged a unit
  R,        \* the buffered reader
  pend,     \* IDs of the requests that wait for a response
  out,      \* what the receiver has understood, in order: [ID, what]
  dead      \* the receiver has given up the connection

pvars == <<conv, todo, W, net, open, faulty, R, pend, out, dead>>

PInit ==
  /\ conv \in Conversations
  /\ todo = conv.msgs
  /\ W = netbuf_write_init /\ net = <<>> /\ open = TRUE /\ faulty = FALSE
  /\ R = wire_readpacket_wait(netbuf_read_init)
  /\ pend = IF conv.dir = "response" THEN DOMAIN conv.reqs ELSE {}
  /\ out = <<>> /\ dead = FALSE

(***************************************************************************)
(* The sender.                                                             *)
(***************************************************************************)
Pieces(most) == IF conv.slow THEN 1 .. most ELSE {most} \ {0}

WritePacket ==
  /\ todo # <<>> /\ open
  /\ W' = WritePacketUnits(W, wire_writepacket(Head(todo)))
  /\ todo' = Tail(todo)
  /\ UNCHANGED <<conv, net, open, faulty, R, pend, out, dead>>

Smaller(a, b) == IF a < b THEN a ELSE b

Send ==
  /\ open /\ W.curr # <<>>
  /\ \E n \in Pieces(Smaller(Len(W.curr), SocketSize - Len(net))) :
       /\ net' = net \o SubSeq(W.curr, 1, n)
       /\ W' = WriteSent(W, n)
  /\ UNCHANGED <<conv, todo, open, faulty, R, pend, out, dead>>

\* send(2) fails, because the receiver has closed its side.
SendFails ==
  /\ open /\ W.curr # <<>> /\ dead
  /\ W' = writbuf_failed(W)
  /\ UNCHANGED <<conv, todo, net, open, faulty, R, pend, out, dead>>

(***************************************************************************)
(* The connection: the sender goes away, or a unit is damaged.             *)
(***************************************************************************)
Close ==
  /\ open
  /\ open' = FALSE
  /\ UNCHANGED <<conv, todo, W, net, faulty, R, pend, out, dead>>

Damage ==
  /\ ~faulty /\ conv.slow
  /\ \E i \in DOMAIN net : net' = [net EXCEPT ![i] = Junk]
  /\ faulty' = TRUE
  /\ UNCHANGED <<conv, todo, W, open, R, pend, out, dead>>

(***************************************************************************)
(* The receiver's loop over packets.  s is [R, pend, out, dead, done].     *)
(***************************************************************************)
\* proto_*_request_read
RequestRead(s) ==
  LET P == wire_readpacket_peek(s.R)
      r == Parse(conv.proto, P.buf)
  IN  IF s.done THEN s
      ELSE IF P.status = "none"
           THEN [s EXCEPT !.done = TRUE, !.R = wire_readpacket_wait(s.R)]
      ELSE IF P.status = "failed" THEN [s EXCEPT !.done = TRUE, !.dead = TRUE]
      ELSE IF r.type = "BAD" THEN [s EXCEPT !.done = TRUE, !.dead = TRUE]
      ELSE [s EXCEPT !.R = wire_readpacket_consume(s.R, P),
                     !.out = Append(@, [ID |-> P.ID, what |-> r])]

\* wire_requestqueue.c: readpackets
ResponseRead(s) ==
  LET P == wire_readpacket_peek(s.R)
      a == Callback(conv.proto, conv.reqs[P.ID], FALSE, P.buf)
  IN  IF s.done THEN s
      ELSE IF P.status = "none"
           THEN [s EXCEPT !.done = TRUE, !.R = wire_readpacket_wait(s.R)]
      ELSE IF P.status = "failed" THEN [s EXCEPT !.done = TRUE, !.dead = TRUE]
      ELSE IF P.ID \notin s.pend THEN [s EXCEPT !.done = TRUE, !.dead = TRUE]
      ELSE [s EXCEPT !.R = wire_readpacket_consume(s.R, P),
                     !.pend = @ \ {P.ID},
                     !.out = Append(@, [ID |-> P.ID, what |-> a])]

Packets(R1) ==
  FoldLeft(LAMBDA s, i : IF conv.dir = "request" THEN RequestRead(s) ELSE ResponseRead(s),
           [R |-> R1, pend |-> pend, out |-> out, dead |-> FALSE, done |-> FALSE],
           [i \in 1 .. Len(conv.msgs) + 1 |-> i])

Loop(R1) ==
  \E s \in {Packets(R1)} :
    R' = s.R /\ pend' = s.pend /\ out' = s.out /\ dead' = s.dead

Drop(R1) == R' = R1 /\ dead' = TRUE /\ UNCHANGED <<pend, out>>

\* The callback of a wait that has its data: the header is there, or the
\* whole packet is.
Callbacks(R1) ==
  IF R1.cb = "gotheader"
  THEN LET R2 == wire_readpacket_gotheader(R1) IN
       IF R2.cb = "failed" THEN Drop(R2)
       ELSE R' = R2 /\ UNCHANGED <<pend, out, dead>>
  ELSE Loop(R1)

\* network_read.c: callback_buf
Recv ==
  /\ ~dead /\ R.wait = "net" /\ net # <<>>
  /\ \E n \in Pieces(Smaller(Len(net), R.max - Len(R.got))) :
       LET R1 == network_read_got(R, SubSeq(net, 1, n)) IN
       /\ net' = SubSeq(net, n + 1, Len(net))
       /\ IF network_read_enough(R1) THEN Callbacks(netbuf_read_callback_read(R1))
          ELSE R' = R1 /\ UNCHANGED <<pend, out, dead>>
  /\ UNCHANGED <<conv, todo, W, open, faulty>>

Eof ==
  /\ ~dead /\ R.wait = "net" /\ net = <<>> /\ ~open
  /\ Drop([R EXCEPT !.wait = "none"])
  /\ UNCHANGED <<conv, todo, W, net, open, faulty>>

Immediate ==
  /\ ~dead /\ R.wait = "imm"
  /\ Callbacks(netbuf_read_callback_success(R))
  /\ UNCHANGED <<conv, todo, W, net, open, faulty>>

\* wire_requestqueue.c: failreq.  The requests of a dead connection fail in
\* the order of their IDs.
FailRequest ==
  /\ dead /\ pend # {}
  /\ LET id == CHOOSE i \in pend : \A j \in pend : i <= j IN
     /\ pend' = pend \ {id}
     /\ out' = Append(out, [ID |-> id, what |-> Callback(conv.proto, conv.reqs[id],
                                                        TRUE, <<>>)])
  /\ UNCHANGED <<conv, todo, W, net, open, faulty, R, dead>>

\* Nothing is left to do.
Over ==
  /\ IF dead THEN pend = {} ELSE todo = <<>> /\ W.curr = <<>> /\ net = <<>>
  /\ R.wait # "imm"
  /\ UNCHANGED pvars

PNext ==
  \/ WritePacket \/ Send \/ SendFails \/ Close \/ Damage
  \/ Recv \/ Eof \/ Immediate \/ FailRequest \/ Over

(***************************************************************************)
(* Properties.  A packet of a conversation also has good, FALSE if no      *)
(* program of kivaloo would have sent it, and want, what a good packet     *)
(* says: a request, or an answer as the callback's caller expects it.      *)
(***************************************************************************)
\* The payloads that mean what a successful callback reported.
Means(p, r, a, buf) ==
  CASE p = "kvlds" /\ r.type \notin {"PARAMS", "GET", "RANGE"} ->
         IsPrefix(K!Response(r, a), buf)
    [] p = "lbs" /\ r.type = "FREE" -> IsPrefix(L!Response(r, a), buf)
    [] p = "s3" ->
        (CASE r.type = "PUT" -> buf = S!response_status(200)
           [] r.type = "DELETE" -> buf = S!response_status(204)
           [] r.type = "GET" ->
                buf = S!response_data(200, a.len, a.len = S!Minus1, a.buf)
           [] r.type = "RANGE" ->
                buf = S!response_data(206, a.len, a.len = S!Minus1, a.buf)
           [] r.type = "HEAD" -> buf = S!response_data(200, a.len, TRUE, <<>>))
    [] OTHER -> buf = Response(p, r, a)

Succeeded(p, r, a) ==
  IF p = "ddbkv" THEN a.status # 1
  ELSE IF p = "s3" /\ r.type = "HEAD" THEN a.status = 200
  ELSE a.failed = 0

Message(id) == conv.msgs[CHOOSE i \in DOMAIN conv.msgs : conv.msgs[i].ID = id]

\* What the receiver understands is what the sender said, in its order and
\* once: the request that request_parse finds is the one that the client
\* encoded, and the answer a callback gets is the one that the server encoded
\* for that ID, or a failure.  This holds whatever the pieces in which the
\* packets arrive, the damage on the way and the point at which the
\* connection is closed; a payload that no client or server encodes is
\* refused, or means what the receiver took it for.
Understood ==
  /\ IF conv.dir = "request"
     THEN /\ Len(out) <= Len(conv.msgs)
          /\ \A i \in DOMAIN out :
               /\ out[i].ID = conv.msgs[i].ID
               /\ conv.msgs[i].good => out[i].what = conv.msgs[i].want
               /\ Request(conv.proto, out[i].what) = conv.msgs[i].buf
     ELSE /\ \A i, j \in DOMAIN out : i # j => out[i].ID # out[j].ID
          /\ pend = DOMAIN conv.reqs \ {out[i].ID : i \in DOMAIN out}
          /\ \A i \in DOMAIN out :
               LET r == conv.reqs[out[i].ID] IN
               /\ Succeeded(conv.proto, r, out[i].what) =>
                    /\ Means(conv.proto, r, out[i].what, Message(out[i].ID).buf)
                    /\ Message(out[i].ID).good => out[i].what = Message(out[i].ID).want
               /\ Message(out[i].ID).good /\ ~dead =>
                    out[i].what = Message(out[i].ID).want

\* The reader's buffer always has room for what it waits for, and network_read
\* is never asked for nothing (the assertion at network_read.c:118), whatever
\* was left in the buffer by the packets before.
ReadFits ==
  R.wait = "net" => /\ Len(R.got) < R.min /\ R.min <= R.max
                    /\ Len(R.buf) + R.max <= R.buflen

FrameLen(P) == Len(P.buf) + HDR + TRL

\* Units of the stream that have gone to the connection.
Total(packets) == FoldLeft(LAMBDA n, P : n + FrameLen(P), 0, packets)
UnitsSent ==
  Total(conv.msgs) - Total(todo) - Len(W.curr)
    - FoldLeft(LAMBDA n, B : n + Len(B.data), 0, W.buffers)

PacketsSent ==
  CHOOSE n \in 0 .. Len(conv.msgs) :
    /\ Total(SubSeq(conv.msgs, 1, n)) <= UnitsSent
    /\ n < Len(conv.msgs) => Total(SubSeq(conv.msgs, 1, n + 1)) > UnitsSent

\* No packet is forgotten in a buffer: when nothing is on its way and the
\* receiver waits, or has seen the end of the stream, it has understood every
\* packet of which the last unit was sent; the writer has not stopped with
\* something left to write; and a receiver does not give up a connection
\* that is open and undamaged.
NothingLost ==
  (~faulty /\ \A i \in DOMAIN conv.msgs : conv.msgs[i].good) =>
     /\ open => ~dead
     /\ open /\ W.curr = <<>> => W.buffers = <<>>
     /\ (net = <<>> /\ (IF dead THEN conv.dir = "request" ELSE R.wait = "net")) =>
          Len(out) = PacketsSent
=============================================================================
