------------------------------- MODULE Stream --------------------------------
(***************************************************************************)
(* One direction of a connection: the buffered writer (netbuf_write.c,     *)
(* network_write.c), the buffered reader (netbuf_read.c, network_read.c)   *)
(* and the framing of packets (wire_writepacket.c, wire_readpacket.c).     *)
(* The operators compute the new state of a writer or a reader; the module *)
(* that uses them has the variables and the events.                        *)
(*                                                                         *)
(* A stream is a sequence of units.  A packet is an ID, a length and a     *)
(* checksum of the two (three units for the code's 16 bytes), its data     *)
(* (one unit per byte) and a checksum of all that (one unit for the code's *)
(* 4 bytes).  A checksum matches only what it was computed from, and a     *)
(* unit damaged on its way, Junk, matches no checksum.                     *)
(***************************************************************************)
EXTENDS Integers, Sequences, SequencesExt

CONSTANTS WBUFLEN,      \* the least size of a write buffer, in units
          RBUFLEN       \* the size a read buffer starts with, in units

HDR == 3
TRL == 1

Junk == [k |-> "junk", v |-> <<>>]

HeaderCrc(id, len) == [k |-> "crc", v |-> id.v \o len.v]

DataCrc(crc, data) ==
  [k |-> "crc2", v |-> crc.v \o FlattenSeq([i \in DOMAIN data |-> data[i].v])]

(***************************************************************************)
(* wire_writepacket.c: the units of a packet.                              *)
(***************************************************************************)
wire_writepacket_getbuf(ID, len) ==
  LET id == [k |-> "ID", v |-> <<ID>>]
      n  == [k |-> "len", v |-> <<len>>]
  IN  <<id, n, HeaderCrc(id, n)>>

wire_writepacket_done(header, data) ==
  header \o data \o <<DataCrc(header[HDR], data)>>

wire_writepacket(P) ==
  wire_writepacket_done(wire_writepacket_getbuf(P.ID, Len(P.buf)),
                        [i \in DOMAIN P.buf |-> [k |-> "b", v |-> <<P.buf[i]>>]])

(***************************************************************************)
(* The writer.  buffers are the queued buffers [buflen, data], curr is the *)
(* rest of the buffer that is being written (empty if there is none).      *)
(***************************************************************************)
netbuf_write_init == [buffers |-> <<>>, curr |-> <<>>, failed |-> FALSE]

WritePoke(W) ==
  IF W.curr # <<>> \/ W.buffers = <<>> \/ W.failed THEN W
  ELSE [W EXCEPT !.curr = Head(W.buffers).data, !.buffers = Tail(@)]

\* The queue with room for len units in its last buffer.
netbuf_write_reserve(W, len) ==
  IF W.buffers # <<>> /\ Last(W.buffers).buflen - Len(Last(W.buffers).data) >= len
  THEN W
  ELSE [W EXCEPT !.buffers = Append(@,
         [buflen |-> IF len > WBUFLEN THEN len ELSE WBUFLEN, data |-> <<>>])]

netbuf_write_consume(W, units) ==
  WritePoke(IF W.failed THEN W
            ELSE [W EXCEPT !.buffers[Len(W.buffers)].data = @ \o units])

WritePacketUnits(W, units) ==
  netbuf_write_consume(netbuf_write_reserve(W, Len(units)), units)

\* WriteSent that does not start on the next buffer
WriteSentNoPoke(W, n) == [W EXCEPT !.curr = SubSeq(@, n + 1, Len(@))]

\* send(2) takes the first n units: network_write asks for the rest to be
\* sent when the socket is ready again, or the buffer has been written.
WriteSent(W, n) ==
  LET rest == [W EXCEPT !.curr = SubSeq(@, n + 1, Len(@))]
  IN  IF rest.curr # <<>> THEN rest ELSE WritePoke(rest)

writbuf_failed(W) == [W EXCEPT !.curr = <<>>, !.failed = TRUE]

(***************************************************************************)
(* The reader.  buf holds the units up to the write pointer and bufpos is  *)
(* the read pointer.  wait is what netbuf_read_wait waits for: nothing     *)
(* ("none"), the immediate callback ("imm"), or a network_read of at least *)
(* min and at most max units, of which it has got some.  cb is the         *)
(* callback of the wait.                                                   *)
(***************************************************************************)
netbuf_read_init ==
  [buf |-> <<>>, buflen |-> RBUFLEN, bufpos |-> 0,
   wait |-> "none", min |-> 0, max |-> 0, got |-> <<>>, cb |-> "none"]

netbuf_read_peek(R) == SubSeq(R.buf, R.bufpos + 1, Len(R.buf))

netbuf_read_consume(R, len) == [R EXCEPT !.bufpos = @ + len]

netbuf_read_resize_buffer(R, len) ==
  [R EXCEPT !.buflen = IF R.buflen * 2 < len THEN len ELSE R.buflen * 2,
            !.buf = netbuf_read_peek(R), !.bufpos = 0]

\* netbuf_read_wait that looks at the size of the buffer, and not at the room
\* after the read pointer
NetbufReadWaitUnmoved(R, len, cb) ==
  IF Len(R.buf) - R.bufpos >= len THEN [R EXCEPT !.wait = "imm", !.cb = cb]
  ELSE LET R1 == IF R.buflen < len THEN netbuf_read_resize_buffer(R, len) ELSE R
       IN  [R1 EXCEPT !.wait = "net", !.cb = cb, !.got = <<>>,
                      !.max = R1.buflen - Len(R1.buf),
                      !.min = R1.bufpos + len - Len(R1.buf)]

netbuf_read_wait(R, len, cb) ==
  IF Len(R.buf) - R.bufpos >= len THEN [R EXCEPT !.wait = "imm", !.cb = cb]
  ELSE LET R1 == IF R.buflen < len THEN netbuf_read_resize_buffer(R, len) ELSE R
           R2 == IF R1.buflen - R1.bufpos < len
                 THEN [R1 EXCEPT !.buf = netbuf_read_peek(R1), !.bufpos = 0]
                 ELSE R1
       IN  [R2 EXCEPT !.wait = "net", !.cb = cb, !.got = <<>>,
                      !.max = R2.buflen - Len(R2.buf),
                      !.min = R2.bufpos + len - Len(R2.buf)]

\* recv(2) returned units.  Enough is TRUE when the callback is due.
network_read_got(R, units) == [R EXCEPT !.got = @ \o units]

network_read_enough(R) == Len(R.got) >= R.min

netbuf_read_callback_read(R) ==
  [R EXCEPT !.wait = "none", !.buf = @ \o R.got, !.got = <<>>]

netbuf_read_callback_success(R) == [R EXCEPT !.wait = "none"]

(***************************************************************************)
(* wire_readpacket.c.  A packet [ID, len, buf] is what peek finds; status  *)
(* is "none" if there is no complete packet and "failed" if it is corrupt. *)
(***************************************************************************)
wire_readpacket_wait(R) == netbuf_read_wait(R, HDR, "gotheader")

wire_readpacket_gotheader(R) ==
  LET data == netbuf_read_peek(R) IN
  IF data[3] # HeaderCrc(data[1], data[2]) THEN [R EXCEPT !.cb = "failed"]
  ELSE netbuf_read_wait(R, data[2].v[1] + HDR + TRL, "gotdata")

wire_readpacket_peek(R) ==
  LET data == netbuf_read_peek(R)
      none == [status |-> "none", ID |-> 0, len |-> 0, buf |-> <<>>]
      len  == data[2].v[1]
      body == SubSeq(data, HDR + 1, HDR + len)
  IN  IF Len(data) < HDR + TRL THEN none
      ELSE IF data[3] # HeaderCrc(data[1], data[2])
           THEN [none EXCEPT !.status = "failed"]
      ELSE IF Len(data) < len + HDR + TRL THEN none
      ELSE IF data[HDR + len + 1] # DataCrc(data[3], body)
           THEN [none EXCEPT !.status = "failed"]
      ELSE [status |-> "packet", ID |-> data[1].v[1], len |-> len,
            buf |-> [i \in 1 .. len |-> body[i].v[1]]]

wire_readpacket_consume(R, P) == netbuf_read_consume(R, P.len + HDR + TRL)
=============================================================================
