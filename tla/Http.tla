-------------------------------- MODULE Http --------------------------------
(***************************************************************************)
(* libcperciva/http/http.c: one HTTP request, whose response arrives in    *)
(* pieces.  A response is a sequence of units: "h" bytes of headers and    *)
(* "E" the blank line that ends them; "x" a byte of a chunk header line    *)
(* and "L" its end, with the length it gives; "d" a byte of data; "r" and  *)
(* "n" the EOL after a chunk.                                              *)
(***************************************************************************)
EXTENDS Naturals, Sequences, SequencesExt, Functions

CONSTANTS
    MAXHDR,             \* most header bytes (64 kB)
    MAXCHLEN,           \* most bytes of a chunk header line
    WaitMax,            \* most bytes waited for at once (1 MB)
    res_bodylen_max,    \* the caller's limit on the body
    Responses           \* responses a server may give, see Stream

VARIABLES
    resp,       \* the response the server sends
    cut,        \* how much of it, before it closes the connection
    wire,       \* the part of that which has not arrived
    H,          \* struct http_cookie, with what its reader has buffered
    eof,        \* the server has closed the connection after it
    quiet       \* no read or write failed and the request was not cancelled

htvars == <<resp, cut, wire, H, eof, quiet>>

Unit(t, v) == [t |-> t, v |-> v]

\* A header block of n units.
Block(n, v) == [i \in 1 .. n |-> IF i = n THEN Unit("E", v) ELSE Unit("h", 0)]

\* Data bytes lo + 1 .. hi.
Bytes(lo, hi) == [i \in 1 .. hi - lo |-> Unit("d", lo + i)]

RECURSIVE Chunked(_, _)
Chunked(cs, lo) ==
    <<Unit("x", 0), Unit("L", IF cs = <<>> THEN 0 ELSE Head(cs))>>
    \o IF cs = <<>> THEN <<>>
       ELSE Bytes(lo, lo + Head(cs)) \o <<Unit("r", 0), Unit("n", 0)>>
            \o Chunked(Tail(cs), lo + Head(cs))

Total(cs) == FoldLeft(LAMBDA a, b : a + b, 0, cs)

\* What is sent for a response: interim (1xx) header blocks, the headers and
\* the body in its encoding.
Stream(r) ==
    FlattenSeq([i \in DOMAIN r.interim |-> Block(r.interim[i], 1)])
    \o Block(r.head, 2)
    \o CASE r.body = "none" -> <<>>
         [] r.te = "chunked" -> Chunked(r.chunks, 0)
         [] OTHER -> Bytes(0, Total(r.chunks))

(***************************************************************************)
(* The callbacks.  h.wait is what netbuf_read_wait waits for, h.next the   *)
(* callback it will make; h.result the one the caller gets.                *)
(***************************************************************************)
Wait(h, n, callback) == [h EXCEPT !.wait = n, !.next = callback]

End(h, result, body) ==
    [h EXCEPT !.result = Append(@, [kind |-> result, body |-> body]),
              !.next = "none", !.buf = <<>>, !.body = <<>>]

fail(h) == End(h, "null", <<>>)

docallback(h) == End(h, "response", h.body)

toobig(h) == End(h, "toobig", <<>>)

Consume(h, n) == [h EXCEPT !.buf = SubSeq(@, n + 1, Len(@))]

\* addbody asserts that the body stays within its limit.
addbody(h, n) ==
    IF Len(h.body) + n > res_bodylen_max THEN End(h, "abort", <<>>)
    ELSE [h EXCEPT !.body = @ \o SubSeq(h.buf, 1, n)]

RECURSIVE callback_read_header(_), gotheaders(_, _), callback_readdata(_),
          callback_chunkedheader(_)

\* The place of the first blank line at or after hepos.
Scan(h) == SelectInSubSeq(h.buf, h.hepos + 1, Len(h.buf), LAMBDA u : u.t = "E")

callback_read_header(h) ==
    LET e == Scan(h)
    IN IF e > 0 THEN gotheaders([h EXCEPT !.hepos = e - 1], e)
       ELSE IF Len(h.buf) > MAXHDR THEN fail(h)
       ELSE Wait([h EXCEPT !.hepos = IF @ > Len(h.buf) THEN @ ELSE Len(h.buf)],
                 Len(h.buf) + 1, "header")

callback_read_toeof(h) ==
    LET n == Len(h.buf)
    IN IF n > res_bodylen_max - Len(h.body) THEN toobig(h)
       ELSE Wait(Consume(addbody(h, n), n), 1, "toeof")

get_body_gotclen(h, len) ==
    IF len > res_bodylen_max THEN toobig(h)
    ELSE callback_readdata([h EXCEPT !.readlen = len, !.chunked = FALSE])

\* The first e units are headers: an interim response is thrown away and
\* another read; otherwise they say how the body is sent.
gotheaders(h, e) ==
    LET c == Consume(h, e)
    IN IF h.buf[e].v = 1 THEN callback_read_header(c)
       ELSE CASE resp.te = "invalid" -> fail(c)
              [] resp.body = "none" -> docallback(c)
              [] resp.te = "chunked" ->
                    callback_chunkedheader([c EXCEPT !.chunked = TRUE])
              [] resp.te = "clen" -> get_body_gotclen(c, Total(resp.chunks))
              [] OTHER -> callback_read_toeof(c)

Smaller(a, b) == IF a < b THEN a ELSE b

\* Mutant: a chunk's EOL stays in the body.
ReaddataUnstripped(h) ==
    LET n == Smaller(Len(h.buf), h.readlen)
        g == addbody(h, n)
        c == [Consume(g, n) EXCEPT !.readlen = @ - n]
    IN IF g.next = "none" THEN g
       ELSE IF c.readlen > 0 THEN Wait(c, Smaller(c.readlen, WaitMax), "data")
       ELSE IF c.chunked THEN callback_chunkedheader(c)
       ELSE docallback(c)

callback_readdata(h) ==
    LET n == Smaller(Len(h.buf), h.readlen)
        g == addbody(h, n)
        c == [Consume(g, n) EXCEPT !.readlen = @ - n]
    IN IF g.next = "none" THEN g
       ELSE IF c.readlen > 0 THEN Wait(c, Smaller(c.readlen, WaitMax), "data")
       ELSE IF c.chunked
       THEN callback_chunkedheader([c EXCEPT !.body = SubSeq(@, 1, Len(@) - 2)])
       ELSE docallback(c)

callback_chunkedheader(h) ==
    LET e == SelectInSeq(h.buf, LAMBDA u : u.t = "L")
    IN IF e > 0
       THEN LET clen == h.buf[e].v
                c == Consume(h, e)
            IN IF clen = 0 THEN docallback(c)
               ELSE IF clen > res_bodylen_max - Len(h.body) THEN toobig(c)
               ELSE callback_readdata([c EXCEPT !.readlen = clen + 2])
       ELSE IF Len(h.buf) >= MAXCHLEN THEN fail(h)
       ELSE Wait(h, Len(h.buf) + 1, "chunk")

Callback(h) ==
    CASE h.next = "header" -> callback_read_header(h)
      [] h.next = "data" -> callback_readdata(h)
      [] h.next = "chunk" -> callback_chunkedheader(h)
      [] h.next = "toeof" -> callback_read_toeof(h)

(***************************************************************************)
(* Behaviour                                                               *)
(***************************************************************************)

\* http_request2: the request is built and network_connect started.
Init ==
    /\ resp \in Responses
    /\ cut \in 0 .. Len(Stream(resp))
    /\ wire = SubSeq(Stream(resp), 1, cut)
    /\ H = [next |-> "connect", wait |-> 0, hepos |-> 0, readlen |-> 0,
            chunked |-> FALSE, buf |-> <<>>, body |-> <<>>, result |-> <<>>]
    /\ eof = FALSE /\ quiet = TRUE

callback_connected ==
    /\ H.next = "connect"
    /\ H' = callback_read_header([H EXCEPT !.next = "header"])
    /\ UNCHANGED <<resp, cut, wire, eof, quiet>>

\* Bytes arrive, and the callback is made once there are as many as it wants.
Arrive ==
    /\ H.next \notin {"connect", "none"}
    /\ \E n \in 1 .. Len(wire) :
          LET h == [H EXCEPT !.buf = @ \o SubSeq(wire, 1, n)]
          IN /\ wire' = SubSeq(wire, n + 1, Len(wire))
             /\ H' = IF Len(h.buf) >= h.wait THEN Callback(h) ELSE h
    /\ UNCHANGED <<resp, cut, eof, quiet>>

\* The server has sent all it will: only callback_read_toeof takes that well.
Eof ==
    /\ H.next \notin {"connect", "none"} /\ wire = <<>> /\ ~eof
    /\ eof' = TRUE
    /\ H' = IF H.next = "toeof" THEN docallback(H) ELSE fail(H)
    /\ UNCHANGED <<resp, cut, wire, quiet>>

\* Connecting, reading or writing fails.
Failure ==
    /\ H.next # "none"
    /\ H' = fail(H) /\ quiet' = FALSE
    /\ UNCHANGED <<resp, cut, wire, eof>>

http_request_cancel ==
    /\ H.next # "none"
    /\ H' = [H EXCEPT !.next = "none", !.buf = <<>>, !.body = <<>>] /\ quiet' = FALSE
    /\ UNCHANGED <<resp, cut, wire, eof>>

Over == H.next = "none" /\ UNCHANGED htvars

Next == callback_connected \/ Arrive \/ Eof \/ Failure \/ http_request_cancel \/ Over

(***************************************************************************)
(* What a response means, however it arrives                               *)
(***************************************************************************)

HeadLen(r) == Total(r.interim) + r.head

\* Body bytes 1 .. n.
Body(n) == Bytes(0, n)

\* Units of the stream up to and including the header line of chunk k.
LineEnd(r, k) == HeadLen(r) + 2 * k + Total(SubSeq(r.chunks, 1, k - 1)) + 2 * (k - 1)

\* The result for the first n units of the response to r and then EOF.
Meaning(r, n) ==
    LET total == Total(r.chunks)
        got == n - HeadLen(r)
        over == {k \in DOMAIN r.chunks : Total(SubSeq(r.chunks, 1, k)) > res_bodylen_max}
        Result(kind, body) == [kind |-> kind, body |-> body]
        null == Result("null", <<>>)
    IN IF got < 0 \/ r.te = "invalid" THEN null
       ELSE CASE r.body = "none" -> Result("response", <<>>)
              [] r.te = "chunked" ->
                    IF \E k \in over : n >= LineEnd(r, k) THEN Result("toobig", <<>>)
                    ELSE IF n < LineEnd(r, Len(r.chunks) + 1) THEN null
                    ELSE Result("response", Body(total))
              [] r.te = "clen" ->
                    IF total > res_bodylen_max THEN Result("toobig", <<>>)
                    ELSE IF got < total THEN null ELSE Result("response", Body(total))
              [] OTHER -> IF got > res_bodylen_max THEN Result("toobig", <<>>)
                          ELSE Result("response", Body(got))

\* Interim headers that are longer than those that follow: hepos is not reset,
\* so that the end of the latter is looked for too late.
LongInterim(r) ==
    \E i \in DOMAIN r.interim : \E n \in {r.interim[j] : j \in i + 1 .. Len(r.interim)} \cup {r.head} :
        r.interim[i] > n

\* Chunks of which only the EOL is too much: addbody's assertion fails.
NearLimit(r) ==
    /\ r.te = "chunked"
    /\ \E k \in DOMAIN r.chunks :
          Total(SubSeq(r.chunks, 1, k)) \in res_bodylen_max - 1 .. res_bodylen_max

\* However the response is cut into pieces, a request that is neither
\* cancelled nor fails gets exactly one callback, with what the response
\* means: the body without its encoding; NULL if it ends before its length or
\* its last chunk says; too big if it is over the limit.  This leaves out the
\* two cases above.  A request that fails gets one callback, a cancelled one
\* none.
HttpMeaning ==
    /\ Len(H.result) <= 1
    /\ H.next # "none" => H.result = <<>>
    /\ quiet /\ H.next = "none" /\ ~LongInterim(resp) /\ ~NearLimit(resp)
          => H.result = <<Meaning(resp, cut)>>

=============================================================================
