--------------------------- MODULE ProtoDynamodbKv ---------------------------
(***************************************************************************)
(* The protocol between a key-value client (lbs-dynamodb) and the          *)
(* dynamodb-kv daemon: proto_dynamodb_kv_client.c and                      *)
(* proto_dynamodb_kv_server.c.                                             *)
(*                                                                         *)
(* A request is a record [type, key, buf, buf2]; key is a C string.  A     *)
(* request function that refuses its arguments sends nothing: its request  *)
(* is not Valid.                                                           *)
(***************************************************************************)
EXTENDS Payload

CONSTANT ValueMax          \* 256 * 1024

\* The packet types, numbered in their order (the code's numbers have gaps).
Types == <<"PUT", "ICAS", "CREATE", "GET", "GETC", "DELETE">>

Code(t) == CHOOSE i \in DOMAIN Types : Types[i] = t

(***************************************************************************)
(* Client: the requests.                                                   *)
(***************************************************************************)
Sized(buf) == be32enc(Len(buf)) \o buf

request_put(key, buf) ==
  [ok |-> Len(key) <= U8Max /\ Len(buf) <= ValueMax,
   buf |-> be32enc(Code("PUT")) \o mkstring(key) \o Sized(buf)]

request_icas(key, buf, buf2) ==
  [ok |-> Len(key) <= U8Max /\ Len(buf) <= ValueMax /\ Len(buf2) <= ValueMax,
   buf |-> be32enc(Code("ICAS")) \o mkstring(key) \o Sized(buf) \o Sized(buf2)]

request_create(key, buf) ==
  [ok |-> Len(key) <= U8Max /\ Len(buf) <= ValueMax,
   buf |-> be32enc(Code("CREATE")) \o mkstring(key) \o Sized(buf)]

request_get(key) ==
  [ok |-> Len(key) <= U8Max, buf |-> be32enc(Code("GET")) \o mkstring(key)]

request_getc(key) ==
  [ok |-> Len(key) <= U8Max, buf |-> be32enc(Code("GETC")) \o mkstring(key)]

request_delete(key) ==
  [ok |-> Len(key) <= U8Max, buf |-> be32enc(Code("DELETE")) \o mkstring(key)]

Called(r) ==
  CASE r.type = "PUT"    -> request_put(r.key, r.buf)
    [] r.type = "ICAS"   -> request_icas(r.key, r.buf, r.buf2)
    [] r.type = "CREATE" -> request_create(r.key, r.buf)
    [] r.type = "GET"    -> request_get(r.key)
    [] r.type = "GETC"   -> request_getc(r.key)
    [] r.type = "DELETE" -> request_delete(r.key)

Valid(r) == Called(r).ok

Request(r) == Called(r).buf

(***************************************************************************)
(* Server: parsing a request.  Grab takes the value at pos.                *)
(***************************************************************************)
Bad == [type |-> "BAD", key |-> <<>>, buf |-> <<>>, buf2 |-> <<>>]

Grab(buf, pos) ==
  LET fail == [ok |-> FALSE, buf |-> <<>>, pos |-> pos]
      len  == be32dec(buf, pos)
  IN  IF Len(buf) < pos + 4 THEN fail
      ELSE IF Len(buf) < pos + 4 + len THEN fail
      ELSE [ok  |-> TRUE, pos |-> pos + 4 + len,
            buf |-> SubSeq(buf, pos + 5, pos + 4 + len)]

request_parse(buf) ==
  LET type  == Types[be32dec(buf, 0)]
      key   == SubSeq(buf, 6, 5 + buf[5])
      pos   == 5 + buf[5]
      none  == [ok |-> TRUE, buf |-> <<>>, pos |-> pos]
      V     == IF type \in {"PUT", "ICAS", "CREATE"} THEN Grab(buf, pos) ELSE none
      V2    == IF type = "ICAS" THEN Grab(buf, V.pos) ELSE [V EXCEPT !.buf = <<>>]
  IN  IF Len(buf) < 5 THEN Bad
      ELSE IF Len(buf) < pos THEN Bad
      ELSE IF Contains(key, 0) THEN Bad
      ELSE IF be32dec(buf, 0) \notin DOMAIN Types THEN Bad
      ELSE IF ~V.ok THEN Bad
      ELSE IF ~V2.ok \/ V2.pos # Len(buf) THEN Bad
      ELSE [type |-> type, key |-> key, buf |-> V.buf, buf2 |-> V2.buf]

(***************************************************************************)
(* Server: the responses, and client: the response callbacks.              *)
(***************************************************************************)
response_status(status) == be32enc(status)

response_data(status, buf) ==
  be32enc(status) \o (IF status = 0 THEN Sized(buf) ELSE <<>>)

callback_status(null, buf) ==
  IF ~null /\ Len(buf) = 4 /\ be32dec(buf, 0) <= 2
  THEN [status |-> be32dec(buf, 0)]
  ELSE [status |-> 1]

\* A packet of the wrong length fails with the length it states.
callback_data(null, buf) ==
  LET failed == [status |-> 1, len |-> 0, buf |-> <<>>]
      status == be32dec(buf, 0)
      len    == be32dec(buf, 4)
  IN  IF null \/ Len(buf) < 4 THEN failed
      ELSE IF status \in {1, 2}
           THEN IF Len(buf) # 4 THEN failed ELSE [failed EXCEPT !.status = status]
      ELSE IF status # 0 \/ Len(buf) < 8 THEN failed
      ELSE IF Len(buf) # (8 + len) % (U32Max + 1) THEN [failed EXCEPT !.len = len]
      ELSE [status |-> 0, len |-> len, buf |-> From(buf, 8)]

(***************************************************************************)
(* The packet of the answer a to the request r, and what the client's      *)
(* callback makes of a packet.                                             *)
(***************************************************************************)
Response(r, a) ==
  IF r.type \in {"GET", "GETC"} THEN response_data(a.status, a.buf)
  ELSE response_status(a.status)

Callback(r, null, buf) ==
  IF r.type \in {"GET", "GETC"} THEN callback_data(null, buf)
  ELSE callback_status(null, buf)
=============================================================================
