------------------------------- MODULE ProtoS3 -------------------------------
(***************************************************************************)
(* The protocol between an S3 client (lbs-s3) and the s3 daemon:           *)
(* proto_s3_client.c and proto_s3_server.c.                                *)
(*                                                                         *)
(* A request is a record [type, bucket, object, n, len, buf]: n is the     *)
(* maxlen of GET and the offset of RANGE, len the length of RANGE, buf the *)
(* data of PUT.  Names are C strings, sequences of nonzero bytes.  A       *)
(* request function that refuses its arguments sends nothing: its request  *)
(* is not Valid.  Minus1 is the length that stands for "no data".          *)
(***************************************************************************)
EXTENDS Payload

CONSTANT MAXLEN            \* PROTO_S3_MAXLEN

\* The packet types, numbered in their order (the code's numbers have gaps).
Types == <<"PUT", "GET", "RANGE", "HEAD", "DELETE">>

Code(t) == CHOOSE i \in DOMAIN Types : Types[i] = t

Minus1 == U32Max           \* (uint32_t)(-1)

(***************************************************************************)
(* Client: the requests.                                                   *)
(***************************************************************************)
NamesFit(bucket, object) == Len(bucket) <= U8Max /\ Len(object) <= U8Max

Named(type, bucket, object) ==
  be32enc(Code(type)) \o mkstring(bucket) \o mkstring(object)

request_put(bucket, object, buf) ==
  [ok |-> NamesFit(bucket, object) /\ Len(buf) < MAXLEN,
   buf |-> Named("PUT", bucket, object) \o be32enc(Len(buf)) \o buf]

request_get(bucket, object, maxlen) ==
  [ok |-> NamesFit(bucket, object) /\ maxlen <= MAXLEN,
   buf |-> Named("GET", bucket, object) \o be32enc(maxlen)]

request_range(bucket, object, offset, len) ==
  [ok |-> NamesFit(bucket, object) /\ len <= MAXLEN,
   buf |-> Named("RANGE", bucket, object) \o be32enc(offset) \o be32enc(len)]

request_head(bucket, object) ==
  [ok |-> NamesFit(bucket, object), buf |-> Named("HEAD", bucket, object)]

request_delete(bucket, object) ==
  [ok |-> NamesFit(bucket, object), buf |-> Named("DELETE", bucket, object)]

Called(r) ==
  CASE r.type = "PUT"    -> request_put(r.bucket, r.object, r.buf)
    [] r.type = "GET"    -> request_get(r.bucket, r.object, r.n)
    [] r.type = "RANGE"  -> request_range(r.bucket, r.object, r.n, r.len)
    [] r.type = "HEAD"   -> request_head(r.bucket, r.object)
    [] r.type = "DELETE" -> request_delete(r.bucket, r.object)

Valid(r) == Called(r).ok

Request(r) == Called(r).buf

(***************************************************************************)
(* Server: parsing a request.  mkstr takes the string at pos.              *)
(***************************************************************************)
mkstr(buf, pos) ==
  LET fail == [ok |-> FALSE, s |-> <<>>, pos |-> pos]
      slen == buf[pos + 1]
      s    == SubSeq(buf, pos + 2, pos + 1 + slen)
  IN  IF Len(buf) < pos + 1 THEN fail
      ELSE IF Len(buf) < pos + 1 + slen THEN fail
      ELSE IF Contains(s, 0) THEN fail
      ELSE [ok |-> TRUE, s |-> s, pos |-> pos + 1 + slen]

Bad == [type |-> "BAD", bucket |-> <<>>, object |-> <<>>, n |-> 0, len |-> 0,
        buf |-> <<>>]

request_parse(buf) ==
  LET B == mkstr(buf, 4)
      O == mkstr(buf, B.pos)
      named == [Bad EXCEPT !.type = Types[be32dec(buf, 0)],
                           !.bucket = B.s, !.object = O.s]
      rest  == Len(buf) - O.pos
  IN  IF Len(buf) < 4 THEN Bad
      ELSE IF ~B.ok THEN Bad
      ELSE IF ~O.ok THEN Bad
      ELSE IF be32dec(buf, 0) \notin DOMAIN Types THEN Bad
      ELSE CASE named.type = "PUT" ->
                  IF rest < 4 THEN Bad
                  ELSE IF rest # 4 + be32dec(buf, O.pos) THEN Bad
                  ELSE [named EXCEPT !.buf = From(buf, O.pos + 4)]
             [] named.type = "GET" ->
                  IF rest # 4 THEN Bad
                  ELSE [named EXCEPT !.n = be32dec(buf, O.pos)]
             [] named.type = "RANGE" ->
                  IF rest # 8 THEN Bad
                  ELSE [named EXCEPT !.n = be32dec(buf, O.pos),
                                     !.len = be32dec(buf, O.pos + 4)]
             [] named.type \in {"HEAD", "DELETE"} ->
                  IF rest # 0 THEN Bad ELSE named

(***************************************************************************)
(* Server: the responses.  null is TRUE if response_data's buf is NULL.    *)
(***************************************************************************)
response_status(status) == be32enc(status)

response_data(status, len, null, buf) ==
  be32enc(status) \o be32enc(len)
    \o (IF ~null /\ len # Minus1 THEN SubSeq(buf, 1, len) ELSE <<>>)

(***************************************************************************)
(* Client: the response callbacks.                                         *)
(***************************************************************************)
StatusValid(status) == status = 0 \/ (status >= 100 /\ status <= 599)

callback_put(null, buf) ==
  [failed |-> IF ~null /\ Len(buf) = 4 /\ be32dec(buf, 0) = 200 THEN 0 ELSE 1]

callback_delete(null, buf) ==
  [failed |-> IF ~null /\ Len(buf) = 4 /\ be32dec(buf, 0) = 204 THEN 0 ELSE 1]

\* The data of a GET or RANGE response that has the status of success.
Data(null, buf, success) ==
  LET nodata == [failed |-> 1, len |-> Minus1, buf |-> <<>>]
      len == be32dec(buf, 4)
  IN  IF null \/ Len(buf) < 8 THEN nodata
      ELSE IF ~StatusValid(be32dec(buf, 0)) THEN nodata
      ELSE IF Len(buf) # (IF len # Minus1 THEN (8 + len) % (U32Max + 1) ELSE 8)
           THEN nodata
      ELSE IF be32dec(buf, 0) # success THEN nodata
      ELSE IF len = Minus1 THEN [nodata EXCEPT !.failed = 0]
      ELSE [failed |-> 0, len |-> len, buf |-> From(buf, 8)]

callback_get(null, buf) == Data(null, buf, 200)

callback_range(null, buf) == Data(null, buf, 206)

\* A response with an invalid status is passed on with that status.
callback_head(null, buf) ==
  IF null \/ Len(buf) # 8 THEN [status |-> 0, len |-> Minus1]
  ELSE [status |-> be32dec(buf, 0),
        len |-> IF be32dec(buf, 0) = 200 THEN be32dec(buf, 4) ELSE Minus1]

(***************************************************************************)
(* The packet of the answer a to the request r, and what the client's      *)
(* callback makes of a packet.                                             *)
(***************************************************************************)
Response(r, a) ==
  CASE r.type \in {"PUT", "DELETE"} -> response_status(a.status)
    [] r.type \in {"GET", "RANGE"}  -> response_data(a.status, a.len, a.null, a.buf)
    [] r.type = "HEAD" -> response_data(a.status, a.len, TRUE, <<>>)

Callback(r, null, buf) ==
  CASE r.type = "PUT"    -> callback_put(null, buf)
    [] r.type = "GET"    -> callback_get(null, buf)
    [] r.type = "RANGE"  -> callback_range(null, buf)
    [] r.type = "HEAD"   -> callback_head(null, buf)
    [] r.type = "DELETE" -> callback_delete(null, buf)
=============================================================================
