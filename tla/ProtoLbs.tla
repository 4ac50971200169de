------------------------------ MODULE ProtoLbs -------------------------------
(***************************************************************************)
(* The LBS protocol: proto_lbs_client.c and proto_lbs_server.c.            *)
(*                                                                         *)
(* A request is a record [type, nblks, blkno, blklen, buf]; nblks, blklen  *)
(* and buf are those of APPEND, where the client has a vector of nblks     *)
(* blocks.  A GET callback also knows the block length the caller asked    *)
(* for.                                                                    *)
(***************************************************************************)
EXTENDS Payload

Types == <<"PARAMS", "GET", "APPEND", "FREE", "PARAMS2">>

\* PROTO_LBS_PARAMS is 0.
Code(t) == (CHOOSE i \in DOMAIN Types : Types[i] = t) - 1

Minus1 == Byte^8 - 1        \* (uint64_t)(-1)

(***************************************************************************)
(* Client: the requests.                                                   *)
(***************************************************************************)
request_params == be32enc(Code("PARAMS"))

request_params2 == be32enc(Code("PARAMS2"))

request_get(blkno) == be32enc(Code("GET")) \o be64enc(blkno)

request_append_blks(blkno, bufv) ==
  be32enc(Code("APPEND")) \o be32enc(Len(bufv)) \o be64enc(blkno)
    \o FlattenSeq(bufv)

request_append(nblks, blkno, blklen, buf) ==
  request_append_blks(blkno, [i \in 1 .. nblks |->
                                SubSeq(buf, (i - 1) * blklen + 1, i * blklen)])

request_free(blkno) == be32enc(Code("FREE")) \o be64enc(blkno)

Request(r) ==
  CASE r.type = "PARAMS"  -> request_params
    [] r.type = "PARAMS2" -> request_params2
    [] r.type = "GET"     -> request_get(r.blkno)
    [] r.type = "APPEND"  -> request_append(r.nblks, r.blkno, r.blklen, r.buf)
    [] r.type = "FREE"    -> request_free(r.blkno)

(***************************************************************************)
(* Server: parsing a request, and the responses.                           *)
(***************************************************************************)
Bad == [type |-> "BAD", nblks |-> 0, blkno |-> 0, blklen |-> 0, buf |-> <<>>]

request_parse(buf) ==
  LET type  == Types[be32dec(buf, 0) + 1]
      nblks == be32dec(buf, 4)
  IN  IF Len(buf) < 4 THEN Bad
      ELSE IF be32dec(buf, 0) + 1 \notin DOMAIN Types THEN Bad
      ELSE IF type \in {"PARAMS", "PARAMS2"}
           THEN IF Len(buf) # 4 THEN Bad ELSE [Bad EXCEPT !.type = type]
      ELSE IF type \in {"GET", "FREE"}
           THEN IF Len(buf) # 12 THEN Bad
                ELSE [Bad EXCEPT !.type = type, !.blkno = be64dec(buf, 4)]
      ELSE IF Len(buf) < 16 THEN Bad
      ELSE IF nblks = 0 THEN Bad
      ELSE IF (Len(buf) - 16) % nblks # 0 THEN Bad
      ELSE [type |-> type, nblks |-> nblks, blkno |-> be64dec(buf, 8),
            blklen |-> (Len(buf) - 16) \div nblks, buf |-> From(buf, 16)]

response_params(blklen, blkno) == be32enc(blklen) \o be64enc(blkno)

response_params2(blklen, blkno, lastblk) ==
  be32enc(blklen) \o be64enc(blkno) \o be64enc(lastblk)

response_get(status, buf) ==
  be32enc(status) \o (IF status = 0 THEN buf ELSE <<>>)

response_append(status, blkno) ==
  be32enc(status) \o (IF status = 0 THEN be64enc(blkno) ELSE <<>>)

response_free == be32enc(0)

(***************************************************************************)
(* Client: the response callbacks.                                         *)
(***************************************************************************)
callback_params(null, buf) ==
  IF ~null /\ Len(buf) = 12
  THEN [failed |-> 0, blklen |-> be32dec(buf, 0), blkno |-> be64dec(buf, 4)]
  ELSE [failed |-> 1, blklen |-> 0, blkno |-> 0]

callback_params2(null, buf) ==
  IF ~null /\ Len(buf) = 20
  THEN [failed |-> 0, blklen |-> be32dec(buf, 0), blkno |-> be64dec(buf, 4),
        lastblk |-> be64dec(buf, 12)]
  ELSE [failed |-> 1, blklen |-> 0, blkno |-> 0, lastblk |-> Minus1]

\* A packet of the wrong length for its status fails with that status.
callback_get(null, buf, blklen) ==
  LET status == be32dec(buf, 0) IN
  IF null \/ Len(buf) < 4 THEN [failed |-> 1, status |-> 0, blk |-> <<>>]
  ELSE IF status > 1 THEN [failed |-> 1, status |-> 0, blk |-> <<>>]
  ELSE IF Len(buf) # (IF status = 0 THEN 4 + blklen ELSE 4)
       THEN [failed |-> 1, status |-> status, blk |-> <<>>]
  ELSE [failed |-> 0, status |-> status,
        blk |-> IF status = 0 THEN From(buf, 4) ELSE <<>>]

callback_append(null, buf) ==
  LET status == be32dec(buf, 0) IN
  IF null \/ Len(buf) < 4 THEN [failed |-> 1, status |-> 0, blkno |-> 0]
  ELSE IF status > 1 THEN [failed |-> 1, status |-> 0, blkno |-> 0]
  ELSE IF Len(buf) # (IF status = 0 THEN 12 ELSE 4)
       THEN [failed |-> 1, status |-> status, blkno |-> 0]
  ELSE [failed |-> 0, status |-> status,
        blkno |-> IF status = 0 THEN be64dec(buf, 4) ELSE 0]

callback_free(null, buf) ==
  [failed |-> IF ~null /\ Len(buf) >= 4 /\ be32dec(buf, 0) = 0 THEN 0 ELSE 1]

(***************************************************************************)
(* The packet of the answer a to the request r, and what the client's      *)
(* callback makes of a packet.                                             *)
(***************************************************************************)
Response(r, a) ==
  CASE r.type = "PARAMS"  -> response_params(a.blklen, a.blkno)
    [] r.type = "PARAMS2" -> response_params2(a.blklen, a.blkno, a.lastblk)
    [] r.type = "GET"     -> response_get(a.status, a.blk)
    [] r.type = "APPEND"  -> response_append(a.status, a.blkno)
    [] r.type = "FREE"    -> response_free

Callback(r, null, buf) ==
  CASE r.type = "PARAMS"  -> callback_params(null, buf)
    [] r.type = "PARAMS2" -> callback_params2(null, buf)
    [] r.type = "GET"     -> callback_get(null, buf, r.blklen)
    [] r.type = "APPEND"  -> callback_append(null, buf)
    [] r.type = "FREE"    -> callback_free(null, buf)
=============================================================================
