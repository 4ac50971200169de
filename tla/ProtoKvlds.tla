----------------------------- MODULE ProtoKvlds ------------------------------
(***************************************************************************)
(* The KVLDS protocol: what proto_kvlds_client.c writes into a request     *)
(* packet and makes of a response packet, and what proto_kvlds_server.c    *)
(* makes of a request packet and writes into a response packet.            *)
(*                                                                         *)
(* A request is a record [type, max, keys]: keys is the sequence of its    *)
(* keys and values in the order of the packet, max is 0 but for RANGE.     *)
(* A response callback is called with buf, or with NULL (null) if the      *)
(* request failed; its result is what it passes to the caller's callback.  *)
(* Not modelled: failing allocations.                                      *)
(***************************************************************************)
EXTENDS Payload

\* The packet types, numbered in their order (the code's numbers have gaps).
Types == <<"PARAMS", "SET", "CAS", "ADD", "MODIFY", "DELETE", "CAD", "GET",
           "RANGE">>

Code(t) == CHOOSE i \in DOMAIN Types : Types[i] = t

(***************************************************************************)
(* Client: the requests.                                                   *)
(***************************************************************************)
request_params == be32enc(Code("PARAMS"))

request_set(key, value) ==
  be32enc(Code("SET")) \o kvldskey_serialize(key) \o kvldskey_serialize(value)

request_cas(key, oval, value) ==
  be32enc(Code("CAS")) \o kvldskey_serialize(key)
    \o kvldskey_serialize(oval) \o kvldskey_serialize(value)

request_add(key, value) ==
  be32enc(Code("ADD")) \o kvldskey_serialize(key) \o kvldskey_serialize(value)

request_modify(key, value) ==
  be32enc(Code("MODIFY")) \o kvldskey_serialize(key)
    \o kvldskey_serialize(value)

request_delete(key) == be32enc(Code("DELETE")) \o kvldskey_serialize(key)

request_cad(key, oval) ==
  be32enc(Code("CAD")) \o kvldskey_serialize(key) \o kvldskey_serialize(oval)

request_get(key) == be32enc(Code("GET")) \o kvldskey_serialize(key)

request_range(start, end, max) ==
  be32enc(Code("RANGE")) \o be32enc(IF max >= U32Max THEN U32Max ELSE max)
    \o kvldskey_serialize(start) \o kvldskey_serialize(end)

\* The request function that the client calls for r.
Request(r) ==
  LET k == r.keys IN
  CASE r.type = "PARAMS" -> request_params
    [] r.type = "SET"    -> request_set(k[1], k[2])
    [] r.type = "CAS"    -> request_cas(k[1], k[2], k[3])
    [] r.type = "ADD"    -> request_add(k[1], k[2])
    [] r.type = "MODIFY" -> request_modify(k[1], k[2])
    [] r.type = "DELETE" -> request_delete(k[1])
    [] r.type = "CAD"    -> request_cad(k[1], k[2])
    [] r.type = "GET"    -> request_get(k[1])
    [] r.type = "RANGE"  -> request_range(k[1], k[2], r.max)

(***************************************************************************)
(* Server: parsing a request.  got is what GRABKEY has extracted so far.   *)
(***************************************************************************)
Bad == [type |-> "BAD", max |-> 0, keys |-> <<>>]

GRABKEY(got) ==
  IF ~got.ok \/ got.rest = <<>> THEN [got EXCEPT !.ok = FALSE]
  ELSE IF got.rest[1] + 1 > Len(got.rest) THEN [got EXCEPT !.ok = FALSE]
  ELSE LET n == got.rest[1] + 1 IN
       [ok |-> TRUE, rest |-> From(got.rest, n),
        keys |-> Append(got.keys, SubSeq(got.rest, 2, n))]

NKeys(type) ==
  CASE type = "PARAMS" -> 0
    [] type \in {"DELETE", "GET"} -> 1
    [] type \in {"SET", "ADD", "MODIFY", "CAD", "RANGE"} -> 2
    [] type = "CAS" -> 3

BlobLen == 4 + 3 * Byte

request_parse(buf) ==
  IF Len(buf) < 4 \/ Len(buf) > BlobLen THEN Bad
  ELSE IF be32dec(buf, 0) \notin DOMAIN Types THEN Bad
  ELSE LET type == Types[be32dec(buf, 0)]
           pos  == IF type = "RANGE" THEN 8 ELSE 4
           got  == FoldLeft(LAMBDA g, i : GRABKEY(g),
                            [ok |-> TRUE, rest |-> From(buf, pos), keys |-> <<>>],
                            [i \in 1 .. NKeys(type) |-> i])
       IN  IF Len(buf) < pos \/ ~got.ok \/ got.rest # <<>> THEN Bad
           ELSE [type |-> type, keys |-> got.keys,
                 max |-> IF type = "RANGE" THEN be32dec(buf, 4) ELSE 0]

(***************************************************************************)
(* Server: the responses.                                                  *)
(***************************************************************************)
response_params(kmax, vmax) == be32enc(kmax) \o be32enc(vmax)

response_status(status) == be32enc(status)

response_get(status, value) ==
  be32enc(status) \o (IF status = 0 THEN kvldskey_serialize(value) ELSE <<>>)

response_range(next, keys, values) ==
  be32enc(0) \o be32enc(Len(keys)) \o kvldskey_serialize(next)
    \o FlattenSeq([i \in 1 .. Len(keys) |-> kvldskey_serialize(keys[i])
                                              \o kvldskey_serialize(values[i])])

(***************************************************************************)
(* Client: the response callbacks.                                         *)
(***************************************************************************)
\* callback_params that does not mind bytes after the two numbers
CallbackParamsLax(null, buf) ==
  IF ~null /\ Len(buf) >= 8
  THEN [failed |-> 0, kmax |-> be32dec(buf, 0), vmax |-> be32dec(buf, 4)]
  ELSE [failed |-> 1, kmax |-> 0, vmax |-> 0]

callback_params(null, buf) ==
  IF ~null /\ Len(buf) = 8
  THEN [failed |-> 0, kmax |-> be32dec(buf, 0), vmax |-> be32dec(buf, 4)]
  ELSE [failed |-> 1, kmax |-> 0, vmax |-> 0]

callback_done(null, buf) ==
  [failed |-> IF ~null /\ Len(buf) >= 4 /\ be32dec(buf, 0) = 0 THEN 0 ELSE 1]

callback_donep(null, buf) ==
  IF ~null /\ Len(buf) >= 4 /\ be32dec(buf, 0) <= 1
  THEN [failed |-> 0, status |-> be32dec(buf, 0)]
  ELSE [failed |-> 1, status |-> 0]

\* found tells whether the value passed on is a value or NULL.
callback_get(null, buf) ==
  LET failed == [failed |-> 1, found |-> FALSE, value |-> <<>>]
      v == kvldskey_unserialize(From(buf, 4))
  IN  IF null \/ Len(buf) < 4 THEN failed
      ELSE IF be32dec(buf, 0) > 1 THEN failed
      ELSE IF be32dec(buf, 0) = 1
           THEN IF Len(buf) # 4 THEN failed ELSE [failed EXCEPT !.failed = 0]
      ELSE IF v.len = 0 THEN failed
      \* A value with something after it is passed on, as failed.
      ELSE [failed |-> IF Len(buf) = 4 + v.len THEN 0 ELSE 1,
            found |-> TRUE, value |-> v.K]

\* 2 * nkeys keys and values in turn, and the position after them.
callback_range(null, buf, max) ==
  LET failed == [failed |-> 1, next |-> <<>>, keys |-> <<>>, values |-> <<>>]
      nkeys == be32dec(buf, 4)
      got == FoldLeft(LAMBDA g, i : GRABKEY(g),
                      [ok |-> TRUE, rest |-> From(buf, 8), keys |-> <<>>],
                      [i \in 1 .. 1 + 2 * nkeys |-> i])
  IN  IF null \/ Len(buf) < 8 THEN failed
      ELSE IF be32dec(buf, 0) # 0 \/ (nkeys > 1 /\ nkeys > max \div 2)
           THEN failed
      ELSE IF ~got.ok \/ got.rest # <<>> THEN failed
      ELSE [failed |-> 0, next |-> got.keys[1],
            keys   |-> [i \in 1 .. nkeys |-> got.keys[2 * i]],
            values |-> [i \in 1 .. nkeys |-> got.keys[2 * i + 1]]]

(***************************************************************************)
(* An answer of the server to the request r, the packet it sends, and what *)
(* the client's callback makes of a packet.                                *)
(***************************************************************************)
Response(r, a) ==
  CASE r.type = "PARAMS" -> response_params(a.kmax, a.vmax)
    [] r.type \in {"SET", "DELETE"} -> response_status(0)
    [] r.type \in {"CAS", "ADD", "MODIFY", "CAD"} -> response_status(a.status)
    [] r.type = "GET" -> response_get(IF a.found THEN 0 ELSE 1, a.value)
    [] r.type = "RANGE" -> response_range(a.next, a.keys, a.values)

Callback(r, null, buf) ==
  CASE r.type = "PARAMS" -> callback_params(null, buf)
    [] r.type \in {"SET", "DELETE"} -> callback_done(null, buf)
    [] r.type \in {"CAS", "ADD", "MODIFY", "CAD"} -> callback_donep(null, buf)
    [] r.type = "GET" -> callback_get(null, buf)
    [] r.type = "RANGE" -> callback_range(null, buf, r.max)
=============================================================================
