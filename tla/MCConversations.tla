----------------------- MODULE MCConversations -----------------------------
(***************************************************************************)
(* The conversations that TLC goes through with Protocols.  Slow ones are  *)
(* short, and go through every way to cut up the stream; the others say    *)
(* everything that the protocols can say, with keys, names and values of   *)
(* the extreme lengths, and their packets are also cut short, extended,    *)
(* and changed.                                                            *)
(***************************************************************************)
EXTENDS Integers, Sequences, SequencesExt

CONSTANTS Byte, MAXLEN, ValueMax

KV == INSTANCE ProtoKvlds
LB == INSTANCE ProtoLbs
SS == INSTANCE ProtoS3
DK == INSTANCE ProtoDynamodbKv

Longest == [i \in 1 .. Byte - 1 |-> Byte - 1]
Keys == {<<>>, <<0>>, Longest}
Names == {<<>>, <<1>>, Longest, Append(Longest, 1)}
Values == {<<>>, <<0, 1>>}
U32s == {0, 1, Byte^4 - 1}
U64s == {0, Byte^4, Byte^8 - 1}

KReqs ==
  LET Of(types, n, maxs) == [type : types, max : maxs, keys : [1 .. n -> Keys]]
  IN  Of({"PARAMS"}, 0, {0}) \cup Of({"DELETE", "GET"}, 1, {0})
        \cup Of({"SET", "ADD", "MODIFY", "CAD"}, 2, {0})
        \cup Of({"CAS"}, 3, {0}) \cup Of({"RANGE"}, 2, {2, 4})

LReqs ==
  LET Of(types, blknos) == [type : types, nblks : {0}, blkno : blknos,
                            blklen : {0}, buf : {<<>>}]
  IN  Of({"PARAMS", "PARAMS2"}, {0}) \cup Of({"FREE", "GET"}, U64s)
        \cup [type : {"APPEND"}, nblks : {1}, blkno : U64s, blklen : {2},
              buf : {<<3, 4>>}]
        \cup [type : {"APPEND"}, nblks : {2}, blkno : U64s, blklen : {2},
              buf : {<<3, 4, 0, 1>>}]

SReqs ==
  LET Of(types, ns, lens, bufs) == [type : types, bucket : Names, object : Names,
                                    n : ns, len : lens, buf : bufs]
  IN  Of({"PUT"}, {0}, {0}, {<<>>, <<0, 1>>, [i \in 1 .. MAXLEN |-> 1]})
        \cup Of({"GET"}, {0, MAXLEN, MAXLEN + 1}, {0}, {<<>>})
        \cup Of({"RANGE"}, U32s, {0, MAXLEN, MAXLEN + 1}, {<<>>})
        \cup Of({"HEAD", "DELETE"}, {0}, {0}, {<<>>})

DReqs ==
  LET Of(types, bufs, bufs2) == [type : types, key : Names, buf : bufs, buf2 : bufs2]
      Vals == {<<>>, <<0, 1>>, [i \in 1 .. ValueMax + 1 |-> 2]}
  IN  Of({"PUT", "CREATE"}, Vals, {<<>>}) \cup Of({"ICAS"}, Vals, Vals)
        \cup Of({"GET", "GETC", "DELETE"}, {<<>>}, {<<>>})

\* The requests that the client's functions do not refuse.
Reqs(p) ==
  CASE p = "kvlds" -> KReqs
    [] p = "lbs"   -> LReqs
    [] p = "s3"    -> {r \in SReqs : SS!Valid(r)}
    [] p = "ddbkv" -> {r \in DReqs : DK!Valid(r)}

(***************************************************************************)
(* Answers: the payload of the server and what the client should get.      *)
(***************************************************************************)
Plain(p, r, wants) ==
  {[buf |-> IF p = "kvlds" THEN KV!Response(r, a)
            ELSE IF p = "lbs" THEN LB!Response(r, a) ELSE DK!Response(r, a),
    want |-> a] : a \in wants}

KAnswers(r) == Plain("kvlds", r,
  CASE r.type = "PARAMS" -> [failed : {0}, kmax : U32s, vmax : U32s]
    [] r.type \in {"SET", "DELETE"} -> [failed : {0}]
    [] r.type \in {"CAS", "ADD", "MODIFY", "CAD"} -> [failed : {0}, status : {0, 1}]
    [] r.type = "GET" -> [failed : {0}, found : {TRUE}, value : Keys]
                           \cup [failed : {0}, found : {FALSE}, value : {<<>>}]
    [] r.type = "RANGE" ->
         UNION {[failed : {0}, next : Keys, keys : [1 .. n -> Keys],
                 values : [1 .. n -> Keys]] :
                n \in 0 .. IF r.max \div 2 > 1 THEN r.max \div 2 ELSE 1})

LAnswers(r) == Plain("lbs", r,
  CASE r.type = "PARAMS" -> [failed : {0}, blklen : U32s, blkno : U64s]
    [] r.type = "PARAMS2" -> [failed : {0}, blklen : U32s, blkno : U64s, lastblk : U64s]
    [] r.type = "GET" -> [failed : {0}, status : {0}, blk : {<<0, 1>>, <<3, 4>>}]
                           \cup [failed : {0}, status : {1}, blk : {<<>>}]
    [] r.type = "APPEND" -> [failed : {0}, status : {0}, blkno : U64s]
                              \cup [failed : {0}, status : {1}, blkno : {0}]
    [] r.type = "FREE" -> [failed : {0}])

Statuses == {0, 200, 204, 206, 404, 599}

SAnswers(r) ==
  LET Data == {<<>>, <<0, 1>>}
      ok == IF r.type = "RANGE" THEN 206 ELSE 200
      none == [failed |-> 1, len |-> SS!Minus1, buf |-> <<>>]
  IN  CASE r.type \in {"PUT", "DELETE"} ->
             {[buf |-> SS!response_status(st),
               want |-> [failed |-> IF st = (IF r.type = "PUT" THEN 200 ELSE 204)
                                    THEN 0 ELSE 1]] : st \in Statuses}
        [] r.type = "HEAD" ->
             {[buf |-> SS!response_data(st, n, TRUE, <<>>),
               want |-> [status |-> st, len |-> IF st = 200 THEN n ELSE SS!Minus1]] :
                st \in Statuses, n \in U32s}
        [] OTHER ->
             {[buf |-> SS!response_data(st, Len(d), FALSE, d),
               want |-> IF st = ok THEN [failed |-> 0, len |-> Len(d), buf |-> d]
                        ELSE none] : st \in Statuses, d \in Data}
             \cup {[buf |-> SS!response_data(st, n, TRUE, <<>>),
                    want |-> IF st = ok
                             THEN [failed |-> 0, len |-> n, buf |-> <<>>]
                             ELSE none] : st \in Statuses, n \in {0, SS!Minus1}}

DAnswers(r) == Plain("ddbkv", r,
  IF r.type \in {"GET", "GETC"}
  THEN {[status |-> 0, len |-> Len(v), buf |-> v] : v \in Values}
         \cup [status : {1, 2}, len : {0}, buf : {<<>>}]
  ELSE [status : {0, 1, 2}])

Answers(p, r) ==
  CASE p = "kvlds" -> KAnswers(r) [] p = "lbs" -> LAnswers(r)
    [] p = "s3" -> SAnswers(r)    [] p = "ddbkv" -> DAnswers(r)

Encode(p, r) ==
  CASE p = "kvlds" -> KV!Request(r) [] p = "lbs" -> LB!Request(r)
    [] p = "s3" -> SS!Request(r)    [] p = "ddbkv" -> DK!Request(r)

(***************************************************************************)
(* The conversations.                                                      *)
(***************************************************************************)
Ps == {"kvlds", "lbs", "s3", "ddbkv"}

\* What else a packet's payload may be: cut, extended, or with one byte more
\* than it was.
Variants(buf) ==
  {SubSeq(buf, 1, n) : n \in 0 .. Len(buf) - 1}
    \cup {Append(buf, b) : b \in {0, 1}}
    \cup {[buf EXCEPT ![i] = (@ + 1) % Byte] : i \in DOMAIN buf}

Asked(p, r) == [ID |-> 0, buf |-> Encode(p, r), good |-> TRUE, want |-> r]
Answered(id, a) == [ID |-> id, buf |-> a.buf, good |-> TRUE, want |-> a.want]
Changed(m) == {[m EXCEPT !.good = FALSE, !.buf = b] : b \in Variants(m.buf)}

Conversation(p, dir, reqs, msgs, slow) ==
  [proto |-> p, dir |-> dir, reqs |-> reqs, msgs |-> msgs, slow |-> slow]

Requests ==
  UNION {{Conversation(p, "request", <<>>, <<Asked(p, r)>>, FALSE) :
            r \in Reqs(p)} : p \in Ps}

\* One request of each type for the answers, and for the changed packets.  The
\* client of LBS knows the length of the block that it asks for.
Some(p) ==
  LET types == {r.type : r \in Reqs(p)}
      pick(t) == CHOOSE r \in Reqs(p) : r.type = t
  IN  {IF p = "lbs" /\ t = "GET" THEN [pick(t) EXCEPT !.blklen = 2]
       ELSE IF p = "kvlds" /\ t = "RANGE" THEN [pick(t) EXCEPT !.max = 4]
       ELSE pick(t) : t \in types}

Responses ==
  UNION {UNION {{Conversation(p, "response", [i \in {0} |-> r],
                              <<Answered(0, a)>>, FALSE) :
                   a \in Answers(p, r)} : r \in Some(p)} : p \in Ps}

Oddities ==
  UNION {UNION {{Conversation(p, "request", <<>>, <<m>>, FALSE) :
                   m \in Changed(Asked(p, r))} : r \in Some(p)} : p \in Ps}
  \cup
  UNION {UNION {UNION {{Conversation(p, "response", [i \in {0} |-> r], <<m>>, FALSE) :
                          m \in Changed(Answered(0, a))} :
                       a \in Answers(p, r)} : r \in Some(p) \ {q \in Some(p) : q.type = "RANGE"}} :
         p \in Ps}

\* Two packets each; the longest is longer than the buffers.
Slow ==
  LET get == [type |-> "GET", max |-> 0, keys |-> <<<<1>>>>]
      set == [type |-> "SET", max |-> 0, keys |-> <<<<1>>, Longest>>]
      del == [type |-> "DELETE", max |-> 0, keys |-> <<<<>>>>]
      put(rs) == [i \in DOMAIN rs |-> [Asked("kvlds", rs[i]) EXCEPT !.ID = i]]
      value == [failed |-> 0, found |-> TRUE, value |-> <<2>>]
      done  == [failed |-> 0]
      say(id, r, a) == Answered(id, [buf |-> KV!Response(r, a), want |-> a])
  IN  {Conversation("kvlds", "request", <<>>, put(<<get, del>>), TRUE),
       Conversation("kvlds", "request", <<>>, put(<<del, set>>), TRUE),
       Conversation("kvlds", "response", <<get, del>>,
                    <<say(2, del, done), say(1, get, value)>>, TRUE)}

Conversations == Requests \cup Responses \cup Oddities \cup Slow
=============================================================================
