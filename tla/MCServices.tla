----------------------------- MODULE MCServices ------------------------------
(***************************************************************************)
(* The daemons around the two block stores and the code they share, side   *)
(* by side: a behaviour is one of a part, chosen at the start, and the     *)
(* variables of the others stay at 0.                                      *)
(*   protocols   clients and servers of the four protocols over the wire   *)
(*   lbss3       lbs-s3                                                    *)
(*   s3proxy     s3                                                        *)
(*   dynamodbkv  dynamodb-kv                                               *)
(*   serverpool  the addresses of dynamodb-kv's endpoint                   *)
(*   http        an HTTP request                                           *)
(***************************************************************************)
EXTENDS MCConversations

CONSTANTS
  WBUFLEN, RBUFLEN, SocketSize,
  BLKSPEROBJECT, MarkerPeriod, Stored, Sizes, MaxAppends, MaxKills, MaxGets, LatePuts,
  reqsip_max, Endpoints, MaxFails, MaxExpiries,
  BurstSeconds, MaxBurst, FullBucket, Capacities, UnitCosts, OtherOps, MaxFaults, MaxReads,
  MaxReqs, MaxConns, KvMaxConns,
  Addresses,
  MAXHDR, MAXCHLEN, WaitMax, res_bodylen_max

VARIABLES
  part,
  conv, todo, W, net, open, faulty, R, pend, out, dead,
  up, F, S, C, ops, late, vis, mark, need, puts, kills,
  pool, picked, DR, answers, nreqs, fails, expiries,
  req, table, stray, M, acked, faults, reads,
  D, conns, main, Q,
  A, reading, pipe, got, last,
  resp, cut, wire, H, eof, quiet

\* HTTP responses: up to an interim one, short and long headers, and bodies of
\* every coding up to and beyond the limit.
HttpResponses ==
  {r \in [interim : {<<>>, <<2>>, <<3>>}, head : {2, 3}, body : {"none", "some"},
          te : {"chunked", "clen", "eof", "invalid"},
          chunks : {<<>>, <<2>>, <<4>>, <<1, 2>>, <<5>>, <<2, 4>>}] :
     r.body = "none" \/ r.te = "invalid" => r.chunks = <<>>}

Pr == INSTANCE Protocols
Ls == INSTANCE LbsS3
Px == INSTANCE S3Proxy
Kv == INSTANCE DynamodbKv WITH MaxConns <- KvMaxConns
Sp == INSTANCE ServerPool
Ht == INSTANCE Http WITH Responses <- HttpResponses

-----------------------------------------------------------------------------
\* The variables that only one part has, and those that lbs-s3, s3 and
\* dynamodb-kv or the latter two share the names of.
prvars == <<conv, todo, W, net, open, faulty, R, pend, out, dead>>
lsvars == <<up, F, S, C, ops, late, vis, mark, need, puts, kills>>
pxvars == <<pool, picked, DR, answers, nreqs, fails, expiries>>
kvvars == <<req, table, stray, M, acked, faults, reads>>
spvars == <<A, reading, pipe, got, last>>
htvars == <<resp, cut, wire, H, eof, quiet>>
shared == <<D, conns, main, Q>>

NoPr == /\ conv = 0 /\ todo = 0 /\ W = 0 /\ net = 0 /\ open = 0
        /\ faulty = 0 /\ R = 0 /\ pend = 0 /\ out = 0 /\ dead = 0
NoLs == /\ up = 0 /\ F = 0 /\ S = 0 /\ C = 0 /\ ops = 0 /\ late = 0
        /\ vis = 0 /\ mark = 0 /\ need = 0 /\ puts = 0 /\ kills = 0
NoPx == /\ pool = 0 /\ picked = 0 /\ DR = 0 /\ answers = 0
        /\ nreqs = 0 /\ fails = 0 /\ expiries = 0
NoKv == /\ req = 0 /\ table = 0 /\ stray = 0 /\ M = 0
        /\ acked = 0 /\ faults = 0 /\ reads = 0
NoSp == A = 0 /\ reading = 0 /\ pipe = 0 /\ got = 0 /\ last = 0
NoHt == resp = 0 /\ cut = 0 /\ wire = 0 /\ H = 0 /\ eof = 0 /\ quiet = 0

Init ==
  \/ /\ part = "protocols" /\ Pr!PInit
     /\ NoLs /\ NoPx /\ NoKv /\ NoSp /\ NoHt /\ D = 0 /\ conns = 0 /\ main = 0 /\ Q = 0
  \/ /\ part = "lbss3" /\ Ls!Init
     /\ NoPr /\ NoPx /\ NoKv /\ NoSp /\ NoHt /\ main = 0 /\ Q = 0
  \/ /\ part = "s3proxy" /\ Px!Init
     /\ NoPr /\ NoLs /\ NoKv /\ NoSp /\ NoHt
  \/ /\ part = "dynamodbkv" /\ Kv!Init
     /\ NoPr /\ NoLs /\ NoPx /\ NoSp /\ NoHt
  \/ /\ part = "serverpool" /\ Sp!Init
     /\ NoPr /\ NoLs /\ NoPx /\ NoKv /\ NoHt /\ D = 0 /\ conns = 0 /\ main = 0 /\ Q = 0
  \/ /\ part = "http" /\ Ht!Init
     /\ NoPr /\ NoLs /\ NoPx /\ NoKv /\ NoSp /\ D = 0 /\ conns = 0 /\ main = 0 /\ Q = 0

ProtocolsNext ==
  /\ part = "protocols" /\ Pr!PNext
  /\ UNCHANGED <<part, lsvars, pxvars, kvvars, shared, spvars, htvars>>

LbsS3Next ==
  /\ part = "lbss3" /\ Ls!Next
  /\ UNCHANGED <<part, prvars, pxvars, kvvars, main, Q, spvars, htvars>>

S3ProxyNext ==
  /\ part = "s3proxy" /\ Px!Next
  /\ UNCHANGED <<part, prvars, lsvars, kvvars, spvars, htvars>>

DynamodbKvNext ==
  /\ part = "dynamodbkv" /\ Kv!Next
  /\ UNCHANGED <<part, prvars, lsvars, pxvars, spvars, htvars>>

ServerPoolNext ==
  /\ part = "serverpool" /\ Sp!Next
  /\ UNCHANGED <<part, prvars, lsvars, pxvars, kvvars, shared, htvars>>

HttpNext ==
  /\ part = "http" /\ Ht!Next
  /\ UNCHANGED <<part, prvars, lsvars, pxvars, kvvars, shared, spvars>>

Next ==
  \/ ProtocolsNext \/ LbsS3Next \/ S3ProxyNext
  \/ DynamodbKvNext \/ ServerPoolNext \/ HttpNext

-----------------------------------------------------------------------------
(* Properties: those of the modules.                                         *)

\* What a client or a server of a protocol understands is what the other said,
\* however wire and netbuf cut it up (request_parse, the callbacks).
Understood == part = "protocols" => Pr!Understood

\* The buffered reader always has room for the packet it waits for.
ReadFits == part = "protocols" => Pr!ReadFits

\* No packet stays in a buffer of netbuf_write or netbuf_read.
NothingLost == part = "protocols" => Pr!NothingLost

\* lbs-s3 keeps every block that it acknowledged and finds the last again.
BlocksKept == part = "lbss3" => Ls!BlocksKept

\* lbs-s3's DeletedMarker never runs ahead of the deletes (deleteto.c).
DeletesRecorded == part = "lbss3" => Ls!DeletesRecorded

\* s3's dispatcher and request queue agree, and each request is answered once.
S3Requests == part = "s3proxy" => Px!S3Requests

\* dynamodb-kv's retries never undo or misreport a CREATE or an ICAS.
RetriesIdempotent == part = "dynamodbkv" => Kv!RetriesIdempotent

\* dynamodb-kv's queues keep their heaps in order and forget no request.
QueuesSound == part = "dynamodbkv" => Kv!QueuesSound

\* serverpool_pick always finds an address, and one that is current.
PoolCurrent == part = "serverpool" => Sp!PoolCurrent

\* http.c gives its caller the meaning of the response, however it arrives.
HttpMeaning == part = "http" => Ht!HttpMeaning
=============================================================================
