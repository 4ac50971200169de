------------------------------- MODULE LbsS3 -------------------------------
(***************************************************************************)
(* lbs-s3: a log-structured block store on top of S3 objects.  Each APPEND *)
(* writes one object; object numbers only grow; FREE runs the DeleteTo     *)
(* algorithm, which keeps just the objects that the FindLast algorithm     *)
(* probes when the daemon starts.  The module models main.c, dispatch.c,   *)
(* s3state.c, findlast.c and deleteto.c, over an S3 that is only as        *)
(* consistent as lbs-s3/DESIGN assumes, and kills of the daemon with S3    *)
(* operations in flight.                                                   *)
(***************************************************************************)
EXTENDS Integers, FiniteSets, FiniteSetsExt

CONSTANTS
    BLKSPEROBJECT,      \* 2^24 in the code
    MarkerPeriod,       \* 256 in the code
    Stored,             \* numbers of objects a bucket may start with
    Sizes,              \* numbers of blocks of an APPEND
    MaxAppends,         \* bound on the APPENDs made here
    MaxKills,           \* bound on the kills of the daemon
    MaxConns,           \* bound on the connections
    MaxGets,            \* bound on the GETs outstanding at once
    LatePuts            \* may data of a dead daemon's PUT appear after a restart?

\* Between two APPENDs a restart may leave a gap of one object.
MaxObject == Max(Stored) + 2 * MaxAppends + 2

VARIABLES
    up,         \* what main() is doing, or "down"
    F,          \* findlast: phase, probe, L and *olen
    S,          \* struct s3state: nextblk, lastblk
    D,          \* struct deleteto
    C,          \* struct dispatch_state of the connection, and what its client knows
    ops,        \* S3 requests of this daemon that are not answered
    late,       \* S3 requests of dead daemons that may still take effect
    vis,        \* per object, the contents a read may return
    mark,       \* the values of DeletedMarker a read may return, 0 for none
    need,       \* <<object, content>> the clients rely on
    puts,       \* data PUTs issued so far, <<object, content>>
    kills,      \* kills so far
    conns       \* connections so far

svars == <<up, F, S, D, C, ops, late, vis, mark, need, puts, kills, conns>>

(***************************************************************************)
(* S3.  An object holds "no object", or a number of blocks and the number  *)
(* of the PUT that wrote them.  DESIGN: a new object can be read once its  *)
(* PUT has succeeded; an object that has been overwritten or deleted may   *)
(* return any of what was written, for ever.                               *)
(***************************************************************************)
Absent == [n |-> -1, id |-> 0]
Empty == [n |-> 0, id |-> 0]

Vis(o) == IF o \in DOMAIN vis THEN vis[o] ELSE {Absent}

Put(v, o, c) == [v EXCEPT ![o] = IF @ = {Absent} THEN {c} ELSE @ \cup {c}]

Applied(v, op) ==
    CASE op.kind = "put"    -> Put(v, op.obj, op.c)
      [] op.kind = "delete" -> [v EXCEPT ![op.obj] = @ \cup {Absent}]
      [] OTHER              -> v

Marked(m, op) ==
    IF op.kind # "marker" THEN m
    ELSE IF m = {0} THEN {op.obj} ELSE m \cup {op.obj}

Op(kind, obj, c, cb) == [kind |-> kind, obj |-> obj, c |-> c, cb |-> cb]

\* BLK2OBJECT.
BLK2OBJECT(blk) == blk \div BLKSPEROBJECT + 1

(***************************************************************************)
(* A daemon that is not running has no state.                              *)
(***************************************************************************)
NoF == [ph |-> "up", probe |-> 1, L |-> 0, olen |-> 0, N |-> 0]
NoS == [nextblk |-> 0, lastblk |-> -1]
NoD == [N |-> 0, M |-> 0, npending |-> 0, idle |-> TRUE,
        updateDeletedTo |-> FALSE, shuttingdown |-> FALSE]
NoC == [reading |-> FALSE, npending |-> 0, appendip |-> FALSE, knows |-> -1]

\* The daemon has not started on a bucket into which k APPENDs went before.
Init ==
    \E k \in Stored :
        /\ up = "down" /\ F = NoF /\ S = NoS /\ D = NoD /\ C = NoC
        /\ ops = {} /\ late = {} /\ mark = {0}
        /\ vis = [o \in 1 .. MaxObject |->
                     IF o <= k THEN {[n |-> 1, id |-> o]} ELSE {Absent}]
        /\ need = {<<o, [n |-> 1, id |-> o]>> : o \in 1 .. k}
        /\ puts = {}
        /\ kills = 0 /\ conns = 0

(***************************************************************************)
(* deleteto.c                                                              *)
(***************************************************************************)

\* main() starts and deleteto_init asks whether DeletedMarker exists.
deleteto_init ==
    /\ up = "down" /\ up' = "marker"
    /\ D' = NoD
    /\ UNCHANGED <<F, S, C, ops, late, vis, mark, need, puts, kills, conns>>

\* callback_deletedmarker_head, and callback_deletedmarker_get if it exists.
callback_deletedmarker_head ==
    /\ up = "marker"
    /\ \E m \in mark :
          IF m = 0 THEN /\ D' = [D EXCEPT !.M = 1]
                        /\ up' = "find" /\ F' = NoF
                   ELSE /\ up' = "markerget" /\ UNCHANGED <<D, F>>
    /\ UNCHANGED <<S, C, ops, late, vis, mark, need, puts, kills, conns>>

callback_deletedmarker_get ==
    /\ up = "markerget" /\ up' = "find" /\ F' = NoF
    /\ \E m \in mark \ {0} : D' = [D EXCEPT !.M = m]
    /\ UNCHANGED <<S, C, ops, late, vis, mark, need, puts, kills, conns>>

Powers == {2 ^ i : i \in 0 .. MaxObject}

\* Mutant: the power of two is deleted with the others.
DeletableAll(M) ==
    {M - (M % b) : b \in {p \in Powers : /\ (M \div p) % 2 = 1
                                       /\ ((M + 1) \div p) % 2 = 0}}

\* The objects that M needs and M + 1 does not.
Deletable(M) ==
    {M - (M % b) : b \in {p \in Powers : /\ (M \div p) % 2 = 1
                                       /\ ((M + 1) \div p) % 2 = 0
                                       /\ M - (M % p) # p}}

\* Objects whose number must stay taken, although their data need not.
Emptied(M) == IF M \in Powers \/ M % MarkerPeriod = 0 THEN {M} ELSE {}

StoreMarker(d) ==
    IF d.M % MarkerPeriod = 0 /\ d.updateDeletedTo
    THEN {Op("marker", d.M, Empty, "done")} ELSE {}

Round(d) ==
    {Op("delete", x, Empty, "done") : x \in Deletable(d.M)}
        \cup {Op("put", x, Empty, "done") : x \in Emptied(d.M)}

\* poke: the deleter afterwards and the requests it issues.
RECURSIVE poke(_)
poke(d) ==
    IF d.shuttingdown \/ ~d.idle THEN [d |-> d, new |-> {}]
    ELSE LET marker == StoreMarker(d)
             work   == IF d.N <= d.M THEN {} ELSE Round(d)
             new    == marker \cup work
             d1     == [d EXCEPT !.idle = new = {},
                                 !.npending = @ + Cardinality(new),
                                 !.updateDeletedTo =
                                     IF d.N > d.M THEN TRUE
                                     ELSE @ /\ marker = {},
                                 !.M = IF d.N > d.M THEN @ + 1 ELSE @]
         IN IF d.N > d.M /\ new = {} THEN poke(d1)
            ELSE [d |-> d1, new |-> new]

\* Mutant: the first answer of a round starts the next round.
CallbackDoneFirst(d) ==
    poke([d EXCEPT !.npending = @ - 1, !.idle = TRUE])

\* callback_done, for an operation that did not fail.
callback_done(d) ==
    IF d.npending = 1
    THEN poke([d EXCEPT !.npending = 0, !.idle = TRUE])
    ELSE [d |-> [d EXCEPT !.npending = @ - 1], new |-> {}]

deleteto_deleteto(d, n) == poke([d EXCEPT !.N = IF @ < n THEN n ELSE @])

(***************************************************************************)
(* findlast.c and s3state_init                                             *)
(***************************************************************************)

\* The next HEAD after a loop step: the loops that have nothing to do end.
RECURSIVE Probe(_)
Probe(f) ==
    CASE f.ph = "up"   -> f
      [] f.ph = "down" ->
            IF f.N > 0 THEN [f EXCEPT !.probe = f.L + f.N]
            ELSE Probe([f EXCEPT !.ph = "back"])
      [] f.ph = "back" ->
            IF f.olen = 0 /\ f.L > 1
            THEN [f EXCEPT !.L = @ - 1, !.probe = f.L - 1]
            ELSE [f EXCEPT !.ph = "done"]

\* What findlast does with the answer to a HEAD.
Found(f, c) ==
    CASE f.ph = "up" /\ c = Absent ->
            Probe([f EXCEPT !.ph = "down", !.N = f.L \div 2])
      [] f.ph = "up" ->
            [f EXCEPT !.L = f.probe, !.olen = c.n, !.probe = 2 * @]
      [] f.ph = "down" /\ c = Absent -> Probe([f EXCEPT !.N = @ \div 2])
      [] f.ph = "down" ->
            Probe([f EXCEPT !.L = f.probe, !.olen = c.n, !.N = @ \div 2])
      [] f.ph = "back" /\ c = Absent -> [f EXCEPT !.ph = "failed"]
      [] f.ph = "back" -> Probe([f EXCEPT !.olen = c.n])

\* One HEAD of findlast is answered.  A bucket whose last object cannot be
\* found ends the daemon.
findlast ==
    /\ up = "find" /\ F.ph \in {"up", "down", "back"}
    /\ \E c \in Vis(F.probe) : F' = Found(F, c)
    /\ UNCHANGED <<up, S, D, C, ops, late, vis, mark, need, puts, kills, conns>>

\* The empty object after the last one is written before data.
s3state_init ==
    /\ up = "find" /\ F.ph = "done"
    /\ IF F.L = 0
       THEN /\ S' = [nextblk |-> 0, lastblk |-> -1]
            /\ up' = "accept" /\ UNCHANGED ops
       ELSE /\ S' = [nextblk |-> 0,
                     lastblk |-> (F.L - 1) * BLKSPEROBJECT + F.olen - 1]
            /\ ops' = ops \cup {Op("put", F.L + 1, Empty, "putdone")}
            /\ up' = "gap"
    /\ UNCHANGED <<F, D, C, late, vis, mark, need, puts, kills, conns>>

\* callback_putdone and the end of s3state_init.
callback_putdone(op) ==
    /\ op.cb = "putdone" /\ up = "gap"
    /\ S' = [S EXCEPT !.nextblk = (F.L + 1) * BLKSPEROBJECT]
    /\ up' = "accept" /\ ops' = ops \ {op}
    /\ UNCHANGED <<F, D, C, need, puts>>

(***************************************************************************)
(* dispatch.c, s3state_get, s3state_append, s3state_gc                     *)
(***************************************************************************)

\* A client connects.  It learns the next block number before anything else.
callback_accept ==
    /\ up = "accept" /\ conns < MaxConns
    /\ up' = "serve" /\ conns' = conns + 1
    /\ C' = [NoC EXCEPT !.reading = TRUE]
    /\ UNCHANGED <<F, S, D, ops, late, vis, mark, need, puts, kills>>

\* PARAMS2.  The client relies on the last block from now on.
Params2 ==
    /\ up = "serve" /\ C.reading
    /\ C' = [C EXCEPT !.knows = S.nextblk]
    /\ LET o == BLK2OBJECT(S.lastblk)
       IN IF S.lastblk = -1 \/ o \in {x[1] : x \in need} THEN UNCHANGED need
          ELSE \E c \in vis[o] :
                  /\ c.n = (S.lastblk % BLKSPEROBJECT) + 1
                  /\ need' = need \cup {<<o, c>>}
    /\ UNCHANGED <<up, F, S, D, ops, late, vis, mark, puts, kills, conns>>

\* APPEND: refused unless it is for the next block and no other is in progress.
s3state_append ==
    /\ up = "serve" /\ C.reading /\ C.knows # -1
    /\ \E n \in Sizes :
          LET o == BLK2OBJECT(C.knows)
              c == [n |-> n, id |-> MaxObject + Cardinality(puts)]
          IN IF C.knows # S.nextblk \/ C.appendip THEN UNCHANGED <<C, ops, puts>>
             ELSE /\ Cardinality(puts) < MaxAppends
                  /\ C' = [C EXCEPT !.npending = @ + 1, !.appendip = TRUE]
                  /\ ops' = ops \cup {Op("put", o, c, "append")}
                  /\ puts' = puts \cup {<<o, c>>}
    /\ UNCHANGED <<up, F, S, D, late, vis, mark, need, kills, conns>>

\* The PUT of an APPEND has succeeded; the response may find no connection.
callback_append(op) ==
    /\ op.cb = "append"
    /\ LET blkno == (op.obj - 1) * BLKSPEROBJECT
       IN /\ S' = [nextblk |-> blkno + BLKSPEROBJECT,
                   lastblk |-> blkno + op.c.n - 1]
          /\ C' = [C EXCEPT !.npending = @ - 1, !.appendip = FALSE,
                            !.knows = blkno + BLKSPEROBJECT]
    /\ need' = need \cup {<<op.obj, op.c>>}
    /\ ops' = ops \ {op}
    /\ UNCHANGED <<up, F, D, puts>>

\* GET of a block, which is a RANGE of an object.
s3state_get ==
    /\ up = "serve" /\ C.reading /\ C.knows # -1
    /\ Cardinality({op \in ops : op.cb = "get"}) < MaxGets
    /\ \E x \in need :
          /\ C' = [C EXCEPT !.npending = @ + 1]
          /\ ops' = ops \cup {Op("range", x[1], x[2], "get")}
    /\ UNCHANGED <<up, F, S, D, late, vis, mark, need, puts, kills, conns>>

callback_get(op) ==
    /\ op.cb = "get"
    /\ C' = [C EXCEPT !.npending = @ - 1]
    /\ ops' = ops \ {op}
    /\ UNCHANGED <<up, F, S, D, need, puts>>

\* FREE.  A client frees no block after the last one it knows of.
s3state_gc ==
    /\ up = "serve" /\ C.reading /\ C.knows # -1
    /\ \E x \in need :
          LET blkno == (x[1] - 1) * BLKSPEROBJECT
              r     == deleteto_deleteto(D, BLK2OBJECT(blkno))
          IN /\ D' = r.d /\ ops' = ops \cup r.new
             /\ need' = {y \in need : y[1] >= BLK2OBJECT(blkno)}
    /\ UNCHANGED <<up, F, S, C, late, vis, mark, puts, kills, conns>>

\* The connection ends: EOF, a bad request or a failed write.  What is in
\* progress goes on.
dropconnection ==
    /\ up = "serve" /\ C.reading
    /\ C' = [C EXCEPT !.reading = FALSE]
    /\ UNCHANGED <<up, F, S, D, ops, late, vis, mark, need, puts, kills, conns>>

dispatch_alive == C.reading \/ C.npending > 0

\* main(): the next connection, or with -1 the end of the daemon.
dispatch_done ==
    /\ up = "serve" /\ ~dispatch_alive
    /\ C' = NoC
    /\ \/ up' = "accept" /\ UNCHANGED D
       \/ up' = "stop" /\ D' = [D EXCEPT !.shuttingdown = TRUE]
    /\ UNCHANGED <<F, S, ops, late, vis, mark, need, puts, kills, conns>>

\* deleteto_stop waits until the deleter is idle.
deleteto_stop ==
    /\ up = "stop" /\ D.idle
    /\ up' = "down" /\ F' = NoF /\ S' = NoS /\ D' = NoD
    /\ UNCHANGED <<C, ops, late, vis, mark, need, puts, kills, conns>>

CallbackDone(op) ==
    /\ op.cb = "done"
    /\ LET r == callback_done(D)
       IN D' = r.d /\ ops' = (ops \ {op}) \cup r.new
    /\ UNCHANGED <<up, F, S, C, need, puts>>

\* S3 carries out a request and its answer arrives.
Answer ==
    /\ \E op \in ops :
          /\ vis' = Applied(vis, op) /\ mark' = Marked(mark, op)
          /\ \/ callback_putdone(op)
             \/ callback_append(op)
             \/ callback_get(op)
             \/ CallbackDone(op)
    /\ UNCHANGED <<late, kills, conns>>

IsData(op) == op.kind = "put" /\ op.c # Empty

\* The daemon dies, or exits because a request failed.  What it had asked S3
\* for happens later or never; the data PUT happens at once or never unless
\* LatePuts.
Kill ==
    /\ up # "down" /\ kills < MaxKills
    /\ kills' = kills + 1
    /\ up' = "down" /\ F' = NoF /\ S' = NoS /\ D' = NoD /\ C' = NoC
    /\ ops' = {}
    /\ LET data == {op \in ops : IsData(op) /\ ~LatePuts}
       IN /\ late' = late \cup {op \in ops \ data : op.kind # "range"}
          /\ \/ UNCHANGED vis
             \/ \E op \in data : vis' = Applied(vis, op)
    /\ UNCHANGED <<mark, need, puts, conns>>

LateEffect ==
    /\ \E op \in late :
          /\ vis' = Applied(vis, op) /\ mark' = Marked(mark, op)
          /\ late' = late \ {op}
    /\ UNCHANGED <<up, F, S, D, C, ops, need, puts, kills, conns>>

\* No client connects any more.
Over ==
    /\ up = "accept" /\ conns = MaxConns /\ ops = {}
    /\ UNCHANGED svars

Next ==
    \/ deleteto_init \/ callback_deletedmarker_head \/ callback_deletedmarker_get
    \/ findlast \/ s3state_init \/ callback_accept
    \/ Params2 \/ s3state_append \/ s3state_get \/ s3state_gc
    \/ dropconnection \/ dispatch_done \/ deleteto_stop
    \/ Answer \/ Kill \/ LateEffect \/ Over

(***************************************************************************)
(* Properties                                                              *)
(***************************************************************************)

\* lbs-s3/DESIGN: the objects that FindLast probes for a last object #N.
FINDSET(N) ==
    {p \in Powers : p < N} \cup {N - (N % p) : p \in {q \in Powers : q < N}}
        \cup {N}

\* Every block a client was told of and has not freed can be read, with the
\* data written and no other; no DELETE was issued for an object that FindLast
\* needs to find the newest of them; and a daemon that serves starts at no
\* block it has promised before.
BlocksKept ==
    /\ \A x \in need : vis[x[1]] = {x[2]}
    /\ need # {} =>
          LET newest == Max({x[1] : x \in need})
          IN /\ \A o \in FINDSET(newest) :
                   /\ Absent \notin vis[o]
                   /\ \A op \in ops \cup late : op.kind = "delete" => op.obj # o
             /\ up \in {"accept", "serve"} =>
                   /\ BLK2OBJECT(S.nextblk) > newest
                   /\ BLK2OBJECT(S.lastblk) >= newest
    /\ F.ph # "failed"

\* DeletedMarker never runs ahead of the deletes: all that is below a value it
\* may hold, or is about to hold, and that FindLast does not probe, has been
\* deleted.  The deleter never stops with work left, dispatch_state counts
\* what is owed, and the one APPEND in progress is for the next block.
DeletesRecorded ==
    /\ \A m \in (mark \ {0}) \cup {op.obj : op \in {p \in ops \cup late : p.kind = "marker"}} :
          \A o \in (1 .. m - 1) \ FINDSET(m) : Absent \in vis[o]
    /\ up = "serve" => (D.idle => D.N <= D.M)
    /\ D.npending = Cardinality({op \in ops : op.cb = "done"})
    /\ D.idle <=> D.npending = 0
    /\ C.npending = Cardinality({op \in ops : op.cb \in {"get", "append"}})
    /\ C.appendip => \E op \in ops : op.cb = "append"
                        /\ op.obj = BLK2OBJECT(S.nextblk)

\* lbs-s3/DESIGN: "there must be a one-object gap in order to ensure that we
\* never read an object which has had two PUTs with different data made".
OnePut ==
    \A x \in need : \A y \in puts : y[1] = x[1] => y = x

=============================================================================
