--------------------------- MODULE KvldsDispatch ----------------------------
(***************************************************************************)
(* kvlds/dispatch.c: one connection of the request dispatcher, from        *)
(* dispatch_accept to dispatch_done.  Requests are read, queued as         *)
(* modifying (MR) or non-modifying (NMR) ones and launched; KvldsTree is   *)
(* what happens to them then.  Here a request in progress just ends.       *)
(***************************************************************************)
EXTENDS Integers, Sequences, FiniteSetsExt

CONSTANTS
    MAXREQS,            \* requests pending at once
    NmrPages,           \* pages a GET and a RANGE touch
    NmrConcurrency,     \* nmr_concurrency
    MaxBatch,           \* mr_concurrency / pagesperop
    MinBatch,           \* mr_min_batch (-g)
    MaxSent,            \* bound: requests the client sends
    MayClean            \* may the cleaner have something to clean?

NmrTypes == {"GET", "RANGE"}

ASSUME KvldsDispatchAssumption ==
    /\ MAXREQS \in Nat \ {0} /\ MaxBatch \in Nat \ {0} /\ MinBatch \in Nat \ {0}
    /\ NmrPages \in [NmrTypes -> Nat \ {0}] /\ NmrConcurrency \in Nat
    /\ MaxSent \in Nat /\ MayClean \in BOOLEAN

VARIABLES
    d,          \* struct dispatch_state
    main,       \* "accept", then "open" with a connection, then "done"
    looping,    \* in the loop of gotrequest: "no", at the "first" packet or at "more"
    cleanable,  \* btree_cleaning_possible
    received,   \* ghost: requests read from the connection
    answered    \* ghost: responses written to it

vars == <<d, main, looping, cleanable, received, answered>>

\* dispatch_accept
Init ==
    /\ d = [dying |-> FALSE, read_cookie |-> FALSE, nrequests |-> 0,
            nmr_q |-> <<>>, nmr_run |-> [t \in NmrTypes |-> 0],
            mr_qlen |-> 0, mr_reqs |-> 0, mr_inprogress |-> FALSE,
            mr_timer |-> FALSE, mr_timer_expired |-> FALSE,
            mrc_timer |-> TRUE, docleans |-> FALSE]
    /\ main = "accept" /\ looping = "no" /\ cleanable = FALSE
    /\ received = 0 /\ answered = 0

-----------------------------------------------------------------------------
(***************************************************************************)
(* The functions that the handlers call, as what they make of a dispatcher *)
(* state s.                                                                *)
(***************************************************************************)
Dropconnection(s) ==
    [s EXCEPT !.dying = TRUE, !.read_cookie = FALSE,
              !.nmr_q = <<>>, !.mr_qlen = 0,
              !.nrequests = @ - Len(s.nmr_q) - s.mr_qlen,
              !.mr_timer = FALSE, !.mr_timer_expired = FALSE]

Readreqs(s, open) ==
    [s EXCEPT !.read_cookie = (open /\ ~s.dying /\ s.nrequests # MAXREQS) \/ @]

\* nmr_ip after the first k requests of the queue have been launched.
Launched(s, k) ==
    [t \in NmrTypes |-> s.nmr_run[t] + Cardinality({j \in 1 .. k : s.nmr_q[j] = t})]
Pages(run) == run["GET"] * NmrPages["GET"] + run["RANGE"] * NmrPages["RANGE"]

\* Mutant: a request that is too large by itself waits for ever.
FitsAlways(s, k) == Pages(Launched(s, k)) <= NmrConcurrency

\* The k-th request of the queue can be handled.
Fits(s, k) ==
    Pages(Launched(s, k - 1)) > 0 => Pages(Launched(s, k)) <= NmrConcurrency

PokeNmr(s) ==
    LET n == Max({k \in 0 .. Len(s.nmr_q) : \A j \in 1 .. k : Fits(s, j)}) IN
    [s EXCEPT !.nmr_run = Launched(s, n), !.nmr_q = SubSeq(@, n + 1, Len(@))]

\* A batch is launched, or else the timer is started if it has to be.
BatchDue(s) ==
    ~s.mr_inprogress /\ (s.mr_timer_expired \/ s.docleans \/ s.mr_qlen >= MinBatch)

LaunchBatch(s) ==
    LET n == IF s.mr_qlen > MaxBatch THEN MaxBatch ELSE s.mr_qlen IN
    [s EXCEPT !.mr_reqs = n, !.mr_qlen = @ - n, !.mr_inprogress = TRUE,
              !.mr_timer = FALSE, !.mr_timer_expired = FALSE,
              !.mrc_timer = TRUE, !.docleans = FALSE]

StartTimer(s) == [s EXCEPT !.mr_timer = @ \/ (~s.mr_timer_expired /\ s.mr_qlen > 0)]

\* Mutant: the timer is only looked at when no batch has been launched.
PokeMrElse(s) == IF BatchDue(s) THEN LaunchBatch(s) ELSE StartTimer(s)

PokeMr(s) == StartTimer(IF BatchDue(s) THEN LaunchBatch(s) ELSE s)

-----------------------------------------------------------------------------
(***************************************************************************)
(* The event handlers.                                                     *)
(***************************************************************************)
Waiting == main \in {"accept", "open"} /\ looping = "no"

CallbackAccept ==
    /\ main = "accept" /\ main' = "open"
    /\ d' = Readreqs(d, TRUE)
    /\ UNCHANGED <<looping, cleanable, received, answered>>

\* gotrequest: a packet has arrived.
GotRequest ==
    /\ Waiting /\ d.read_cookie /\ received < MaxSent
    /\ d' = [d EXCEPT !.read_cookie = FALSE]
    /\ looping' = "first"
    /\ UNCHANGED <<main, cleanable, received, answered>>

GotRequestFailed ==
    /\ Waiting /\ d.read_cookie
    /\ d' = Dropconnection(d)
    /\ UNCHANGED <<main, looping, cleanable, received, answered>>

\* Mutant: the loop does not look at the number of requests.
MoreUnlimited == looping # "no" /\ received < MaxSent

More == looping # "no" /\ d.nrequests # MAXREQS /\ received < MaxSent

\* proto_kvlds_request_read has a request; the switch on its type.
GotParams ==
    /\ More /\ looping' = "more"
    /\ received' = received + 1 /\ answered' = answered + 1
    /\ UNCHANGED <<d, main, cleanable>>

GotMr ==
    /\ More /\ looping' = "more" /\ received' = received + 1
    /\ d' = PokeMr([d EXCEPT !.nrequests = @ + 1, !.mr_qlen = @ + 1])
    /\ UNCHANGED <<main, cleanable, answered>>

GotNmr(t) ==
    /\ More /\ looping' = "more" /\ received' = received + 1
    /\ d' = PokeNmr([d EXCEPT !.nrequests = @ + 1, !.nmr_q = Append(@, t)])
    /\ UNCHANGED <<main, cleanable, answered>>

\* A packet that cannot be parsed, is too long or has an unknown type.
GotBadRequest ==
    /\ More
    /\ d' = Dropconnection(d)
    /\ looping' = "no"
    /\ UNCHANGED <<main, cleanable, received, answered>>

\* There is no request in the buffer, or there are MAXREQS in progress.
GotNoMore ==
    /\ looping = "more" /\ looping' = "no"
    /\ d' = Readreqs(d, TRUE)
    /\ UNCHANGED <<main, cleanable, received, answered>>

Answer(n) == answered' = IF d.dying THEN answered ELSE answered + n

CallbackNmrDone(t) ==
    /\ Waiting /\ d.nmr_run[t] > 0
    /\ d' = PokeNmr(Readreqs([d EXCEPT !.nmr_run[t] = @ - 1, !.nrequests = @ - 1],
                             main = "open"))
    /\ Answer(1)
    /\ UNCHANGED <<main, looping, cleanable, received>>

CallbackMrDone ==
    /\ Waiting /\ d.mr_inprogress
    /\ d' = PokeMr(Readreqs([d EXCEPT !.nrequests = @ - d.mr_reqs, !.mr_inprogress = FALSE],
                            main = "open"))
    /\ Answer(d.mr_reqs)
    /\ UNCHANGED <<main, looping, cleanable, received>>

CallbackMrTimer ==
    /\ Waiting /\ d.mr_timer
    /\ d' = PokeMr([d EXCEPT !.mr_timer = FALSE, !.mr_timer_expired = TRUE])
    /\ UNCHANGED <<main, looping, cleanable, received, answered>>

CallbackMrcTimer ==
    /\ Waiting /\ d.mrc_timer /\ cleanable
    /\ d' = PokeMr([d EXCEPT !.mrc_timer = FALSE, !.docleans = TRUE])
    /\ UNCHANGED <<main, looping, cleanable, received, answered>>

\* A write fails, and netbuf_write calls dropconnection.
WriteFailed ==
    /\ Waiting /\ main = "open"
    /\ d' = Dropconnection(d)
    /\ UNCHANGED <<main, looping, cleanable, received, answered>>

\* The cleaner has fetched some leaves, or they have been dirtied.
CleanerStep ==
    /\ MayClean /\ Waiting /\ cleanable' = ~cleanable
    /\ UNCHANGED <<d, main, looping, received, answered>>

\* dispatch_alive
Alive(s) == ~s.dying \/ s.nrequests > 0

DispatchDone ==
    /\ Waiting /\ main = "open" /\ ~Alive(d)
    /\ main' = "done"
    /\ UNCHANGED <<d, looping, cleanable, received, answered>>

Packet ==
    GotParams \/ GotMr \/ (\E t \in NmrTypes : GotNmr(t)) \/ GotBadRequest \/ GotNoMore

Next ==
    \/ CallbackAccept
    \/ GotRequest \/ GotRequestFailed \/ Packet
    \/ \E t \in NmrTypes : CallbackNmrDone(t)
    \/ CallbackMrDone \/ CallbackMrTimer \/ CallbackMrcTimer
    \/ WriteFailed \/ CleanerStep
    \/ DispatchDone

Spec == Init /\ [][Next]_vars

\* Timers expire, requests in progress end, and handlers do not stop half-way.
FairSpec ==
    /\ Spec
    /\ \A t \in NmrTypes : WF_vars(CallbackNmrDone(t))
    /\ WF_vars(CallbackMrDone) /\ WF_vars(CallbackMrTimer) /\ WF_vars(Packet)
    /\ WF_vars(DispatchDone)

-----------------------------------------------------------------------------
(***************************************************************************)
(* Properties                                                              *)
(***************************************************************************)
\* The types of the fields of struct dispatch_state.
TypeOK ==
    /\ d \in [dying : BOOLEAN, read_cookie : BOOLEAN, nrequests : Nat,
              nmr_q : Seq(NmrTypes), nmr_run : [NmrTypes -> Nat],
              mr_qlen : Nat, mr_reqs : Nat, mr_inprogress : BOOLEAN,
              mr_timer : BOOLEAN, mr_timer_expired : BOOLEAN,
              mrc_timer : BOOLEAN, docleans : BOOLEAN]
    /\ main \in {"accept", "open", "done"} /\ looping \in {"no", "first", "more"}
    /\ cleanable \in BOOLEAN
    /\ received \in Nat /\ answered \in Nat

\* "Number of responses we owe": nrequests counts the requests queued and in
\* progress, whatever drops and completions happened in between, and does not
\* exceed MAXREQS; no counter, all of them unsigned, goes below zero.
Owed ==
    /\ TypeOK
    /\ d.nrequests = Len(d.nmr_q) + d.nmr_run["GET"] + d.nmr_run["RANGE"] + d.mr_qlen
                        + (IF d.mr_inprogress THEN d.mr_reqs ELSE 0)
    /\ d.nrequests <= MAXREQS
    /\ ~d.dying => received = answered + d.nrequests

\* Nothing is forgotten between two events: a queued modifying request has a
\* timer, one that has expired or a batch in its way; a queued read waits for
\* pages that others hold; the cleaner gets its batch; and the connection is
\* being read from if and only if there are fewer than MAXREQS requests.
NothingForgotten ==
    Waiting =>
        /\ d.mr_qlen > 0 => d.mr_timer \/ (d.mr_timer_expired /\ d.mr_inprogress)
        /\ d.nmr_q # <<>> => Pages(d.nmr_run) > 0
        /\ d.mrc_timer \/ (d.docleans /\ d.mr_inprogress)
        /\ main = "open" /\ ~d.dying => (d.read_cookie <=> d.nrequests < MAXREQS)

\* Every request that has been read is answered, unless the connection dies, and
\* a connection that dies is cleaned up, so that the next one can be accepted.
Answered ==
    /\ \A n \in 1 .. MaxSent : received = n ~> (answered >= n \/ d.dying)
    /\ d.dying ~> main = "done"

\* dispatch_done, "there should be no requests in progress": when the dispatcher
\* state is freed, no batch is going to call back with it, and the cleaning timer
\* that dispatch_done cancels is running.
DoneMeansIdle == main = "done" => ~d.mr_inprogress /\ d.mrc_timer
=============================================================================
