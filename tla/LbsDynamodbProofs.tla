-------------------------- MODULE LbsDynamodbProofs -------------------------
(***************************************************************************)
(* The handlers of the deleter, of the connection, of GET and APPEND and   *)
(* of the answers about the metadata keep the invariant; and the theorems  *)
(* about LbsDynamodb.                                                      *)
(***************************************************************************)
EXTENDS LbsDynamodbLocalProofs, LbsDynamodbHandlerProofs

\* The provers of a step that names none, and the seconds each has.
USE SMTT(30), ZenonT(30), Z3T(30)

(***************************************************************************)
(* The deleter                                                             *)
(***************************************************************************)
\* A handler that records something and calls poke keeps the invariant.
LEMMA PokeStep ==
    ASSUME SetFacts, DynInv, NEW p, NEW s0 \in Handling, NEW A,
           Step(p, poke(s0), A), Begun(p, s0, A), Resumed(proc[p], s0),
           \A a \in A : a.op # "put",
           s0.conn # "none" => s0.phase = "running",
           s0.N <= freed', s0.N <= run.maxblk,
           acked' = acked, denied' = denied
    PROVE  GoodStep
  <1> DEFINE t == poke(s0)
  <1>1. Types /\ PutInv /\ p \in Daemons /\ proc[p].phase \in Working /\ s0.phase \in Working
        /\ s0.out = {}
    BY Zenon DEF DynInv, Step, Begun
  <1>2. /\ proc[p] \in Handling /\ Local(proc[p]) /\ AtRest(proc[p])
        /\ proc[p].nextblk <= run.maxblk
    BY Zenon, <1>1, WorkingFacts
  <1>3. Asking(s0)
    BY <1>1 DEF Asking
  <1>4. Local(s0) /\ Stage(s0) = Stage(proc[p]) /\ Later(s0) = Later(proc[p])
    BY Zenon, <1>2, <1>3, ResumedLocal
  <1>5. Poked(s0, t)
    BY Zenon, <1>1, <1>4, PokeLocal
  <1> HIDE DEF t
  <1>6. Step(p, t, A)
    BY Zenon DEF t
  <1>7. t.phase = s0.phase /\ t.append = s0.append /\ t.nextblk = s0.nextblk
        /\ Stage(t) = Stage(s0)
    BY Zenon, <1>5 DEF Poked, Kept
  <1>8. s0.append = proc[p].append /\ s0.nextblk = proc[p].nextblk
        /\ s0.write_wanted = proc[p].write_wanted
        /\ s0.write_inprogress = proc[p].write_inprogress
    BY Zenon DEF Resumed
  <1>9. AtRest(t)
    <2>1. /\ Later(s0) # NoCallback => s0.write_wanted
          /\ s0.write_wanted => s0.write_inprogress
      BY Zenon, <1>2, <1>4, <1>8 DEF AtRest
    <2> QED
      BY Zenon, <1>1, <1>5, <1>7, <2>1, PokedRest
  <1>10. PutInv'
    <2>1. SameAppend(proc[p], t)
      BY Zenon, <1>1, <1>4, <1>7, <1>8 DEF SameAppend
    <2>2. \A o \in t.out : o[1] # "put"
      BY <1>5, <1>6, BegunAsks
    <2> QED
      BY Zenon, <1>1, <1>6, <2>1, <2>2, PutSame
  <1>11. s0.nextblk <= run.maxblk /\ s0.append.old = proc[p].append.old
    BY Zenon, <1>2, <1>8
  <1> QED
    BY Zenon, <1>5, <1>6, <1>8, <1>9, <1>10, <1>11, BegunStep

\* callback_done, a DELETE is answered: it keeps the invariant.
LEMMA DoneStep ==
    ASSUME SetFacts, DynInv, NEW p \in Daemons, callback_done(p)
    PROVE  GoodStep
  <1> PICK a \in ans :
          /\ a.p = p /\ a.op = "delete"
          /\ Become(p, poke([proc[p] EXCEPT !.ip = @ \ {a.arg[1]}]), {a})
          /\ UNCHANGED <<dynamo, run, pids, acked, freed, deleted, denied>>
    BY Zenon DEF callback_done
  <1> DEFINE s0 == [proc[p] EXCEPT !.ip = @ \ {a.arg[1]}]
             A == {a}
  <1>1. Types /\ Alone /\ DeleteInv
    BY Zenon DEF DynInv
  <1>2. /\ a.arg[1] < freed /\ a.arg[1] \in deleted
        /\ proc[p].phase \in Working /\ a.arg[1] \in proc[p].ip
    BY Zenon, <1>1 DEF DeleteInv
  <1>3. /\ proc[p] \in Handling /\ proc[p].out = {} /\ Local(proc[p])
        /\ proc[p].conn # "none" => proc[p].phase = "running"
        /\ proc[p].N <= freed /\ proc[p].N <= run.maxblk
    BY Zenon, <1>2, WorkingFacts
  <1>4. s0 \in Handling
    BY <1>3 DEF Handling, ProcWith
  <1>5. /\ s0.ip = proc[p].ip \ {a.arg[1]} /\ s0.out = {}
        /\ s0.phase = proc[p].phase /\ s0.conn = proc[p].conn /\ s0.N = proc[p].N
        /\ s0.gets = proc[p].gets /\ s0.M = proc[p].M
        /\ s0.pid = proc[p].pid /\ s0.stored = proc[p].stored
        /\ s0.storing = proc[p].storing
        /\ s0.write_inprogress = proc[p].write_inprogress
    BY Zenon, <1>3 DEF Handling, ProcWith
  <1>6. Resumed(proc[p], s0)
    <2>1. s0.N >= proc[p].N
      BY <1>3, <1>5 DEF Handling, ProcWith
    <2> QED
      BY Zenon, <1>3, <2>1 DEF Resumed, Handling, ProcWith
  <1> HIDE DEF s0
  <1>7. /\ a.arg = <<a.arg[1]>> /\ \A m \in net : m.op = "delete" => m.arg = <<m.arg[1]>>
        /\ \A c \in ans : c.op = "delete" => c.arg = <<c.arg[1]>>
    BY Zenon, <1>1 DEF Types, ArgOK
  <1>8. \A m \in net : m.p = p /\ m.op = "delete" /\ m.live => m.arg[1] \in s0.ip
    <2> SUFFICES ASSUME NEW m \in net, m.p = p, m.op = "delete", m.live
                 PROVE  m.arg[1] \in s0.ip
      BY Zenon
    <2>1. m.arg[1] \in proc[p].ip /\ ~Twins(m, a)
      BY Zenon, <1>1 DEF DeleteInv, Alone
    <2>2. m.arg[1] # a.arg[1]
      BY Zenon, <1>7, <2>1 DEF Twins, SameKind
    <2> QED
      BY Zenon, <1>5, <2>1, <2>2
  <1>9. \A c \in ans \ A : c.p = p /\ c.op = "delete" => c.arg[1] \in s0.ip
    <2> SUFFICES ASSUME NEW c \in ans \ A, c.p = p, c.op = "delete"
                 PROVE  c.arg[1] \in s0.ip
      BY Zenon
    <2>1. c.arg[1] \in proc[p].ip /\ ~Twins(c, a)
      BY Zenon, <1>1 DEF DeleteInv, Alone
    <2>2. c.arg[1] # a.arg[1]
      BY Zenon, <1>7, <2>1 DEF Twins, SameKind
    <2> QED
      BY Zenon, <1>5, <2>1, <2>2
  <1>10. Begun(p, s0, A)
    <2>1. \A b \in proc[p].ip \ s0.ip : b \in deleted /\ b < freed
      BY Zenon, <1>2, <1>5
    <2>2. \A c \in A : c.op \in {"delete", "put"} /\ (c.op = "delete" => c.arg[1] \notin s0.ip)
      BY Zenon, <1>5
    <2>3. s0.ip \subseteq proc[p].ip
      BY Zenon, <1>5
    <2> QED
      BY Zenon, <1>2, <1>4, <1>5, <1>8, <1>9, <2>1, <2>2, <2>3 DEF Begun
  <1>11. Asking(s0)
    BY <1>5 DEF Asking
  <1>12. poke(s0) \in Handling
    <2>1. Local(s0) /\ s0.phase \in Working
      BY Zenon, <1>2, <1>3, <1>4, <1>5, <1>6, <1>11, ResumedLocal
    <2> QED
      BY Zenon, <1>4, <2>1, PokeLocal DEF Poked
  <1>13. Step(p, poke(s0), A)
    <2>1. Become(p, poke(s0), A)
      BY Zenon DEF s0
    <2>2. /\ UNCHANGED dynamo /\ deleted' = deleted /\ run' \in Run
          /\ run'.maxblk = run.maxblk /\ pids' \in Nat /\ pids' >= pids
          /\ freed' \in Nat /\ freed' >= freed
      BY <1>1 DEF Types
    <2>3. \A c \in A : c.p = p
      BY Zenon
    <2> QED
      BY Zenon, <1>1, <1>12, <2>1, <2>2, <2>3, BecomeStep
  <1>14. /\ s0.conn # "none" => s0.phase = "running"
         /\ s0.N <= freed' /\ s0.N <= run.maxblk /\ acked' = acked /\ denied' = denied
    BY Zenon, <1>3, <1>5
  <1>15. \A c \in A : c.op # "put"
    OBVIOUS
  <1> QED
    BY Zenon, <1>4, <1>6, <1>10, <1>13, <1>14, <1>15, PokeStep

\* A FREE request (deleteto_deleteto): it keeps the invariant.
LEMMA FreeStep ==
    ASSUME SetFacts, DynInv, NEW p \in Daemons, GotFree(p)
    PROVE  GoodStep
  <1> PICK n \in 0 .. proc[p].stored.lastblk :
          /\ Become(p, poke([proc[p] EXCEPT !.N = Max({@, n})]), {})
          /\ freed' = Max({freed, n})
    BY Zenon DEF GotFree
  <1> DEFINE s0 == [proc[p] EXCEPT !.N = Max({@, n})]
  <1>1. /\ Types /\ ProcInv /\ proc[p].conn = "open"
        /\ UNCHANGED <<dynamo, run, pids, acked, deleted, denied>>
    BY Zenon DEF DynInv, GotFree
  <1>2. proc[p].phase = "running" /\ proc[p].phase \in Working
    <2>1. proc[p].conn # "none"
      BY <1>1
    <2> QED
      BY Zenon, <1>1, <2>1 DEF ProcInv, OneProc, Working
  <1>3. /\ proc[p] \in Handling /\ proc[p].out = {} /\ Local(proc[p])
        /\ proc[p].nextblk <= run.maxblk
        /\ proc[p].N <= freed /\ proc[p].N <= run.maxblk
    BY Zenon, <1>2, WorkingFacts
  <1>4. /\ proc[p].N \in Nat /\ freed \in Nat /\ n \in Nat /\ run.maxblk \in Nat
        /\ pids \in Nat /\ run \in Run
    BY <1>1, <1>3 DEF Types, Run, Handling, ProcWith, MTuple
  <1>5. n < run.maxblk
    <2>1. proc[p].lastblk < proc[p].nextblk /\ Upto(Sent(proc[p]), proc[p].latest)
          /\ (proc[p].write_inprogress => Upto(proc[p].stored, proc[p].storing))
          /\ proc[p].latest.lastblk = proc[p].lastblk
      BY Zenon, <1>3 DEF Local, Core, Tuples
    <2>2. proc[p].stored.lastblk <= proc[p].lastblk
      BY <1>3, <2>1 DEF Sent, Upto, Handling, ProcWith, MTuple
    <2> QED
      BY <1>3, <1>4, <2>1, <2>2 DEF Handling, ProcWith, MTuple
  <1>6. /\ Max({proc[p].N, n}) = IF proc[p].N >= n THEN proc[p].N ELSE n
        /\ Max({freed, n}) = IF freed >= n THEN freed ELSE n
    BY <1>4, MaxOfTwo
  <1>7. s0 \in Handling
    <2>1. Max({proc[p].N, n}) \in Nat
      BY <1>4, <1>6
    <2> QED
      BY <1>3, <2>1 DEF Handling, ProcWith
  <1>8. /\ s0.ip = proc[p].ip /\ s0.out = {} /\ s0.phase = proc[p].phase
        /\ s0.conn = proc[p].conn /\ s0.gets = proc[p].gets
        /\ s0.N = Max({proc[p].N, n})
    BY Zenon, <1>3 DEF Handling, ProcWith
  <1>9. s0.N >= proc[p].N /\ s0.N <= freed' /\ s0.N <= run.maxblk
        /\ freed' \in Nat /\ freed' >= freed
    BY <1>3, <1>4, <1>5, <1>6, <1>8
  <1>10. Resumed(proc[p], s0)
    BY Zenon, <1>3, <1>9 DEF Resumed, Handling, ProcWith
  <1> HIDE DEF s0
  <1>11. Begun(p, s0, {})
    BY Zenon, <1>2, <1>7, <1>8, <1>10, BegunIdle
  <1>12. poke(s0) \in Handling
    <2>1. Asking(s0)
      BY <1>8 DEF Asking
    <2>2. Local(s0) /\ s0.phase \in Working
      BY Zenon, <1>2, <1>3, <1>7, <1>8, <1>10, <2>1, ResumedLocal
    <2> QED
      BY Zenon, <1>7, <2>2, PokeLocal DEF Poked
  <1>13. Step(p, poke(s0), {})
    <2>1. Become(p, poke(s0), {})
      BY Zenon DEF s0
    <2>2. /\ UNCHANGED dynamo /\ deleted' = deleted /\ run' \in Run
          /\ run'.maxblk = run.maxblk /\ pids' \in Nat /\ pids' >= pids
      BY <1>1, <1>4
    <2> QED
      BY Zenon, <1>1, <1>9, <1>12, <2>1, <2>2, BecomeStep
  <1>14. s0.conn # "none" => s0.phase = "running"
    BY Zenon, <1>2, <1>8
  <1>15. acked' = acked /\ denied' = denied /\ \A a \in {} : a.op # "put"
    BY <1>1
  <1> QED
    BY <1>7, <1>9, <1>10, <1>11, <1>13, <1>14, <1>15, PokeStep

(***************************************************************************)
(* The connection                                                          *)
(***************************************************************************)
\* A handler that changes nothing but the connection.
LEMMA PlainStep ==
    ASSUME SetFacts, DynInv, NEW p, NEW t, Step(p, t, {}),
           proc[p].phase \in Working, Resumed(proc[p], t), t.phase = proc[p].phase,
           t.shutdown = proc[p].shutdown,
           t.ip = proc[p].ip, t.gets = proc[p].gets, t.N = proc[p].N, t.out = {},
           t.conn # "none" => t.phase = "running",
           acked' = acked, denied' = denied
    PROVE  GoodStep
  <1>1. Types /\ PutInv /\ p \in Daemons /\ t \in Handling /\ freed \in Nat
        /\ freed' \in Nat /\ freed' >= freed
    BY Zenon DEF DynInv, Types, Step
  <1>2. /\ proc[p] \in Handling /\ Local(proc[p]) /\ AtRest(proc[p])
        /\ proc[p].nextblk <= run.maxblk /\ proc[p].N <= freed /\ proc[p].N <= run.maxblk
    BY Zenon, <1>1, WorkingFacts
  <1>3. Local(t) /\ Stage(t) = Stage(proc[p]) /\ Later(t) = Later(proc[p])
    <2>1. Asking(t)
      BY DEF Asking
    <2> QED
      BY Zenon, <1>1, <1>2, <2>1, ResumedLocal
  <1>4. AtRest(t)
    BY Zenon, <1>2, <1>3 DEF AtRest, Resumed
  <1>5. Kept(t, t)
    BY Zenon DEF Kept
  <1>6. Asks(t, t)
    <2>1. t.M \in Nat
      BY <1>1 DEF Handling, ProcWith
    <2> QED
      BY <2>1 DEF Asks
  <1>7. Poked(t, t)
    BY Zenon, <1>1, <1>3, <1>4, <1>5, <1>6 DEF Poked, AtRest
  <1>8. Begun(p, t, {})
    BY Zenon, <1>1, BegunIdle
  <1>9. PutInv'
    <2>1. SameAppend(proc[p], t)
      BY Zenon, <1>3 DEF SameAppend, Resumed
    <2> QED
      BY Zenon, <1>1, <2>1, PutSame
  <1>10. t.nextblk = proc[p].nextblk /\ t.append.old = proc[p].append.old
    BY Zenon DEF Resumed
  <1>11. t.nextblk <= run.maxblk /\ t.N <= run.maxblk
    BY Zenon, <1>2, <1>10
  <1>12. t.N <= freed'
    <2>1. t.N \in Nat
      BY <1>1 DEF Handling, ProcWith
    <2> QED
      BY <1>1, <1>2, <2>1
  <1> QED
    BY Zenon, <1>4, <1>7, <1>8, <1>9, <1>10, <1>11, <1>12, BegunStep

\* A change of the connection keeps the invariant.
LEMMA ConnStep ==
    ASSUME SetFacts, DynInv, NEW p \in Daemons, proc[p].conn # "none",
           NEW c \in {"accepting", "open", "dying"},
           Become(p, [proc[p] EXCEPT !.conn = c], {}),
           UNCHANGED <<dynamo, pids, acked, freed, deleted, denied>>,
           run' \in Run, run'.maxblk = run.maxblk
    PROVE  GoodStep
  <1> DEFINE t == [proc[p] EXCEPT !.conn = c]
  <1>1. Types
    BY Zenon DEF DynInv
  <1>2. proc[p].phase = "running" /\ proc[p].phase \in Working
    BY Zenon, ConnFacts
  <1>3. proc[p] \in Handling /\ proc[p].out = {}
    BY Zenon, <1>2, WorkingFacts
  <1>4. t \in Handling
    BY <1>3 DEF Handling, ProcWith
  <1>5. /\ t.phase = proc[p].phase /\ t.shutdown = proc[p].shutdown /\ t.ip = proc[p].ip
        /\ t.gets = proc[p].gets /\ t.N = proc[p].N /\ t.out = {}
    BY Zenon, <1>3 DEF Handling, ProcWith
  <1>6. Resumed(proc[p], t)
    <2>1. t.N >= proc[p].N
      BY <1>3, <1>5 DEF Handling, ProcWith
    <2> QED
      BY Zenon, <1>3, <2>1 DEF Resumed, Handling, ProcWith
  <1> HIDE DEF t
  <1>7. Step(p, t, {})
    <2>1. Become(p, t, {})
      BY Zenon DEF t
    <2>2. /\ UNCHANGED dynamo /\ deleted' = deleted /\ pids' \in Nat /\ pids' >= pids
          /\ freed' \in Nat /\ freed' >= freed
      BY <1>1 DEF Types
    <2> QED
      BY Zenon, <1>1, <1>4, <2>1, <2>2, BecomeStep
  <1> QED
    BY Zenon, <1>2, <1>5, <1>6, <1>7, PlainStep

\* callback_accept, a client connects: it keeps the invariant.
LEMMA AcceptStep ==
    ASSUME SetFacts, DynInv, NEW p \in Daemons, callback_accept(p)
    PROVE  GoodStep
  <1>1. proc[p].conn # "none" /\ "open" \in {"accepting", "open", "dying"}
    BY DEF callback_accept
  <1>2. /\ Become(p, [proc[p] EXCEPT !.conn = "open"], {})
        /\ UNCHANGED <<dynamo, pids, acked, freed, deleted, denied>> /\ run' = run
    BY DEF callback_accept
  <1>3. run' \in Run /\ run'.maxblk = run.maxblk
    BY Zenon, <1>2 DEF DynInv, Types
  <1> QED
    BY Zenon, <1>1, <1>2, <1>3, ConnStep

\* dropconnection, the client is gone: it keeps the invariant.
LEMMA DropStep ==
    ASSUME SetFacts, DynInv, NEW p \in Daemons, dropconnection(p)
    PROVE  GoodStep
  <1>1. proc[p].conn # "none" /\ "dying" \in {"accepting", "open", "dying"}
    BY DEF dropconnection
  <1>2. /\ Become(p, [proc[p] EXCEPT !.conn = "dying"], {})
        /\ UNCHANGED <<dynamo, pids, acked, freed, deleted, denied>>
        /\ run.drop > 0 /\ run' = [run EXCEPT !.drop = @ - 1]
    BY Zenon DEF dropconnection
  <1>3. run' \in Run /\ run'.maxblk = run.maxblk
    <2>1. run \in Run
      BY Zenon DEF DynInv, Types
    <2> QED
      BY <1>2, <2>1 DEF Run
  <1> QED
    BY Zenon, <1>1, <1>2, <1>3, ConnStep

\* dispatch_done, and then deleteto_stop: it keeps the invariant.
LEMMA DispatchDoneStep ==
    ASSUME SetFacts, DynInv, NEW p \in Daemons, dispatch_done(p)
    PROVE  GoodStep
  <1>1. /\ Types /\ proc[p].conn = "dying" /\ proc[p].conn # "none"
        /\ UNCHANGED <<dynamo, pids, acked, freed, deleted, denied>> /\ run' = run
    BY DEF DynInv, dispatch_done
  <1>2. proc[p].phase = "running" /\ proc[p].phase \in Working
    BY Zenon, <1>1, ConnFacts
  <1>3. run' \in Run /\ run'.maxblk = run.maxblk
    BY Zenon, <1>1 DEF Types
  <1>4. CASE p \notin run.opt_1
    <2>1. Become(p, [proc[p] EXCEPT !.conn = "accepting"], {})
      BY Zenon, <1>4 DEF dispatch_done
    <2>2. "accepting" \in {"accepting", "open", "dying"}
      OBVIOUS
    <2> QED
      BY Zenon, <1>1, <1>3, <2>1, <2>2, ConnStep
  <1>5. CASE p \in run.opt_1
    <2> DEFINE s0 == [proc[p] EXCEPT !.conn = "none", !.phase = "stopping",
                                     !.shuttingdown = 1]
    <2>1. /\ proc[p] \in Handling /\ proc[p].out = {} /\ Local(proc[p])
          /\ proc[p].N <= freed /\ proc[p].N <= run.maxblk
      BY Zenon, <1>2, WorkingFacts
    <2>2. s0 \in Handling
      <3>1. [proc[p] EXCEPT !.conn = "none"] \in Handling
        BY <2>1 DEF Handling, ProcWith
      <3>2. \A s \in Handling : [s EXCEPT !.phase = "stopping"] \in Handling
        BY DEF Handling, ProcWith
      <3>3. \A s \in Handling : [s EXCEPT !.shuttingdown = 1] \in Handling
        BY DEF Handling, ProcWith
      <3> QED
        BY Zenon, <3>1, <3>2, <3>3
    <2>3. /\ s0.ip = proc[p].ip /\ s0.out = {} /\ s0.phase = "stopping"
          /\ s0.conn = "none" /\ s0.gets = proc[p].gets /\ s0.N = proc[p].N
      BY Zenon, <2>1 DEF Handling, ProcWith
    <2>4. Resumed(proc[p], s0)
      <3>1. s0.N >= proc[p].N
        BY <2>1, <2>3 DEF Handling, ProcWith
      <3> QED
        BY Zenon, <2>1, <3>1 DEF Resumed, Handling, ProcWith
    <2>5. Become(p, poke(s0), {})
      BY Zenon, <1>5 DEF dispatch_done
    <2> HIDE DEF s0
    <2>6. s0.phase \in Working
      BY Zenon, <2>3 DEF Working
    <2>7. Begun(p, s0, {})
      BY Zenon, <1>2, <2>2, <2>3, <2>4, <2>6, BegunIdle
    <2>8. poke(s0) \in Handling
      <3>1. Asking(s0)
        BY <2>3 DEF Asking
      <3>2. Local(s0)
        BY Zenon, <2>1, <2>2, <2>4, <3>1, ResumedLocal
      <3> QED
        BY Zenon, <2>2, <2>6, <3>2, PokeLocal DEF Poked
    <2>9. Step(p, poke(s0), {})
      <3>1. /\ UNCHANGED dynamo /\ deleted' = deleted /\ pids' \in Nat /\ pids' >= pids
            /\ freed' \in Nat /\ freed' >= freed
        BY <1>1 DEF Types
      <3> QED
        BY Zenon, <1>1, <1>3, <2>5, <2>8, <3>1, BecomeStep
    <2>10. /\ acked' = acked /\ denied' = denied /\ \A a \in {} : a.op # "put"
           /\ freed' = freed
      BY <1>1
    <2>11. s0.N <= freed' /\ s0.N <= run.maxblk /\ (s0.conn # "none" => s0.phase = "running")
      BY Zenon, <2>1, <2>3, <2>10
    <2> QED
      BY <2>2, <2>4, <2>7, <2>9, <2>10, <2>11, PokeStep
  <1> QED
    BY Zenon, <1>4, <1>5

(***************************************************************************)
(* GET                                                                     *)
(***************************************************************************)
\* A handler that changes nothing but the GETs.
Getting(p, t, A) ==
    LET s == proc[p] IN
    /\ s.phase \in Working /\ Resumed(s, t) /\ t.phase = s.phase /\ t.conn = s.conn
    /\ t.shutdown = s.shutdown /\ t.ip = s.ip /\ t.N = s.N
    /\ \A o \in t.out : o[1] \in Reads
    /\ \A a \in A : a.op \in Reads

\* A handler that concerns the GETs only keeps the invariant.
LEMMA GetsStep ==
    ASSUME SetFacts, DynInv, NEW p, NEW t, NEW A, Step(p, t, A), Getting(p, t, A),
           acked' = acked, denied' \subseteq Nat,
           \A o \in t.out : Unasked(p, A, o),
           \A o, r \in t.out : SameKind(o[1], o[2], r[1], r[2]) => o = r,
           GetInv',
           \A g \in t.gets :
               \/ g \in proc[p].gets /\ \A a \in A : a.op \in Reads => a.arg # <<g.blk>>
               \/ \E op \in Reads : <<op, <<g.blk>>>> \in t.out
    PROVE  GoodStep
  <1>1. Types /\ PutInv /\ DeleteInv /\ WaitInv /\ p \in Daemons /\ t \in Handling
        /\ freed \in Nat /\ freed' \in Nat /\ freed' >= freed /\ deleted' = deleted
    BY Zenon DEF DynInv, Types, Step
  <1>2. /\ proc[p].phase \in Working /\ Resumed(proc[p], t) /\ t.phase = proc[p].phase
        /\ t.conn = proc[p].conn
        /\ t.shutdown = proc[p].shutdown /\ t.ip = proc[p].ip /\ t.N = proc[p].N
    BY Zenon DEF Getting
  <1>3. /\ \A o \in t.out : o[1] \notin {"icas", "put", "delete"}
        /\ \A o \in t.out : o[1] \in {"icas", "put", "delete", "get", "getc"}
        /\ \A a \in A : a.op \notin {"icas", "getmd", "put", "delete"}
    BY DEF Reads, Getting
  <1>4. /\ proc[p] \in Handling /\ Local(proc[p]) /\ AtRest(proc[p])
        /\ proc[p].conn # "none" => proc[p].phase = "running"
        /\ proc[p].nextblk <= run.maxblk /\ proc[p].N <= freed /\ proc[p].N <= run.maxblk
        /\ DoneBelow(proc[p])
    BY Zenon, <1>1, <1>2, WorkingFacts
  <1>5. Local(t) /\ Stage(t) = Stage(proc[p]) /\ Later(t) = Later(proc[p])
    <2>1. Asking(t)
      BY Zenon, <1>3 DEF Asking
    <2> QED
      BY Zenon, <1>1, <1>2, <1>4, <2>1, ResumedLocal
  <1>6. AtRest(t)
    BY Zenon, <1>2, <1>4, <1>5 DEF AtRest, Resumed
  <1>7. Quiet(p, t, A)
    BY Zenon, <1>2, <1>3, <1>5 DEF Quiet, Resumed
  <1>8. t.nextblk = proc[p].nextblk /\ t.append.old = proc[p].append.old
        /\ t.write_inprogress = proc[p].write_inprogress /\ t.M = proc[p].M
    BY Zenon, <1>2 DEF Resumed
  <1>9. t.nextblk <= run.maxblk /\ t.N <= run.maxblk
        /\ (t.conn # "none" => t.phase = "running")
    BY Zenon, <1>2, <1>4, <1>8
  <1>10. t.N <= freed'
    <2>1. t.N \in Nat /\ t.N <= freed
      BY <1>1, <1>2, <1>4 DEF Handling, ProcWith
    <2> QED
      BY <1>1, <2>1
  <1>11. DoneBelow(t)'
    <2>1. \A b \in 0 .. t.M - 1 : b \in t.ip \/ (b \in deleted' /\ b < freed)
      BY Zenon, <1>1, <1>2, <1>4, <1>8 DEF DoneBelow
    <2>2. \A b \in Int : b < freed => b < freed'
      BY <1>1
    <2>3. \A b \in 0 .. t.M - 1 : b \in Int
      BY <1>1 DEF Handling, ProcWith
    <2> QED
      BY Zenon, <2>1, <2>2, <2>3 DEF DoneBelow
  <1>12. PutInv'
    <2>1. SameAppend(proc[p], t)
      BY Zenon, <1>2, <1>5 DEF SameAppend, Resumed
    <2>2. /\ \A o \in t.out : o[1] # "put"
          /\ \A a \in A : a.op # "put"
      BY Zenon, <1>3
    <2> QED
      BY Zenon, <1>1, <2>1, <2>2, PutSame
  <1>13. /\ \A m \in net : m.p = p /\ m.op = "delete" /\ m.live => m.arg[1] \in t.ip
         /\ \A a \in ans \ A : a.p = p /\ a.op = "delete" => a.arg[1] \in t.ip
    BY Zenon, <1>1, <1>2 DEF DeleteInv
  <1>14. WaitInv'
    <2>1. t.write_inprogress => \/ proc[p].write_inprogress /\ \A a \in A : a.op # "icas"
                                \/ \E o \in t.out : o[1] = "icas"
      BY Zenon, <1>3, <1>8
    <2>2. \A b \in t.ip : \/ b \in proc[p].ip /\ \A a \in A : a.op = "delete" => a.arg # <<b>>
                          \/ <<"delete", <<b>>>> \in t.out
      BY Zenon, <1>2, <1>3
    <2>3. t.phase \in Working
      BY Zenon, <1>2
    <2> QED
      BY Zenon, <1>1, <1>2, <2>1, <2>2, <2>3, WaitWorking
  <1>15. \A o \in t.out : o[1] # "put" /\ Unasked(p, A, o)
    BY Zenon, <1>3
  <1> QED
    BY <1>6, <1>7, <1>8, <1>9, <1>10, <1>11, <1>12, <1>13, <1>14, <1>15, QuietStep

\* A GET is asked for.
LEMMA GetRequestStep ==
    ASSUME SetFacts, DynInv, NEW p \in Daemons, GotGet(p)
    PROVE  GoodStep
  <1> PICK b \in Blocks :
          /\ \A g \in proc[p].gets : g.blk # b
          /\ Become(p, [proc[p] EXCEPT !.gets = @ \cup {[blk |-> b, due |-> b \in acked]},
                                       !.out = {<<"get", <<b>>>>}], {})
    BY Zenon DEF GotGet
  <1>1. /\ Types /\ GetInv /\ proc[p].conn = "open" /\ proc[p].conn # "none"
        /\ run.get > 0 /\ run' = [run EXCEPT !.get = @ - 1]
        /\ UNCHANGED <<dynamo, pids, acked, freed, deleted, denied>>
    BY DEF DynInv, GotGet
  <1> DEFINE due == b \in acked
             new == [blk |-> b, due |-> due]
             gets == proc[p].gets \cup {new}
             o == <<"get", <<b>>>>
             t == [proc[p] EXCEPT !.gets = gets, !.out = {o}]
  <1>2. proc[p].phase = "running" /\ proc[p].phase \in Working
    BY Zenon, <1>1, ConnFacts
  <1>3. proc[p] \in Handling /\ proc[p].out = {}
    BY Zenon, <1>2, WorkingFacts
  <1>4. b \in Nat /\ run' \in Run /\ run'.maxblk = run.maxblk
    BY <1>1 DEF Types, Blocks, Run
  <1>5. new \in [blk : Nat, due : BOOLEAN] /\ new.blk = b /\ (new.due => b \in acked)
    <2>1. due \in BOOLEAN /\ (due => b \in acked)
      OBVIOUS
    <2> HIDE DEF due
    <2> QED
      BY <1>4, <2>1
  <1>6. t \in Handling
    <2>1. gets \in SUBSET [blk : Nat, due : BOOLEAN]
      <3>1. proc[p].gets \in SUBSET [blk : Nat, due : BOOLEAN]
        BY <1>3 DEF Handling, ProcWith
      <3> HIDE DEF new
      <3> QED
        BY Zenon, <1>5, <3>1
    <2>2. {o} \in SUBSET Outs
      BY <1>4 DEF Outs
    <2>3. \A s \in Handling : \A G \in SUBSET [blk : Nat, due : BOOLEAN] :
             [s EXCEPT !.gets = G] \in Handling
      BY DEF Handling, ProcWith
    <2>4. \A s \in Handling : \A O \in SUBSET Outs : [s EXCEPT !.out = O] \in Handling
      BY DEF Handling, ProcWith
    <2> HIDE DEF gets, o
    <2> QED
      BY Zenon, <1>3, <2>1, <2>2, <2>3, <2>4
  <1>7. Become(p, t, {})
    BY Zenon
  <1>8. /\ t.gets = gets /\ t.out = {o} /\ t.phase = proc[p].phase /\ t.conn = proc[p].conn
        /\ t.shutdown = proc[p].shutdown /\ t.ip = proc[p].ip /\ t.N = proc[p].N
    BY Zenon, <1>3 DEF Handling, ProcWith
  <1>9. Resumed(proc[p], t)
    <2>1. t.N >= proc[p].N
      BY <1>3, <1>8 DEF Handling, ProcWith
    <2> QED
      BY Zenon, <1>3, <2>1 DEF Resumed, Handling, ProcWith
  <1> HIDE DEF t, new
  <1>10. Step(p, t, {})
    <2>1. /\ UNCHANGED dynamo /\ deleted' = deleted /\ pids' \in Nat /\ pids' >= pids
          /\ freed' \in Nat /\ freed' >= freed
      BY <1>1 DEF Types
    <2> QED
      BY Zenon, <1>1, <1>4, <1>6, <1>7, <2>1, BecomeStep
  <1>11. \A r \in t.out : r = <<"get", <<b>>>> /\ r[1] = "get" /\ r[2] = <<b>>
    BY <1>8
  <1>12. Getting(p, t, {})
    BY Zenon, <1>2, <1>8, <1>9, <1>11 DEF Getting, Reads
  <1>13. ASSUME NEW r \in t.out PROVE Unasked(p, {}, r)
    <2>1. \A op, arg : SameKind(r[1], r[2], op, arg) => op \in Reads /\ arg[1] = b
      BY <1>11 DEF SameKind, Reads
    <2>2. \A m \in net : m.p = p /\ m.live /\ m.op \in Reads => m.arg[1] # b
      BY Zenon, <1>1 DEF GetInv, GetMsg
    <2>3. \A a \in ans : a.p = p /\ a.op \in Reads => a.arg[1] # b
      BY Zenon, <1>1 DEF GetInv, GetAns
    <2> QED
      BY Zenon, <2>1, <2>2, <2>3 DEF Unasked
  <1>14. \A q, r \in t.out : SameKind(q[1], q[2], r[1], r[2]) => q = r
    BY Zenon, <1>8
  <1>15. GetInv'
    <2>1. proc'[p].phase \in Working /\ proc'[p].gets = gets /\ freed' = freed
          /\ acked' = acked /\ denied' = denied /\ ans' = ans
      <3>1. Settled(t, proc'[p]) /\ ans' = ans \ {}
        BY Zenon, <1>10 DEF Step
      <3> QED
        BY <1>1, <1>2, <1>8, <3>1 DEF Settled
    <2>2. ASSUME NEW m \in net', m.p = p, m.op \in Reads, m.live PROVE GetMsg(m)'
      <3>1. CASE m \in net
        BY Zenon, <1>1, <2>1, <2>2, <3>1 DEF GetInv, GetMsg
      <3>2. CASE m \notin net
        <4>1. m.arg[1] = b
          BY <1>10, <1>11, <3>2 DEF Step, Request
        <4> QED
          BY Zenon, <1>5, <2>1, <2>2, <4>1 DEF GetMsg
      <3> QED
        BY <3>1, <3>2
    <2>3. ASSUME NEW a \in ans', a.p = p, a.op \in Reads PROVE GetAns(a)'
      <3>1. GetAns(a)
        BY Zenon, <1>1, <2>1, <2>3 DEF GetInv
      <3>2. a.arg[1] # b
        BY Zenon, <2>3, <3>1 DEF GetAns
      <3> QED
        BY Zenon, <1>5, <2>1, <2>3, <3>1, <3>2 DEF GetAns
    <2>4. GetProc(proc[p])'
      <3>1. GetProc(proc[p])
        BY Zenon, <1>1, <1>2 DEF GetInv
      <3> QED
        BY Zenon, <1>5, <2>1, <3>1 DEF GetProc
    <2>5. \A c \in denied' : c < freed'
      BY Zenon, <1>1, <2>1 DEF GetInv
    <2>6. acked \subseteq acked'
      BY Zenon, <2>1
    <2> QED
      BY Zenon, <1>1, <1>10, <2>2, <2>3, <2>4, <2>5, <2>6, GetStep
  <1>16. \A g \in t.gets :
           \/ g \in proc[p].gets /\ \A a \in {} : a.op \in Reads => a.arg # <<g.blk>>
           \/ \E op \in Reads : <<op, <<g.blk>>>> \in t.out
    <2> TAKE g \in t.gets
    <2>1. CASE g = new
      <3>1. "get" \in Reads /\ <<"get", <<g.blk>>>> \in t.out
        BY Zenon, <1>8, <1>5, <2>1 DEF Reads
      <3> QED
        BY Zenon, <3>1
    <2> QED
      BY Zenon, <1>8, <2>1
  <1>17. acked' = acked /\ denied' \subseteq Nat
    BY <1>1 DEF Types
  <1> QED
    BY <1>10, <1>12, <1>13, <1>14, <1>15, <1>16, <1>17, GetsStep

\* A weak read did not find the block.
LEMMA GetAgainStep ==
    ASSUME SetFacts, DynInv, NEW p \in Daemons, NEW a \in ans, a.p = p, a.op \in Reads,
           Become(p, [proc[p] EXCEPT !.out = {<<"getc", a.arg>>}], {a}),
           UNCHANGED <<dynamo, run, pids, acked, freed, deleted, denied>>
    PROVE  GoodStep
  <1> DEFINE o == <<"getc", a.arg>>
             t == [proc[p] EXCEPT !.out = {o}]
             A == {a}
  <1>1. Types /\ Alone /\ GetInv /\ GetAns(a)
    BY Zenon DEF DynInv, GetInv
  <1>2. proc[p].phase \in Working
    BY Zenon, <1>1 DEF GetAns
  <1>3. proc[p] \in Handling /\ proc[p].out = {}
    BY Zenon, <1>2, WorkingFacts
  <1>4. /\ a.arg = <<a.arg[1]>> /\ a.arg[1] \in Nat
        /\ \A m \in net : m.p = p /\ m.live /\ m.op \in Reads => m.arg[1] # a.arg[1]
        /\ \A c \in ans \ {a} : c.p = p /\ c.op \in Reads => c.arg[1] # a.arg[1]
    BY Zenon, <1>1, GetAlone
  <1>5. t \in Handling
    <2>1. \A n \in Nat : <<"getc", <<n>>>> \in Outs
      BY DEF Outs
    <2>2. {o} \in SUBSET Outs
      BY Zenon, <1>4, <2>1
    <2> HIDE DEF o
    <2> QED
      BY <1>3, <2>2 DEF Handling, ProcWith
  <1>6. Become(p, t, A)
    BY Zenon
  <1>7. /\ t.gets = proc[p].gets /\ t.out = {o}
        /\ t.phase = proc[p].phase /\ t.conn = proc[p].conn
        /\ t.shutdown = proc[p].shutdown /\ t.ip = proc[p].ip /\ t.N = proc[p].N
    BY Zenon, <1>3 DEF Handling, ProcWith
  <1>8. Resumed(proc[p], t)
    <2>1. t.N >= proc[p].N
      BY <1>3, <1>7 DEF Handling, ProcWith
    <2> QED
      BY Zenon, <1>3, <2>1 DEF Resumed, Handling, ProcWith
  <1> HIDE DEF t
  <1>9. Step(p, t, A)
    <2>1. /\ UNCHANGED dynamo /\ deleted' = deleted /\ pids' \in Nat /\ pids' >= pids
          /\ freed' \in Nat /\ freed' >= freed /\ run' \in Run /\ run'.maxblk = run.maxblk
      BY <1>1 DEF Types
    <2>2. \A c \in A : c.p = p
      BY Zenon
    <2> QED
      BY Zenon, <1>1, <1>5, <1>6, <2>1, <2>2, BecomeStep
  <1>10. \A r \in t.out : r = <<"getc", a.arg>> /\ r[1] = "getc" /\ r[2] = a.arg
    BY <1>7
  <1>11. Getting(p, t, A)
    BY Zenon, <1>2, <1>7, <1>8, <1>10 DEF Getting, Reads
  <1>12. \A r \in t.out : Unasked(p, A, r)
    <2>1. "getc" \in Reads
      BY DEF Reads
    <2> QED
      BY Zenon, <1>1, <1>10, <2>1, GetAlone
  <1>13. \A q, r \in t.out : SameKind(q[1], q[2], r[1], r[2]) => q = r
    BY Zenon, <1>10
  <1>14. GetInv'
    <2>1. proc'[p].phase \in Working /\ proc'[p].gets = proc[p].gets /\ freed' = freed
          /\ acked' = acked /\ denied' = denied /\ ans' = ans \ A
      <3>1. Settled(t, proc'[p]) /\ ans' = ans \ A
        BY Zenon, <1>9 DEF Step
      <3> QED
        BY <1>2, <1>7, <3>1 DEF Settled
    <2>2. ASSUME NEW m \in net', m.p = p, m.op \in Reads, m.live PROVE GetMsg(m)'
      <3>1. CASE m \in net
        BY Zenon, <1>1, <2>1, <2>2, <3>1 DEF GetInv, GetMsg
      <3>2. CASE m \notin net
        <4>1. m.arg[1] = a.arg[1]
          BY <1>9, <1>10, <3>2 DEF Step, Request
        <4> QED
          BY Zenon, <1>1, <2>1, <2>2, <4>1 DEF GetMsg, GetAns
      <3> QED
        BY <3>1, <3>2
    <2>3. ASSUME NEW c \in ans', c.p = p, c.op \in Reads PROVE GetAns(c)'
      <3>1. GetAns(c)
        BY Zenon, <1>1, <2>1, <2>3 DEF GetInv
      <3> QED
        BY Zenon, <2>1, <2>3, <3>1 DEF GetAns
    <2>4. GetProc(proc[p])'
      <3>1. GetProc(proc[p])
        BY Zenon, <1>1, <1>2 DEF GetInv
      <3> QED
        BY Zenon, <2>1, <3>1 DEF GetProc
    <2>5. \A c \in denied' : c < freed'
      BY Zenon, <1>1, <2>1 DEF GetInv
    <2>6. acked \subseteq acked'
      BY Zenon, <2>1
    <2> QED
      BY Zenon, <1>1, <1>9, <2>2, <2>3, <2>4, <2>5, <2>6, GetStep
  <1>15. \A g \in t.gets :
           \/ g \in proc[p].gets /\ \A c \in A : c.op \in Reads => c.arg # <<g.blk>>
           \/ \E op \in Reads : <<op, <<g.blk>>>> \in t.out
    <2> TAKE g \in t.gets
    <2>1. CASE a.arg = <<g.blk>>
      <3>1. "getc" \in Reads /\ <<"getc", <<g.blk>>>> \in t.out
        BY Zenon, <1>7, <2>1 DEF Reads
      <3> QED
        BY Zenon, <3>1
    <2> QED
      BY Zenon, <1>7, <2>1
  <1>16. acked' = acked /\ denied' \subseteq Nat
    BY <1>1 DEF Types
  <1> HIDE DEF A, o
  <1> QED
    BY Zenon, <1>9, <1>11, <1>12, <1>13, <1>14, <1>15, <1>16, GetsStep

\* A GET is answered.
LEMMA GetEndStep ==
    ASSUME SetFacts, DynInv, NEW p \in Daemons, NEW a \in ans, NEW g \in proc[p].gets,
           a.p = p, a.op \in Reads, a.arg = <<g.blk>>, a.res \/ a.op # "get",
           Become(p, [proc[p] EXCEPT !.gets = @ \ {g}], {a}),
           denied' = IF ~a.res /\ g.due THEN denied \cup {g.blk} ELSE denied,
           UNCHANGED <<dynamo, run, pids, acked, freed, deleted>>
    PROVE  GoodStep
  <1> DEFINE t == [proc[p] EXCEPT !.gets = @ \ {g}]
             A == {a}
  <1>1. Types /\ Alone /\ GetInv /\ GetAns(a)
    BY Zenon DEF DynInv, GetInv
  <1>2. proc[p].phase \in Working /\ GetProc(proc[p])
    BY Zenon, <1>1 DEF GetAns, GetInv
  <1>3. proc[p] \in Handling /\ proc[p].out = {}
    BY Zenon, <1>2, WorkingFacts
  <1>4. /\ a.arg[1] = g.blk /\ g.blk \in Nat
        /\ \A m \in net : m.p = p /\ m.live /\ m.op \in Reads => m.arg[1] # g.blk
        /\ \A c \in ans \ {a} : c.p = p /\ c.op \in Reads => c.arg[1] # g.blk
    <2>1. a.arg[1] = g.blk
      OBVIOUS
    <2> QED
      BY Zenon, <1>1, <2>1, GetAlone
  <1>5. t \in Handling
    BY <1>3 DEF Handling, ProcWith
  <1>6. Become(p, t, A)
    BY Zenon
  <1>7. /\ t.gets = proc[p].gets \ {g} /\ t.out = {}
        /\ t.phase = proc[p].phase /\ t.conn = proc[p].conn
        /\ t.shutdown = proc[p].shutdown /\ t.ip = proc[p].ip /\ t.N = proc[p].N
    BY Zenon, <1>3 DEF Handling, ProcWith
  <1>8. Resumed(proc[p], t)
    <2>1. t.N >= proc[p].N
      BY <1>3, <1>7 DEF Handling, ProcWith
    <2> QED
      BY Zenon, <1>3, <2>1 DEF Resumed, Handling, ProcWith
  <1> HIDE DEF t
  <1>9. Step(p, t, A)
    <2>1. /\ UNCHANGED dynamo /\ deleted' = deleted /\ pids' \in Nat /\ pids' >= pids
          /\ freed' \in Nat /\ freed' >= freed /\ run' \in Run /\ run'.maxblk = run.maxblk
      BY <1>1 DEF Types
    <2>2. \A c \in A : c.p = p
      BY Zenon
    <2> QED
      BY Zenon, <1>1, <1>5, <1>6, <2>1, <2>2, BecomeStep
  <1>10. net' = net
    <2>1. \A r \in t.out : FALSE
      BY Zenon, <1>7
    <2> QED
      BY Zenon, <1>9, <2>1 DEF Step
  <1>11. Getting(p, t, A)
    BY Zenon, <1>2, <1>7, <1>8 DEF Getting
  <1>12. acked' = acked /\ freed' = freed
    OBVIOUS
  <1>13. \A c \in denied' : c < freed' /\ c \in Nat
    <2>1. ~a.res /\ g.due => g.blk < freed
      <3>1. ~a.res => a.op = "getc"
        BY DEF Reads
      <3> QED
        BY Zenon, <1>1, <1>4, <3>1 DEF GetAns
    <2> QED
      BY Zenon, <1>1, <1>4, <1>12, <2>1 DEF GetInv, Types
  <1>14. GetInv'
    <2>1. proc'[p].phase \in Working /\ proc'[p].gets = proc[p].gets \ {g}
          /\ ans' = ans \ A
      <3>1. Settled(t, proc'[p]) /\ ans' = ans \ A
        BY Zenon, <1>9 DEF Step
      <3> QED
        BY <1>2, <1>7, <3>1 DEF Settled
    <2>2. ASSUME NEW m \in net', m.p = p, m.op \in Reads, m.live PROVE GetMsg(m)'
      <3>1. GetMsg(m) /\ m.arg[1] # g.blk
        BY Zenon, <1>1, <1>4, <1>10, <2>2 DEF GetInv
      <3> QED
        BY Zenon, <2>1, <2>2, <3>1 DEF GetMsg
    <2>3. ASSUME NEW c \in ans', c.p = p, c.op \in Reads PROVE GetAns(c)'
      <3>1. GetAns(c) /\ c.arg[1] # g.blk
        BY Zenon, <1>1, <1>4, <2>1, <2>3 DEF GetInv
      <3> QED
        BY Zenon, <1>12, <2>1, <2>3, <3>1 DEF GetAns
    <2>4. GetProc(proc[p])'
      BY Zenon, <1>2, <1>12, <2>1 DEF GetProc
    <2>5. acked \subseteq acked' /\ \A c \in denied' : c < freed'
      BY Zenon, <1>12, <1>13
    <2> QED
      BY Zenon, <1>1, <1>9, <2>2, <2>3, <2>4, <2>5, GetStep
  <1>15. \A h \in t.gets :
           \/ h \in proc[p].gets /\ \A c \in A : c.op \in Reads => c.arg # <<h.blk>>
           \/ \E op \in Reads : <<op, <<h.blk>>>> \in t.out
    <2> TAKE h \in t.gets
    <2>1. h \in proc[p].gets /\ h # g
      BY Zenon, <1>7
    <2>2. h.blk # g.blk
      BY Zenon, <1>2, <2>1 DEF GetProc
    <2>3. a.arg # <<h.blk>>
      BY <2>2
    <2> QED
      BY Zenon, <2>1, <2>3
  <1>16. denied' \subseteq Nat
    BY Zenon, <1>13
  <1>17. /\ \A r \in t.out : Unasked(p, A, r)
         /\ \A q, r \in t.out : SameKind(q[1], q[2], r[1], r[2]) => q = r
    BY Zenon, <1>7
  <1> HIDE DEF A
  <1> QED
    BY Zenon, <1>9, <1>11, <1>12, <1>14, <1>15, <1>16, <1>17, GetsStep

\* callback_get, a block was found or not: it keeps the invariant.
LEMMA GetAnswerStep ==
    ASSUME SetFacts, DynInv, NEW p \in Daemons, callback_get(p)
    PROVE  GoodStep
  <1> PICK a \in ans, g \in proc[p].gets :
        /\ a.p = p /\ a.op \in {"get", "getc"} /\ a.arg = <<g.blk>>
        /\ IF ~a.res /\ a.op = "get"
           THEN /\ Become(p, [proc[p] EXCEPT !.out = {<<"getc", a.arg>>}], {a})
                /\ UNCHANGED denied
           ELSE /\ Become(p, [proc[p] EXCEPT !.gets = @ \ {g}], {a})
                /\ denied' = IF ~a.res /\ g.due THEN denied \cup {g.blk} ELSE denied
        /\ UNCHANGED <<dynamo, run, pids, acked, freed, deleted>>
    BY Zenon DEF callback_get
  <1>1. a.op \in Reads
    BY DEF Reads
  <1>2. CASE ~a.res /\ a.op = "get"
    <2>1. /\ Become(p, [proc[p] EXCEPT !.out = {<<"getc", a.arg>>}], {a})
          /\ UNCHANGED <<dynamo, run, pids, acked, freed, deleted, denied>>
      BY Zenon, <1>2
    <2> QED
      BY Zenon, <1>1, <2>1, GetAgainStep
  <1>3. CASE ~(~a.res /\ a.op = "get")
    <2>1. /\ Become(p, [proc[p] EXCEPT !.gets = @ \ {g}], {a})
          /\ denied' = IF ~a.res /\ g.due THEN denied \cup {g.blk} ELSE denied
          /\ a.res \/ a.op # "get"
      BY Zenon, <1>3
    <2> QED
      BY Zenon, <1>1, <2>1, GetEndStep
  <1> QED
    BY Zenon, <1>2, <1>3

(***************************************************************************)
(* APPEND                                                                  *)
(***************************************************************************)
\* A metadata write is asked for, on behalf of the APPEND, in state s0.
LEMMA AppendWrite ==
    ASSUME SetFacts, DynInv, NEW p \in Daemons, NEW s0 \in Handling, NEW A,
           Become(p, writemetadata(s0), A), \A a \in A : a.p = p /\ a.op = "put",
           UNCHANGED <<dynamo, run, pids, acked, freed, deleted, denied>>,
           proc[p].phase \in Working, s0.phase = proc[p].phase,
           s0.pid = proc[p].pid, s0.stored = proc[p].stored, s0.storing = proc[p].storing,
           s0.write_inprogress = proc[p].write_inprogress, s0.gets = proc[p].gets,
           s0.M = proc[p].M, s0.ip = proc[p].ip, s0.N = proc[p].N, s0.out = {},
           s0.conn = proc[p].conn, Core(s0), s0.nextblk <= run.maxblk,
           Stage(s0) # NoCallback,
           \/ s0.nextblk = proc[p].nextblk /\ s0.append.old = proc[p].append.old
           \/ ~(proc[p].write_inprogress /\ proc[p].storing.cb = "nextblk"),
           \A m \in net : m.p = p /\ m.op = "put" => ~m.live,
           \A a \in ans \ A : a.p = p => a.op # "put",
           Stage(s0) # "nextblk" =>
              \A b \in Blocks : InRange(s0, b) => b \in data \/ b < freed
    PROVE  GoodStep
  <1> DEFINE t == writemetadata(s0)
  <1>1. /\ Types /\ PutInv /\ acked' = acked /\ denied' = denied /\ freed' = freed
        /\ data' = data /\ run' = run
    BY DEF DynInv, dynamo
  <1>2. /\ proc[p].conn # "none" => proc[p].phase = "running"
        /\ proc[p].N <= freed /\ proc[p].N <= run.maxblk
    BY Zenon, WorkingFacts
  <1>3. Poked(s0, t) /\ t.write_inprogress
    BY Zenon, WritePoked
  <1>4. Later(t) # NoCallback => t.write_wanted
    BY Zenon, WriteFields, WriteType, WriteLocal
  <1> HIDE DEF t
  <1>5. t \in Handling /\ Stage(t) = Stage(s0) /\ t.append = s0.append
        /\ t.nextblk = s0.nextblk /\ t.phase = s0.phase
    BY Zenon, <1>3 DEF Poked, Kept
  <1>6. Step(p, t, A)
    <2>1. Become(p, t, A)
      BY Zenon DEF t
    <2>2. /\ UNCHANGED dynamo /\ deleted' = deleted /\ run' \in Run
          /\ run'.maxblk = run.maxblk /\ pids' \in Nat /\ pids' >= pids
          /\ freed' \in Nat /\ freed' >= freed
      BY <1>1 DEF Types
    <2> QED
      BY Zenon, <1>1, <1>5, <2>1, <2>2, BecomeStep
  <1>7. Begun(p, s0, A)
    BY Zenon, BegunAppend
  <1>8. AtRest(t)
    BY Zenon, <1>3, <1>4 DEF AtRest
  <1>9. \A o \in t.out : o[1] # "put"
    BY <1>3, <1>6, <1>7, BegunAsks
  <1>10. Stage(proc'[p]) = Stage(s0) /\ proc'[p].append = s0.append
         /\ proc'[p].nextblk = s0.nextblk
    <2>1. Settled(t, proc'[p])
      BY Zenon, <1>6 DEF Step
    <2> QED
      BY Zenon, <1>5, <2>1 DEF Settled, Stage, Later, Now
  <1>11. ~Putting(proc'[p])
    BY Zenon, <1>10 DEF Putting
  <1>12. /\ \A m \in net' : m.p = p /\ m.op = "put" /\ m.live =>
                 Putting(proc'[p]) /\ InRange(proc'[p], m.arg[1])
         /\ \A a \in ans' : a.p = p /\ a.op = "put" =>
                 Putting(proc'[p]) /\ InRange(proc'[p], a.arg[1])
    <2>1. \A m \in net' \ net : m.op # "put"
      BY <1>6, <1>9 DEF Step, Request
    <2>2. ans' = ans \ A
      BY Zenon, <1>6 DEF Step
    <2> QED
      BY Zenon, <2>1, <2>2
  <1>13. PutProc(p)'
    <2>1. Blocks' = Blocks
      BY Zenon, <1>1 DEF Blocks
    <2>2. ASSUME Stage(proc'[p]) # "nextblk", NEW b \in Blocks', InRange(proc'[p], b)
          PROVE  b \in data' \/ b < freed'
      <3>1. InRange(s0, b)
        BY Zenon, <1>10, <2>2 DEF InRange
      <3> QED
        BY Zenon, <1>1, <1>10, <2>1, <2>2, <3>1
    <2> QED
      BY Zenon, <1>11, <2>2 DEF PutProc
  <1>14. PutInv'
    <2>1. \A o \in t.out : o[1] = "put" => o[2][1] \in Blocks
      BY Zenon, <1>9
    <2> QED
      BY Zenon, <1>1, <1>6, <1>12, <1>13, <2>1, PutStep
  <1>15. /\ s0.conn # "none" => s0.phase = "running"
         /\ s0.N <= freed' /\ s0.N <= run.maxblk
    BY Zenon, <1>1, <1>2
  <1> QED
    BY Zenon, <1>1, <1>3, <1>6, <1>7, <1>8, <1>14, <1>15, BegunStep

\* An APPEND request, which first stores nextblk: it keeps the invariant.
LEMMA AppendStep ==
    ASSUME SetFacts, DynInv, NEW p \in Daemons, GotAppend(p)
    PROVE  GoodStep
  <1> PICK n \in 1 .. MaxAppend :
          /\ proc[p].nextblk + n <= run.maxblk
          /\ Become(p, metadata_nextblk_write(
                [proc[p] EXCEPT !.append = [old |-> proc[p].nextblk, nblks |-> n,
                                            nblks_left |-> n],
                                !.nextblk = @ + n], proc[p].nextblk + n), {})
    BY Zenon DEF GotAppend
  <1>1. /\ proc[p].conn # "none" /\ proc[p].append = NoAppend
        /\ UNCHANGED <<dynamo, run, pids, acked, freed, deleted, denied>>
        /\ Types /\ PutInv
    BY DEF GotAppend, DynInv
  <1>2. proc[p].phase \in Working
    BY Zenon, <1>1, ConnFacts
  <1>3. proc[p] \in Handling /\ Local(proc[p]) /\ proc[p].out = {}
    BY Zenon, <1>2, WorkingFacts
  <1>4. n \in Nat /\ 1 <= n /\ n <= MaxAppend
    BY LbsDynamodbAssumption
  <1> DEFINE s0 == Numbered(proc[p], n)
  <1>5. Become(p, writemetadata(s0), {})
    BY Zenon DEF Numbered, metadata_nextblk_write
  <1>6. /\ s0 \in Handling /\ s0.phase = proc[p].phase /\ s0.pid = proc[p].pid
        /\ s0.conn = proc[p].conn /\ s0.gets = proc[p].gets
        /\ s0.nextblk = proc[p].nextblk + n
        /\ s0.N = proc[p].N /\ s0.M = proc[p].M /\ s0.ip = proc[p].ip
        /\ s0.stored = proc[p].stored /\ s0.storing = proc[p].storing
        /\ s0.write_inprogress = proc[p].write_inprogress /\ s0.out = {}
    BY Zenon, <1>3, <1>4, NumberedFields
  <1>7. /\ Core(s0) /\ Stage(s0) = "nextblk"
        /\ ~(proc[p].write_inprogress /\ proc[p].storing.cb = "nextblk")
    BY Zenon, <1>1, <1>3, <1>4, NumberedCore
  <1> HIDE DEF s0
  <1>8. ~Putting(proc[p])
    BY <1>1 DEF Putting, NoAppend
  <1>9. /\ \A m \in net : m.p = p /\ m.op = "put" => ~m.live
        /\ \A a \in ans \ {} : a.p = p => a.op # "put"
    BY Zenon, <1>1, <1>8 DEF PutInv
  <1>10. Stage(s0) # NoCallback
    BY <1>7 DEF NoCallback
  <1>11. /\ \A a \in {} : a.p = p /\ a.op = "put"
         /\ s0.nextblk <= run.maxblk
    BY <1>6
  <1> QED
    BY <1>1, <1>2, <1>5, <1>6, <1>7, <1>9, <1>10, <1>11, AppendWrite

\* A block has been stored, and more are to come.
LEMMA PutMoreStep ==
    ASSUME SetFacts, DynInv, NEW p \in Daemons, NEW a \in ans, a.p = p, a.op = "put",
           Become(p, OneLess(proc[p]), {a}), proc[p].append.nblks_left > 1,
           UNCHANGED <<dynamo, run, pids, acked, freed, deleted, denied>>
    PROVE  GoodStep
  <1> DEFINE t == OneLess(proc[p])
             A == {a}
  <1>1. /\ Types /\ PutInv /\ acked' = acked /\ denied' = denied /\ freed' = freed
        /\ data' = data /\ run' = run
    BY DEF DynInv, dynamo
  <1>2. Putting(proc[p]) /\ proc[p].append.nblks_left = Cardinality(Owed(p))
    BY Zenon, <1>1 DEF PutInv, PutProc
  <1>3. proc[p].phase \in Working /\ proc[p].append.nblks > 0 /\ Stage(proc[p]) = NoCallback
    BY Zenon, <1>2 DEF Putting
  <1>4. /\ proc[p] \in Handling /\ proc[p].out = {} /\ Local(proc[p]) /\ AtRest(proc[p])
        /\ proc[p].conn # "none" => proc[p].phase = "running"
        /\ proc[p].nextblk <= run.maxblk /\ proc[p].N <= freed /\ proc[p].N <= run.maxblk
    BY Zenon, <1>3, WorkingFacts
  <1>5. proc[p].append.nblks_left > 0 /\ proc[p].append.nblks_left \in Nat
    BY <1>4 DEF Handling, ProcWith
  <1>6. /\ t \in Handling /\ t.phase = proc[p].phase /\ t.pid = proc[p].pid
        /\ t.conn = proc[p].conn /\ t.gets = proc[p].gets
        /\ t.nextblk = proc[p].nextblk
        /\ t.append.old = proc[p].append.old /\ t.append.nblks = proc[p].append.nblks
        /\ t.append.nblks_left = proc[p].append.nblks_left - 1
        /\ t.N = proc[p].N /\ t.M = proc[p].M /\ t.ip = proc[p].ip
        /\ t.shutdown = proc[p].shutdown
        /\ t.stored = proc[p].stored /\ t.storing = proc[p].storing
        /\ t.write_inprogress = proc[p].write_inprogress
        /\ t.write_wanted = proc[p].write_wanted /\ t.out = {}
    BY Zenon, <1>4, <1>5, OneLessFields
  <1>7. Local(t) /\ Stage(t) = NoCallback /\ Later(t) = Later(proc[p])
    BY Zenon, <1>3, <1>4, OneLessLocal
  <1> HIDE DEF t
  <1>8. Step(p, t, A)
    <2>1. Become(p, t, A) /\ \A c \in A : c.p = p
      BY Zenon DEF t
    <2>2. /\ UNCHANGED dynamo /\ deleted' = deleted /\ run' \in Run
          /\ run'.maxblk = run.maxblk /\ pids' \in Nat /\ pids' >= pids
          /\ freed' \in Nat /\ freed' >= freed
      BY <1>1 DEF Types
    <2> QED
      BY Zenon, <1>1, <1>6, <2>1, <2>2, BecomeStep
  <1>9. Begun(p, t, A)
    <2>1. \A c \in A : c.op = "put"
      BY Zenon
    <2> QED
      BY Zenon, <1>3, <1>6, <2>1, BegunAppend
  <1>10. AtRest(t)
    BY Zenon, <1>4, <1>6, <1>7 DEF AtRest
  <1>11. Poked(t, t)
    <2>1. Kept(t, t)
      BY Zenon DEF Kept
    <2>2. Asks(t, t)
      <3>1. t.M \in Nat
        BY <1>6 DEF Handling, ProcWith
      <3> QED
        BY <3>1 DEF Asks
    <2> QED
      BY Zenon, <1>6, <1>7, <1>10, <2>1, <2>2 DEF Poked, AtRest
  <1>12. /\ net' = net /\ ans' = ans \ A /\ Blocks' = Blocks
         /\ proc'[p].phase = t.phase /\ Stage(proc'[p]) = Stage(t)
         /\ proc'[p].append = t.append /\ proc'[p].nextblk = t.nextblk
    <2>1. Settled(t, proc'[p]) /\ ans' = ans \ A
      BY Zenon, <1>8 DEF Step
    <2>2. \A o \in t.out : FALSE
      BY Zenon, <1>6
    <2>3. net' = net
      BY Zenon, <1>8, <2>2 DEF Step
    <2>4. Blocks' = Blocks
      BY Zenon, <1>1 DEF Blocks
    <2> QED
      BY Zenon, <2>1, <2>3, <2>4 DEF Settled, Stage, Later, Now
  <1>13. Putting(proc'[p]) /\ \A b : InRange(proc[p], b) <=> InRange(proc'[p], b)
    BY Zenon, <1>3, <1>6, <1>7, <1>12 DEF Putting, InRange
  <1>14. PutProc(p)'
    <2>1. Owed(p)' = OwedWith(p, ans \ {a})
      BY Zenon, <1>12 DEF Owed, OwedWith
    <2>2. Cardinality(Owed(p)') = Cardinality(Owed(p)) - 1
      BY Zenon, <2>1, OwedLess
    <2>3. proc'[p].append.nblks_left = Cardinality(Owed(p)')
          /\ proc'[p].append.nblks_left > 0
      BY <1>2, <1>5, <1>6, <1>12, <2>2
    <2>4. Stage(proc[p]) # "nextblk"
      BY <1>3 DEF NoCallback
    <2>5. \A b \in Blocks : InRange(proc[p], b) =>
             \/ b \in data \/ b < freed
             \/ \E m \in net : m.p = p /\ m.op = "put" /\ m.live /\ m.arg[1] = b
      BY Zenon, <1>1, <1>3, <2>4 DEF PutInv, PutProc
    <2>6. \A b \in Blocks' : InRange(proc'[p], b) =>
             \/ b \in data' \/ b < freed'
             \/ \E m \in net' : m.p = p /\ m.op = "put" /\ m.live /\ m.arg[1] = b
      BY Zenon, <1>1, <1>12, <1>13, <2>5
    <2> QED
      BY Zenon, <2>3, <2>6 DEF PutProc
  <1>15. PutInv'
    <2>1. /\ \A m \in net' : m.p = p /\ m.op = "put" /\ m.live =>
                 Putting(proc'[p]) /\ InRange(proc'[p], m.arg[1])
          /\ \A c \in ans' : c.p = p /\ c.op = "put" =>
                 Putting(proc'[p]) /\ InRange(proc'[p], c.arg[1])
      BY Zenon, <1>1, <1>12, <1>13 DEF PutInv
    <2>2. \A o \in t.out : o[1] = "put" => o[2][1] \in Blocks
      BY Zenon, <1>6
    <2> QED
      BY Zenon, <1>1, <1>8, <1>14, <2>1, <2>2, PutStep
  <1>16. /\ t.conn # "none" => t.phase = "running"
         /\ t.nextblk <= run.maxblk /\ t.N <= freed' /\ t.N <= run.maxblk
    BY Zenon, <1>1, <1>4, <1>6
  <1> HIDE DEF A
  <1> QED
    BY Zenon, <1>1, <1>6, <1>8, <1>9, <1>10, <1>11, <1>15, <1>16, BegunStep

\* The last block has been stored.
LEMMA PutLastStep ==
    ASSUME SetFacts, DynInv, NEW p \in Daemons, NEW a \in ans, a.p = p, a.op = "put",
           Become(p, writemetadata(StoredAll(proc[p])), {a}), proc[p].append.nblks_left = 1,
           UNCHANGED <<dynamo, run, pids, acked, freed, deleted, denied>>
    PROVE  GoodStep
  <1> DEFINE s0 == StoredAll(proc[p])
             A == {a}
  <1>1. Types /\ PutInv
    BY Zenon DEF DynInv
  <1>2. Putting(proc[p]) /\ proc[p].append.nblks_left = Cardinality(Owed(p))
    BY Zenon, <1>1 DEF PutInv, PutProc
  <1>3. proc[p].phase \in Working /\ proc[p].append.nblks > 0 /\ Stage(proc[p]) = NoCallback
    BY Zenon, <1>2 DEF Putting
  <1>4. /\ proc[p] \in Handling /\ proc[p].out = {} /\ Local(proc[p])
        /\ proc[p].nextblk <= run.maxblk
    BY Zenon, <1>3, WorkingFacts
  <1>5. proc[p].append.nblks_left > 0
    OBVIOUS
  <1>6. /\ s0 \in Handling /\ s0.phase = proc[p].phase /\ s0.pid = proc[p].pid
        /\ s0.conn = proc[p].conn /\ s0.gets = proc[p].gets
        /\ s0.nextblk = proc[p].nextblk /\ s0.append.old = proc[p].append.old
        /\ s0.N = proc[p].N /\ s0.M = proc[p].M /\ s0.ip = proc[p].ip
        /\ s0.stored = proc[p].stored /\ s0.storing = proc[p].storing
        /\ s0.write_inprogress = proc[p].write_inprogress /\ s0.out = {}
    BY Zenon, <1>4, <1>5, StoredAllFields
  <1>7. Core(s0) /\ Stage(s0) = "lastblk"
    BY Zenon, <1>3, <1>4, StoredAllCore
  <1> HIDE DEF s0
  <1>8. OwedWith(p, ans \ {a}) = {}
    <2> DEFINE left == OwedWith(p, ans \ {a})
    <2>1. IsFiniteSet(left) /\ Cardinality(left) = Cardinality(Owed(p)) - 1
      BY Zenon, OwedLess
    <2> HIDE DEF left
    <2>2. Cardinality(left) = 0
      BY <1>2, <2>1
    <2>3. left = {}
      BY Zenon, <2>1, <2>2 DEF SetFacts, EmptySize
    <2> QED
      BY Zenon, <2>3 DEF left
  <1>9. /\ \A m \in net : m.p = p /\ m.op = "put" => ~m.live
        /\ \A c \in ans \ {a} : c.p = p => c.op # "put"
    BY Zenon, <1>8, OwedLess
  <1>10. \A b \in Blocks : InRange(s0, b) => b \in data \/ b < freed
    <2>1. Stage(proc[p]) # "nextblk"
      BY <1>3 DEF NoCallback
    <2>2. \A b \in Blocks : InRange(proc[p], b) =>
             \/ b \in data \/ b < freed
             \/ \E m \in net : m.p = p /\ m.op = "put" /\ m.live /\ m.arg[1] = b
      BY Zenon, <1>1, <1>3, <2>1 DEF PutInv, PutProc
    <2> QED
      BY Zenon, <1>6, <1>9, <2>2 DEF InRange
  <1>11. Stage(s0) # NoCallback
    BY <1>7 DEF NoCallback
  <1>12. /\ \A c \in A : c.p = p /\ c.op = "put"
         /\ Become(p, writemetadata(s0), A)
         /\ \A c \in ans \ A : c.p = p => c.op # "put"
    BY Zenon, <1>9 DEF s0
  <1>13. s0.nextblk <= run.maxblk
    BY Zenon, <1>4, <1>6
  <1> HIDE DEF A
  <1> QED
    BY Zenon, <1>3, <1>6, <1>7, <1>9, <1>10, <1>11, <1>12, <1>13, AppendWrite

\* callback_append_put_blks, a PUT is answered: it keeps the invariant.
LEMMA PutsStep ==
    ASSUME SetFacts, DynInv, NEW p \in Daemons, callback_append_put_blks(p)
    PROVE  GoodStep
  <1> DEFINE s == OneLess(proc[p])
  <1> PICK a \in ans :
        /\ a.p = p /\ a.op = "put"
        /\ Become(p, IF s.append.nblks_left > 0 THEN s
                     ELSE metadata_lastblk_write([s EXCEPT !.lastblk = s.nextblk - 1],
                                                 s.nextblk - 1), {a})
        /\ UNCHANGED <<dynamo, run, pids, acked, freed, deleted, denied>>
    BY Zenon DEF callback_append_put_blks, OneLess
  <1>1. Putting(proc[p]) /\ proc[p].append.nblks_left > 0
    BY Zenon DEF DynInv, PutInv, PutProc
  <1>2. proc[p].phase \in Working
    BY Zenon, <1>1 DEF Putting
  <1>3. proc[p] \in Handling
    BY Zenon, <1>2, WorkingFacts
  <1>4. /\ s.append.nblks_left = proc[p].append.nblks_left - 1
        /\ s.nextblk = proc[p].nextblk
    BY Zenon, <1>1, <1>3, OneLessFields
  <1>5. proc[p].append.nblks_left \in Nat
    BY <1>3 DEF Handling, ProcWith
  <1> HIDE DEF s
  <1>6. CASE s.append.nblks_left > 0
    <2>1. Become(p, OneLess(proc[p]), {a})
      BY Zenon, <1>6 DEF s
    <2>2. proc[p].append.nblks_left > 1
      BY <1>4, <1>5, <1>6
    <2> QED
      BY Zenon, <2>1, <2>2, PutMoreStep
  <1>7. CASE ~(s.append.nblks_left > 0)
    <2>1. Become(p, metadata_lastblk_write([s EXCEPT !.lastblk = s.nextblk - 1],
                                           s.nextblk - 1), {a})
      BY Zenon, <1>7
    <2>2. Become(p, writemetadata(StoredAll(proc[p])), {a})
      BY Zenon, <1>4, <2>1 DEF StoredAll, metadata_lastblk_write, s
    <2>3. proc[p].append.nblks_left = 1
      BY <1>1, <1>4, <1>5, <1>7
    <2> QED
      BY Zenon, <2>2, <2>3, PutLastStep
  <1> QED
    BY Zenon, <1>6, <1>7

(***************************************************************************)
(* callback_writemetadata                                                  *)
(***************************************************************************)
\* callback_writemetadata, the tuple is stored: the callback of the APPEND, poke
\* and the write that was wanted meanwhile leave the process in such a state.
LEMMA AnsweredFacts ==
    ASSUME SetFacts, DynInv, NEW p \in Daemons, NEW a \in ans, a.p = p, a.op = "icas", a.res,
           proc[p].phase # "claiming", Become(p, MetadataStored(proc[p]), {a}),
           UNCHANGED <<dynamo, run, pids, freed, deleted, denied>>
    PROVE  Answered(p, MetadataStored(proc[p]), a)
  <1> DEFINE s == proc[p]
             t == MetadataStored(s)
             y == Item(s.storing, s.pid)
             s1 == Called(s)
  <1>1. Types /\ IcasInv
    BY Zenon DEF DynInv
  <1>2. IcasAns(a)
    BY Zenon, <1>1 DEF IcasInv
  <1>3. /\ s.phase \in Working /\ s.write_inprogress /\ a.arg[2] = y
        /\ Good(y) /\ (y = md \/ Past(y)) /\ Upto(y, md)
    BY Zenon, <1>2 DEF IcasAns, Asked
  <1>4. s \in Handling /\ s.out = {} /\ Local(s) /\ AtRest(s)
    BY Zenon, <1>3, WorkingFacts
  <1>5. t \in Handling /\ Local(t) /\ AtRest(t) /\ Kept(s1, t) /\ Asks(s1, t)
    BY Zenon, <1>3, <1>4, StoredLocal
  <1>6. /\ s1.phase = s.phase /\ s1.pid = s.pid /\ s1.conn = s.conn /\ s1.gets = s.gets
        /\ s1.nextblk = s.nextblk /\ s1.lastblk = s.lastblk
        /\ s1.append = IF s.storing.cb = "lastblk" THEN NoAppend ELSE s.append
        /\ s1.N = s.N /\ s1.M = s.M /\ s1.ip = s.ip
        /\ s1.stored = s.storing
        /\ ~s1.write_inprogress
        /\ s1.out = IF s.storing.cb = "nextblk" THEN NewPuts(s) ELSE {}
    BY Zenon, <1>4, CalledFields
  <1>7. Stage(s1) = Later(s)
    BY Zenon, <1>3, <1>4, CalledLocal
  <1>8. Step(p, t, {a})
    <2>1. /\ UNCHANGED dynamo /\ deleted' = deleted /\ run' \in Run
          /\ run'.maxblk = run.maxblk /\ pids' \in Nat /\ pids' >= pids
          /\ freed' \in Nat /\ freed' >= freed
      BY <1>1 DEF Types
    <2>2. \A c \in {a} : c.p = p
      BY Zenon
    <2> QED
      BY Zenon, <1>1, <1>5, <2>1, <2>2, BecomeStep
  <1> HIDE DEF s, t, y, s1
  <1>9. /\ t.phase = s.phase /\ t.pid = s.pid /\ t.conn = s.conn /\ t.gets = s.gets
        /\ t.nextblk = s.nextblk /\ t.lastblk = s.lastblk /\ t.N = s.N
        /\ t.stored = s.storing /\ Stage(t) = Later(s)
        /\ t.append = IF s.storing.cb = "lastblk" THEN NoAppend ELSE s.append
    BY Zenon, <1>5, <1>6, <1>7 DEF Kept
  <1>10. /\ s.ip \subseteq t.ip /\ \A b \in s.M .. t.M - 1 : b \in t.ip
         /\ \A b \in t.ip \ s.ip : <<"delete", <<b>>>> \in t.out /\ b >= s.M
         /\ s1.out \subseteq t.out
    BY Zenon, <1>5, <1>6 DEF Asks
  <1>11. \A o \in t.out :
             \/ o[1] = "icas"
             \/ \E b \in t.ip \ s.ip : o = <<"delete", <<b>>>>
             \/ s.storing.cb = "nextblk" /\ o \in NewPuts(s)
    <2> TAKE o \in t.out
    <2>1. CASE o \in s1.out
      BY Zenon, <1>6, <2>1
    <2>2. CASE o \notin s1.out
      BY Zenon, <1>5, <1>6, <2>2 DEF Asks
    <2> QED
      BY Zenon, <2>1, <2>2
  <1>12. t.write_inprogress => \E o \in t.out : o[1] = "icas"
    <2>1. t.write_inprogress =>
             <<"icas", <<Item(t.stored, t.pid), Item(t.storing, t.pid)>>>> \in t.out
      BY Zenon, <1>5, <1>6 DEF Asks
    <2> QED
      BY <2>1
  <1>13. s.storing.cb = "nextblk" => NewPuts(s) \subseteq t.out
    BY Zenon, <1>6, <1>10
  <1> QED
    BY Zenon, <1>3, <1>5, <1>8, <1>9, <1>10, <1>11, <1>12, <1>13 DEF Answered, s, t, y

\* callback_append_put_nextblk: the blocks of the APPEND are PUT.
LEMMA AnsweredNextblk ==
    ASSUME SetFacts, DynInv, NEW p, NEW t, NEW a, Answered(p, t, a),
           proc[p].storing.cb = "nextblk"
    PROVE  PutInv'
  <1> DEFINE s == proc[p]
             A == {a}
             R == s.append.old .. s.append.old + s.append.nblks - 1
  <1>1. Types /\ PutInv /\ p \in Daemons /\ Step(p, t, A)
    BY Zenon DEF DynInv, Answered, Step
  <1>2. /\ s.phase \in Working /\ t.phase \in Working /\ t.nextblk = s.nextblk
        /\ NewPuts(s) \subseteq t.out
    BY Zenon DEF Answered
  <1>3. s \in Handling /\ s.nextblk <= run.maxblk
    BY Zenon, <1>1, <1>2, WorkingFacts
  <1>4. s.storing.cb # NoCallback /\ s.storing.cb # "lastblk"
    BY DEF NoCallback
  <1>5. t.append = s.append
    BY Zenon, <1>4 DEF Answered
  <1>6. /\ Stage(t) = NoCallback
        /\ s.append.nblks > 0 /\ s.append.old + s.append.nblks = s.nextblk
        /\ s.append.nblks_left = s.append.nblks
        /\ \A m \in net : m.p = p /\ m.op = "put" => ~m.live
        /\ \A c \in ans : c.p = p => c.op # "put"
    BY Zenon, <1>4, AnsweredPuts
  <1>7. \A o \in t.out : o[1] = "put" => o \in NewPuts(s)
    BY Zenon, AnsweredAsks
  <1>8. s.append.old \in Nat /\ s.append.nblks \in Nat /\ run.maxblk \in Nat /\ s.nextblk \in Nat
    BY <1>1, <1>3 DEF Handling, ProcWith, Types, Run
  <1> HIDE DEF A
  <1>9. /\ proc'[p].append = s.append /\ proc'[p].nextblk = s.nextblk
        /\ proc'[p].phase \in Working /\ Stage(proc'[p]) = NoCallback
        /\ ans' \subseteq ans /\ Blocks' = Blocks
    BY Zenon, <1>1, <1>2, <1>5, <1>6 DEF Step, Settled, Stage, Later, Now, Blocks
  <1>10. Putting(proc'[p])
    BY Zenon, <1>6, <1>9 DEF Putting
  <1>11. \A b : b \in R <=> b \in Blocks /\ InRange(proc'[p], b)
    BY <1>3, <1>6, <1>8, <1>9 DEF InRange, Blocks
  <1>12. \A o \in t.out : o[1] = "put" => o[2][1] \in R
    BY <1>7 DEF NewPuts
  <1>13. ASSUME NEW m \in net', m.p = p, m.op = "put", m.live PROVE m.arg[1] \in R
    <2>1. m \notin net
      BY Zenon, <1>6, <1>13
    <2>2. PICK o \in t.out : m = Request(p, o[1], o[2])
      BY Zenon, <1>1, <2>1 DEF Step
    <2>3. m.op = o[1] /\ m.arg = o[2]
      BY <2>2 DEF Request
    <2> QED
      BY Zenon, <1>12, <1>13, <2>3
  <1>14. ASSUME NEW b \in R
         PROVE  \E m \in net' : m.p = p /\ m.op = "put" /\ m.live /\ m.arg[1] = b
    <2>1. <<"put", <<b>>>> \in t.out
      BY Zenon, <1>2 DEF NewPuts
    <2>2. Request(p, "put", <<b>>) \in net'
      BY <1>1, <2>1 DEF Step
    <2> QED
      BY <2>2 DEF Request
  <1>15. Owed(p)' = R
    <2>1. \A b \in Blocks : b \in R <=>
             \/ \E m \in net' : m.p = p /\ m.op = "put" /\ m.live /\ m.arg[1] = b
             \/ \E c \in ans' : c.p = p /\ c.op = "put" /\ c.arg[1] = b
      BY Zenon, <1>6, <1>9, <1>13, <1>14
    <2>2. R \subseteq Blocks
      BY Zenon, <1>11
    <2> HIDE DEF R
    <2> QED
      BY <1>9, <2>1, <2>2 DEF Owed
  <1>16. Cardinality(R) = s.append.nblks
    BY Zenon, <1>8, RangeCount
  <1> HIDE DEF R
  <1>17. PutProc(p)'
    <2>1. proc'[p].append.nblks_left > 0 /\ proc'[p].append.nblks_left = Cardinality(Owed(p)')
      BY Zenon, <1>6, <1>9, <1>15, <1>16
    <2>2. \A b \in Blocks : InRange(proc'[p], b) =>
             \E m \in net' : m.p = p /\ m.op = "put" /\ m.live /\ m.arg[1] = b
      BY Zenon, <1>11, <1>14
    <2> QED
      BY Zenon, <1>9, <2>1, <2>2 DEF PutProc
  <1>18. /\ \A o \in t.out : o[1] = "put" => o[2][1] \in Blocks
         /\ \A m \in net' : m.p = p /\ m.op = "put" /\ m.live =>
               Putting(proc'[p]) /\ InRange(proc'[p], m.arg[1])
         /\ \A c \in ans' : c.p = p /\ c.op = "put" =>
               Putting(proc'[p]) /\ InRange(proc'[p], c.arg[1])
    BY Zenon, <1>6, <1>9, <1>10, <1>11, <1>12, <1>13
  <1> QED
    BY Zenon, <1>1, <1>17, <1>18, PutStep

\* The PUTs that callback_append_put_nextblk makes are those that the APPEND
\* waits for; after callback_append_put_lastblk none is left.
LEMMA AnsweredPut ==
    ASSUME SetFacts, DynInv, NEW p, NEW t, NEW a, Answered(p, t, a)
    PROVE  PutInv' /\ \A o \in t.out : o[1] = "put" => o[2][1] \in Blocks
  <1> DEFINE s == proc[p]
             A == {a}
  <1>1. Types /\ PutInv /\ p \in Daemons /\ Step(p, t, A)
    BY Zenon DEF DynInv, Answered, Step
  <1>2. /\ s.phase \in Working /\ t.phase \in Working /\ t.nextblk = s.nextblk
        /\ a.op = "icas" /\ s.write_inprogress
    BY Zenon DEF Answered
  <1>3. s \in Handling /\ s.nextblk <= run.maxblk /\ Local(s)
    BY Zenon, <1>1, <1>2, WorkingFacts
  <1>4. s.storing.cb \in {NoCallback, "nextblk", "lastblk"}
    BY <1>3 DEF Handling, ProcWith, MTuple
  <1>5. s.storing.cb # "nextblk" => \A o \in t.out : o[1] # "put"
    <2> SUFFICES ASSUME s.storing.cb # "nextblk", NEW o \in t.out PROVE o[1] # "put"
      OBVIOUS
    <2>1. o[1] = "icas" \/ \E b : o = <<"delete", <<b>>>>
      BY Zenon DEF Answered
    <2> QED
      BY <2>1
  <1>6. CASE s.storing.cb = "nextblk"
    <2>1. PutInv'
      BY Zenon, <1>6, AnsweredNextblk
    <2>2. s.storing.cb # NoCallback
      BY <1>6 DEF NoCallback
    <2>3. s.append.old + s.append.nblks = s.nextblk
      BY Zenon, <2>2, AnsweredPuts
    <2>4. \A o \in t.out : o[1] = "put" => o \in NewPuts(s)
      BY Zenon, AnsweredAsks
    <2>5. s.append.old \in Nat /\ s.append.nblks \in Nat /\ run.maxblk \in Nat /\ s.nextblk \in Nat
      BY <1>1, <1>3 DEF Handling, ProcWith, Types, Run
    <2>6. \A o \in NewPuts(s) : o[2][1] \in Blocks
      BY <1>3, <2>3, <2>5 DEF NewPuts, Blocks
    <2> QED
      BY Zenon, <2>1, <2>4, <2>6
  <1>7. CASE s.storing.cb = "lastblk"
    <2>1. s.storing.cb # NoCallback /\ s.storing.cb # "nextblk"
      BY <1>7 DEF NoCallback
    <2>2. /\ \A m \in net : m.p = p /\ m.op = "put" => ~m.live
          /\ \A c \in ans : c.p = p => c.op # "put"
      BY Zenon, <2>1, AnsweredPuts
    <2>3. t.append = NoAppend
      BY Zenon, <1>7 DEF Answered
    <2> HIDE DEF A
    <2>4. PutInv'
      BY Zenon, <1>1, <1>5, <2>1, <2>2, <2>3, PutNone
    <2> QED
      BY Zenon, <1>5, <2>1, <2>4
  <1>8. CASE s.storing.cb = NoCallback
    <2>1. s.storing.cb # "lastblk" /\ s.storing.cb # "nextblk"
      BY <1>8 DEF NoCallback
    <2>2. Stage(t) = Later(s) /\ t.append = s.append
      BY Zenon, <2>1 DEF Answered
    <2>3. Stage(s) = Later(s)
      BY Zenon, <1>2, <1>8 DEF Stage, Now
    <2>4. SameAppend(s, t)
      BY Zenon, <1>2, <2>2, <2>3 DEF SameAppend
    <2>5. \A c \in A : c.op # "put"
      BY <1>2
    <2> HIDE DEF A
    <2>6. PutInv'
      BY Zenon, <1>1, <1>5, <2>1, <2>4, <2>5, PutSame
    <2> QED
      BY Zenon, <1>5, <2>1, <2>6
  <1> QED
    BY Zenon, <1>4, <1>6, <1>7, <1>8

\* callback_writemetadata, if the metadata is stored: it keeps the invariant.
LEMMA StoredStep ==
    ASSUME SetFacts, DynInv, NEW p \in Daemons, NEW a \in ans, a.p = p, a.op = "icas", a.res,
           proc[p].phase # "claiming", Become(p, MetadataStored(proc[p]), {a}),
           UNCHANGED <<dynamo, run, pids, freed, deleted, denied>>,
           acked' = IF proc[p].storing.cb # "lastblk" THEN acked
                    ELSE acked \cup (proc[p].append.old .. proc[p].lastblk)
    PROVE  GoodStep
  <1> DEFINE s == proc[p]
             t == MetadataStored(s)
             A == {a}
  <1>1. Types /\ ProcInv /\ Alone /\ GetInv /\ WaitInv
    BY Zenon DEF DynInv
  <1>2. Answered(p, t, a)
    BY Zenon, AnsweredFacts
  <1> HIDE DEF t
  <1>3. /\ Step(p, t, A) /\ Local(t) /\ AtRest(t)
        /\ s.phase \in Working /\ t.phase = s.phase /\ t.conn = s.conn
        /\ t.nextblk = s.nextblk /\ t.N = s.N /\ t.gets = s.gets
        /\ t.write_inprogress => \E o \in t.out : o[1] = "icas"
        /\ \A b \in t.ip \ s.ip : <<"delete", <<b>>>> \in t.out
    BY Zenon, <1>2 DEF Answered
  <1>4. /\ s.conn # "none" => s.phase = "running"
        /\ s.nextblk <= run.maxblk /\ s.N <= freed /\ s.N <= run.maxblk
    BY Zenon, <1>3, WorkingFacts
  <1>5. freed' = freed /\ denied' = denied
    BY SMT
  <1>6. AckedInv' /\ acked' \subseteq Blocks
    BY Zenon, <1>2, AnsweredAcked
  <1>7. PutInv' /\ \A o \in t.out : o[1] = "put" => o[2][1] \in Blocks
    BY Zenon, <1>2, AnsweredPut
  <1>8. WrittenInv' /\ OwnerInv' /\ ReadInv' /\ IcasInv' /\ DeleteInv'
    BY Zenon, <1>2, AnsweredWritten, AnsweredOwnerInv, AnsweredRead, AnsweredIcas, AnsweredDone
  <1>9. /\ \A o \in t.out : Unasked(p, A, o)
        /\ \A o, r \in t.out : SameKind(o[1], o[2], r[1], r[2]) => o = r
        /\ \A o \in t.out : o[1] \notin Reads
    BY Zenon, <1>2, AnsweredAsks
  <1>10. \A c \in A : c.op = "icas"
    BY Zenon
  <1>11. \A c \in A : c.op # "delete" /\ c.op \notin Reads
    BY <1>10 DEF Reads
  <1> HIDE DEF A
  <1>12. denied' \subseteq Nat /\ acked \subseteq acked'
    <2>1. denied \subseteq Nat
      BY Zenon, <1>1 DEF Types
    <2> QED
      BY Zenon, <1>5, <2>1
  <1>13. Types'
    BY Zenon, <1>1, <1>3, <1>6, <1>7, <1>12, TypesStep
  <1>14. ProcInv'
    <2>1. OneProc(proc[p])'
      BY Zenon, <1>1, <1>3, <1>4, <1>5, OneStep
    <2> QED
      BY Zenon, <1>1, <1>3, <2>1, ProcStep
  <1>15. Alone'
    BY Zenon, <1>1, <1>3, <1>9, AloneStep
  <1>16. GetInv'
    BY Zenon, <1>1, <1>3, <1>5, <1>9, <1>12, GetSame
  <1>17. WaitInv'
    <2>1. \A b \in t.ip : \/ b \in s.ip /\ \A c \in A : c.op = "delete" => c.arg # <<b>>
                          \/ <<"delete", <<b>>>> \in t.out
      BY Zenon, <1>3, <1>11
    <2>2. \A g \in t.gets :
             \/ g \in s.gets /\ \A c \in A : c.op \in Reads => c.arg # <<g.blk>>
             \/ \E op \in Reads : <<op, <<g.blk>>>> \in t.out
      BY Zenon, <1>3, <1>11
    <2> QED
      BY Zenon, <1>1, <1>3, <2>1, <2>2, WaitWorking
  <1>18. DynInv'
    BY Zenon, <1>6, <1>7, <1>8, <1>13, <1>14, <1>15, <1>16, <1>17 DEF DynInv
  <1>19. Onward
    <2>1. \A o \in t.out : o[1] = "put" => o[2][1] \notin written
      BY Zenon, <1>2, AnsweredNew
    <2> QED
      BY Zenon, <1>3, <2>1, StepOnward
  <1> QED
    BY Zenon, <1>18, <1>19 DEF GoodStep

\* callback_writemetadata, the tuple is stored or somebody took over (and the
\* process exits): it keeps the invariant.
LEMMA WriteAnswerStep ==
    ASSUME SetFacts, DynInv, NEW p \in Daemons, callback_writemetadata(p)
    PROVE  GoodStep
  <1>1. PICK a \in ans :
          /\ a.p = p /\ a.op = "icas" /\ proc[p].phase # "claiming"
          /\ IF a.res
             THEN /\ Become(p, MetadataStored(proc[p]), {a})
                  /\ acked' = IF proc[p].storing.cb # "lastblk" THEN acked
                              ELSE acked \cup (proc[p].append.old .. proc[p].lastblk)
             ELSE Gone(p, "exited") /\ UNCHANGED acked
          /\ UNCHANGED <<dynamo, run, pids, freed, deleted, denied>>
    BY Zenon DEF callback_writemetadata
  <1>2. CASE a.res
    BY Zenon, <1>1, <1>2, StoredStep
  <1>3. CASE ~a.res
    <2>1. Gone(p, "exited") /\ acked' = acked
      BY Zenon, <1>1, <1>3
    <2>2. UNCHANGED <<dynamo, run, pids, acked, freed, deleted, denied>>
      BY <1>1, <2>1
    <2>3. "exited" \in {"done", "exited"}
      OBVIOUS
    <2> QED
      BY Zenon, <2>1, <2>2, <2>3, GoneStep
  <1> QED
    BY <1>2, <1>3

(***************************************************************************)
(* callback_claimmetadata                                                  *)
(***************************************************************************)
\* A process owns the metadata from now on.
LEMMA ClaimWonStep ==
    ASSUME SetFacts, DynInv, NEW p \in Daemons, NEW a \in ans, a.p = p, a.op = "icas", a.res,
           proc[p].phase = "claiming", Become(p, Claimed(proc[p]), {a}),
           UNCHANGED <<dynamo, run, pids, acked, freed, deleted, denied>>
    PROVE  GoodStep
  <1> DEFINE s == proc[p]
             A == {a}
  <1>1. Types /\ IcasInv /\ Alone /\ OwnerInv
    BY Zenon DEF DynInv
  <1>2. PICK y : y = a.arg[2]
    BY Zenon
  <1>3. PICK x : x = a.arg[1]
    BY Zenon
  <1>4. PICK t : t = Claimed(s)
    BY Zenon
  <1>5. s.phase \in Early /\ "claiming" \notin Working
    BY DEF Early, Working
  <1>6. s \in Handling /\ Fresh(s) /\ s.phase \notin Working /\ s.pid <= pids /\ s.out = {}
    BY Zenon, <1>5, EarlyFacts
  <1>7. /\ \A m \in net : m.p = p /\ m.live => m.op \notin {"icas", "getmd"}
        /\ \A c \in ans \ A : c.p = p => c.op \notin {"icas", "getmd"}
    BY Zenon, <1>1, MetadataOnce
  <1>8. y = Item(s.stored, s.pid) /\ Good(y) /\ (y = md \/ Past(y))
    BY Zenon, <1>1, <1>5, <1>2, <1>3 DEF IcasInv, IcasAns, Asked
  <1>9. /\ y.nextblk = s.stored.nextblk /\ y.lastblk = s.stored.lastblk
        /\ y.deletedto = s.stored.deletedto
    BY <1>8 DEF Item
  <1>10. Owning(t, s)
    BY Zenon, <1>6, <1>4, ClaimedFields
  <1>11. /\ run' = run /\ pids' = pids /\ freed' = freed /\ acked' = acked /\ denied' = denied
         /\ deleted' = deleted /\ UNCHANGED dynamo /\ md' = md
    BY DEF dynamo
  <1>12. /\ ~s.write_inprogress /\ s.append = NoAppend /\ s.gets = {} /\ s.ip = {} /\ s.N = 0
    BY Zenon, <1>6 DEF Fresh
  <1>13. /\ t \in Handling /\ t.phase = "running" /\ t.conn = "accepting" /\ t.out = {}
         /\ t.nextblk = s.stored.nextblk /\ t.M = s.stored.deletedto
         /\ t.stored = s.stored /\ t.pid = s.pid /\ t.append = NoAppend /\ t.gets = {}
         /\ t.ip = {} /\ t.N = 0 /\ ~t.write_inprogress
    BY Zenon, <1>6, <1>10, <1>12 DEF Owning
  <1>14. s.stored.lastblk < s.stored.nextblk /\ s.stored.nextblk <= run.maxblk
    BY Zenon, <1>8, <1>9 DEF Good
  <1>15. Local(t) /\ AtRest(t)
    BY Zenon, <1>6, <1>10, <1>14, ClaimedLocal
  <1> HIDE DEF A
  <1>16. Step(p, t, A)
    <2>1. /\ run' \in Run /\ run'.maxblk = run.maxblk /\ pids' \in Nat /\ pids' >= pids
          /\ freed' \in Nat /\ freed' >= freed
      BY <1>1, <1>11 DEF Types
    <2>2. Become(p, t, A) /\ \A c \in A : c.p = p
      BY Zenon, <1>4 DEF A
    <2> QED
      BY <1>1, <1>11, <1>13, <2>1, <2>2, BecomeStep
  <1>17. "running" \in Working /\ "running" # "reading" /\ "running" # "claiming"
    BY DEF Working
  <1>18. OneProc(proc[p])'
    <2>1. t.N <= freed' /\ t.N <= run.maxblk
      BY <1>1, <1>11, <1>13 DEF Types, Run
    <2>2. t.phase \in Working /\ t.nextblk <= run.maxblk
      BY Zenon, <1>13, <1>14, <1>17
    <2> QED
      BY Zenon, <1>1, <1>13, <1>15, <1>16, <2>1, <2>2, OneStep
  <1>19. DoneBelow(t)'
    <2>1. \A b \in 0 .. t.M - 1 : b \in deleted /\ b < freed
      BY Zenon, <1>8, <1>9, <1>13 DEF Good
    <2> QED
      BY Zenon, <1>11, <2>1 DEF DoneBelow
  <1>20. Starting(p, t, A)
    <2>1. t.pid <= pids'
      BY Zenon, <1>6, <1>11, <1>13
    <2>2. \A o \in t.out : FALSE
      BY Zenon, <1>13
    <2> QED
      BY Zenon, <1>5, <1>7, <1>11, <1>13, <1>16, <1>17, <1>19, <2>1, <2>2 DEF Starting
  <1>21. ASSUME NEW m \in net, m.p = p, m.op = "icas" PROVE StaleMsg(m, t)
    <2>1. /\ m.arg[2].pid <= s.pid
          /\ Claim(m.arg[1], m.arg[2]) \/ Write(m.arg[1], m.arg[2])
          /\ \/ Past(m.arg[1]) \/ m.arg[2].pid < s.pid
             \/ Current(s, m.arg[1], m.arg[2])
      BY Zenon, <1>1, <1>21 DEF IcasInv, IcasMsg
    <2>2. m.arg \in ItemRec \X ItemRec
      BY Zenon, <1>1, <1>21 DEF Types, ArgOK
    <2>3. m.arg[1] \in ItemRec /\ m.arg[2] \in ItemRec
      BY <2>2
    <2>4. Current(s, m.arg[1], m.arg[2]) => m.arg[2] = y
      BY Zenon, <1>8, <1>12 DEF Current
    <2>5. Current(s, m.arg[1], m.arg[2]) => Past(m.arg[1])
      BY Zenon, <1>1, <1>8, <2>1, <2>3, <2>4, PastBefore DEF Types
    <2> QED
      BY Zenon, <1>13, <2>1, <2>5 DEF StaleMsg
  <1>22. \A m \in net' \ net : FALSE
    BY Zenon, <1>13, <1>16 DEF Step
  <1> QED
    BY Zenon, <1>18, <1>20, <1>21, <1>22, StartStep

\* callback_claimmetadata, the claim was stored or not: it keeps the invariant.
LEMMA ClaimAnswerStep ==
    ASSUME SetFacts, DynInv, NEW p \in Daemons, callback_claimmetadata(p)
    PROVE  GoodStep
  <1>1. PICK a \in ans :
          /\ a.p = p /\ a.op = "icas" /\ proc[p].phase = "claiming"
          /\ Become(p, IF a.res THEN Claimed(proc[p]) ELSE Reading(proc[p]), {a})
          /\ UNCHANGED <<dynamo, run, pids, acked, freed, deleted, denied>>
    BY Zenon DEF callback_claimmetadata, Reading, GetMetadata
  <1>2. CASE a.res
    <2>1. Become(p, Claimed(proc[p]), {a})
      BY Zenon, <1>1, <1>2
    <2> QED
      BY Zenon, <1>1, <1>2, <2>1, ClaimWonStep
  <1>3. CASE ~a.res
    <2>1. Become(p, Reading(proc[p]), {a})
      BY Zenon, <1>1, <1>3
    <2> QED
      BY Zenon, <1>1, <2>1, ClaimLostStep
  <1> QED
    BY <1>2, <1>3

(***************************************************************************)
(* Every step                                                              *)
(***************************************************************************)
\* Every step keeps the invariant and moves the metadata on, if it changes it.
LEMMA DynNext ==
    ASSUME SetFacts, DynInv, [Next]_vars
    PROVE  GoodStep
  <1>1. ASSUME NEW p \in Daemons, metadata_init(p) PROVE GoodStep
    BY Zenon, <1>1, InitStep
  <1>2. ASSUME NEW p \in Daemons, Handle(p) PROVE GoodStep
    BY Zenon, <1>2, DoneStep, PutsStep, GetAnswerStep, WriteAnswerStep, ClaimStep,
       ClaimAnswerStep, DispatchDoneStep, FreeMetadataStep DEF Handle
  <1>3. ASSUME NEW p \in Daemons, Client(p) PROVE GoodStep
    BY Zenon, <1>3, AcceptStep, GetRequestStep, AppendStep, FreeStep, DropStep DEF Client
  <1>4. ASSUME NEW p \in Daemons, Crash(p) PROVE GoodStep
    BY Zenon, <1>4, CrashStep
  <1>5. ASSUME NEW m \in net, Serve(m) \/ Timeout(m) PROVE GoodStep
    BY Zenon, <1>5, ServeStep, TimeoutStep
  <1>6. ASSUME UNCHANGED vars PROVE GoodStep
    BY Zenon, <1>6, DynStutter
  <1> QED
    BY Zenon, <1>1, <1>2, <1>3, <1>4, <1>5, <1>6 DEF Next

(***************************************************************************)
(* The theorems                                                            *)
(***************************************************************************)
\* The facts about finite sets that the lemmas suppose.
INSTANCE SetFactsProofs

\* The inductive invariant holds of every state that any number of daemons can
\* reach, with any timeouts, crashes and takeovers.
THEOREM DynamodbInvariant == Spec => []DynInv
  <1>1. SetFacts
    BY SetFactsHold
  <1>2. Init => DynInv
    BY Zenon, <1>1, DynInit
  <1>3. DynInv /\ [Next]_vars => DynInv'
    BY Zenon, <1>1, DynNext DEF GoodStep
  <1> QED
    BY <1>2, <1>3, PTL DEF Spec

\* callback_append_put_lastblk acknowledges blocks that stay: an acknowledged block
\* is in the table until it is freed, the metadata says so, and the owner of the
\* metadata knows, whoever takes over, crashes or sends requests twice.
THEOREM DynamodbKeepsAcked == Spec => []AckedKept
  <1>1. DynInv => AckedKept
    BY Zenon, InvAckedKept
  <1> QED
    BY <1>1, DynamodbInvariant, PTL

\* callback_get: no GET fails to find a block that was acknowledged before it
\* came and is not freed.
THEOREM DynamodbReadsFind == Spec => []ReadsFind
  <1>1. DynInv => ReadsFind
    BY Zenon, InvReadsFind
  <1> QED
    BY <1>1, DynamodbInvariant, PTL

\* poke and metadata_deletedto_write: the item records only DELETEs that were
\* served, of blocks to free, and the deleter stays within MAXINPROGRESS and
\* MAXUNRECORDED.
THEOREM DynamodbDeletesRecorded == Spec => []DeletedRecorded
  <1>1. DynInv => DeletedRecorded
    BY Zenon, InvDeletedRecorded
  <1> QED
    BY <1>1, DynamodbInvariant, PTL

\* A process for which nothing is under way has nothing left to do, and an APPEND
\* waits for one callback at a time: the assertions on callback_state and on
\* nblks_left hold.
THEOREM DynamodbNothingStuck == Spec => []NothingStuck
  <1>1. SetFacts
    BY SetFactsHold
  <1>2. DynInv => NothingStuck
    BY Zenon, <1>1, InvNothingStuck
  <1> QED
    BY <1>2, DynamodbInvariant, PTL

\* writemetadata and the claim: the item never goes back, only the process that
\* owns it changes more than its owner, and no block number is PUT by two APPENDs.
THEOREM DynamodbMetadataForward == Spec => MetadataForward
  <1>1. SetFacts
    BY SetFactsHold
  <1>2. DynInv /\ [Next]_vars => [Onward]_vars
    BY Zenon, <1>1, DynNext DEF GoodStep
  <1>3. Spec => [][Onward]_vars
    BY <1>2, DynamodbInvariant, PTL DEF Spec
  <1>4. [][Onward]_vars => MetadataForward
    BY DEF Onward, MetadataForward
  <1> QED
    BY <1>3, <1>4
=============================================================================
