---------------------- MODULE LbsDynamodbHandlerProofs ----------------------
(***************************************************************************)
(* What a handler may do to the rest of the system: it changes its         *)
(* process, makes requests and takes answers. A handler that takes no      *)
(* answer about the metadata; one that learns that the metadata is stored; *)
(* a process that starts and claims the metadata.                          *)
(***************************************************************************)
EXTENDS LbsDynamodbInvariant, TLAPS

\* The provers of a step that names none, and the seconds each has.
USE SMTT(30), ZenonT(30), Z3T(30)

(***************************************************************************)
(* A handler changes its process, makes requests and takes answers         *)
(***************************************************************************)
\* What a handler does to the processes and the requests.
LEMMA BecomeStep ==
    ASSUME Types, NEW p \in Daemons, NEW t \in Handling, NEW A,
           Become(p, t, A), \A a \in A : a.p = p,
           UNCHANGED dynamo, deleted' = deleted,
           run' \in Run, run'.maxblk = run.maxblk,
           pids' \in Nat, pids' >= pids, freed' \in Nat, freed' >= freed
    PROVE  Step(p, t, A)
  <1> DEFINE u == [t EXCEPT !.out = {}]
  <1>1. u \in ProcWith({{}}) /\ Settled(t, u)
    <2>1. {} \in {{}}
      OBVIOUS
    <2> QED
      BY ZenonT(60), <2>1 DEF Handling, ProcWith, Settled
  <1>2. proc' = [proc EXCEPT ![p] = u]
    BY DEF Become
  <1> HIDE DEF u
  <1>3. /\ proc' \in [Daemons -> ProcWith({{}})] /\ proc'[p] = u
        /\ \A q \in Daemons \ {p} : proc'[q] = proc[q]
    BY Zenon, <1>1, <1>2 DEF Types
  <1>4. /\ net \subseteq net'
        /\ \A m \in net' \ net : \E o \in t.out : m = Request(p, o[1], o[2])
        /\ \A o \in t.out : Request(p, o[1], o[2]) \in net'
    BY Zenon DEF Become
  <1> QED
    BY Zenon, <1>1, <1>3, <1>4 DEF Step, Become, dynamo

\* What holds of a process when its handler ends holds of it when its requests
\* have been sent.
LEMMA SettledLocal ==
    ASSUME NEW t, NEW u, Settled(t, u), Local(t), AtRest(t)
    PROVE  Local(u) /\ AtRest(u)
  <1>1. Sent(u) = Sent(t) /\ Later(u) = Later(t) /\ Now(u) = Now(t) /\ Stage(u) = Stage(t)
    BY Zenon DEF Settled, Sent, Later, Now, Stage
  <1>2. Tuples(u)
    BY Zenon, <1>1 DEF Settled, Local, Core, Tuples
  <1>3. Appending(u)
    BY Zenon, <1>1 DEF Settled, Local, Core, Appending
  <1>4. Deleting(u)
    BY Zenon DEF Settled, Local, Core, Deleting, Limits
  <1>5. Asking(u)
    BY Zenon DEF Settled, Asking
  <1>6. Flushed(u) /\ AtRest(u)
    BY Zenon, <1>1 DEF Settled, Local, Flushed, AtRest
  <1> QED
    BY Zenon, <1>2, <1>3, <1>4, <1>5, <1>6 DEF Local, Core

\* A handler keeps the types.
LEMMA TypesStep ==
    ASSUME Types, NEW p, NEW t, NEW A, Step(p, t, A),
           acked' \subseteq Blocks, denied' \subseteq Nat,
           \A o \in t.out : o[1] = "put" => o[2][1] \in Blocks
    PROVE  Types' /\ Blocks' = Blocks
  <1>1. Blocks' = Blocks
    BY Zenon DEF Step, Blocks
  <1>2. \A o \in t.out : ArgOK(o[1], o[2])
    <2> SUFFICES ASSUME NEW o \in Outs PROVE ArgOK(o[1], o[2])
      BY DEF Step, Handling, ProcWith
    <2> QED
      BY DEF Outs, ArgOK
  <1>3. \A m \in net' : /\ m = [p |-> m.p, op |-> m.op, arg |-> m.arg, live |-> m.live]
                        /\ m.p \in Daemons /\ m.live \in BOOLEAN /\ ArgOK(m.op, m.arg)
    <2> TAKE m \in net'
    <2>1. CASE m \in net
      BY Zenon, <2>1 DEF Types
    <2>2. CASE m \notin net
      <3>1. PICK o \in t.out : m = Request(p, o[1], o[2])
        BY Zenon, <2>2 DEF Step
      <3>2. /\ m = [p |-> m.p, op |-> m.op, arg |-> m.arg, live |-> m.live]
            /\ m.p = p /\ m.op = o[1] /\ m.arg = o[2] /\ m.live = TRUE
        BY Zenon, <3>1 DEF Request
      <3> QED
        BY Zenon, <1>2, <3>2 DEF Step
    <2> QED
      BY <2>1, <2>2
  <1>4. written' \subseteq Blocks
    BY Zenon DEF Step, Types
  <1>5. \A a \in ans' : a.p \in Daemons /\ ArgOK(a.op, a.arg)
    BY Zenon DEF Step, Types
  <1>6. /\ md' \in ItemRec /\ pids' \in Nat /\ freed' \in Nat /\ run' \in Run
        /\ data' \subseteq Blocks /\ proc' \in [Daemons -> ProcWith({{}})]
    BY Zenon DEF Step, Types
  <1> QED
    BY Zenon, <1>1, <1>3, <1>4, <1>5, <1>6 DEF Types, ArgOK

\* A handler changes its own process only.
LEMMA ProcStep ==
    ASSUME Types, ProcInv, NEW p, NEW t, NEW A, Step(p, t, A), OneProc(proc[p])'
    PROVE  ProcInv'
  <1> SUFFICES ASSUME NEW q \in Daemons, q # p PROVE OneProc(proc[q])'
    BY DEF ProcInv
  <1>1. proc'[q] = proc[q] /\ OneProc(proc[q])
    BY Zenon DEF Step, ProcInv
  <1>2. Blocks' = Blocks /\ run'.maxblk = run.maxblk
    BY Zenon DEF Step, Blocks
  <1>3. proc[q].N <= freed => proc[q].N <= freed'
    <2>1. proc[q].N \in Nat /\ freed \in Nat /\ freed' \in Nat /\ freed' >= freed
      BY DEF Types, Step, ProcWith
    <2> QED
      BY <2>1
  <1> QED
    BY Zenon, <1>1, <1>2, <1>3 DEF OneProc

\* No request of p that o would be the twin of is under way.
Unasked(p, A, o) ==
    /\ \A m \in net : m.p = p /\ m.live => ~SameKind(o[1], o[2], m.op, m.arg)
    /\ \A a \in ans \ A : a.p = p => ~SameKind(o[1], o[2], a.op, a.arg)

\* A handler asks for nothing that is under way already.
LEMMA AloneStep ==
    ASSUME Alone, NEW p, NEW t, NEW A, Step(p, t, A),
           \A o \in t.out : Unasked(p, A, o),
           \A o, r \in t.out : SameKind(o[1], o[2], r[1], r[2]) => o = r
    PROVE  Alone'
  <1>1. \A o1, a1, o2, a2 : SameKind(o1, a1, o2, a2) => SameKind(o2, a2, o1, a1)
    BY Zenon DEF SameKind
  <1>2. ASSUME NEW m \in net', m \notin net
        PROVE  \E o \in t.out : m.p = p /\ m.op = o[1] /\ m.arg = o[2]
                                /\ m = Request(p, o[1], o[2])
    <2>1. PICK o \in t.out : m = Request(p, o[1], o[2])
      BY Zenon, <1>2 DEF Step
    <2>2. m.p = p /\ m.op = o[1] /\ m.arg = o[2]
      BY <2>1 DEF Request
    <2> QED
      BY <2>1, <2>2
  <1>3. ASSUME NEW m \in net', NEW n \in net', m.live, n.live, Twins(m, n) PROVE m = n
    <2>1. CASE m \in net /\ n \in net
      BY Zenon, <1>3, <2>1 DEF Alone
    <2>2. CASE m \notin net /\ n \in net
      BY Zenon, <1>2, <1>3, <2>2 DEF Twins, Unasked
    <2>3. CASE m \in net /\ n \notin net
      <3>1. PICK r \in t.out : n.p = p /\ n.op = r[1] /\ n.arg = r[2]
        BY Zenon, <1>2, <2>3
      <3>2. SameKind(r[1], r[2], m.op, m.arg) /\ m.p = p
        BY Zenon, <1>1, <1>3, <3>1 DEF Twins
      <3> QED
        BY Zenon, <1>3, <2>3, <3>1, <3>2 DEF Unasked
    <2>4. CASE m \notin net /\ n \notin net
      <3>1. PICK o \in t.out : m.op = o[1] /\ m.arg = o[2] /\ m = Request(p, o[1], o[2])
        BY Zenon, <1>2, <2>4
      <3>2. PICK r \in t.out : n.op = r[1] /\ n.arg = r[2] /\ n = Request(p, r[1], r[2])
        BY Zenon, <1>2, <2>4
      <3>3. SameKind(o[1], o[2], r[1], r[2])
        BY Zenon, <1>3, <3>1, <3>2 DEF Twins
      <3> QED
        BY Zenon, <3>1, <3>2, <3>3
    <2> QED
      BY Zenon, <2>1, <2>2, <2>3, <2>4
  <1>4. \A a, b \in ans' : Twins(a, b) => a = b
    BY Zenon DEF Step, Alone
  <1>5. ASSUME NEW m \in net', NEW a \in ans', m.live PROVE ~Twins(m, a)
    <2>1. a \in ans \ A
      BY Zenon DEF Step
    <2>2. CASE m \in net
      BY Zenon, <1>5, <2>1, <2>2 DEF Alone
    <2>3. CASE m \notin net
      BY Zenon, <1>2, <2>1, <2>3 DEF Twins, Unasked
    <2> QED
      BY <2>2, <2>3
  <1> QED
    BY Zenon, <1>3, <1>4, <1>5 DEF Alone, Twins

(***************************************************************************)
(* A handler that takes no answer about the metadata                       *)
(***************************************************************************)
\* What an item says stays true: nothing is undeleted, and a FREE stays.
LEMMA GoodStable ==
    ASSUME NEW x \in ItemRec, Good(x), pids \in Nat, freed \in Nat,
           run'.maxblk = run.maxblk, pids' \in Nat, pids' >= pids,
           freed' \in Nat, freed' >= freed, deleted \subseteq deleted'
    PROVE  Good(x)'
  <1>1. x.pid \in Nat /\ x.deletedto \in Nat
    BY DEF ItemRec
  <1>2. x.pid <= pids'
    BY <1>1 DEF Good
  <1>3. \A b \in 0 .. x.deletedto - 1 : b \in deleted' /\ b < freed'
    BY <1>1 DEF Good
  <1> QED
    BY Zenon, <1>2, <1>3 DEF Good

\* What the process stores and has stored says only what is true.
LEMMA GoodTuples ==
    ASSUME NEW t \in Handling, Local(t), t.write_inprogress, DoneBelow(t)',
           t.nextblk <= run'.maxblk, run'.maxblk \in Nat, t.pid <= pids'
    PROVE  Good(Item(t.stored, t.pid))' /\ Good(Item(t.storing, t.pid))'
  <1>1. /\ t.stored \in MTuple /\ t.storing \in MTuple /\ t.latest \in MTuple
        /\ t.M \in Nat /\ t.nextblk \in Nat /\ t.append.old \in Nat /\ t.ip \subseteq Nat
    BY DEF Handling, ProcWith
  <1>2. Tuples(t) /\ Deleting(t)
    BY Zenon DEF Local, Core
  <1>3. /\ t.stored.nextblk <= t.storing.nextblk /\ t.stored.deletedto <= t.storing.deletedto
        /\ t.storing.nextblk <= t.nextblk /\ t.storing.deletedto <= t.latest.deletedto
        /\ t.stored.lastblk < t.stored.nextblk /\ t.storing.lastblk < t.storing.nextblk
    BY Zenon, <1>2 DEF Tuples, Upto, Sent
  <1>4. t.latest.deletedto <= t.M /\ \A b \in t.ip : t.latest.deletedto <= b
    BY Zenon, <1>2 DEF Deleting
  <1>5. \A b \in 0 .. t.latest.deletedto - 1 : b \in deleted' /\ b < freed'
    BY <1>1, <1>4 DEF DoneBelow, MTuple
  <1>6. \A b \in 0 .. t.storing.deletedto - 1 : b \in deleted' /\ b < freed'
    BY <1>1, <1>3, <1>5 DEF MTuple
  <1>7. \A b \in 0 .. t.stored.deletedto - 1 : b \in deleted' /\ b < freed'
    BY <1>1, <1>3, <1>6 DEF MTuple
  <1>8. t.storing.nextblk <= run'.maxblk /\ t.stored.nextblk <= run'.maxblk
    BY <1>1, <1>3 DEF MTuple
  <1> QED
    BY <1>3, <1>6, <1>7, <1>8 DEF Good, Item

\* A step of a process at work that does not take an answer about the metadata.
Quiet(p, t, A) ==
    LET s == proc[p] IN
    /\ s.phase \in Working /\ t.phase \in Working
    /\ t.pid = s.pid /\ t.stored = s.stored /\ Local(t)
    /\ \A a \in A : a.op \notin {"icas", "getmd"}
    /\ \/ /\ t.write_inprogress = s.write_inprogress /\ t.storing = s.storing
          /\ \A o \in t.out : o[1] # "icas"
       \/ ~s.write_inprogress /\ t.write_inprogress

\* What an item says stays true in a step of a handler.
LEMMA StepStable ==
    ASSUME Types, NEW p, NEW t, NEW A, Step(p, t, A), NEW x \in ItemRec, Good(x)
    PROVE  Good(x)'
  <1>1. deleted \subseteq deleted'
    BY Zenon DEF Step
  <1> QED
    BY Zenon, <1>1, GoodStable DEF Step, Types

\* A handler that takes no answer about the metadata changes no ownership.
LEMMA OwnerQuiet ==
    ASSUME Types, OwnerInv, NEW p, NEW t, NEW A, Step(p, t, A), Quiet(p, t, A)
    PROVE  OwnerInv'
  <1>1. p \in Daemons /\ md' = md
    BY DEF Step
  <1>2. /\ proc'[p].pid = proc[p].pid /\ proc'[p].stored = proc[p].stored
        /\ \/ /\ proc'[p].write_inprogress = proc[p].write_inprogress
              /\ proc'[p].storing = proc[p].storing
           \/ ~proc[p].write_inprogress /\ proc'[p].write_inprogress
    BY Zenon DEF Step, Settled, Quiet
  <1>3. Good(md)'
    BY Zenon, <1>1, StepStable DEF Types, OwnerInv, Good
  <1>4. \A q \in Daemons : proc'[q].pid = proc[q].pid
    BY Zenon, <1>2 DEF Step
  <1>5. \A q \in Daemons : proc'[q].pid <= pids'
    <2> TAKE q \in Daemons
    <2>1. proc[q].pid \in Nat /\ pids \in Nat /\ pids' \in Nat /\ pids' >= pids
      BY DEF Types, Step, ProcWith
    <2> QED
      BY <1>4, <2>1 DEF OwnerInv
  <1>6. ASSUME NEW q \in Daemons, md'.pid = proc'[q].pid, proc'[q].pid > 0
        PROVE  \/ md' = Item(proc'[q].stored, proc'[q].pid)
               \/ proc'[q].write_inprogress /\ md' = Item(proc'[q].storing, proc'[q].pid)
    <2>1. \/ md = Item(proc[q].stored, proc[q].pid)
          \/ proc[q].write_inprogress /\ md = Item(proc[q].storing, proc[q].pid)
      BY Zenon, <1>1, <1>4, <1>6 DEF OwnerInv
    <2>2. CASE q = p
      BY Zenon, <1>1, <1>2, <2>1, <2>2
    <2>3. CASE q # p
      BY Zenon, <1>1, <2>1, <2>3 DEF Step
    <2> QED
      BY <2>2, <2>3
  <1> QED
    BY Zenon, <1>3, <1>4, <1>5, <1>6 DEF OwnerInv

\* Nor does it read the metadata.
LEMMA ReadQuiet ==
    ASSUME Types, ReadInv, NEW p, NEW t, NEW A, Step(p, t, A), Quiet(p, t, A)
    PROVE  ReadInv'
  <1>1. ASSUME NEW m \in net', m.op = "getmd", m.live PROVE proc'[m.p].phase = "reading"
    <2>1. CASE m \in net
      <3>1. proc[m.p].phase = "reading" /\ m.p \in Daemons
        BY Zenon, <1>1, <2>1 DEF ReadInv, Types
      <3>2. m.p # p
        BY <3>1 DEF Quiet, Working
      <3> QED
        BY Zenon, <3>1, <3>2 DEF Step
    <2>2. CASE m \notin net
      <3>1. PICK o \in t.out : m = Request(p, o[1], o[2])
        BY Zenon, <2>2 DEF Step
      <3>2. o[1] # "getmd"
        BY DEF Quiet, Local, Core, Asking
      <3> QED
        BY <1>1, <3>1, <3>2 DEF Request
    <2> QED
      BY <2>1, <2>2
  <1>2. ASSUME NEW a \in ans', a.op = "getmd"
        PROVE  proc'[a.p].phase = "reading" /\ a.res \in ItemRec /\ Good(a.res)'
    <2>1. a \in ans
      BY Zenon DEF Step
    <2>2. proc[a.p].phase = "reading" /\ a.res \in ItemRec /\ Good(a.res) /\ a.p \in Daemons
      BY Zenon, <1>2, <2>1 DEF ReadInv, Types
    <2>3. a.p # p
      BY <2>2 DEF Quiet, Working
    <2>4. Good(a.res)'
      BY Zenon, <2>2, StepStable
    <2> QED
      BY Zenon, <2>2, <2>3, <2>4 DEF Step
  <1> QED
    BY Zenon, <1>1, <1>2 DEF ReadInv

\* What a request or an answer about the metadata says of a process depends on
\* these parts of its state.
SameOwner(s, u) ==
    /\ u.pid = s.pid /\ u.stored = s.stored /\ u.storing = s.storing
    /\ u.write_inprogress = s.write_inprogress
    /\ u.phase \in Working <=> s.phase \in Working
    /\ u.phase = "claiming" <=> s.phase = "claiming"

\* What a request about the metadata says depends on few parts of the state.
LEMMA SameOwnerAsked ==
    ASSUME NEW s, NEW u, SameOwner(s, u), NEW x, NEW y
    PROVE  /\ Asked(s, x, y) => Asked(u, x, y)
           /\ Current(s, x, y) => Current(u, x, y)
  BY Zenon DEF SameOwner, Asked, Current

\* Pids stay, metadata stays: what a step does not change for the message m.
LEMMA IcasKept ==
    ASSUME Types, NEW p, NEW t, NEW A, Step(p, t, A), NEW m \in net, m.op = "icas",
           IcasMsg(m), \A q \in Daemons : proc'[q].pid = proc[q].pid,
           \/ SameOwner(proc[m.p], proc'[m.p])
           \/ ~m.live /\ (\/ Past(m.arg[1]) \/ m.arg[2].pid < proc[m.p].pid
                          \/ Current(proc'[m.p], m.arg[1], m.arg[2]))
    PROVE  IcasMsg(m)'
  <1> DEFINE x == m.arg[1]
             y == m.arg[2]
  <1>1. x \in ItemRec /\ y \in ItemRec /\ m.p \in Daemons
    <2>1. m.arg \in ItemRec \X ItemRec /\ m.p \in Daemons
      BY Zenon DEF Types, ArgOK
    <2> QED
      BY <2>1
  <1>2. /\ Claim(x, y) \/ Write(x, y)
        /\ Good(x) /\ Good(y) /\ y.pid > 0
        /\ \A q \in Daemons \ {m.p} : proc[q].pid # y.pid
        /\ y.pid <= proc[m.p].pid
        /\ Past(x) \/ y.pid < proc[m.p].pid \/ Current(proc[m.p], x, y)
        /\ m.live => Asked(proc[m.p], x, y)
    BY Zenon DEF IcasMsg
  <1> HIDE DEF x, y
  <1>3. Good(x)' /\ Good(y)'
    BY Zenon, <1>1, <1>2, StepStable
  <1>4. Past(x)' <=> Past(x)
    BY Zenon DEF Past, Step
  <1>5. SameOwner(proc[m.p], proc'[m.p]) =>
           /\ Current(proc[m.p], x, y) => Current(proc'[m.p], x, y)
           /\ Asked(proc[m.p], x, y) => Asked(proc'[m.p], x, y)
    BY Zenon, SameOwnerAsked
  <1>6. \/ Past(x) \/ y.pid < proc[m.p].pid \/ Current(proc'[m.p], x, y)
    BY Zenon, <1>2, <1>5 DEF x, y
  <1>7. m.live => Asked(proc'[m.p], x, y)
    BY Zenon, <1>2, <1>5 DEF x, y
  <1> QED
    BY Zenon, <1>1, <1>2, <1>3, <1>4, <1>6, <1>7 DEF IcasMsg, x, y

\* An answer about the metadata says of the process what it said before.
LEMMA IcasAnsKept ==
    ASSUME Types, NEW p, NEW t, NEW A, Step(p, t, A), NEW a \in ans, a.op = "icas",
           IcasAns(a), SameOwner(proc[a.p], proc'[a.p])
    PROVE  IcasAns(a)'
  <1> DEFINE x == a.arg[1]
             y == a.arg[2]
  <1>1. x \in ItemRec /\ y \in ItemRec /\ a.p \in Daemons
    <2>1. a.arg \in ItemRec \X ItemRec /\ a.p \in Daemons
      BY Zenon DEF Types, ArgOK
    <2> QED
      BY <2>1
  <1>2. /\ Asked(proc[a.p], x, y) /\ Good(y) /\ a.res \in BOOLEAN
        /\ a.res => (y = md \/ Past(y)) /\ Upto(y, md)
    BY Zenon DEF IcasAns
  <1> HIDE DEF x, y
  <1>3. Good(y)'
    BY Zenon, <1>1, <1>2, StepStable
  <1>4. (Past(y)' <=> Past(y)) /\ md' = md
    BY Zenon DEF Past, Step
  <1>5. Asked(proc'[a.p], x, y)
    BY Zenon, <1>2, SameOwnerAsked
  <1> QED
    BY Zenon, <1>2, <1>3, <1>4, <1>5 DEF IcasAns, x, y

\* A write of the metadata that the process makes is what it should be.
LEMMA IcasNew ==
    ASSUME Types, OwnerInv, NEW p, NEW t, NEW A, Step(p, t, A), Local(t), DoneBelow(t)',
           t.phase \in Working, t.nextblk <= run.maxblk, t.pid = proc[p].pid,
           NEW m \in net', m \notin net, m.op = "icas"
    PROVE  IcasMsg(m)'
  <1> DEFINE x == Item(t.stored, t.pid)
             y == Item(t.storing, t.pid)
  <1>1. PICK o \in t.out : m = Request(p, o[1], o[2])
    BY Zenon DEF Step
  <1>2. m.p = p /\ o[1] = "icas" /\ m.arg = o[2] /\ m.live
    BY <1>1 DEF Request
  <1>3. t.write_inprogress /\ o[2] = <<x, y>>
    BY Zenon, <1>2 DEF Local, Core, Asking
  <1>4. m.arg[1] = x /\ m.arg[2] = y
    BY <1>2, <1>3
  <1>5. /\ p \in Daemons /\ t \in Handling /\ t.stored \in MTuple /\ t.storing \in MTuple
        /\ t.pid \in Nat
    BY DEF Step, Handling, ProcWith
  <1>6. Write(x, y)
    BY Zenon, <1>3 DEF Local, Core, Tuples, Write, Item, Upto
  <1>7. /\ t.pid <= pids' /\ t.pid > 0 /\ t.pid <= t.pid
        /\ run'.maxblk \in Nat /\ t.nextblk <= run'.maxblk
    <2>1. /\ proc[p].pid <= pids /\ pids \in Nat /\ pids' \in Nat /\ pids' >= pids
          /\ t.pid \in Nat /\ run' \in Run /\ run'.maxblk = run.maxblk
      BY Zenon, <1>5 DEF OwnerInv, Types, Step
    <2> QED
      BY <2>1 DEF Run, Local, Core, Tuples
  <1>8. Good(x)' /\ Good(y)'
    BY Zenon, <1>3, <1>5, <1>7, GoodTuples
  <1>9. /\ proc'[p].pid = t.pid /\ proc'[p].stored = t.stored
        /\ proc'[p].storing = t.storing /\ proc'[p].write_inprogress
        /\ proc'[p].phase \in Working
    BY Zenon, <1>3 DEF Step, Settled
  <1>10. \A q \in Daemons \ {p} : proc'[q].pid # t.pid
    BY <1>5, <1>7 DEF OwnerInv, Step
  <1>11. y.pid = t.pid
    BY DEF Item
  <1>12. Asked(proc'[p], x, y) /\ Current(proc'[p], x, y)
    BY Zenon, <1>9 DEF Asked, Current
  <1> HIDE DEF x, y
  <1> QED
    BY Zenon, <1>2, <1>4, <1>6, <1>7, <1>8, <1>9, <1>10, <1>11, <1>12 DEF IcasMsg

\* The compare-and-swaps under way are still right after a handler that takes
\* no answer about the metadata (callback_append_put_blks, callback_done, ...).
LEMMA IcasQuiet ==
    ASSUME Types, OwnerInv, IcasInv, NEW p, NEW t, NEW A, Step(p, t, A), Quiet(p, t, A),
           DoneBelow(t)', t.nextblk <= run.maxblk
    PROVE  IcasInv'
  <1>1. /\ proc'[p].pid = proc[p].pid /\ proc'[p].stored = proc[p].stored
        /\ proc[p].phase \in Working /\ proc'[p].phase \in Working
        /\ \/ /\ proc'[p].write_inprogress = proc[p].write_inprogress
              /\ proc'[p].storing = proc[p].storing
           \/ ~proc[p].write_inprogress /\ proc'[p].write_inprogress
    BY Zenon DEF Step, Settled, Quiet
  <1>2. \A q \in Daemons : proc'[q].pid = proc[q].pid
    BY Zenon, <1>1 DEF Step
  <1>3. \A q \in Daemons : SameOwner(proc[q], proc'[q]) \/ (q = p /\ ~proc[p].write_inprogress)
    <2> TAKE q \in Daemons
    <2>1. CASE q = p
      <3>1. proc[p].phase # "claiming" /\ proc'[p].phase # "claiming"
        BY <1>1 DEF Working
      <3> QED
        BY Zenon, <1>1, <2>1, <3>1 DEF SameOwner
    <2>2. CASE q # p
      <3>1. proc'[q] = proc[q]
        BY Zenon, <2>2 DEF Step
      <3> QED
        BY <3>1 DEF SameOwner
    <2> QED
      BY <2>1, <2>2
  <1>4. ASSUME ~proc[p].write_inprogress, NEW x, NEW y
        PROVE  ~Asked(proc[p], x, y) /\ ~Current(proc[p], x, y)
    BY <1>1, <1>4 DEF Asked, Current, Working
  <1>5. ASSUME NEW m \in net', m.op = "icas" PROVE IcasMsg(m)'
    <2>1. CASE m \notin net
      BY Zenon, <1>5, <2>1, IcasNew DEF Quiet
    <2>2. CASE m \in net
      <3>1. IcasMsg(m) /\ m.p \in Daemons
        BY Zenon, <1>5, <2>2 DEF IcasInv, Types
      <3>2. ~proc[p].write_inprogress /\ m.p = p =>
               ~m.live /\ (Past(m.arg[1]) \/ m.arg[2].pid < proc[m.p].pid)
        BY Zenon, <1>4, <3>1 DEF IcasMsg
      <3> QED
        BY Zenon, <1>2, <1>3, <1>5, <2>2, <3>1, <3>2, IcasKept DEF Types
    <2> QED
      BY <2>1, <2>2
  <1>6. ASSUME NEW a \in ans', a.op = "icas" PROVE IcasAns(a)'
    <2>1. a \in ans
      BY Zenon DEF Step
    <2>2. IcasAns(a) /\ a.p \in Daemons
      BY Zenon, <1>6, <2>1 DEF IcasInv, Types
    <2>3. SameOwner(proc[a.p], proc'[a.p])
      BY Zenon, <1>3, <1>4, <2>2 DEF IcasAns
    <2> QED
      BY Zenon, <1>6, <2>1, <2>2, <2>3, IcasAnsKept
  <1> QED
    BY Zenon, <1>5, <1>6 DEF IcasInv

\* Such a handler acknowledges nothing, and the owner still knows of the blocks
\* that were acknowledged.
LEMMA AckedQuiet ==
    ASSUME Types, AckedInv, NEW p, NEW t, NEW A, Step(p, t, A), Quiet(p, t, A),
           acked' = acked
    PROVE  AckedInv'
  <1>1. \A q \in Daemons : proc'[q].pid = proc[q].pid /\ proc'[q].stored = proc[q].stored
    BY Zenon DEF Step, Settled, Quiet
  <1>2. \A b \in acked : b >= freed' => b >= freed
    BY DEF Types, Step, Blocks, Run
  <1>3. md' = md /\ data' = data /\ ans' \subseteq ans
    BY Zenon DEF Step
  <1> QED
    BY Zenon, <1>1, <1>2, <1>3 DEF AckedInv

\* Such a handler makes no PUT, so no block is written twice.
LEMMA WrittenQuiet ==
    ASSUME Types, OwnerInv, IcasInv, WrittenInv,
           NEW p, NEW t, NEW A, Step(p, t, A), Quiet(p, t, A),
           \A o \in t.out : o[1] # "put",
           \/ t.nextblk = proc[p].nextblk /\ t.append.old = proc[p].append.old
           \/ ~(proc[p].write_inprogress /\ proc[p].storing.cb = "nextblk")
    PROVE  WrittenInv'
  <1>1. written' = written /\ md' = md /\ ans' \subseteq ans /\ p \in Daemons
    BY Zenon DEF Step
  <1>2. Granted(p)' => /\ Granted(p)
                       /\ proc'[p].nextblk = proc[p].nextblk
                       /\ proc'[p].append.old = proc[p].append.old
    <2> SUFFICES ASSUME Granted(p)'
                 PROVE  /\ Granted(p) /\ proc'[p].nextblk = proc[p].nextblk
                        /\ proc'[p].append.old = proc[p].append.old
      OBVIOUS
    <2>1. /\ t.write_inprogress /\ t.storing.cb = "nextblk"
          /\ \/ md = Item(t.storing, t.pid)
             \/ \E a \in ans : a.p = p /\ a.op = "icas" /\ a.res
      BY Zenon, <1>1 DEF Granted, Step, Settled
    <2>2. CASE t.write_inprogress = proc[p].write_inprogress /\ t.storing = proc[p].storing
      BY Zenon, <2>1, <2>2 DEF Granted, Quiet, Step, Settled
    <2>3. CASE ~proc[p].write_inprogress
      <3>1. proc[p].phase \in Working /\ t.pid = proc[p].pid /\ t.stored = proc[p].stored
        BY Zenon DEF Quiet
      <3>2. \A a \in ans : a.op = "icas" => a.p # p
        <4> SUFFICES ASSUME NEW a \in ans, a.op = "icas", a.p = p PROVE FALSE
          OBVIOUS
        <4>1. Asked(proc[p], a.arg[1], a.arg[2])
          BY Zenon DEF IcasInv, IcasAns
        <4> QED
          BY <2>3, <3>1, <4>1 DEF Asked, Working
      <3>3. md = Item(t.storing, t.pid)
        BY Zenon, <2>1, <3>2
      <3>4. md.pid = t.pid
        BY <3>3 DEF Item
      <3>5. /\ t.pid > 0 /\ t.storing.generation = t.stored.generation + 1
            /\ t.stored.generation \in Nat
        BY <2>1 DEF Quiet, Local, Core, Tuples, Step, Handling, ProcWith, MTuple
      <3>6. md = Item(t.stored, t.pid)
        BY Zenon, <1>1, <2>3, <3>1, <3>4, <3>5 DEF OwnerInv
      <3>7. md.generation = t.stored.generation /\ md.generation = t.storing.generation
        BY <3>3, <3>6 DEF Item
      <3> QED
        BY <3>5, <3>7
    <2> QED
      BY Zenon, <2>2, <2>3 DEF Quiet
  <1>3. \A q \in Daemons : q # p =>
           /\ Granted(q)' => Granted(q)
           /\ proc'[q] = proc[q]
    <2> TAKE q \in Daemons
    <2> HAVE q # p
    <2>1. proc'[q] = proc[q]
      BY Zenon DEF Step
    <2> QED
      BY Zenon, <1>1, <2>1 DEF Granted
  <1>4. \A q \in Daemons : Granted(q)' => /\ Granted(q)
                                          /\ proc'[q].nextblk = proc[q].nextblk
                                          /\ proc'[q].append.old = proc[q].append.old
    BY Zenon, <1>2, <1>3
  <1> HIDE DEF Granted
  <1> QED
    BY Zenon, <1>1, <1>4 DEF WrittenInv, InRange

\* A handler deletes only blocks that are to be freed, and records only DELETEs
\* that were served.
LEMMA DeleteStep ==
    ASSUME Types, DeleteInv, NEW p, NEW t, NEW A, Step(p, t, A),
           t.phase \in Working, Local(t), t.N <= freed', DoneBelow(t)',
           \A m \in net : m.p = p /\ m.op = "delete" /\ m.live => m.arg[1] \in t.ip,
           \A a \in ans \ A : a.p = p /\ a.op = "delete" => a.arg[1] \in t.ip
    PROVE  DeleteInv'
  <1>1. /\ p \in Daemons /\ t.ip \subseteq Nat /\ t.N \in Nat /\ freed \in Nat
        /\ freed' \in Nat /\ freed' >= freed
    BY DEF Step, Handling, ProcWith, Types
  <1>2. /\ proc'[p].phase = t.phase /\ proc'[p].ip = t.ip /\ proc'[p].M = t.M
        /\ deleted' = deleted /\ ans' = ans \ A
        /\ \A q \in Daemons \ {p} : proc'[q] = proc[q]
    BY Zenon DEF Step, Settled
  <1>3. \A b \in t.ip : b < freed'
    BY <1>1 DEF Local, Core, Deleting
  <1>4. ASSUME NEW q \in Daemons, proc'[q].phase \in Working PROVE DoneBelow(proc[q])'
    <2>1. CASE q = p
      BY <1>2, <2>1 DEF DoneBelow
    <2>2. CASE q # p
      <3>1. proc'[q] = proc[q] /\ DoneBelow(proc[q]) /\ proc[q].M \in Nat
        BY <1>2, <1>4, <2>2 DEF DeleteInv, Types, ProcWith
      <3> QED
        BY <3>1, <1>1, <1>2 DEF DoneBelow
    <2> QED
      BY <2>1, <2>2
  <1>5. ASSUME NEW m \in net', m.op = "delete"
        PROVE  /\ m.arg[1] < freed'
               /\ m.live => proc'[m.p].phase \in Working /\ m.arg[1] \in proc'[m.p].ip
    <2>1. CASE m \in net
      <3>1. /\ m.arg[1] < freed /\ m.arg[1] \in Nat /\ m.p \in Daemons
            /\ m.live => proc[m.p].phase \in Working /\ m.arg[1] \in proc[m.p].ip
        BY <1>5, <2>1 DEF DeleteInv, Types, ArgOK
      <3>2. m.arg[1] < freed'
        BY <1>1, <3>1
      <3>3. m.live => proc'[m.p].phase \in Working /\ m.arg[1] \in proc'[m.p].ip
        BY Zenon, <1>2, <1>5, <2>1, <3>1
      <3> QED
        BY <3>2, <3>3
    <2>2. CASE m \notin net
      <3>1. PICK o \in t.out : m = Request(p, o[1], o[2])
        BY Zenon, <2>2 DEF Step
      <3>2. m.p = p /\ m.op = o[1] /\ m.arg = o[2]
        BY <3>1 DEF Request
      <3>3. m.arg[1] \in t.ip
        BY Zenon, <1>5, <3>2 DEF Local, Core, Asking
      <3> QED
        BY Zenon, <1>2, <1>3, <3>2, <3>3
    <2> QED
      BY <2>1, <2>2
  <1>6. ASSUME NEW a \in ans', a.op = "delete"
        PROVE  /\ a.arg[1] < freed' /\ a.arg[1] \in deleted'
               /\ proc'[a.p].phase \in Working /\ a.arg[1] \in proc'[a.p].ip
    <2>1. a \in ans \ A /\ a \in ans
      BY Zenon, <1>2
    <2>2. /\ a.arg[1] < freed /\ a.arg[1] \in Nat /\ a.p \in Daemons /\ a.arg[1] \in deleted
          /\ proc[a.p].phase \in Working /\ a.arg[1] \in proc[a.p].ip
      BY <1>6, <2>1 DEF DeleteInv, Types, ArgOK
    <2>3. a.arg[1] < freed'
      BY <1>1, <2>2
    <2> QED
      BY Zenon, <1>2, <1>6, <2>1, <2>2, <2>3
  <1> QED
    BY Zenon, <1>4, <1>5, <1>6 DEF DeleteInv

\* What a handler must show of the APPEND of its process.
LEMMA PutStep ==
    ASSUME Types, PutInv, NEW p, NEW t, NEW A, Step(p, t, A),
           \A o \in t.out : o[1] = "put" => o[2][1] \in Blocks,
           \A m \in net' : m.p = p /\ m.op = "put" /\ m.live =>
                 Putting(proc'[p]) /\ InRange(proc'[p], m.arg[1]),
           \A a \in ans' : a.p = p /\ a.op = "put" =>
                 Putting(proc'[p]) /\ InRange(proc'[p], a.arg[1]),
           PutProc(p)'
    PROVE  PutInv'
  <1>1. /\ p \in Daemons /\ freed \in Nat /\ freed' \in Nat /\ freed' >= freed
        /\ data' = data /\ ans' = ans \ A /\ net \subseteq net' /\ \A a \in A : a.p = p
        /\ \A q \in Daemons \ {p} : proc'[q] = proc[q]
    BY Zenon DEF Step, Types
  <1>2. Blocks' = Blocks
    BY Zenon DEF Step, Blocks
  <1>3. \A m \in net' \ net : \E o \in t.out : m.p = p /\ m.op = o[1] /\ m.arg = o[2]
    BY DEF Step, Request
  <1>4. \A b \in Nat : b < freed => b < freed'
    BY <1>1
  <1>5. ASSUME NEW m \in net', m.op = "put"
        PROVE  /\ m.arg[1] \in Blocks'
               /\ m.live => Putting(proc'[m.p]) /\ InRange(proc'[m.p], m.arg[1])
    <2>1. CASE m \in net
      <3>1. /\ m.arg[1] \in Blocks /\ m.p \in Daemons
            /\ m.live => Putting(proc[m.p]) /\ InRange(proc[m.p], m.arg[1])
        BY Zenon, <1>5, <2>1 DEF PutInv, Types
      <3> QED
        BY Zenon, <1>1, <1>2, <1>5, <3>1
    <2>2. CASE m \notin net
      BY Zenon, <1>2, <1>3, <1>5, <2>2
    <2> QED
      BY <2>1, <2>2
  <1>6. ASSUME NEW a \in ans', a.op = "put"
        PROVE  /\ Putting(proc'[a.p]) /\ InRange(proc'[a.p], a.arg[1])
               /\ a.arg[1] \in data' \/ a.arg[1] < freed'
    <2>1. a \in ans
      BY Zenon, <1>1
    <2>2. /\ Putting(proc[a.p]) /\ InRange(proc[a.p], a.arg[1])
          /\ a.arg[1] \in data \/ a.arg[1] < freed
          /\ a.p \in Daemons /\ a.arg[1] \in Nat
      BY Zenon, <1>6, <2>1 DEF PutInv, Types, ArgOK
    <2> QED
      BY Zenon, <1>1, <1>4, <1>6, <2>2
  <1>7. ASSUME NEW q \in Daemons, q # p PROVE PutProc(q)'
    <2>1. PutProc(q) /\ proc'[q] = proc[q]
      BY Zenon, <1>1, <1>7 DEF PutInv
    <2>2. Owed(q)' = Owed(q)
      <3>1. ASSUME NEW b \in Blocks PROVE
              ((\E m \in net' : m.p = q /\ m.op = "put" /\ m.live /\ m.arg[1] = b) <=>
               (\E m \in net : m.p = q /\ m.op = "put" /\ m.live /\ m.arg[1] = b))
        BY Zenon, <1>1, <1>3, <1>7
      <3>2. ASSUME NEW b \in Blocks PROVE
              ((\E a \in ans' : a.p = q /\ a.op = "put" /\ a.arg[1] = b) <=>
               (\E a \in ans : a.p = q /\ a.op = "put" /\ a.arg[1] = b))
        <4>1. \A a \in ans : a.p = q => a \in ans'
          BY Zenon, <1>1, <1>7
        <4>2. ans' \subseteq ans
          BY Zenon, <1>1
        <4> QED
          BY Zenon, <4>1, <4>2
      <3> QED
        BY <1>2, <3>1, <3>2 DEF Owed
    <2>3. \A b \in Blocks : b \in Nat
      BY DEF Blocks, Types, Run
    <2>4. proc[q].phase \in Working /\ proc[q].append.nblks > 0
             /\ Stage(proc[q]) # "nextblk" =>
          \A b \in Blocks : InRange(proc[q], b) =>
             \/ b \in data \/ b < freed'
             \/ \E m \in net' : m.p = q /\ m.op = "put" /\ m.live /\ m.arg[1] = b
      BY Zenon, <1>1, <1>4, <2>1, <2>3 DEF PutProc
    <2> QED
      BY Zenon, <1>1, <1>2, <2>1, <2>2, <2>4 DEF PutProc
  <1> QED
    BY Zenon, <1>5, <1>6, <1>7 DEF PutInv

\* A step that has nothing to do with the APPEND.
SameAppend(s, t) ==
    /\ s.phase \in Working /\ t.phase \in Working
    /\ t.append = s.append /\ t.nextblk = s.nextblk /\ Stage(t) = Stage(s)

\* A handler that does not concern the APPEND leaves its PUTs as they are.
LEMMA PutSame ==
    ASSUME Types, PutInv, NEW p, NEW t, NEW A, Step(p, t, A), SameAppend(proc[p], t),
           \A o \in t.out : o[1] # "put", \A a \in A : a.op # "put"
    PROVE  PutInv'
  <1>1. /\ p \in Daemons /\ freed \in Nat /\ freed' \in Nat /\ freed' >= freed
        /\ data' = data /\ ans' = ans \ A /\ net \subseteq net'
    BY Zenon DEF Step, Types
  <1>2. Blocks' = Blocks
    BY Zenon DEF Step, Blocks
  <1>3. \A m \in net' \ net : m.op # "put"
    BY DEF Step, Request
  <1>4. Stage(proc'[p]) = Stage(t)
    BY Zenon DEF Step, Settled, Stage, Later, Now
  <1>5. /\ proc'[p].phase \in Working /\ proc[p].phase \in Working
        /\ proc'[p].append = proc[p].append /\ proc'[p].nextblk = proc[p].nextblk
        /\ Stage(proc'[p]) = Stage(proc[p])
    BY Zenon, <1>4 DEF Step, Settled, SameAppend
  <1>6. /\ Putting(proc'[p]) <=> Putting(proc[p])
        /\ \A b : InRange(proc'[p], b) <=> InRange(proc[p], b)
    BY Zenon, <1>5 DEF Putting, InRange
  <1>7. \A m \in net' : m.p = p /\ m.op = "put" /\ m.live =>
                 Putting(proc'[p]) /\ InRange(proc'[p], m.arg[1])
    BY Zenon, <1>3, <1>6 DEF PutInv
  <1>8. \A a \in ans' : a.p = p /\ a.op = "put" =>
                 Putting(proc'[p]) /\ InRange(proc'[p], a.arg[1])
    BY Zenon, <1>1, <1>6 DEF PutInv
  <1>9. PutProc(p)'
    <2>1. PutProc(p)
      BY Zenon, <1>1 DEF PutInv
    <2>2. Owed(p)' = Owed(p)
      <3>1. ASSUME NEW b \in Blocks PROVE
              ((\E m \in net' : m.p = p /\ m.op = "put" /\ m.live /\ m.arg[1] = b) <=>
               (\E m \in net : m.p = p /\ m.op = "put" /\ m.live /\ m.arg[1] = b))
        BY Zenon, <1>1, <1>3
      <3>2. ASSUME NEW b \in Blocks PROVE
              ((\E a \in ans' : a.p = p /\ a.op = "put" /\ a.arg[1] = b) <=>
               (\E a \in ans : a.p = p /\ a.op = "put" /\ a.arg[1] = b))
        BY Zenon, <1>1
      <3> QED
        BY <1>2, <3>1, <3>2 DEF Owed
    <2>3. \A b \in Blocks : b < freed => b < freed'
      BY <1>1 DEF Blocks, Types, Run
    <2>4. proc[p].phase \in Working /\ proc[p].append.nblks > 0
             /\ Stage(proc[p]) # "nextblk" =>
          \A b \in Blocks : InRange(proc[p], b) =>
             \/ b \in data \/ b < freed'
             \/ \E m \in net' : m.p = p /\ m.op = "put" /\ m.live /\ m.arg[1] = b
      BY Zenon, <1>1, <2>1, <2>3 DEF PutProc
    <2> QED
      BY Zenon, <1>1, <1>2, <1>5, <1>6, <2>1, <2>2, <2>4 DEF PutProc
  <1> QED
    BY Zenon, <1>7, <1>8, <1>9, PutStep

\* What a handler must show of the GETs of its process.
LEMMA GetStep ==
    ASSUME Types, GetInv, NEW p, NEW t, NEW A, Step(p, t, A),
           acked \subseteq acked',
           \A m \in net' : m.p = p /\ m.op \in Reads /\ m.live => GetMsg(m)',
           \A a \in ans' : a.p = p /\ a.op \in Reads => GetAns(a)',
           proc'[p].phase \in Working => GetProc(proc[p])',
           \A b \in denied' : b < freed'
    PROVE  GetInv'
  <1>1. /\ p \in Daemons /\ freed \in Nat /\ freed' \in Nat /\ freed' >= freed
        /\ ans' = ans \ A
        /\ \A q \in Daemons \ {p} : proc'[q] = proc[q]
    BY Zenon DEF Step, Types
  <1>2. \A b \in Nat : b < freed => b < freed'
    BY <1>1
  <1>3. \A m \in net' \ net : m.p = p
    BY DEF Step, Request
  <1>4. ASSUME NEW m \in net', m.op \in Reads, m.live PROVE GetMsg(m)'
    <2>1. CASE m.p = p
      BY Zenon, <1>4, <2>1
    <2>2. CASE m.p # p
      <3>1. m \in net /\ m.p \in Daemons
        BY Zenon, <1>3, <2>2 DEF Types
      <3>2. GetMsg(m) /\ proc'[m.p] = proc[m.p]
        BY Zenon, <1>1, <1>4, <2>2, <3>1 DEF GetInv
      <3> QED
        BY Zenon, <3>2 DEF GetMsg
    <2> QED
      BY <2>1, <2>2
  <1>5. ASSUME NEW a \in ans', a.op \in Reads PROVE GetAns(a)'
    <2>1. CASE a.p = p
      BY Zenon, <1>5, <2>1
    <2>2. CASE a.p # p
      <3>1. a \in ans /\ a.p \in Daemons
        BY Zenon, <1>1 DEF Types
      <3>2. GetAns(a) /\ proc'[a.p] = proc[a.p]
        BY Zenon, <1>1, <1>5, <2>2, <3>1 DEF GetInv
      <3>3. \A g \in proc[a.p].gets : g.blk \in Nat
        BY <3>1 DEF Types, ProcWith
      <3> QED
        BY Zenon, <1>2, <3>2, <3>3 DEF GetAns
    <2> QED
      BY <2>1, <2>2
  <1>6. ASSUME NEW q \in Daemons, q # p, proc'[q].phase \in Working PROVE GetProc(proc[q])'
    <2>1. proc'[q] = proc[q] /\ GetProc(proc[q])
      BY Zenon, <1>1, <1>6 DEF GetInv
    <2> QED
      BY Zenon, <2>1 DEF GetProc
  <1> QED
    BY Zenon, <1>4, <1>5, <1>6 DEF GetInv

\* A handler that does not concern the GETs leaves them as they are.
LEMMA GetSame ==
    ASSUME Types, GetInv, NEW p, NEW t, NEW A, Step(p, t, A),
           acked \subseteq acked', denied' = denied,
           proc[p].phase \in Working, t.phase \in Working, t.gets = proc[p].gets,
           \A o \in t.out : o[1] \notin Reads
    PROVE  GetInv'
  <1>1. /\ p \in Daemons /\ freed \in Nat /\ freed' \in Nat /\ freed' >= freed
        /\ ans' = ans \ A /\ proc'[p].phase \in Working /\ proc'[p].gets = proc[p].gets
    BY Zenon DEF Step, Settled, Types
  <1>2. \A b \in Nat : b < freed => b < freed'
    BY <1>1
  <1>3. \A m \in net' \ net : m.op \notin Reads
    BY DEF Step, Request
  <1>4. \A m \in net' : m.p = p /\ m.op \in Reads /\ m.live => GetMsg(m)'
    BY Zenon, <1>1, <1>3 DEF GetInv, GetMsg
  <1>5. ASSUME NEW a \in ans', a.p = p, a.op \in Reads PROVE GetAns(a)'
    <2>1. GetAns(a)
      BY Zenon, <1>1, <1>5 DEF GetInv
    <2>2. \A g \in proc[p].gets : g.blk \in Nat
      BY <1>1 DEF Types, ProcWith
    <2> QED
      BY Zenon, <1>1, <1>2, <1>5, <2>1, <2>2 DEF GetAns
  <1>6. GetProc(proc[p])'
    BY Zenon, <1>1 DEF GetInv, GetProc
  <1>7. \A b \in denied' : b < freed'
    BY Zenon, <1>2 DEF GetInv, Types
  <1> QED
    BY Zenon, <1>4, <1>5, <1>6, <1>7, GetStep

\* What a process waits for stays under way, but for the answers taken.
LEMMA AwaitsStep ==
    ASSUME NEW p, NEW t, NEW A, Step(p, t, A)
    PROVE  /\ \A q, op : Awaits(q, op) /\ (q # p \/ \A a \in A : a.op # op) => Awaits(q, op)'
           /\ \A q, ops, b : AwaitsBlock(q, ops, b)
                 /\ (q # p \/ \A a \in A : a.op \in ops => a.arg # <<b>>)
                    => AwaitsBlock(q, ops, b)'
           /\ \A o \in t.out : Awaits(p, o[1])'
           /\ \A op, b : \A ops : op \in ops /\ <<op, <<b>>>> \in t.out =>
                 AwaitsBlock(p, ops, b)'
  <1>1. net \subseteq net' /\ \A a \in ans : a.p # p \/ a \notin A => a \in ans'
    BY Zenon DEF Step
  <1>2. \A o \in t.out : Request(p, o[1], o[2]) \in net'
    BY Zenon DEF Step
  <1>3. ASSUME NEW q, NEW op, Awaits(q, op), q # p \/ \A a \in A : a.op # op
        PROVE  Awaits(q, op)'
    <2>1. CASE \E m \in net : m.p = q /\ m.live /\ m.op = op
      BY Zenon, <1>1, <2>1 DEF Awaits
    <2>2. CASE \E a \in ans : a.p = q /\ a.op = op
      BY Zenon, <1>1, <1>3, <2>2 DEF Awaits
    <2> QED
      BY Zenon, <1>3, <2>1, <2>2 DEF Awaits
  <1>4. ASSUME NEW q, NEW ops, NEW b, AwaitsBlock(q, ops, b),
               q # p \/ \A a \in A : a.op \in ops => a.arg # <<b>>
        PROVE  AwaitsBlock(q, ops, b)'
    <2>1. CASE \E m \in net : m.p = q /\ m.live /\ m.op \in ops /\ m.arg = <<b>>
      BY Zenon, <1>1, <2>1 DEF AwaitsBlock
    <2>2. CASE \E a \in ans : a.p = q /\ a.op \in ops /\ a.arg = <<b>>
      BY Zenon, <1>1, <1>4, <2>2 DEF AwaitsBlock
    <2> QED
      BY Zenon, <1>4, <2>1, <2>2 DEF AwaitsBlock
  <1>5. \A o \in t.out : Awaits(p, o[1])'
    BY Zenon, <1>2 DEF Awaits, Request
  <1>6. ASSUME NEW op, NEW b, NEW ops, op \in ops, <<op, <<b>>>> \in t.out
        PROVE  AwaitsBlock(p, ops, b)'
    <2>1. Request(p, op, <<b>>) \in net'
      BY <1>2, <1>6
    <2> QED
      BY Zenon, <1>6, <2>1 DEF AwaitsBlock, Request
  <1> QED
    BY Zenon, <1>3, <1>4, <1>5, <1>6

\* What a handler must show of what its process waits for.
LEMMA WaitStep ==
    ASSUME WaitInv, NEW p, NEW t, NEW A, Step(p, t, A), WaitProc(p)'
    PROVE  WaitInv'
  <1> SUFFICES ASSUME NEW q \in Daemons, q # p PROVE WaitProc(q)'
    BY Zenon DEF WaitInv
  <1>1. WaitProc(q) /\ proc'[q] = proc[q]
    BY Zenon DEF WaitInv, Step
  <1>2. /\ \A op : Awaits(q, op) => Awaits(q, op)'
        /\ \A ops, b : AwaitsBlock(q, ops, b) => AwaitsBlock(q, ops, b)'
    BY Zenon, AwaitsStep
  <1>3. /\ proc'[q].phase = "reading" => Awaits(q, "getmd")'
        /\ proc'[q].phase = "claiming" => Awaits(q, "icas")'
    BY Zenon, <1>1, <1>2 DEF WaitProc
  <1>4. ASSUME proc'[q].phase \in Working
        PROVE  /\ proc'[q].write_inprogress => Awaits(q, "icas")'
               /\ \A b \in proc'[q].ip : AwaitsBlock(q, {"delete"}, b)'
               /\ \A g \in proc'[q].gets : AwaitsBlock(q, Reads, g.blk)'
    <2>1. proc[q].phase \in Working
      BY Zenon, <1>1, <1>4
    <2> QED
      BY Zenon, <1>1, <1>2, <2>1 DEF WaitProc
  <1> QED
    BY Zenon, <1>3, <1>4 DEF WaitProc

\* A process at work waits only for requests that are under way.
LEMMA WaitWorking ==
    ASSUME WaitInv, NEW p, NEW t, NEW A, Step(p, t, A), t.phase \in Working,
           proc[p].phase \in Working,
           t.write_inprogress => \/ proc[p].write_inprogress /\ \A a \in A : a.op # "icas"
                                 \/ \E o \in t.out : o[1] = "icas",
           \A b \in t.ip : \/ b \in proc[p].ip /\ \A a \in A : a.op = "delete" => a.arg # <<b>>
                           \/ <<"delete", <<b>>>> \in t.out,
           \A g \in t.gets :
               \/ g \in proc[p].gets /\ \A a \in A : a.op \in Reads => a.arg # <<g.blk>>
               \/ \E op \in Reads : <<op, <<g.blk>>>> \in t.out
    PROVE  WaitInv'
  <1>1. /\ p \in Daemons /\ proc'[p].phase = t.phase /\ proc'[p].ip = t.ip
        /\ proc'[p].gets = t.gets /\ proc'[p].write_inprogress = t.write_inprogress
    BY Zenon DEF Step, Settled
  <1>2. WaitProc(p)
    BY Zenon, <1>1 DEF WaitInv
  <1>3. t.write_inprogress => Awaits(p, "icas")'
    BY Zenon, <1>2, AwaitsStep DEF WaitProc
  <1>4. \A b \in t.ip : AwaitsBlock(p, {"delete"}, b)'
    <2> TAKE b \in t.ip
    <2>1. CASE <<"delete", <<b>>>> \in t.out
      <3>1. "delete" \in {"delete"}
        OBVIOUS
      <3> QED
        BY Zenon, <2>1, <3>1, AwaitsStep
    <2>2. CASE b \in proc[p].ip /\ \A a \in A : a.op = "delete" => a.arg # <<b>>
      <3>1. AwaitsBlock(p, {"delete"}, b)
        BY Zenon, <1>2, <2>2 DEF WaitProc
      <3>2. \A a \in A : a.op \in {"delete"} => a.arg # <<b>>
        BY Zenon, <2>2
      <3> QED
        BY Zenon, <3>1, <3>2, AwaitsStep
    <2> QED
      BY Zenon, <2>1, <2>2
  <1>5. \A g \in t.gets : AwaitsBlock(p, Reads, g.blk)'
    <2> TAKE g \in t.gets
    <2>1. CASE \E op \in Reads : <<op, <<g.blk>>>> \in t.out
      BY Zenon, <2>1, AwaitsStep
    <2>2. CASE g \in proc[p].gets /\ \A a \in A : a.op \in Reads => a.arg # <<g.blk>>
      <3>1. AwaitsBlock(p, Reads, g.blk)
        BY Zenon, <1>2, <2>2 DEF WaitProc
      <3> QED
        BY Zenon, <2>2, <3>1, AwaitsStep
    <2> QED
      BY Zenon, <2>1, <2>2
  <1>6. t.phase # "reading" /\ t.phase # "claiming"
    BY DEF Working
  <1>7. WaitProc(p)'
    BY Zenon, <1>1, <1>3, <1>4, <1>5, <1>6 DEF WaitProc
  <1> QED
    BY Zenon, <1>7, WaitStep

\* What a handler must show of its own process.
LEMMA OneStep ==
    ASSUME Types, NEW p, NEW t, NEW A, Step(p, t, A), Local(t), AtRest(t),
           t.phase \in Working, t.conn # "none" => t.phase = "running",
           t.nextblk <= run.maxblk, t.N <= freed', t.N <= run.maxblk
    PROVE  OneProc(proc[p])'
  <1>1. Settled(t, proc'[p]) /\ t \in Handling
    BY Zenon DEF Step
  <1>2. Local(proc'[p]) /\ AtRest(proc'[p])
    BY Zenon, <1>1, SettledLocal
  <1>3. Limits(proc'[p]) /\ proc'[p].append.nblks_left <= MaxAppend
    <2>1. Limits(proc'[p]) /\ proc'[p].append.nblks_left <= proc'[p].append.nblks
          /\ proc'[p].append.nblks <= MaxAppend
      BY Zenon, <1>2 DEF Local, Core, Deleting, Appending
    <2>2. proc'[p].append.nblks_left \in Nat /\ proc'[p].append.nblks \in Nat
      BY <1>1 DEF Handling, ProcWith, Settled
    <2> QED
      BY <2>1, <2>2, LbsDynamodbAssumption
  <1>4. proc'[p].ip \subseteq Blocks'
    <2>1. /\ t.ip \subseteq Nat /\ t.N \in Nat /\ run'.maxblk \in Nat
          /\ run'.maxblk = run.maxblk
      BY <1>1 DEF Step, Handling, ProcWith, Run
    <2>2. \A b \in t.ip : b < t.N
      BY Zenon DEF Local, Core, Deleting
    <2>3. \A b \in t.ip : b \in 0 .. run'.maxblk - 1
      BY <2>1, <2>2
    <2> QED
      BY Zenon, <1>1, <2>3 DEF Settled, Blocks
  <1>5. /\ proc'[p].phase = t.phase /\ proc'[p].conn = t.conn
        /\ proc'[p].nextblk = t.nextblk /\ proc'[p].N = t.N /\ run'.maxblk = run.maxblk
    BY Zenon, <1>1 DEF Settled, Step
  <1>6. t.phase \notin {"off", "reading", "claiming"}
    BY DEF Working
  <1> QED
    BY Zenon, <1>2, <1>3, <1>4, <1>5, <1>6 DEF OneProc

\* No handler changes the metadata item: the table does.  It PUTs only new blocks.
LEMMA StepOnward ==
    ASSUME NEW p, NEW t, NEW A, Step(p, t, A),
           \A o \in t.out : o[1] = "put" => o[2][1] \notin written
    PROVE  Onward
  <1>1. md' = md
    BY Zenon DEF Step
  <1>2. ASSUME NEW m \in net' \ net, m.op = "put" PROVE m.arg[1] \notin written
    <2>1. PICK o \in t.out : m = Request(p, o[1], o[2])
      BY Zenon DEF Step
    <2>2. m.op = o[1] /\ m.arg = o[2]
      BY <2>1 DEF Request
    <2> QED
      BY Zenon, <1>2, <2>2
  <1> QED
    BY Zenon, <1>1, <1>2 DEF Onward

\* A handler that takes no answer about the metadata and makes no PUT keeps the
\* invariant.
LEMMA QuietStep ==
    ASSUME DynInv, NEW p, NEW t, NEW A, Step(p, t, A), Quiet(p, t, A), AtRest(t),
           t.conn # "none" => t.phase = "running",
           t.nextblk <= run.maxblk, t.N <= freed', t.N <= run.maxblk, DoneBelow(t)',
           acked' = acked, denied' \subseteq Nat,
           \A o \in t.out : o[1] # "put" /\ Unasked(p, A, o),
           \A o, r \in t.out : SameKind(o[1], o[2], r[1], r[2]) => o = r,
           \A m \in net : m.p = p /\ m.op = "delete" /\ m.live => m.arg[1] \in t.ip,
           \A a \in ans \ A : a.p = p /\ a.op = "delete" => a.arg[1] \in t.ip,
           \/ t.nextblk = proc[p].nextblk /\ t.append.old = proc[p].append.old
           \/ ~(proc[p].write_inprogress /\ proc[p].storing.cb = "nextblk"),
           PutInv', GetInv', WaitInv'
    PROVE  GoodStep
  <1>1. /\ Types /\ ProcInv /\ Alone /\ IcasInv /\ ReadInv /\ OwnerInv /\ DeleteInv
        /\ AckedInv /\ WrittenInv
    BY Zenon DEF DynInv
  <1>2. t.phase \in Working /\ Local(t)
    BY Zenon DEF Quiet
  <1>3. acked' \subseteq Blocks /\ \A o \in t.out : o[1] = "put" => o[2][1] \in Blocks
    BY Zenon, <1>1 DEF Types
  <1>4. Types'
    BY Zenon, <1>1, <1>3, TypesStep
  <1>5. ProcInv'
    <2>1. OneProc(proc[p])'
      BY Zenon, <1>1, <1>2, OneStep
    <2> QED
      BY Zenon, <1>1, <2>1, ProcStep
  <1>6. Alone'
    <2>1. \A o \in t.out : Unasked(p, A, o)
      BY Zenon
    <2> QED
      BY Zenon, <1>1, <2>1, AloneStep
  <1>7. IcasInv'
    BY <1>1, IcasQuiet
  <1>8. ReadInv' /\ OwnerInv'
    BY Zenon, <1>1, ReadQuiet, OwnerQuiet
  <1>9. DeleteInv'
    BY <1>1, <1>2, DeleteStep
  <1>10. AckedInv'
    BY Zenon, <1>1, AckedQuiet
  <1>11. WrittenInv'
    BY Zenon, <1>1, WrittenQuiet
  <1>12. DynInv'
    BY Zenon, <1>4, <1>5, <1>6, <1>7, <1>8, <1>9, <1>10, <1>11 DEF DynInv
  <1>13. Onward
    BY Zenon, StepOnward
  <1> QED
    BY Zenon, <1>12, <1>13 DEF GoodStep

\* A handler of p begins, from the state s0 that the answer or the request makes
\* of the process.
Begun(p, s0, A) ==
    LET s == proc[p] IN
    /\ s0 \in Handling /\ s.phase \in Working /\ s0.phase \in Working
    /\ s0.pid = s.pid /\ s0.stored = s.stored /\ s0.storing = s.storing
    /\ s0.write_inprogress = s.write_inprogress /\ s0.gets = s.gets /\ s0.M = s.M
    /\ s0.out = {} /\ s0.ip \subseteq s.ip
    /\ \A b \in s.ip \ s0.ip : b \in deleted /\ b < freed
    /\ \A m \in net : m.p = p /\ m.op = "delete" /\ m.live => m.arg[1] \in s0.ip
    /\ \A a \in ans \ A : a.p = p /\ a.op = "delete" => a.arg[1] \in s0.ip
    /\ \A a \in A : a.op \in {"delete", "put"} /\ (a.op = "delete" => a.arg[1] \notin s0.ip)

\* A handler that ends in poke or writemetadata takes no answer about the
\* metadata.
LEMMA BegunQuiet ==
    ASSUME Types, NEW p, NEW s0, NEW t, NEW A, Step(p, t, A), Begun(p, s0, A), Poked(s0, t)
    PROVE  Quiet(p, t, A) /\ t.gets = proc[p].gets
  <1>1. /\ s0.out = {} /\ s0.phase \in Working /\ proc[p].phase \in Working
        /\ s0.pid = proc[p].pid /\ s0.stored = proc[p].stored
        /\ s0.storing = proc[p].storing
        /\ s0.write_inprogress = proc[p].write_inprogress /\ s0.gets = proc[p].gets
    BY Zenon DEF Begun
  <1>2. /\ t.phase = s0.phase /\ t.pid = s0.pid /\ t.stored = s0.stored /\ t.gets = s0.gets
        /\ \/ t.write_inprogress = s0.write_inprogress /\ t.storing = s0.storing
           \/ ~s0.write_inprogress /\ t.write_inprogress
    BY Zenon DEF Poked, Kept
  <1>3. Local(t) /\ t \in Handling
    BY Zenon DEF Poked
  <1>4. \A a \in A : a.op \notin {"icas", "getmd"}
    BY DEF Begun
  <1>5. ASSUME NEW o \in t.out, o[1] = "icas" PROVE ~s0.write_inprogress /\ t.write_inprogress
    <2>1. (o[1] = "icas" /\ ~s0.write_inprogress) \/ \E b \in t.ip \ s0.ip : o = <<"delete", <<b>>>>
      BY Zenon, <1>1 DEF Poked, Asks
    <2>2. t.write_inprogress
      BY Zenon, <1>3, <1>5 DEF Local, Core, Asking
    <2> QED
      BY <1>5, <2>1, <2>2
  <1> QED
    BY Zenon, <1>1, <1>2, <1>3, <1>4, <1>5 DEF Quiet

\* What such a handler asks for is not under way already.
LEMMA BegunAsks ==
    ASSUME DynInv, NEW p, NEW s0, NEW t, NEW A, Step(p, t, A), Begun(p, s0, A), Poked(s0, t)
    PROVE  /\ \A o \in t.out : \/ o[1] = "icas"
                               \/ o[1] = "delete" /\ o[2] = <<o[2][1]>>
           /\ \A o \in t.out : Unasked(p, A, o)
           /\ \A o, r \in t.out : SameKind(o[1], o[2], r[1], r[2]) => o = r
  <1>1. Types /\ ProcInv /\ IcasInv /\ ReadInv /\ DeleteInv /\ p \in Daemons
    BY Zenon DEF DynInv, Step
  <1>2. /\ s0.out = {} /\ proc[p].phase \in Working /\ s0.M = proc[p].M
        /\ s0.write_inprogress = proc[p].write_inprogress
    BY Zenon DEF Begun
  <1>3. \A o \in t.out : \/ o[1] = "icas" /\ ~s0.write_inprogress
                         \/ \E b \in t.ip \ s0.ip : o = <<"delete", <<b>>>>
    BY Zenon, <1>2 DEF Poked, Asks
  <1>4. \A b \in t.ip \ s0.ip : b >= proc[p].M
    BY Zenon, <1>2 DEF Poked, Asks
  <1>5. \A b \in proc[p].ip : b < proc[p].M /\ b \in Nat
    <2>1. Local(proc[p]) /\ proc[p] \in ProcWith({{}})
      BY Zenon, <1>1, <1>2 DEF ProcInv, OneProc, Types
    <2>2. proc[p].ip \subseteq Nat
      BY <2>1 DEF ProcWith
    <2> QED
      BY Zenon, <2>1, <2>2 DEF Local, Core, Deleting
  <1>6. proc[p].M \in Nat /\ t.ip \subseteq Nat
    BY <1>1 DEF Types, ProcWith, Step, Handling
  <1>7. \A o \in t.out : \/ o[1] = "icas"
                         \/ o[1] = "delete" /\ o[2] = <<o[2][1]>>
    BY <1>3
  <1>8. ASSUME NEW o \in t.out, o[1] = "icas", o[1] = "icas" /\ ~s0.write_inprogress
        PROVE  Unasked(p, A, o)
    <2>1. proc[p].phase # "reading" /\ proc[p].phase # "claiming"
      BY <1>2 DEF Working
    <2>2. \A m \in net : m.p = p /\ m.live => m.op # "icas" /\ m.op # "getmd"
      BY Zenon, <1>1, <1>2, <1>8, <2>1 DEF IcasInv, IcasMsg, Asked, ReadInv
    <2>3. \A a \in ans : a.p = p => a.op # "icas" /\ a.op # "getmd"
      BY Zenon, <1>1, <1>2, <1>8, <2>1 DEF IcasInv, IcasAns, Asked, ReadInv
    <2>4. \A op, arg : op # "icas" /\ op # "getmd" => ~SameKind(o[1], o[2], op, arg)
      BY <1>8 DEF SameKind
    <2> QED
      BY Zenon, <2>2, <2>3, <2>4 DEF Unasked
  <1>9. ASSUME NEW o \in t.out, NEW b \in t.ip \ s0.ip, o = <<"delete", <<b>>>>
        PROVE  Unasked(p, A, o)
    <2>1. b \notin proc[p].ip /\ b \in Nat
      BY <1>4, <1>5, <1>6
    <2>2. \A m \in net : m.p = p /\ m.live /\ m.op = "delete" => m.arg[1] # b
      BY Zenon, <1>1, <2>1 DEF DeleteInv
    <2>3. \A a \in ans : a.p = p /\ a.op = "delete" => a.arg[1] # b
      BY Zenon, <1>1, <2>1 DEF DeleteInv
    <2>4. \A op, arg : SameKind(o[1], o[2], op, arg) => op = "delete" /\ arg[1] = b
      BY <1>9 DEF SameKind
    <2>5. ASSUME NEW m \in net, m.p = p, m.live PROVE ~SameKind(o[1], o[2], m.op, m.arg)
      BY <2>2, <2>4, <2>5
    <2>6. ASSUME NEW a \in ans, a.p = p PROVE ~SameKind(o[1], o[2], a.op, a.arg)
      BY <2>3, <2>4, <2>6
    <2> QED
      BY Zenon, <2>5, <2>6 DEF Unasked
  <1>10. \A o \in t.out : Unasked(p, A, o)
    BY Zenon, <1>3, <1>8, <1>9
  <1>11. ASSUME NEW o \in t.out, NEW r \in t.out, SameKind(o[1], o[2], r[1], r[2])
         PROVE  o = r
    <2>1. o = <<o[1], o[2]>> /\ r = <<r[1], r[2]>>
      BY DEF Step, Handling, ProcWith, Outs
    <2>2. CASE o[1] = "icas"
      <3>1. r[1] = "icas"
        BY <1>7, <1>11, <2>2 DEF SameKind
      <3>2. o[2] = r[2]
        BY Zenon, <2>2, <3>1 DEF Poked, Local, Core, Asking
      <3> QED
        BY Zenon, <2>1, <2>2, <3>1, <3>2
    <2>3. CASE o[1] = "delete"
      <3>1. r[1] = "delete" /\ o[2] = r[2]
        BY <1>7, <1>11, <2>3 DEF SameKind
      <3> QED
        BY Zenon, <2>1, <2>3, <3>1
    <2> QED
      BY Zenon, <1>7, <2>2, <2>3
  <1> QED
    BY Zenon, <1>7, <1>10, <1>11

\* Everything below M is still deleted, or its DELETE in progress.
LEMMA BegunDone ==
    ASSUME DynInv, NEW p, NEW s0, NEW t, NEW A, Step(p, t, A), Begun(p, s0, A), Poked(s0, t)
    PROVE  /\ DoneBelow(t)'
           /\ \A m \in net : m.p = p /\ m.op = "delete" /\ m.live => m.arg[1] \in t.ip
           /\ \A a \in ans \ A : a.p = p /\ a.op = "delete" => a.arg[1] \in t.ip
  <1>1. Types /\ DeleteInv /\ p \in Daemons
    BY Zenon DEF DynInv, Step
  <1>2. /\ proc[p].phase \in Working /\ s0.M = proc[p].M /\ s0 \in Handling
        /\ \A b \in proc[p].ip \ s0.ip : b \in deleted /\ b < freed
        /\ \A m \in net : m.p = p /\ m.op = "delete" /\ m.live => m.arg[1] \in s0.ip
        /\ \A a \in ans \ A : a.p = p /\ a.op = "delete" => a.arg[1] \in s0.ip
    BY Zenon DEF Begun
  <1>3. s0.ip \subseteq t.ip /\ \A b \in s0.M .. t.M - 1 : b \in t.ip
    BY Zenon DEF Poked, Asks
  <1>4. DoneBelow(proc[p])
    BY Zenon, <1>1, <1>2 DEF DeleteInv
  <1>5. s0.M \in Nat /\ t.M \in Nat /\ freed \in Nat /\ freed' \in Nat /\ freed' >= freed
        /\ deleted' = deleted
    BY <1>1, <1>2 DEF Step, Handling, ProcWith, Types
  <1>6. \A b \in 0 .. t.M - 1 : b \in t.ip \/ (b \in deleted' /\ b < freed')
    <2> TAKE b \in 0 .. t.M - 1
    <2>1. CASE b \in s0.M .. t.M - 1
      BY Zenon, <1>3, <2>1
    <2>2. CASE b \in 0 .. s0.M - 1
      <3>1. b \in proc[p].ip \/ (b \in deleted /\ b < freed)
        BY Zenon, <1>2, <1>4, <2>2 DEF DoneBelow
      <3>2. b \in s0.ip \/ (b \in deleted /\ b < freed)
        BY Zenon, <1>2, <3>1
      <3>3. b < freed => b < freed'
        BY <1>5
      <3> QED
        BY Zenon, <1>3, <1>5, <3>2, <3>3
    <2> QED
      BY <1>5, <2>1, <2>2
  <1>7. DoneBelow(t)'
    BY Zenon, <1>6 DEF DoneBelow
  <1> QED
    BY Zenon, <1>2, <1>3, <1>7

\* What the process waits for is still under way.
LEMMA BegunWaits ==
    ASSUME DynInv, NEW p, NEW s0, NEW t, NEW A, Step(p, t, A), Begun(p, s0, A), Poked(s0, t)
    PROVE  WaitInv'
  <1>1. Types /\ WaitInv /\ p \in Daemons
    BY Zenon DEF DynInv, Step
  <1>2. /\ proc[p].phase \in Working /\ s0.ip \subseteq proc[p].ip
        /\ s0.write_inprogress = proc[p].write_inprogress
        /\ \A a \in A : a.op \in {"delete", "put"} /\ (a.op = "delete" => a.arg[1] \notin s0.ip)
    BY Zenon DEF Begun
  <1>3. t.phase \in Working /\ t.gets = proc[p].gets
    <2>1. Quiet(p, t, A) /\ t.gets = proc[p].gets
      BY Zenon, <1>1, BegunQuiet
    <2> QED
      BY Zenon, <2>1 DEF Quiet
  <1>4. /\ t.write_inprogress /\ ~s0.write_inprogress => \E o \in t.out : o[1] = "icas"
        /\ \A b \in t.ip \ s0.ip : <<"delete", <<b>>>> \in t.out
    <2>1. /\ t.write_inprogress /\ ~s0.write_inprogress =>
                <<"icas", <<Item(t.stored, t.pid), Item(t.storing, t.pid)>>>> \in t.out
          /\ \A b \in t.ip \ s0.ip : <<"delete", <<b>>>> \in t.out
      BY Zenon DEF Poked, Asks
    <2> QED
      BY <2>1
  <1>5. \A a \in A : a.op # "icas" /\ a.op \notin Reads
    BY <1>2 DEF Reads
  <1>6. t.write_inprogress => \/ proc[p].write_inprogress /\ \A a \in A : a.op # "icas"
                              \/ \E o \in t.out : o[1] = "icas"
    BY Zenon, <1>2, <1>4, <1>5
  <1>7. \A b \in t.ip : \/ b \in proc[p].ip /\ \A a \in A : a.op = "delete" => a.arg # <<b>>
                        \/ <<"delete", <<b>>>> \in t.out
    <2> TAKE b \in t.ip
    <2>1. CASE b \in s0.ip
      <3>1. \A a \in A : a.op = "delete" => a.arg # <<b>>
        BY <1>2, <2>1
      <3> QED
        BY Zenon, <1>2, <2>1, <3>1
    <2> QED
      BY Zenon, <1>4, <2>1
  <1>8. \A g \in t.gets :
           \/ g \in proc[p].gets /\ \A a \in A : a.op \in Reads => a.arg # <<g.blk>>
           \/ \E op \in Reads : <<op, <<g.blk>>>> \in t.out
    BY Zenon, <1>5, <1>3
  <1>9. proc[p].phase \in Working
    BY Zenon, <1>2
  <1> QED
    BY Zenon, <1>1, <1>6, <1>7, <1>8, <1>3, <1>9, WaitWorking

\* A handler that ends in poke or writemetadata keeps the invariant.
LEMMA BegunStep ==
    ASSUME DynInv, NEW p, NEW s0, NEW t, NEW A, Step(p, t, A), Begun(p, s0, A), Poked(s0, t),
           AtRest(t), s0.conn # "none" => s0.phase = "running",
           s0.nextblk <= run.maxblk, s0.N <= freed', s0.N <= run.maxblk,
           acked' = acked, denied' = denied,
           \/ s0.nextblk = proc[p].nextblk /\ s0.append.old = proc[p].append.old
           \/ ~(proc[p].write_inprogress /\ proc[p].storing.cb = "nextblk"),
           PutInv'
    PROVE  GoodStep
  <1>1. Types /\ GetInv /\ denied' \subseteq Nat
    BY Zenon DEF DynInv, Types
  <1>2. Quiet(p, t, A) /\ t.gets = proc[p].gets
    BY Zenon, <1>1, BegunQuiet
  <1>3. /\ t.conn = s0.conn /\ t.phase = s0.phase /\ t.nextblk = s0.nextblk
        /\ t.N = s0.N /\ t.append = s0.append
    BY Zenon DEF Poked, Kept
  <1>4. /\ \A o \in t.out : Unasked(p, A, o)
        /\ \A o, r \in t.out : SameKind(o[1], o[2], r[1], r[2]) => o = r
    BY Zenon, BegunAsks
  <1>5. \A o \in t.out : o[1] # "put" /\ o[1] \notin Reads
    BY BegunAsks DEF Reads
  <1>6. /\ DoneBelow(t)'
        /\ \A m \in net : m.p = p /\ m.op = "delete" /\ m.live => m.arg[1] \in t.ip
        /\ \A a \in ans \ A : a.p = p /\ a.op = "delete" => a.arg[1] \in t.ip
    BY Zenon, BegunDone
  <1>7. WaitInv'
    BY Zenon, BegunWaits
  <1>8. GetInv'
    <2>1. proc[p].phase \in Working /\ t.phase \in Working
      BY Zenon, <1>2 DEF Quiet
    <2> QED
      BY Zenon, <1>1, <1>2, <1>5, <2>1, GetSame
  <1> QED
    BY <1>1, <1>2, <1>3, <1>4, <1>5, <1>6, <1>7, <1>8, QuietStep

\* The state that a process at work is in between two handlers.
LEMMA WorkingFacts ==
    ASSUME DynInv, NEW p \in Daemons, proc[p].phase \in Working
    PROVE  LET s == proc[p] IN
           /\ s \in Handling /\ s.out = {} /\ Local(s) /\ AtRest(s)
           /\ s.conn # "none" => s.phase = "running"
           /\ s.nextblk <= run.maxblk /\ s.N <= freed /\ s.N <= run.maxblk
           /\ DoneBelow(s)
  <1> DEFINE s == proc[p]
  <1>1. s \in ProcWith({{}})
    BY Zenon DEF DynInv, Types
  <1>2. s \in Handling /\ s.out = {}
    BY <1>1 DEF ProcWith, Handling
  <1>3. OneProc(s) /\ DoneBelow(s)
    BY Zenon DEF DynInv, ProcInv, DeleteInv
  <1> HIDE DEF s
  <1>4. s.phase \in Working
    BY Zenon DEF s
  <1>5. /\ s \in Handling /\ s.out = {} /\ Local(s) /\ AtRest(s)
        /\ s.conn # "none" => s.phase = "running"
        /\ s.nextblk <= run.maxblk /\ s.N <= freed /\ s.N <= run.maxblk
        /\ DoneBelow(s)
    BY Zenon, <1>2, <1>3, <1>4 DEF OneProc
  <1> QED
    BY <1>5 DEF s

\* A handler that takes no answer begins.
LEMMA BegunIdle ==
    ASSUME DynInv, NEW p \in Daemons, proc[p].phase \in Working, NEW s0 \in Handling,
           Resumed(proc[p], s0), s0.phase \in Working, s0.ip = proc[p].ip,
           s0.gets = proc[p].gets, s0.out = {}
    PROVE  Begun(p, s0, {})
  <1>1. /\ \A m \in net : m.p = p /\ m.op = "delete" /\ m.live => m.arg[1] \in s0.ip
        /\ \A a \in ans : a.p = p /\ a.op = "delete" => a.arg[1] \in s0.ip
    BY Zenon DEF DynInv, DeleteInv
  <1> QED
    BY Zenon, <1>1 DEF Begun, Resumed

\* What holds of a process whose connection is there.
LEMMA ConnFacts ==
    ASSUME DynInv, NEW p \in Daemons, proc[p].conn # "none"
    PROVE  proc[p].phase = "running" /\ proc[p].phase \in Working
  BY Zenon DEF DynInv, ProcInv, OneProc, Working

\* While the answer a is under way, nothing else is for its block.
LEMMA GetAlone ==
    ASSUME Types, Alone, NEW a \in ans, a.op \in Reads
    PROVE  /\ a.arg = <<a.arg[1]>> /\ a.arg[1] \in Nat
           /\ \A m \in net : m.p = a.p /\ m.live /\ m.op \in Reads => m.arg[1] # a.arg[1]
           /\ \A c \in ans \ {a} : c.p = a.p /\ c.op \in Reads => c.arg[1] # a.arg[1]
           /\ \A op \in Reads : Unasked(a.p, {a}, <<op, a.arg>>)
  <1>1. /\ a.arg = <<a.arg[1]>> /\ a.arg[1] \in Nat
        /\ \A m \in net : m.op \in Reads => m.arg = <<m.arg[1]>>
        /\ \A c \in ans : c.op \in Reads => c.arg = <<c.arg[1]>>
    BY Zenon DEF Types, ArgOK, Reads
  <1>2. \A m \in net : m.live => ~Twins(m, a)
    BY Zenon DEF Alone
  <1>3. \A c \in ans \ {a} : ~Twins(c, a)
    BY Zenon DEF Alone
  <1>4. \A m \in net : m.p = a.p /\ m.live /\ m.op \in Reads => m.arg[1] # a.arg[1]
    BY Zenon, <1>1, <1>2 DEF Twins, SameKind, Reads
  <1>5. \A c \in ans \ {a} : c.p = a.p /\ c.op \in Reads => c.arg[1] # a.arg[1]
    BY Zenon, <1>1, <1>3 DEF Twins, SameKind, Reads
  <1>6. ASSUME NEW op \in Reads PROVE Unasked(a.p, {a}, <<op, a.arg>>)
    <2>1. \A op2, arg : SameKind(op, a.arg, op2, arg) => op2 \in Reads /\ arg = a.arg
      BY <1>6 DEF SameKind, Reads
    <2>2. <<op, a.arg>>[1] = op /\ <<op, a.arg>>[2] = a.arg
      OBVIOUS
    <2> QED
      BY Zenon, <1>4, <1>5, <2>1, <2>2 DEF Unasked
  <1> QED
    BY Zenon, <1>1, <1>4, <1>5, <1>6

\* A handler begins that has nothing to do with the deleter.
LEMMA BegunAppend ==
    ASSUME DynInv, NEW p \in Daemons, proc[p].phase \in Working,
           NEW s0 \in Handling, NEW A, s0.phase = proc[p].phase,
           s0.pid = proc[p].pid, s0.stored = proc[p].stored, s0.storing = proc[p].storing,
           s0.write_inprogress = proc[p].write_inprogress, s0.gets = proc[p].gets,
           s0.M = proc[p].M, s0.ip = proc[p].ip, s0.out = {}, \A a \in A : a.op = "put"
    PROVE  Begun(p, s0, A)
  <1>1. /\ \A m \in net : m.p = p /\ m.op = "delete" /\ m.live => m.arg[1] \in s0.ip
        /\ \A a \in ans : a.p = p /\ a.op = "delete" => a.arg[1] \in s0.ip
    BY Zenon DEF DynInv, DeleteInv
  <1>2. \A a \in A : a.op \in {"delete", "put"} /\ (a.op = "delete" => a.arg[1] \notin s0.ip)
    OBVIOUS
  <1>3. \A b \in proc[p].ip \ s0.ip : b \in deleted /\ b < freed
    BY Zenon
  <1> QED
    BY Zenon, <1>1, <1>2, <1>3 DEF Begun

\* The blocks of p that are not stored yet, with the answers in S.
OwedWith(p, S) ==
    {b \in Blocks : \/ \E m \in net : m.p = p /\ m.op = "put" /\ m.live /\ m.arg[1] = b
                    \/ \E a \in S : a.p = p /\ a.op = "put" /\ a.arg[1] = b}

\* What the process waits for when one of its PUTs has been answered.
LEMMA OwedLess ==
    ASSUME SetFacts, DynInv, NEW p \in Daemons, NEW a \in ans, a.p = p, a.op = "put"
    PROVE  LET left == OwedWith(p, ans \ {a}) IN
           /\ a.arg[1] \in Blocks
           /\ left = Owed(p) \ {a.arg[1]} /\ IsFiniteSet(left)
           /\ Cardinality(left) = Cardinality(Owed(p)) - 1 /\ Cardinality(Owed(p)) \in Nat
           /\ \A m \in net : m.p = p /\ m.op = "put" /\ m.live => m.arg[1] \in left
           /\ \A c \in ans \ {a} : c.p = p /\ c.op = "put" => c.arg[1] \in left
  <1> DEFINE b == a.arg[1]
             left == OwedWith(p, ans \ {a})
  <1>1. Types /\ Alone /\ PutInv
    BY Zenon DEF DynInv
  <1>2. run.maxblk \in Nat /\ Blocks = 0 .. run.maxblk - 1
    BY <1>1 DEF Types, Run, Blocks
  <1>3. /\ Putting(proc[p])
        /\ \A c \in ans : c.p = p /\ c.op = "put" => InRange(proc[p], c.arg[1])
    BY Zenon, <1>1 DEF PutInv
  <1>4. \A c \in ans : c.p = p /\ c.op = "put" => c.arg[1] \in Blocks /\ c.arg = <<c.arg[1]>>
    <2>1. proc[p].phase \in Working
      BY Zenon, <1>3 DEF Putting
    <2>2. proc[p].nextblk <= run.maxblk /\ proc[p] \in Handling
      BY Zenon, <2>1, WorkingFacts
    <2>3. proc[p].nextblk \in Nat
      BY <2>2 DEF Handling, ProcWith
    <2>4. \A c \in ans : c.op = "put" => c.arg[1] \in Nat /\ c.arg = <<c.arg[1]>>
      BY Zenon, <1>1 DEF Types, ArgOK
    <2> QED
      BY <1>2, <1>3, <2>2, <2>3, <2>4 DEF InRange
  <1>5. \A m \in net : m.p = p /\ m.op = "put" /\ m.live =>
           m.arg[1] \in Blocks /\ m.arg = <<m.arg[1]>>
    BY Zenon, <1>1 DEF PutInv, Types, ArgOK
  <1>6. \A m \in net : m.p = p /\ m.op = "put" /\ m.live => m.arg[1] # b
    <2> SUFFICES ASSUME NEW m \in net, m.p = p, m.op = "put", m.live, m.arg[1] = b
                 PROVE  FALSE
      BY Zenon
    <2>1. m.arg = a.arg
      BY Zenon, <1>4, <1>5
    <2>2. Twins(m, a)
      BY Zenon, <2>1 DEF Twins, SameKind
    <2> QED
      BY Zenon, <1>1, <2>2 DEF Alone
  <1>7. \A c \in ans \ {a} : c.p = p /\ c.op = "put" => c.arg[1] # b
    <2> SUFFICES ASSUME NEW c \in ans \ {a}, c.p = p, c.op = "put", c.arg[1] = b
                 PROVE  FALSE
      BY Zenon
    <2>1. c.arg = a.arg
      BY Zenon, <1>4
    <2>2. Twins(c, a)
      BY Zenon, <2>1 DEF Twins, SameKind
    <2> QED
      BY Zenon, <1>1, <2>2 DEF Alone
  <1>8. /\ \A m \in net : m.p = p /\ m.op = "put" /\ m.live => m.arg[1] \in left
        /\ \A c \in ans \ {a} : c.p = p /\ c.op = "put" => c.arg[1] \in left
    BY Zenon, <1>4, <1>5 DEF OwedWith
  <1>9. left = Owed(p) \ {b}
    <2>1. ASSUME NEW c \in left PROVE c \in Owed(p) /\ c # b
      BY Zenon, <1>6, <1>7 DEF OwedWith, Owed
    <2>2. ASSUME NEW c \in Owed(p), c # b PROVE c \in left
      BY Zenon, <2>2 DEF OwedWith, Owed
    <2> HIDE DEF left
    <2> QED
      BY Zenon, <2>1, <2>2
  <1>10. b \in Owed(p)
    BY Zenon, <1>4 DEF Owed
  <1>11. IsFiniteSet(Owed(p))
    <2>1. Owed(p) \in SUBSET Blocks
      BY Zenon DEF Owed
    <2>2. IsFiniteSet(Blocks)
      BY <1>2 DEF SetFacts, IntervalSize
    <2> QED
      BY Zenon, <2>1, <2>2 DEF SetFacts, SubsetSize
  <1>12. IsFiniteSet(left) /\ Cardinality(left) = Cardinality(Owed(p)) - 1
    <2> HIDE DEF left, b
    <2> QED
      BY <1>9, <1>10, <1>11 DEF SetFacts, RemoveSize
  <1>13. Cardinality(Owed(p)) \in Nat
    BY Zenon, <1>11 DEF SetFacts, FiniteSize
  <1> QED
    BY Zenon, <1>4, <1>8, <1>9, <1>12, <1>13

(***************************************************************************)
(* callback_writemetadata                                                  *)
(***************************************************************************)
\* The answer a says that the metadata is stored, and p is in state t then.
Answered(p, t, a) ==
    LET s == proc[p]
        y == Item(s.storing, s.pid)
    IN /\ a \in ans /\ a.p = p /\ a.op = "icas" /\ a.res
       /\ s.phase \in Working /\ s.write_inprogress
       /\ Step(p, t, {a}) /\ Local(t) /\ AtRest(t)
       /\ t.phase = s.phase /\ t.pid = s.pid /\ t.conn = s.conn /\ t.gets = s.gets
       /\ t.nextblk = s.nextblk /\ t.lastblk = s.lastblk /\ t.N = s.N
       /\ t.stored = s.storing /\ Stage(t) = Later(s)
       /\ t.append = IF s.storing.cb = "lastblk" THEN NoAppend ELSE s.append
       /\ s.ip \subseteq t.ip /\ \A b \in s.M .. t.M - 1 : b \in t.ip
       /\ \A b \in t.ip \ s.ip : <<"delete", <<b>>>> \in t.out /\ b >= s.M
       /\ s.storing.cb = "nextblk" => NewPuts(s) \subseteq t.out
       /\ \A o \in t.out :
             \/ o[1] = "icas"
             \/ \E b \in t.ip \ s.ip : o = <<"delete", <<b>>>>
             \/ s.storing.cb = "nextblk" /\ o \in NewPuts(s)
       /\ t.write_inprogress => \E o \in t.out : o[1] = "icas"
       /\ md = y \/ Past(y)
       /\ Upto(y, md) /\ Good(y)

\* What follows from the answer about the metadata.
LEMMA AnsweredOwner ==
    ASSUME DynInv, NEW p, NEW t, NEW a, Answered(p, t, a)
    PROVE  LET s == proc[p] IN
           /\ md.pid = s.pid => md = Item(s.storing, s.pid)
           /\ Past(Item(s.stored, s.pid))
           /\ s.pid > 0 /\ s.stored.lastblk <= s.storing.lastblk
           /\ s.storing.lastblk <= md.lastblk /\ s.storing.nextblk <= md.nextblk
  <1> DEFINE s == proc[p]
             x == Item(s.stored, s.pid)
             y == Item(s.storing, s.pid)
  <1>1. Types /\ OwnerInv /\ p \in Daemons
    BY Zenon DEF DynInv, Answered, Step
  <1>2. s.phase \in Working /\ s.write_inprogress /\ (md = y \/ Past(y)) /\ Upto(y, md)
    BY Zenon DEF Answered
  <1>3. s \in Handling /\ Local(s)
    BY Zenon, <1>1, <1>2, WorkingFacts
  <1>4. s.pid > 0 /\ s.storing.generation = s.stored.generation + 1
        /\ Upto(s.stored, s.storing)
    BY Zenon, <1>2, <1>3 DEF Local, Core, Tuples
  <1>5. md \in ItemRec /\ s.stored \in MTuple /\ s.storing \in MTuple /\ s.pid \in Nat
    BY <1>1, <1>3 DEF Types, Handling, ProcWith
  <1>6. md.pid = s.pid => md = x \/ md = y
    BY Zenon, <1>1, <1>4 DEF OwnerInv
  <1> HIDE DEF s
  <1>7. /\ x.generation = s.stored.generation /\ y.generation = s.storing.generation
        /\ x.pid = s.pid /\ y.pid = s.pid
        /\ y.lastblk = s.storing.lastblk /\ y.nextblk = s.storing.nextblk
    BY DEF Item
  <1> HIDE DEF x, y
  <1>8. md = x => ~(md = y \/ Past(y))
    BY <1>4, <1>5, <1>7 DEF Past, MTuple, ItemRec
  <1>9. Past(x)
    BY <1>2, <1>4, <1>5, <1>7 DEF Past, MTuple, ItemRec
  <1>10. /\ s.stored.lastblk <= s.storing.lastblk
         /\ s.storing.lastblk <= md.lastblk /\ s.storing.nextblk <= md.nextblk
    BY Zenon, <1>2, <1>4, <1>7 DEF Upto
  <1>11. md.pid = s.pid => md = y
    BY Zenon, <1>2, <1>6, <1>8
  <1> QED
    BY Zenon, <1>4, <1>9, <1>10, <1>11 DEF s, x, y

\* Nothing else about the metadata is under way for the process.
LEMMA AnsweredSingle ==
    ASSUME DynInv, NEW p, NEW t, NEW a, Answered(p, t, a)
    PROVE  /\ \A m \in net : m.p = p /\ m.live => m.op # "icas" /\ m.op # "getmd"
           /\ \A c \in ans \ {a} : c.p = p => c.op # "icas" /\ c.op # "getmd"
  <1>1. Alone /\ a \in ans /\ a.p = p /\ a.op = "icas"
    BY Zenon DEF DynInv, Answered
  <1>2. \A m \in net : m.live => ~Twins(m, a)
    BY Zenon, <1>1 DEF Alone
  <1>3. \A c \in ans \ {a} : ~Twins(c, a)
    BY Zenon, <1>1 DEF Alone
  <1>4. \A m : m.p = p /\ m.op \in {"icas", "getmd"} => Twins(m, a)
    BY Zenon, <1>1 DEF Twins, SameKind
  <1> QED
    BY Zenon, <1>2, <1>3, <1>4

\* When the callback of the APPEND comes none of its PUTs is under way.
LEMMA AnsweredPuts ==
    ASSUME DynInv, NEW p, NEW t, NEW a, Answered(p, t, a), proc[p].storing.cb # NoCallback
    PROVE  LET s == proc[p] IN
           /\ Later(s) = NoCallback /\ Stage(s) = s.storing.cb /\ Stage(t) = NoCallback
           /\ s.append.nblks > 0 /\ s.append.old + s.append.nblks = s.nextblk
           /\ s.storing.cb = "nextblk" => s.append.nblks_left = s.append.nblks
           /\ s.storing.cb = "lastblk" => s.storing.lastblk = s.lastblk
           /\ \A m \in net : m.p = p /\ m.op = "put" => ~m.live
           /\ \A c \in ans : c.p = p => c.op # "put"
  <1> DEFINE s == proc[p]
  <1>1. PutInv /\ p \in Daemons
    BY Zenon DEF DynInv, Answered, Step
  <1>2. s.phase \in Working /\ s.write_inprogress /\ Stage(t) = Later(s)
    BY Zenon DEF Answered
  <1>3. s \in Handling /\ Local(s)
    BY Zenon, <1>1, <1>2, WorkingFacts
  <1>4. Appending(s)
    BY Zenon, <1>3 DEF Local, Core
  <1>5. Now(s) = s.storing.cb
    BY Zenon, <1>2 DEF Now
  <1>6. Later(s) = NoCallback /\ Stage(s) = s.storing.cb
    BY Zenon, <1>4, <1>5 DEF Appending, Stage
  <1>7. s.append.nblks > 0
    <2>1. s.append.nblks \in Nat
      BY <1>3 DEF Handling, ProcWith
    <2>2. s.append.nblks # 0
      BY Zenon, <1>4, <1>6 DEF Appending
    <2> QED
      BY <2>1, <2>2
  <1>8. ~Putting(s)
    BY Zenon, <1>6 DEF Putting
  <1>9. /\ \A m \in net : m.p = p /\ m.op = "put" => ~m.live
        /\ \A c \in ans : c.p = p => c.op # "put"
    BY Zenon, <1>1, <1>8 DEF PutInv
  <1>10. /\ s.append.old + s.append.nblks = s.nextblk
         /\ s.storing.cb = "nextblk" => s.append.nblks_left = s.append.nblks
         /\ s.storing.cb = "lastblk" => s.storing.lastblk = s.lastblk
    BY Zenon, <1>4, <1>5, <1>6, <1>7 DEF Appending
  <1> QED
    BY Zenon, <1>2, <1>6, <1>7, <1>9, <1>10

\* What callback_writemetadata asks for is not under way already.
LEMMA AnsweredAsks ==
    ASSUME DynInv, NEW p, NEW t, NEW a, Answered(p, t, a)
    PROVE  /\ \A o \in t.out : Unasked(p, {a}, o)
           /\ \A o, r \in t.out : SameKind(o[1], o[2], r[1], r[2]) => o = r
           /\ \A o \in t.out : o[1] = "put" => o \in NewPuts(proc[p])
           /\ \A o \in t.out : o[1] \notin Reads
  <1> DEFINE s == proc[p]
             A == {a}
  <1>1. DeleteInv /\ Types /\ p \in Daemons
    BY Zenon DEF DynInv, Answered, Step
  <1>2. \A o \in t.out :
             \/ o[1] = "icas"
             \/ \E b \in t.ip \ s.ip : o = <<"delete", <<b>>>>
             \/ s.storing.cb = "nextblk" /\ o \in NewPuts(s)
    BY Zenon DEF Answered
  <1>3. \A b \in t.ip \ s.ip : b >= s.M
    BY Zenon DEF Answered
  <1>4. s.phase \in Working /\ t \in Handling /\ Local(t)
    BY Zenon DEF Answered, Step
  <1>5. s \in Handling /\ Local(s)
    BY Zenon, <1>1, <1>4, WorkingFacts
  <1>6. /\ \A b \in s.ip : b < s.M
        /\ s.ip \subseteq Nat /\ t.ip \subseteq Nat /\ s.M \in Nat
    <2>1. \A b \in s.ip : b < s.M
      BY Zenon, <1>5 DEF Local, Core, Deleting
    <2> QED
      BY <1>4, <1>5, <2>1 DEF Handling, ProcWith
  <1>7. ASSUME NEW o \in NewPuts(s) PROVE o[1] = "put" /\ \E b : o[2] = <<b>>
    <2>1. PICK b \in s.append.old .. s.append.old + s.append.nblks - 1 : o = <<"put", <<b>>>>
      BY Zenon, <1>7 DEF NewPuts
    <2> QED
      BY <2>1
  <1>8. ASSUME NEW o \in t.out, o[1] = "icas" PROVE Unasked(p, A, o)
    <2>1. /\ \A m \in net : m.p = p /\ m.live => m.op # "icas" /\ m.op # "getmd"
          /\ \A c \in ans \ A : c.p = p => c.op # "icas" /\ c.op # "getmd"
      BY Zenon, AnsweredSingle
    <2>2. \A op, arg : op # "icas" /\ op # "getmd" => ~SameKind(o[1], o[2], op, arg)
      BY <1>8 DEF SameKind
    <2> QED
      BY Zenon, <2>1, <2>2 DEF Unasked
  <1>9. ASSUME NEW o \in t.out, NEW b \in t.ip \ s.ip, o = <<"delete", <<b>>>>
        PROVE  Unasked(p, A, o)
    <2>1. b \notin s.ip
      BY <1>3, <1>6
    <2>2. \A m \in net : m.p = p /\ m.live /\ m.op = "delete" => m.arg[1] # b
      BY Zenon, <1>1, <2>1 DEF DeleteInv
    <2>3. \A c \in ans : c.p = p /\ c.op = "delete" => c.arg[1] # b
      BY Zenon, <1>1, <2>1 DEF DeleteInv
    <2>4. \A op, arg : SameKind(o[1], o[2], op, arg) => op = "delete" /\ arg[1] = b
      BY <1>9 DEF SameKind
    <2>5. ASSUME NEW m \in net, m.p = p, m.live PROVE ~SameKind(o[1], o[2], m.op, m.arg)
      BY <2>2, <2>4, <2>5
    <2>6. ASSUME NEW c \in ans, c.p = p PROVE ~SameKind(o[1], o[2], c.op, c.arg)
      BY <2>3, <2>4, <2>6
    <2> QED
      BY Zenon, <2>5, <2>6 DEF Unasked
  <1>10. ASSUME NEW o \in t.out, s.storing.cb = "nextblk", o[1] = "put" PROVE Unasked(p, A, o)
    <2>1. s.storing.cb # NoCallback
      BY <1>10 DEF NoCallback
    <2>2. /\ \A m \in net : m.p = p /\ m.live => m.op # "put"
          /\ \A c \in ans : c.p = p => c.op # "put"
      BY Zenon, <2>1, AnsweredPuts
    <2>3. \A op, arg : op # "put" => ~SameKind(o[1], o[2], op, arg)
      BY <1>10 DEF SameKind
    <2> QED
      BY Zenon, <2>2, <2>3 DEF Unasked
  <1>11. \A o \in t.out : Unasked(p, A, o)
    BY Zenon, <1>2, <1>7, <1>8, <1>9, <1>10
  <1>12. \A o \in t.out : o[1] \in {"icas", "put", "delete"} /\ o = <<o[1], o[2]>>
                          /\ (o[1] = "put" => o \in NewPuts(s))
    <2> TAKE o \in t.out
    <2>1. o = <<o[1], o[2]>>
      BY <1>4 DEF Handling, ProcWith, Outs
    <2>2. CASE o[1] = "icas"
      BY <2>1, <2>2
    <2>3. CASE \E b \in t.ip \ s.ip : o = <<"delete", <<b>>>>
      BY <2>1, <2>3
    <2>4. CASE o \in NewPuts(s)
      BY Zenon, <1>7, <2>1, <2>4
    <2> QED
      BY Zenon, <1>2, <2>2, <2>3, <2>4
  <1>13. ASSUME NEW o \in t.out, NEW r \in t.out, SameKind(o[1], o[2], r[1], r[2])
         PROVE  o = r
    <2>1. CASE o[1] = "icas"
      <3>1. r[1] = "icas"
        BY <1>12, <1>13, <2>1 DEF SameKind
      <3>2. o[2] = r[2]
        BY Zenon, <1>4, <2>1, <3>1 DEF Local, Core, Asking
      <3> QED
        BY Zenon, <1>12, <2>1, <3>1, <3>2
    <2>2. CASE o[1] # "icas"
      <3>1. r[1] = o[1] /\ r[2] = o[2]
        BY <1>12, <1>13, <2>2 DEF SameKind
      <3> QED
        BY Zenon, <1>12, <3>1
    <2> QED
      BY Zenon, <2>1, <2>2
  <1>14. \A o \in t.out : o[1] \notin Reads
    BY <1>12 DEF Reads
  <1> QED
    BY Zenon, <1>11, <1>12, <1>13, <1>14

\* callback_writemetadata deletes and records what it may.
LEMMA AnsweredDone ==
    ASSUME DynInv, NEW p, NEW t, NEW a, Answered(p, t, a)
    PROVE  DoneBelow(t)' /\ DeleteInv'
  <1> DEFINE s == proc[p]
             A == {a}
  <1>1. Types /\ DeleteInv /\ p \in Daemons /\ Step(p, t, A)
    BY Zenon DEF DynInv, Answered, Step
  <1>2. /\ s.phase \in Working /\ t.phase \in Working /\ Local(t) /\ t.N = s.N
        /\ s.ip \subseteq t.ip /\ \A b \in s.M .. t.M - 1 : b \in t.ip
    BY Zenon DEF Answered
  <1>3. s \in Handling /\ s.N <= freed /\ DoneBelow(s)
    BY Zenon, <1>1, <1>2, WorkingFacts
  <1>4. /\ s.M \in Nat /\ t.M \in Nat /\ s.N \in Nat
        /\ freed \in Nat /\ freed' \in Nat /\ freed' >= freed /\ deleted' = deleted
    BY <1>1, <1>3 DEF Step, Handling, ProcWith, Types
  <1>5. \A b \in 0 .. t.M - 1 : b \in t.ip \/ (b \in deleted' /\ b < freed')
    <2> TAKE b \in 0 .. t.M - 1
    <2>1. CASE b \in s.M .. t.M - 1
      BY Zenon, <1>2, <2>1
    <2>2. CASE b \in 0 .. s.M - 1
      <3>1. b \in s.ip \/ (b \in deleted /\ b < freed)
        BY Zenon, <1>3, <2>2 DEF DoneBelow
      <3>2. b < freed => b < freed'
        BY <1>4
      <3> QED
        BY Zenon, <1>2, <1>4, <3>1, <3>2
    <2> QED
      BY <1>4, <2>1, <2>2
  <1>6. DoneBelow(t)'
    BY Zenon, <1>5 DEF DoneBelow
  <1>7. t.N <= freed'
    BY <1>2, <1>3, <1>4
  <1>8. /\ \A m \in net : m.p = p /\ m.op = "delete" /\ m.live => m.arg[1] \in t.ip
        /\ \A c \in ans \ A : c.p = p /\ c.op = "delete" => c.arg[1] \in t.ip
    BY Zenon, <1>1, <1>2 DEF DeleteInv
  <1> HIDE DEF A
  <1>9. DeleteInv'
    BY <1>1, <1>2, <1>6, <1>7, <1>8, DeleteStep
  <1> QED
    BY Zenon, <1>6, <1>9

\* The next compare-and-swap that it sends is right.
LEMMA AnsweredIcas ==
    ASSUME DynInv, NEW p, NEW t, NEW a, Answered(p, t, a)
    PROVE  IcasInv'
  <1> DEFINE A == {a}
  <1>1. Types /\ OwnerInv /\ IcasInv /\ p \in Daemons /\ Step(p, t, A)
    BY Zenon DEF DynInv, Answered, Step
  <1>2. /\ t.phase \in Working /\ Local(t) /\ t.pid = proc[p].pid
        /\ proc[p].phase \in Working /\ proc[p].write_inprogress
        /\ t.nextblk = proc[p].nextblk
    BY Zenon DEF Answered
  <1>3. t.nextblk <= run.maxblk
    BY Zenon, <1>1, <1>2, WorkingFacts
  <1>4. DoneBelow(t)'
    BY Zenon, AnsweredDone
  <1>5. /\ \A m \in net : m.p = p /\ m.live => m.op # "icas"
        /\ \A c \in ans \ A : c.p = p => c.op # "icas"
    BY Zenon, AnsweredSingle
  <1>6. Past(Item(proc[p].stored, proc[p].pid))
    BY Zenon, AnsweredOwner
  <1> HIDE DEF A
  <1>7. \A q \in Daemons \ {p} : proc'[q] = proc[q]
    BY Zenon, <1>1 DEF Step
  <1>8. \A q \in Daemons : proc'[q].pid = proc[q].pid
    BY Zenon, <1>1, <1>2, <1>7 DEF Step, Settled
  <1>9. \A q \in Daemons \ {p} : SameOwner(proc[q], proc'[q])
    BY Zenon, <1>7 DEF SameOwner
  <1>10. ASSUME NEW m \in net', m.op = "icas" PROVE IcasMsg(m)'
    <2>1. CASE m \notin net
      BY Zenon, <1>1, <1>2, <1>3, <1>4, <1>10, <2>1, IcasNew
    <2>2. CASE m \in net
      <3>1. IcasMsg(m) /\ m.p \in Daemons
        BY Zenon, <1>1, <1>10, <2>2 DEF IcasInv, Types
      <3>2. CASE m.p # p
        BY Zenon, <1>1, <1>8, <1>9, <1>10, <2>2, <3>1, <3>2, IcasKept
      <3>3. CASE m.p = p
        <4>1. ~m.live
          BY Zenon, <1>5, <1>10, <2>2, <3>3
        <4>2. Past(m.arg[1]) \/ m.arg[2].pid < proc[m.p].pid
          BY Zenon, <1>2, <1>6, <3>1, <3>3 DEF IcasMsg, Current
        <4> QED
          BY Zenon, <1>1, <1>8, <1>10, <2>2, <3>1, <4>1, <4>2, IcasKept
      <3> QED
        BY <3>2, <3>3
    <2> QED
      BY <2>1, <2>2
  <1>11. ASSUME NEW c \in ans', c.op = "icas" PROVE IcasAns(c)'
    <2>1. c \in ans \ A
      BY Zenon, <1>1 DEF Step
    <2>2. IcasAns(c) /\ c.p \in Daemons /\ c.p # p
      BY Zenon, <1>1, <1>5, <1>11, <2>1 DEF IcasInv, Types
    <2>3. SameOwner(proc[c.p], proc'[c.p])
      BY Zenon, <1>9, <2>2
    <2> QED
      BY Zenon, <1>1, <1>11, <2>1, <2>2, <2>3, IcasAnsKept
  <1> QED
    BY Zenon, <1>10, <1>11 DEF IcasInv

\* It reads no metadata.
LEMMA AnsweredRead ==
    ASSUME DynInv, NEW p, NEW t, NEW a, Answered(p, t, a)
    PROVE  ReadInv'
  <1> DEFINE A == {a}
  <1>1. Types /\ ReadInv /\ p \in Daemons /\ Step(p, t, A)
    BY Zenon DEF DynInv, Answered, Step
  <1>2. Local(t) /\ proc[p].phase \in Working
    BY Zenon DEF Answered
  <1>3. proc[p].phase # "reading"
    BY <1>2 DEF Working
  <1> HIDE DEF A
  <1>4. ASSUME NEW m \in net', m.op = "getmd", m.live PROVE proc'[m.p].phase = "reading"
    <2>1. CASE m \in net
      <3>1. proc[m.p].phase = "reading" /\ m.p \in Daemons
        BY Zenon, <1>1, <1>4, <2>1 DEF ReadInv, Types
      <3> QED
        BY Zenon, <1>1, <1>3, <3>1 DEF Step
    <2>2. CASE m \notin net
      <3>1. PICK o \in t.out : m = Request(p, o[1], o[2])
        BY Zenon, <1>1, <2>2 DEF Step
      <3>2. o[1] # "getmd"
        BY <1>2 DEF Local, Core, Asking
      <3> QED
        BY <1>4, <3>1, <3>2 DEF Request
    <2> QED
      BY <2>1, <2>2
  <1>5. ASSUME NEW c \in ans', c.op = "getmd"
        PROVE  proc'[c.p].phase = "reading" /\ c.res \in ItemRec /\ Good(c.res)'
    <2>1. c \in ans
      BY Zenon, <1>1 DEF Step
    <2>2. proc[c.p].phase = "reading" /\ c.res \in ItemRec /\ Good(c.res) /\ c.p \in Daemons
      BY Zenon, <1>1, <1>5, <2>1 DEF ReadInv, Types
    <2>3. Good(c.res)'
      BY Zenon, <1>1, <2>2, StepStable
    <2> QED
      BY Zenon, <1>1, <1>3, <2>2, <2>3 DEF Step
  <1> QED
    BY Zenon, <1>4, <1>5 DEF ReadInv

\* If nobody took over, the item is the tuple that is now stored.
LEMMA AnsweredOwnerInv ==
    ASSUME DynInv, NEW p, NEW t, NEW a, Answered(p, t, a)
    PROVE  OwnerInv'
  <1> DEFINE A == {a}
  <1>1. Types /\ OwnerInv /\ p \in Daemons /\ Step(p, t, A)
    BY Zenon DEF DynInv, Answered, Step
  <1>2. t.pid = proc[p].pid /\ t.stored = proc[p].storing
    BY Zenon DEF Answered
  <1>3. md.pid = proc[p].pid => md = Item(proc[p].storing, proc[p].pid)
    BY Zenon, AnsweredOwner
  <1> HIDE DEF A
  <1>4. /\ md' = md /\ proc'[p].pid = proc[p].pid /\ proc'[p].stored = proc[p].storing
        /\ \A q \in Daemons \ {p} : proc'[q] = proc[q]
    BY Zenon, <1>1, <1>2 DEF Step, Settled
  <1>5. Good(md)'
    BY Zenon, <1>1, <1>4, StepStable DEF Types, OwnerInv, Good
  <1>6. \A q \in Daemons : proc'[q].pid = proc[q].pid
    BY Zenon, <1>4
  <1>7. \A q \in Daemons : proc'[q].pid <= pids'
    <2> TAKE q \in Daemons
    <2>1. proc[q].pid \in Nat /\ pids \in Nat /\ pids' \in Nat /\ pids' >= pids
      BY <1>1 DEF Types, Step, ProcWith
    <2> QED
      BY <1>1, <1>6, <2>1 DEF OwnerInv
  <1>8. ASSUME NEW q \in Daemons, md'.pid = proc'[q].pid, proc'[q].pid > 0
        PROVE  \/ md' = Item(proc'[q].stored, proc'[q].pid)
               \/ proc'[q].write_inprogress /\ md' = Item(proc'[q].storing, proc'[q].pid)
    <2>1. CASE q = p
      BY Zenon, <1>3, <1>4, <1>8, <2>1
    <2>2. CASE q # p
      BY Zenon, <1>1, <1>4, <1>8, <2>2 DEF OwnerInv
    <2> QED
      BY <2>1, <2>2
  <1> QED
    BY Zenon, <1>1, <1>5, <1>6, <1>7, <1>8 DEF OwnerInv

\* callback_append_put_lastblk acknowledges blocks that are in the table and
\* that the item says are there, even if somebody took over meanwhile.
LEMMA AnsweredAcked ==
    ASSUME DynInv, NEW p, NEW t, NEW a, Answered(p, t, a),
           acked' = IF proc[p].storing.cb # "lastblk" THEN acked
                    ELSE acked \cup (proc[p].append.old .. proc[p].lastblk)
    PROVE  AckedInv' /\ acked' \subseteq Blocks
  <1> DEFINE s == proc[p]
             A == {a}
  <1>1. Types /\ AckedInv /\ IcasInv /\ PutInv /\ p \in Daemons /\ Step(p, t, A)
    BY Zenon DEF DynInv, Answered, Step
  <1>2. /\ s.phase \in Working /\ s.write_inprogress /\ t.stored = s.storing /\ t.pid = s.pid
        /\ a \in ans /\ a.p = p /\ a.op = "icas" /\ a.res
    BY Zenon DEF Answered
  <1>3. s \in Handling /\ Local(s) /\ s.nextblk <= run.maxblk
    BY Zenon, <1>1, <1>2, WorkingFacts
  <1>4. /\ md.pid = s.pid => md = Item(s.storing, s.pid)
        /\ s.storing.lastblk <= md.lastblk
    BY Zenon, AnsweredOwner
  <1>5. a.arg[2] = Item(s.storing, s.pid)
    <2>1. Asked(s, a.arg[1], a.arg[2])
      BY Zenon, <1>1, <1>2 DEF IcasInv, IcasAns
    <2> QED
      BY Zenon, <1>2, <2>1 DEF Asked
  <1>6. a.arg[2].lastblk = s.storing.lastblk
    BY <1>5 DEF Item
  <1>7. /\ md.lastblk \in Int /\ freed \in Nat /\ freed' \in Nat /\ freed' >= freed
        /\ s.lastblk \in Int /\ s.nextblk \in Nat /\ s.append.old \in Nat
        /\ run.maxblk \in Nat /\ s.lastblk < s.nextblk /\ s.storing.lastblk \in Int
    <2>1. md.lastblk \in Int /\ freed \in Nat /\ run.maxblk \in Nat
      BY <1>1 DEF Types, ItemRec, Run
    <2>2. freed' \in Nat /\ freed' >= freed
      BY Zenon, <1>1 DEF Step
    <2>3. /\ s.storing \in MTuple /\ s.lastblk \in Nat \cup {-1} /\ s.nextblk \in Nat
          /\ s.append \in [old : Nat, nblks : Nat, nblks_left : Nat]
      BY ZenonT(30), <1>3 DEF Handling, ProcWith
    <2>4. s.lastblk < s.nextblk
      BY Zenon, <1>3 DEF Local, Core, Tuples
    <2> QED
      BY <2>1, <2>2, <2>3, <2>4 DEF MTuple
  <1>8. md' = md /\ data' = data /\ Blocks' = Blocks
    BY Zenon, <1>1 DEF Step, Blocks
  <1>9. ASSUME NEW b \in acked', b \notin acked
        PROVE  /\ b \in Blocks /\ (b \in data \/ b < freed) /\ b <= s.storing.lastblk
    <2>1. s.storing.cb = "lastblk" /\ b \in s.append.old .. s.lastblk
      BY Zenon, <1>9
    <2>2. s.storing.cb # NoCallback /\ s.storing.cb # "nextblk"
      BY <2>1 DEF NoCallback
    <2>3. /\ s.storing.lastblk = s.lastblk /\ Stage(s) = "lastblk" /\ s.append.nblks > 0
          /\ \A m \in net : m.p = p /\ m.op = "put" => ~m.live
      BY Zenon, <2>1, <2>2, AnsweredPuts
    <2>4. b \in Blocks /\ InRange(s, b) /\ b <= s.storing.lastblk
      BY <1>3, <1>7, <2>1, <2>3 DEF Blocks, InRange
    <2>5. PutProc(p) /\ Stage(s) # "nextblk"
      BY <1>1, <2>3 DEF PutInv
    <2>6. \/ b \in data \/ b < freed
          \/ \E m \in net : m.p = p /\ m.op = "put" /\ m.live /\ m.arg[1] = b
      BY Zenon, <1>2, <2>3, <2>4, <2>5 DEF PutProc
    <2> QED
      BY Zenon, <2>3, <2>4, <2>6
  <1>10. acked' \subseteq Blocks
    BY Zenon, <1>1, <1>9 DEF Types
  <1>11. \A b \in acked' : b \in Int
    BY <1>7, <1>10 DEF Blocks
  <1>12. ASSUME NEW b \in acked' PROVE (b >= freed' => b \in data) /\ b <= md.lastblk
    <2>1. CASE b \in acked
      <3>1. (b >= freed => b \in data) /\ b <= md.lastblk
        BY Zenon, <1>1, <2>1 DEF AckedInv
      <3> QED
        BY <1>7, <1>11, <3>1
    <2>2. CASE b \notin acked
      <3>1. (b \in data \/ b < freed) /\ b <= s.storing.lastblk
        BY Zenon, <1>9, <2>2
      <3> QED
        BY <1>4, <1>7, <1>11, <3>1
    <2> QED
      BY <2>1, <2>2
  <1> HIDE DEF A
  <1>13. ASSUME NEW q \in Daemons, md'.pid = proc'[q].pid, proc'[q].pid > 0
         PROVE  /\ \A b \in acked' : b <= proc'[q].stored.lastblk
                /\ \A c \in ans' : c.op = "icas" /\ c.p # q /\ c.res =>
                      c.arg[2].lastblk <= proc'[q].stored.lastblk
    <2>1. CASE q = p
      <3>1. proc'[p].pid = s.pid /\ proc'[p].stored = s.storing
        BY Zenon, <1>1, <1>2 DEF Step, Settled
      <3>2. md = Item(s.storing, s.pid)
        BY Zenon, <1>4, <1>8, <1>13, <2>1, <3>1
      <3>3. md.lastblk = s.storing.lastblk
        BY <3>2 DEF Item
      <3>4. \A c \in ans' : c.op = "icas" /\ c.res => c.arg[2].lastblk <= md.lastblk
        BY Zenon, <1>1 DEF Step, IcasInv, IcasAns, Upto
      <3> QED
        BY Zenon, <1>12, <2>1, <3>1, <3>3, <3>4
    <2>2. CASE q # p
      <3>1. proc'[q] = proc[q] /\ ans' \subseteq ans
        BY Zenon, <1>1, <2>2 DEF Step
      <3>2. /\ \A b \in acked : b <= proc[q].stored.lastblk
            /\ \A c \in ans : c.op = "icas" /\ c.p # q /\ c.res =>
                  c.arg[2].lastblk <= proc[q].stored.lastblk
        BY Zenon, <1>1, <1>8, <1>13, <3>1 DEF AckedInv
      <3>3. s.storing.lastblk <= proc[q].stored.lastblk
        BY Zenon, <1>2, <1>6, <2>2, <3>2
      <3>4. proc[q].stored.lastblk \in Int
        BY <1>1 DEF Types, ProcWith, MTuple
      <3>5. ASSUME NEW b \in acked' PROVE b <= proc[q].stored.lastblk
        <4>1. CASE b \in acked
          BY Zenon, <3>2, <4>1
        <4>2. CASE b \notin acked
          <5>1. b <= s.storing.lastblk
            BY Zenon, <1>9, <4>2
          <5> QED
            BY <1>7, <1>11, <3>3, <3>4, <5>1
        <4> QED
          BY <4>1, <4>2
      <3> QED
        BY Zenon, <3>1, <3>2, <3>5
    <2> QED
      BY <2>1, <2>2
  <1>14. AckedInv'
    BY Zenon, <1>8, <1>12, <1>13 DEF AckedInv
  <1> QED
    BY Zenon, <1>10, <1>14

\* callback_append_put_nextblk PUTs blocks that the process was granted and
\* nobody else is or will be.
LEMMA AnsweredWritten ==
    ASSUME DynInv, NEW p, NEW t, NEW a, Answered(p, t, a)
    PROVE  WrittenInv'
  <1> DEFINE s == proc[p]
             A == {a}
  <1>1. Types /\ WrittenInv /\ p \in Daemons /\ Step(p, t, A)
    BY Zenon DEF DynInv, Answered, Step
  <1>2. /\ s.phase \in Working /\ s.write_inprogress /\ t.stored = s.storing /\ t.pid = s.pid
        /\ a \in ans /\ a.p = p /\ a.op = "icas" /\ a.res /\ Local(t) /\ t \in Handling
    BY Zenon DEF Answered, Step
  <1>3. s \in Handling
    BY Zenon, <1>1, <1>2, WorkingFacts
  <1>4. md.pid = s.pid => md = Item(s.storing, s.pid)
    BY Zenon, AnsweredOwner
  <1>5. \A c \in ans \ A : c.p = p => c.op # "icas"
    BY Zenon, AnsweredSingle
  <1> HIDE DEF A
  <1>6. /\ md' = md /\ ans' = ans \ A /\ \A q \in Daemons \ {p} : proc'[q] = proc[q]
        /\ md.nextblk \in Nat
    BY <1>1 DEF Step, Types, ItemRec
  <1>7. ~Granted(p)'
    <2> SUFFICES ASSUME Granted(p)' PROVE FALSE
      OBVIOUS
    <2>1. /\ t.write_inprogress
          /\ \/ md = Item(t.storing, t.pid)
             \/ \E c \in ans' : c.p = p /\ c.op = "icas" /\ c.res
      BY Zenon, <1>1, <1>6 DEF Granted, Step, Settled
    <2>2. md = Item(t.storing, t.pid)
      BY Zenon, <1>5, <1>6, <2>1
    <2>3. md.pid = s.pid /\ md.generation = t.storing.generation
      BY <1>2, <2>2 DEF Item
    <2>4. md = Item(t.stored, s.pid)
      BY Zenon, <1>2, <1>4, <2>3
    <2>5. md.generation = t.stored.generation
      BY <2>4 DEF Item
    <2>6. t.storing.generation = t.stored.generation + 1 /\ t.stored.generation \in Nat
      <3>1. t.stored.generation \in Nat
        BY <1>2 DEF Handling, ProcWith, MTuple
      <3> QED
        BY Zenon, <1>2, <2>1, <3>1 DEF Local, Core, Tuples
    <2>7. \A n \in Nat : n # n + 1
      OBVIOUS
    <2> QED
      BY Zenon, <2>3, <2>5, <2>6, <2>7
  <1>8. \A q \in Daemons : Granted(q)' => q # p /\ Granted(q) /\ proc'[q] = proc[q]
    <2> TAKE q \in Daemons
    <2> HAVE Granted(q)'
    <2>1. q # p
      BY Zenon, <1>7
    <2>2. proc'[q] = proc[q]
      BY Zenon, <1>6, <2>1
    <2> QED
      BY Zenon, <1>6, <2>1, <2>2 DEF Granted
  <1>9. ASSUME NEW b \in written', b \notin written
        PROVE  Granted(p) /\ InRange(s, b) /\ b \in Nat
    <2>1. PICK o \in t.out : o[1] = "put" /\ o[2][1] = b
      BY Zenon, <1>1, <1>9 DEF Step
    <2>2. o \in NewPuts(s)
      BY Zenon, <2>1, AnsweredAsks
    <2>3. s.storing.cb = "nextblk"
      <3>1. /\ o[1] # "icas"
            /\ \A c : o = <<"delete", <<c>>>> => o[1] = "delete"
            /\ o[1] # "delete"
        BY <2>1
      <3> QED
        BY Zenon, <3>1 DEF Answered
    <2>4. s.storing.cb # NoCallback
      BY <2>3 DEF NoCallback
    <2>5. s.append.old + s.append.nblks = s.nextblk
      BY Zenon, <2>4, AnsweredPuts
    <2>6. s.append.old \in Nat /\ s.append.nblks \in Nat
      BY <1>3 DEF Handling, ProcWith
    <2>7. PICK c \in s.append.old .. s.append.old + s.append.nblks - 1 : o = <<"put", <<c>>>>
      BY Zenon, <2>2 DEF NewPuts
    <2>8. b = c
      BY <2>1, <2>7
    <2>9. InRange(s, b) /\ b \in Nat
      BY <2>5, <2>6, <2>8 DEF InRange
    <2>10. Granted(p)
      BY Zenon, <1>2, <2>3 DEF Granted
    <2> QED
      BY Zenon, <2>9, <2>10
  <1>10. \A b \in written : b \in Nat
    BY <1>1 DEF Types, Blocks, Run
  <1>11. ASSUME NEW b \in written' PROVE b < md.nextblk
    <2>1. CASE b \in written
      BY Zenon, <1>1, <2>1 DEF WrittenInv
    <2>2. CASE b \notin written
      <3>1. s.nextblk <= md.nextblk /\ InRange(s, b) /\ b \in Nat
        BY Zenon, <1>1, <1>9, <2>2 DEF WrittenInv
      <3>2. s.nextblk \in Nat
        BY <1>3 DEF Handling, ProcWith
      <3> QED
        BY <1>6, <3>1, <3>2 DEF InRange
    <2> QED
      BY <2>1, <2>2
  <1>12. ASSUME NEW q \in Daemons, Granted(q)', NEW b \in written'
         PROVE  ~InRange(proc[q], b)
    <2>1. CASE b \in written
      BY Zenon, <1>1, <1>8, <1>12, <2>1 DEF WrittenInv
    <2>2. CASE b \notin written
      <3>1. Granted(p) /\ InRange(s, b) /\ b \in Nat
        BY Zenon, <1>9, <2>2
      <3>2. q \in Daemons \ {p} /\ Granted(q)
        BY Zenon, <1>8, <1>12
      <3>3. s.nextblk <= proc[q].append.old \/ proc[q].nextblk <= s.append.old
        BY Zenon, <1>1, <3>1, <3>2 DEF WrittenInv
      <3>4. /\ s.nextblk \in Nat /\ s.append.old \in Nat
            /\ proc[q].nextblk \in Nat /\ proc[q].append.old \in Nat
        BY <1>1 DEF Types, ProcWith
      <3> QED
        BY <3>1, <3>3, <3>4 DEF InRange
    <2> QED
      BY <2>1, <2>2
  <1> HIDE DEF Granted
  <1> QED
    BY Zenon, <1>1, <1>6, <1>8, <1>11, <1>12 DEF WrittenInv, InRange

\* Nothing is under way for the APPEND of p, if it has one.
LEMMA PutNone ==
    ASSUME Types, PutInv, NEW p, NEW t, NEW A, Step(p, t, A), t.append = NoAppend,
           \A o \in t.out : o[1] # "put",
           \A m \in net : m.p = p /\ m.op = "put" => ~m.live,
           \A c \in ans : c.p = p => c.op # "put"
    PROVE  PutInv'
  <1>1. proc'[p].append = NoAppend
    BY Zenon DEF Step, Settled
  <1>2. ~(proc'[p].append.nblks > 0)
    BY <1>1 DEF NoAppend
  <1>3. \A m \in net' : m.p = p /\ m.op = "put" => ~m.live
    <2>1. \A m \in net' \ net : m.op # "put"
      BY DEF Step, Request
    <2> QED
      BY Zenon, <2>1
  <1>4. \A c \in ans' : c.p = p => c.op # "put"
    BY Zenon DEF Step
  <1>5. PutProc(p)'
    BY Zenon, <1>2 DEF PutProc, Putting
  <1> QED
    BY Zenon, <1>3, <1>4, <1>5, PutStep

\* The blocks that callback_append_put_nextblk PUTs were never PUT before.
LEMMA AnsweredNew ==
    ASSUME DynInv, NEW p, NEW t, NEW a, Answered(p, t, a), NEW o \in t.out, o[1] = "put"
    PROVE  o[2][1] \notin written
  <1> DEFINE s == proc[p]
  <1>1. /\ a \in ans /\ a.p = p /\ a.op = "icas" /\ a.res
        /\ s.phase \in Working /\ s.write_inprogress /\ Step(p, t, {a})
        /\ \/ o[1] = "icas"
           \/ \E b \in t.ip \ s.ip : o = <<"delete", <<b>>>>
           \/ s.storing.cb = "nextblk" /\ o \in NewPuts(s)
    BY Zenon DEF Answered
  <1>2. s.storing.cb = "nextblk" /\ o \in NewPuts(s) /\ s.storing.cb # NoCallback
    BY <1>1 DEF NoCallback
  <1>3. p \in Daemons /\ s \in ProcWith({{}})
    BY Zenon, <1>1 DEF Step, DynInv, Types
  <1>4. Granted(p)
    BY Zenon, <1>1, <1>2 DEF Granted
  <1>5. \A b \in written : ~InRange(s, b)
    BY Zenon, <1>3, <1>4 DEF DynInv, WrittenInv
  <1>6. s.append.old + s.append.nblks = s.nextblk
    BY Zenon, <1>2, AnsweredPuts
  <1>7. s.append.old \in Nat /\ s.append.nblks \in Nat
    BY <1>3 DEF ProcWith
  <1>8. o[2][1] \in s.append.old .. s.append.old + s.append.nblks - 1
    BY <1>2 DEF NewPuts
  <1>9. InRange(s, o[2][1])
    BY <1>6, <1>7, <1>8 DEF InRange
  <1> QED
    BY Zenon, <1>5, <1>9

(***************************************************************************)
(* A process starts                                                        *)
(***************************************************************************)
\* The phases of a process that does not own the metadata yet.
Early == {"off", "reading", "claiming"}

\* A step of p on the way to own the metadata.
Starting(p, t, A) ==
    LET s == proc[p] IN
    /\ Step(p, t, A) /\ s.phase \in Early
    /\ t.append = NoAppend /\ t.gets = {} /\ t.ip = {} /\ ~t.write_inprogress
    /\ acked' = acked /\ denied' = denied /\ freed' = freed
    /\ \A o \in t.out : o[1] \in {"getmd", "icas"} /\ (o[1] = "getmd" => t.phase = "reading")
    /\ \A o, r \in t.out : o = r
    /\ \A m \in net : m.p = p /\ m.live => m.op \notin {"icas", "getmd"}
    /\ \A c \in ans \ A : c.p = p => c.op \notin {"icas", "getmd"}
    /\ t.phase \in Working => DoneBelow(t)'
    /\ t.phase = "reading" => \E o \in t.out : o[1] = "getmd"
    /\ t.phase = "claiming" => \E o \in t.out : o[1] = "icas"
    /\ \/ t.pid = s.pid /\ t.stored = s.stored
       \/ t.pid = 0
       \/ t.pid > pids
    /\ t.pid <= pids'

\* A process that starts asks for the metadata only.
LEMMA StartFacts ==
    ASSUME NEW p, NEW t, NEW A, Starting(p, t, A)
    PROVE  /\ proc[p].phase \notin Working /\ p \in Daemons
           /\ \A o \in t.out : o[1] \notin {"put", "delete", "get", "getc"}
           /\ \A m \in net' \ net : m.p = p /\ m.op \in {"getmd", "icas"}
                                    /\ m.op \notin {"put", "delete", "get", "getc"}
                                    /\ (m.op = "getmd" => t.phase = "reading")
           /\ written' = written /\ ans' \subseteq ans
  <1>1. Step(p, t, A)
    BY Zenon DEF Starting
  <1>2. proc[p].phase \notin Working
    <2>1. proc[p].phase \in Early
      BY Zenon DEF Starting
    <2> QED
      BY <2>1 DEF Early, Working
  <1>3. \A o \in t.out : o[1] \in {"getmd", "icas"} /\ (o[1] = "getmd" => t.phase = "reading")
    BY Zenon DEF Starting
  <1>4. \A o \in t.out : o[1] \notin {"put", "delete", "get", "getc"} /\ o[1] # "put"
    BY <1>3
  <1>5. \A m \in net' \ net : m.p = p /\ \E o \in t.out : m.op = o[1]
    BY <1>1 DEF Step, Request
  <1>6. \A m \in net' \ net : m.p = p /\ m.op \in {"getmd", "icas"}
                              /\ m.op \notin {"put", "delete", "get", "getc"}
                              /\ (m.op = "getmd" => t.phase = "reading")
    BY Zenon, <1>3, <1>4, <1>5
  <1>7. {r \in t.out : r[1] = "put"} = {}
    BY Zenon, <1>4
  <1>8. written' = written
    BY <1>1, <1>7 DEF Step
  <1> QED
    BY Zenon, <1>1, <1>2, <1>4, <1>6, <1>8 DEF Step

\* A process that starts does nothing to blocks.
LEMMA StartBlocks ==
    ASSUME DynInv, NEW p, NEW t, NEW A, Starting(p, t, A)
    PROVE  Types' /\ DeleteInv' /\ PutInv' /\ GetInv'
  <1>1. Types /\ DeleteInv /\ PutInv /\ GetInv
    BY Zenon DEF DynInv
  <1>2. /\ Step(p, t, A) /\ acked' = acked /\ denied' = denied /\ freed' = freed
        /\ t.append = NoAppend /\ t.gets = {} /\ (t.phase \in Working => DoneBelow(t)')
    BY Zenon DEF Starting
  <1>3. /\ proc[p].phase \notin Working /\ p \in Daemons
        /\ \A o \in t.out : o[1] \notin {"put", "delete", "get", "getc"}
        /\ \A m \in net' \ net : m.op \notin {"put", "delete", "get", "getc"}
        /\ ans' \subseteq ans
    BY Zenon, StartFacts
  <1>4. /\ \A o \in t.out : o[1] # "put"
        /\ \A m \in net' \ net : m.op # "put" /\ m.op # "delete" /\ m.op \notin Reads
    BY <1>3 DEF Reads
  <1>5. Types'
    <2>1. acked' \subseteq Blocks /\ denied' \subseteq Nat
      BY Zenon, <1>1, <1>2 DEF Types
    <2> QED
      BY Zenon, <1>1, <1>2, <1>4, <2>1, TypesStep
  <1>6. PutInv'
    <2>1. ~Putting(proc[p])
      BY Zenon, <1>3 DEF Putting
    <2>2. /\ \A m \in net : m.p = p /\ m.op = "put" => ~m.live
          /\ \A c \in ans : c.p = p => c.op # "put"
      BY Zenon, <1>1, <2>1 DEF PutInv
    <2> QED
      BY Zenon, <1>1, <1>2, <1>4, <2>2, PutNone
  <1>7. GetInv'
    <2>1. \A m \in net' : m.p = p /\ m.op \in Reads /\ m.live => GetMsg(m)'
      BY Zenon, <1>1, <1>3, <1>4 DEF GetInv, GetMsg
    <2>2. \A a \in ans' : a.p = p /\ a.op \in Reads => GetAns(a)'
      BY Zenon, <1>1, <1>3 DEF GetInv, GetAns
    <2>3. proc'[p].gets = {}
      BY Zenon, <1>2 DEF Step, Settled
    <2>4. GetProc(proc[p])'
      BY Zenon, <2>3 DEF GetProc
    <2>5. \A b \in denied' : b < freed'
      BY Zenon, <1>1, <1>2 DEF GetInv
    <2>6. acked \subseteq acked'
      BY Zenon, <1>2
    <2> QED
      BY Zenon, <1>1, <1>2, <2>1, <2>2, <2>4, <2>5, <2>6, GetStep
  <1>8. DeleteInv'
    <2>1. deleted' = deleted /\ net \subseteq net' /\ \A q \in Daemons : q # p => proc'[q] = proc[q]
      BY Zenon, <1>2 DEF Step
    <2>2. ASSUME NEW q \in Daemons, proc'[q].phase \in Working PROVE DoneBelow(proc[q])'
      <3>1. CASE q = p
        <4>1. t.phase \in Working /\ proc'[p].M = t.M /\ proc'[p].ip = t.ip
          BY Zenon, <1>2, <2>2, <3>1 DEF Step, Settled
        <4>2. DoneBelow(t)'
          BY Zenon, <1>2, <4>1
        <4> QED
          BY Zenon, <3>1, <4>1, <4>2 DEF DoneBelow
      <3>2. CASE q # p
        <4>1. proc'[q] = proc[q] /\ DoneBelow(proc[q])
          BY Zenon, <1>1, <2>1, <2>2, <3>2 DEF DeleteInv
        <4> QED
          BY Zenon, <1>2, <2>1, <4>1 DEF DoneBelow
      <3> QED
        BY <3>1, <3>2
    <2>3. ASSUME NEW m \in net', m.op = "delete"
          PROVE  /\ m.arg[1] < freed
                 /\ m.live => proc'[m.p].phase \in Working /\ m.arg[1] \in proc'[m.p].ip
      <3>1. m \in net /\ m.p \in Daemons
        BY Zenon, <1>1, <1>4, <2>3 DEF Types
      <3>2. /\ m.arg[1] < freed
            /\ m.live => proc[m.p].phase \in Working /\ m.arg[1] \in proc[m.p].ip
        BY Zenon, <1>1, <2>3, <3>1 DEF DeleteInv
      <3> QED
        BY Zenon, <1>3, <2>1, <3>1, <3>2
    <2>4. ASSUME NEW a \in ans', a.op = "delete"
          PROVE  /\ a.arg[1] < freed /\ a.arg[1] \in deleted
                 /\ proc'[a.p].phase \in Working /\ a.arg[1] \in proc'[a.p].ip
      <3>1. a \in ans /\ a.p \in Daemons
        BY Zenon, <1>1, <1>3 DEF Types
      <3>2. /\ a.arg[1] < freed /\ a.arg[1] \in deleted
            /\ proc[a.p].phase \in Working /\ a.arg[1] \in proc[a.p].ip
        BY Zenon, <1>1, <2>4, <3>1 DEF DeleteInv
      <3> QED
        BY Zenon, <1>3, <2>1, <3>1, <3>2
    <2> QED
      BY Zenon, <1>2, <2>1, <2>2, <2>3, <2>4 DEF DeleteInv
  <1> QED
    BY Zenon, <1>5, <1>6, <1>7, <1>8

\* A process that starts takes an ID that no other has, and owns nothing yet.
LEMMA StartOwner ==
    ASSUME DynInv, NEW p, NEW t, NEW A, Starting(p, t, A)
    PROVE  OwnerInv' /\ AckedInv' /\ WrittenInv'
  <1>1. Types /\ OwnerInv /\ AckedInv /\ WrittenInv
    BY Zenon DEF DynInv
  <1>2. Step(p, t, A) /\ acked' = acked /\ freed' = freed /\ ~t.write_inprogress
    BY Zenon DEF Starting
  <1>3. proc[p].phase \notin Working /\ p \in Daemons /\ written' = written /\ ans' \subseteq ans
    BY Zenon, StartFacts
  <1>4. /\ md' = md /\ data' = data /\ \A q \in Daemons : q # p => proc'[q] = proc[q]
        /\ proc'[p].pid = t.pid /\ proc'[p].stored = t.stored /\ ~proc'[p].write_inprogress
    BY Zenon, <1>2 DEF Step, Settled
  <1>5. /\ pids \in Nat /\ pids' \in Nat /\ pids' >= pids /\ t.pid \in Nat /\ md.pid \in Nat
        /\ md.pid <= pids /\ \A q \in Daemons : proc[q].pid \in Nat /\ proc[q].pid <= pids
    BY <1>1, <1>2 DEF Types, ItemRec, Step, Handling, ProcWith, OwnerInv, Good
  <1>6. \/ t.pid = proc[p].pid /\ t.stored = proc[p].stored
        \/ t.pid = 0
        \/ t.pid > pids
    BY Zenon DEF Starting
  <1>7. md.pid = t.pid /\ t.pid > 0 => t.pid = proc[p].pid /\ t.stored = proc[p].stored
    BY <1>5, <1>6
  <1>8. ASSUME NEW q \in Daemons, q # p, t.pid = proc[q].pid PROVE ~(t.pid > 0)
    <2>1. t.pid = proc[p].pid => ~(t.pid > 0)
      BY Zenon, <1>1, <1>3, <1>8 DEF OwnerInv
    <2> QED
      BY <1>5, <1>6, <1>8, <2>1
  <1>9. OwnerInv'
    <2>1. Good(md)'
      BY Zenon, <1>1, <1>2, <1>4, StepStable DEF Types, OwnerInv, Good
    <2>2. \A q \in Daemons : proc'[q].pid <= pids'
      <3>1. t.pid <= pids'
        BY Zenon DEF Starting
      <3> TAKE q \in Daemons
      <3>2. proc[q].pid <= pids'
        BY <1>5
      <3> QED
        BY Zenon, <1>4, <3>1, <3>2
    <2>3. ASSUME NEW q \in Daemons, NEW r \in Daemons, proc'[q].pid = proc'[r].pid, proc'[q].pid > 0
          PROVE  q = r
      <3>1. CASE q # p /\ r # p
        BY Zenon, <1>1, <1>4, <2>3, <3>1 DEF OwnerInv
      <3>2. CASE q = p /\ r # p
        BY Zenon, <1>4, <1>8, <2>3, <3>2
      <3>3. CASE q # p /\ r = p
        BY Zenon, <1>4, <1>8, <2>3, <3>3
      <3> QED
        BY Zenon, <3>1, <3>2, <3>3
    <2>4. ASSUME NEW q \in Daemons, md'.pid = proc'[q].pid, proc'[q].pid > 0
          PROVE  \/ md' = Item(proc'[q].stored, proc'[q].pid)
                 \/ proc'[q].write_inprogress /\ md' = Item(proc'[q].storing, proc'[q].pid)
      <3>1. CASE q # p
        BY Zenon, <1>1, <1>4, <2>4, <3>1 DEF OwnerInv
      <3>2. CASE q = p
        <4>1. t.pid = proc[p].pid /\ t.stored = proc[p].stored /\ md.pid = t.pid /\ t.pid > 0
          BY Zenon, <1>4, <1>7, <2>4, <3>2
        <4>2. ~proc[p].write_inprogress
          <5>1. proc[p].phase \in {"off", "reading", "claiming"}
            BY Zenon DEF Starting, Early
          <5> QED
            BY Zenon, <1>3, <5>1 DEF DynInv, ProcInv, OneProc, Fresh
        <4> QED
          BY Zenon, <1>1, <1>3, <1>4, <3>2, <4>1, <4>2 DEF OwnerInv
      <3> QED
        BY <3>1, <3>2
    <2> QED
      BY Zenon, <2>1, <2>2, <2>3, <2>4 DEF OwnerInv
  <1>10. AckedInv'
    <2>1. \A b \in acked' : (b >= freed' => b \in data') /\ b <= md'.lastblk
      BY Zenon, <1>1, <1>2, <1>4 DEF AckedInv
    <2>2. ASSUME NEW q \in Daemons, md'.pid = proc'[q].pid, proc'[q].pid > 0
          PROVE  /\ \A b \in acked' : b <= proc'[q].stored.lastblk
                 /\ \A a \in ans' : a.op = "icas" /\ a.p # q /\ a.res =>
                       a.arg[2].lastblk <= proc'[q].stored.lastblk
      <3>1. md.pid = proc[q].pid /\ proc[q].pid > 0 /\ proc'[q].stored = proc[q].stored
        BY Zenon, <1>4, <1>7, <2>2
      <3>2. /\ \A b \in acked : b <= proc[q].stored.lastblk
            /\ \A a \in ans : a.op = "icas" /\ a.p # q /\ a.res =>
                  a.arg[2].lastblk <= proc[q].stored.lastblk
        BY Zenon, <1>1, <3>1 DEF AckedInv
      <3> QED
        BY Zenon, <1>2, <1>3, <3>1, <3>2
    <2> QED
      BY Zenon, <2>1, <2>2 DEF AckedInv
  <1>11. WrittenInv'
    <2>1. \A q \in Daemons : Granted(q)' => Granted(q) /\ proc'[q] = proc[q]
      <3> SUFFICES ASSUME NEW q \in Daemons, Granted(q)' PROVE Granted(q) /\ proc'[q] = proc[q]
        OBVIOUS
      <3>1. proc'[q].write_inprogress
        BY Zenon DEF Granted
      <3>2. proc'[q] = proc[q]
        BY Zenon, <1>4, <3>1
      <3> QED
        BY Zenon, <1>3, <1>4, <3>2 DEF Granted
    <2> HIDE DEF Granted
    <2> QED
      BY Zenon, <1>1, <1>3, <1>4, <2>1 DEF WrittenInv, InRange
  <1> QED
    BY Zenon, <1>9, <1>10, <1>11

\* A process that starts asks once for the metadata.
LEMMA StartAlone ==
    ASSUME DynInv, NEW p, NEW t, NEW A, Starting(p, t, A)
    PROVE  Alone'
  <1>1. Alone /\ Step(p, t, A)
    BY Zenon DEF DynInv, Starting
  <1>2. /\ \A o \in t.out : o[1] \in {"getmd", "icas"}
        /\ \A o, r \in t.out : o = r
        /\ \A m \in net : m.p = p /\ m.live => m.op \notin {"icas", "getmd"}
        /\ \A c \in ans \ A : c.p = p => c.op \notin {"icas", "getmd"}
    BY Zenon DEF Starting
  <1>3. ASSUME NEW o \in t.out PROVE Unasked(p, A, o)
    <2>1. \A op, arg : op \notin {"icas", "getmd"} => ~SameKind(o[1], o[2], op, arg)
      <3>1. o[1] \in {"getmd", "icas"}
        BY Zenon, <1>2
      <3> QED
        BY <3>1 DEF SameKind
    <2> QED
      BY Zenon, <1>2, <2>1 DEF Unasked
  <1> QED
    BY Zenon, <1>1, <1>2, <1>3, AloneStep

\* A process that starts waits for the answer.
LEMMA StartRead ==
    ASSUME DynInv, NEW p, NEW t, NEW A, Starting(p, t, A)
    PROVE  ReadInv' /\ WaitInv'
  <1>1. Types /\ ReadInv /\ WaitInv
    BY Zenon DEF DynInv
  <1>2. /\ Step(p, t, A) /\ t.gets = {} /\ t.ip = {} /\ ~t.write_inprogress
        /\ \A m \in net : m.p = p /\ m.live => m.op \notin {"icas", "getmd"}
        /\ \A c \in ans \ A : c.p = p => c.op \notin {"icas", "getmd"}
        /\ t.phase = "reading" => \E o \in t.out : o[1] = "getmd"
        /\ t.phase = "claiming" => \E o \in t.out : o[1] = "icas"
    BY Zenon DEF Starting
  <1>3. /\ p \in Daemons
        /\ \A m \in net' \ net : m.p = p /\ (m.op = "getmd" => t.phase = "reading")
    BY Zenon, StartFacts
  <1>4. /\ \A q \in Daemons : q # p => proc'[q] = proc[q]
        /\ proc'[p].phase = t.phase /\ proc'[p].gets = {} /\ proc'[p].ip = {}
        /\ ~proc'[p].write_inprogress /\ ans' = ans \ A
    BY Zenon, <1>2 DEF Step, Settled
  <1>5. ASSUME NEW m \in net', m.op = "getmd", m.live PROVE proc'[m.p].phase = "reading"
    <2>1. CASE m \in net
      <3>1. m.p # p /\ m.p \in Daemons /\ proc[m.p].phase = "reading"
        BY Zenon, <1>1, <1>2, <1>5, <2>1 DEF Types, ReadInv
      <3> QED
        BY Zenon, <1>4, <3>1
    <2>2. CASE m \notin net
      BY Zenon, <1>3, <1>4, <1>5, <2>2
    <2> QED
      BY <2>1, <2>2
  <1>6. ASSUME NEW c \in ans', c.op = "getmd"
        PROVE  proc'[c.p].phase = "reading" /\ c.res \in ItemRec /\ Good(c.res)'
    <2>1. c \in ans /\ c.p # p /\ c.p \in Daemons
      BY Zenon, <1>1, <1>2, <1>4, <1>6 DEF Types
    <2>2. proc[c.p].phase = "reading" /\ c.res \in ItemRec /\ Good(c.res)
      BY Zenon, <1>1, <1>6, <2>1 DEF ReadInv
    <2>3. Good(c.res)'
      BY Zenon, <1>1, <1>2, <2>2, StepStable
    <2> QED
      BY Zenon, <1>4, <2>1, <2>2, <2>3
  <1>7. ReadInv'
    BY Zenon, <1>5, <1>6 DEF ReadInv
  <1>8. \A o \in t.out : Awaits(p, o[1])'
    BY Zenon, <1>2, AwaitsStep
  <1>9. WaitProc(p)'
    <2>1. /\ proc'[p].phase = "reading" => Awaits(p, "getmd")'
          /\ proc'[p].phase = "claiming" => Awaits(p, "icas")'
      BY Zenon, <1>2, <1>4, <1>8
    <2> QED
      BY Zenon, <1>4, <2>1 DEF WaitProc
  <1>10. WaitInv'
    BY Zenon, <1>1, <1>2, <1>9, WaitStep
  <1> QED
    BY Zenon, <1>7, <1>10

\* What a message of p must be like then; those of the others are as before.
StaleMsg(m, t) ==
    LET x == m.arg[1]
        y == m.arg[2]
    IN y.pid <= t.pid /\ (Past(x) \/ y.pid < t.pid \/ Current(t, x, y))

\* The compare-and-swaps under way are still right.
LEMMA StartIcas ==
    ASSUME DynInv, NEW p, NEW t, NEW A, Starting(p, t, A),
           \A m \in net : m.p = p /\ m.op = "icas" => StaleMsg(m, t),
           \A m \in net' \ net : m.op = "icas" => IcasMsg(m)'
    PROVE  IcasInv'
  <1>1. Types /\ OwnerInv /\ IcasInv
    BY Zenon DEF DynInv
  <1>2. /\ Step(p, t, A)
        /\ \A m \in net : m.p = p /\ m.live => m.op \notin {"icas", "getmd"}
        /\ \A c \in ans \ A : c.p = p => c.op \notin {"icas", "getmd"}
        /\ \/ t.pid = proc[p].pid
           \/ t.pid = 0
           \/ t.pid > pids
    BY Zenon DEF Starting
  <1>3. p \in Daemons
    BY Zenon, StartFacts
  <1>4. /\ \A q \in Daemons : q # p => proc'[q] = proc[q]
        /\ proc'[p].pid = t.pid /\ md' = md /\ ans' = ans \ A
        /\ \A x, y : Current(t, x, y) => Current(proc'[p], x, y)
    BY Zenon, <1>2 DEF Step, Settled, Current
  <1>5. \A x : Past(x)' <=> Past(x)
    BY Zenon, <1>4 DEF Past
  <1>6. ASSUME NEW m \in net, m.op = "icas" PROVE IcasMsg(m)'
    <2> DEFINE x == m.arg[1]
               y == m.arg[2]
    <2>1. x \in ItemRec /\ y \in ItemRec /\ m.p \in Daemons
      <3>1. m.arg \in ItemRec \X ItemRec /\ m.p \in Daemons
        BY Zenon, <1>1, <1>6 DEF Types, ArgOK
      <3> QED
        BY <3>1
    <2>2. /\ Claim(x, y) \/ Write(x, y)
          /\ Good(x) /\ Good(y) /\ y.pid > 0
          /\ \A q \in Daemons \ {m.p} : proc[q].pid # y.pid
          /\ y.pid <= proc[m.p].pid
          /\ Past(x) \/ y.pid < proc[m.p].pid \/ Current(proc[m.p], x, y)
          /\ m.live => Asked(proc[m.p], x, y)
      BY Zenon, <1>1, <1>6 DEF IcasInv, IcasMsg
    <2>3. m.p = p => ~m.live /\ y.pid <= t.pid
                     /\ (Past(x) \/ y.pid < t.pid \/ Current(t, x, y))
      BY Zenon, <1>2, <1>6 DEF StaleMsg
    <2> HIDE DEF x, y
    <2>4. Good(x)' /\ Good(y)'
      BY Zenon, <1>1, <1>2, <2>1, <2>2, StepStable
    <2>5. ASSUME NEW q \in Daemons \ {m.p} PROVE proc'[q].pid # y.pid
      <3>1. CASE q # p
        BY Zenon, <1>4, <2>2, <2>5, <3>1
      <3>2. CASE q = p
        <4>1. proc[p].pid # y.pid /\ y.pid <= proc[m.p].pid /\ proc[m.p].pid <= pids
          BY Zenon, <1>1, <2>1, <2>2, <2>5, <3>2 DEF OwnerInv
        <4>2. /\ y.pid \in Nat /\ proc[m.p].pid \in Nat /\ pids \in Nat /\ t.pid \in Nat
          <5>1. proc[m.p] \in ProcWith({{}}) /\ t \in Handling /\ pids \in Nat
            BY Zenon, <1>1, <1>2, <2>1 DEF Types, Step
          <5>2. proc[m.p].pid \in Nat /\ t.pid \in Nat
            BY ZenonT(30), <5>1 DEF Handling, ProcWith
          <5> QED
            BY <2>1, <5>1, <5>2 DEF ItemRec
        <4>3. t.pid # y.pid
          BY <1>2, <2>2, <4>1, <4>2
        <4> QED
          BY Zenon, <1>4, <3>2, <4>3
      <3> QED
        BY <3>1, <3>2
    <2>6. /\ y.pid <= proc'[m.p].pid
          /\ Past(x)' \/ y.pid < proc'[m.p].pid \/ Current(proc'[m.p], x, y)
          /\ m.live => Asked(proc'[m.p], x, y)
      <3>1. CASE m.p # p
        BY Zenon, <1>4, <1>5, <2>1, <2>2, <3>1
      <3>2. CASE m.p = p
        BY Zenon, <1>4, <1>5, <2>3, <3>2
      <3> QED
        BY <3>1, <3>2
    <2> QED
      BY Zenon, <2>2, <2>4, <2>5, <2>6 DEF IcasMsg, x, y
  <1>7. ASSUME NEW c \in ans', c.op = "icas" PROVE IcasAns(c)'
    <2>1. c \in ans /\ c.p # p /\ c.p \in Daemons
      BY Zenon, <1>1, <1>2, <1>4, <1>7 DEF Types
    <2>2. IcasAns(c) /\ SameOwner(proc[c.p], proc'[c.p])
      BY Zenon, <1>1, <1>4, <1>7, <2>1 DEF IcasInv, SameOwner
    <2> QED
      BY Zenon, <1>1, <1>2, <1>7, <2>1, <2>2, IcasAnsKept
  <1>8. \A m \in net' : m.op = "icas" => IcasMsg(m)'
    BY Zenon, <1>6
  <1> QED
    BY Zenon, <1>7, <1>8 DEF IcasInv

\* A step of a process that starts keeps the invariant.
LEMMA StartStep ==
    ASSUME DynInv, NEW p, NEW t, NEW A, Starting(p, t, A), OneProc(proc[p])',
           \A m \in net : m.p = p /\ m.op = "icas" => StaleMsg(m, t),
           \A m \in net' \ net : m.op = "icas" => IcasMsg(m)'
    PROVE  GoodStep
  <1>1. Types /\ ProcInv /\ Step(p, t, A)
    BY Zenon DEF DynInv, Starting
  <1>2. ProcInv'
    BY Zenon, <1>1, ProcStep
  <1>3. IcasInv'
    BY Zenon, StartIcas
  <1>4. Types' /\ DeleteInv' /\ PutInv' /\ GetInv'
    BY Zenon, StartBlocks
  <1>5. OwnerInv' /\ AckedInv' /\ WrittenInv'
    BY Zenon, StartOwner
  <1>6. Alone' /\ ReadInv' /\ WaitInv'
    BY Zenon, StartAlone, StartRead
  <1>7. DynInv'
    BY Zenon, <1>2, <1>3, <1>4, <1>5, <1>6 DEF DynInv
  <1>8. Onward
    <2>1. \A o \in t.out : o[1] \notin {"put", "delete", "get", "getc"}
      BY Zenon, StartFacts
    <2>2. \A o \in t.out : o[1] # "put"
      BY <2>1
    <2> QED
      BY Zenon, <1>1, <2>2, StepOnward
  <1> QED
    BY Zenon, <1>7, <1>8 DEF GoodStep

\* A process that starts has nothing to do yet.
LEMMA FreshOne ==
    ASSUME SetFacts, Types, NEW p, NEW t, NEW A, Step(p, t, A), Fresh(t), t.phase \in Early
    PROVE  OneProc(proc[p])'
  <1> DEFINE u == proc'[p]
  <1>1. Settled(t, u) /\ t \in Handling
    BY Zenon DEF Step
  <1> HIDE DEF u
  <1>2. Fresh(u) /\ u.phase = t.phase
    BY Zenon, <1>1 DEF Settled, Fresh
  <1>3. u.phase \notin Working
    BY <1>2 DEF Early, Working
  <1>4. u.ip = {} /\ u.M = 0 /\ u.append = NoAppend /\ u.conn = "none"
    BY Zenon, <1>2 DEF Fresh
  <1>5. u.stored.deletedto \in Nat /\ u.stored = t.stored
    BY <1>1 DEF Settled, Handling, ProcWith, MTuple
  <1>6. Limits(u)
    <2>1. IsFiniteSet({}) /\ Cardinality({}) = 0
      BY Zenon DEF SetFacts, EmptySize
    <2> QED
      BY <1>4, <1>5, <2>1, LbsDynamodbAssumption DEF Limits
  <1>7. u.append.nblks_left <= MaxAppend
    BY <1>4, LbsDynamodbAssumption DEF NoAppend
  <1> QED
    BY Zenon, <1>2, <1>3, <1>4, <1>6, <1>7 DEF OneProc, u

\* One request for the metadata is under way for a process.
LEMMA MetadataOnce ==
    ASSUME Alone, NEW a \in ans, a.op \in {"icas", "getmd"}
    PROVE  /\ \A m \in net : m.p = a.p /\ m.live => m.op \notin {"icas", "getmd"}
           /\ \A c \in ans \ {a} : c.p = a.p => c.op \notin {"icas", "getmd"}
  <1>1. \A n : n.p = a.p /\ n.op \in {"icas", "getmd"} => Twins(n, a)
    BY Zenon DEF Twins, SameKind
  <1> QED
    BY Zenon, <1>1 DEF Alone

\* The request for the metadata, and the process that makes it.
GetMetadata == <<"getmd", <<>>>>

\* The request for the metadata.
LEMMA GetMetadataOut ==
    /\ {GetMetadata} \in SUBSET Outs
    /\ \A o \in {GetMetadata} : o[1] = "getmd" /\ o[1] \in {"getmd", "icas"} /\ o[1] # "icas"
  BY DEF Outs, GetMetadata

Reading(s) == [s EXCEPT !.phase = "reading", !.out = {GetMetadata}]

\* What a process sets that asks for the metadata.
LEMMA ReadingFields ==
    ASSUME NEW s \in Handling
    PROVE  LET t == Reading(s) IN
           /\ t \in Handling /\ t.phase = "reading" /\ t.out = {GetMetadata}
           /\ t.pid = s.pid /\ t.stored = s.stored /\ t.append = s.append /\ t.gets = s.gets
           /\ t.ip = s.ip /\ t.N = s.N /\ t.M = s.M /\ t.flushed = s.flushed
           /\ t.write_inprogress = s.write_inprogress /\ t.write_wanted = s.write_wanted
           /\ t.shuttingdown = s.shuttingdown /\ t.conn = s.conn
  <1>1. /\ \A v \in Handling : [v EXCEPT !.phase = "reading"] \in Handling
        /\ \A v \in Handling : \A O \in SUBSET Outs : [v EXCEPT !.out = O] \in Handling
    BY DEF Handling, ProcWith
  <1>2. {GetMetadata} \in SUBSET Outs
    BY Zenon, GetMetadataOut
  <1> HIDE DEF GetMetadata
  <1>3. Reading(s) = [[s EXCEPT !.phase = "reading"] EXCEPT !.out = {GetMetadata}]
    BY DEF Reading
  <1>4. Reading(s) \in Handling
    <2> DEFINE v == [s EXCEPT !.phase = "reading"]
    <2>1. v \in Handling
      BY Zenon, <1>1
    <2>2. Reading(s) = [v EXCEPT !.out = {GetMetadata}]
      BY Zenon, <1>3
    <2> HIDE DEF v
    <2> QED
      BY <1>1, <1>2, <2>1, <2>2
  <1> QED
    BY <1>4 DEF Handling, ProcWith, Reading

\* A process that is not started.
LEMMA OffType == Off \in Handling /\ Off.out = {}
  <1>1. NewTuple \in MTuple /\ NoAppend \in [old : Nat, nblks : Nat, nblks_left : Nat]
    BY DEF NewTuple, Tuple, MTuple, NoAppend
  <1>2. 0 \in Nat /\ 0 \in 0 .. 2 /\ -1 \in Nat \cup {-1}
    OBVIOUS
  <1> HIDE DEF NewTuple, NoAppend
  <1> QED
    BY ZenonT(30), <1>1, <1>2 DEF Off, Handling, ProcWith

\* Before the process owns the metadata.
LEMMA EarlyFacts ==
    ASSUME DynInv, NEW p \in Daemons, proc[p].phase \in Early
    PROVE  /\ proc[p] \in Handling /\ proc[p].out = {} /\ Fresh(proc[p])
           /\ proc[p].phase \notin Working /\ proc[p].pid <= pids
  <1>1. proc[p] \in ProcWith({{}})
    BY Zenon DEF DynInv, Types
  <1>2. proc[p] \in Handling /\ proc[p].out = {}
    BY <1>1 DEF Handling, ProcWith
  <1>3. Fresh(proc[p])
    BY Zenon DEF DynInv, ProcInv, OneProc, Early
  <1>4. proc[p].phase \notin Working
    BY DEF Early, Working
  <1>5. proc[p].pid <= pids
    BY Zenon DEF DynInv, OwnerInv
  <1> QED
    BY Zenon, <1>2, <1>3, <1>4, <1>5

\* A process asks for the metadata: it starts, or its claim failed.
LEMMA ReadingStep ==
    ASSUME SetFacts, DynInv, NEW p \in Daemons, NEW s0 \in Handling, NEW A,
           Become(p, Reading(s0), A), \A a \in A : a.p = p,
           UNCHANGED <<dynamo, run, pids, acked, freed, deleted, denied>>,
           proc[p].phase \in Early, Fresh([s0 EXCEPT !.phase = "reading"]),
           s0.pid = 0 \/ (s0.pid = proc[p].pid /\ s0.stored = proc[p].stored), s0.pid <= pids,
           \A m \in net : m.p = p /\ m.live => m.op \notin {"icas", "getmd"},
           \A c \in ans \ A : c.p = p => c.op \notin {"icas", "getmd"},
           \A m \in net : m.p = p /\ m.op = "icas" => StaleMsg(m, Reading(s0))
    PROVE  GoodStep
  <1> DEFINE t == Reading(s0)
             f == [s0 EXCEPT !.phase = "reading"]
  <1>1. Types
    BY Zenon DEF DynInv
  <1>2. /\ t \in Handling /\ t.phase = "reading" /\ t.out = {GetMetadata}
        /\ t.pid = s0.pid /\ t.stored = s0.stored /\ t.append = s0.append /\ t.gets = s0.gets
        /\ t.ip = s0.ip /\ t.N = s0.N /\ t.M = s0.M /\ t.flushed = s0.flushed
        /\ t.write_inprogress = s0.write_inprogress /\ t.write_wanted = s0.write_wanted
        /\ t.shuttingdown = s0.shuttingdown /\ t.conn = s0.conn
    BY Zenon, ReadingFields
  <1>3. /\ f.phase = "reading" /\ f.append = s0.append /\ f.gets = s0.gets
        /\ f.ip = s0.ip /\ f.N = s0.N /\ f.M = s0.M /\ f.flushed = s0.flushed
        /\ f.write_inprogress = s0.write_inprogress /\ f.write_wanted = s0.write_wanted
        /\ f.shuttingdown = s0.shuttingdown /\ f.conn = s0.conn
    BY DEF Handling, ProcWith
  <1> HIDE DEF t, f
  <1>4. /\ run' = run /\ pids' = pids /\ freed' = freed /\ acked' = acked /\ denied' = denied
        /\ deleted' = deleted /\ UNCHANGED dynamo
    OBVIOUS
  <1>5. Step(p, t, A)
    <2>1. /\ run' \in Run /\ run'.maxblk = run.maxblk /\ pids' \in Nat /\ pids' >= pids
          /\ freed' \in Nat /\ freed' >= freed
      BY <1>1, <1>4 DEF Types
    <2> QED
      BY <1>1, <1>2, <1>4, <2>1, BecomeStep DEF t
  <1>6. "reading" # "off" /\ "reading" # "claiming" /\ "reading" \notin Working /\ "reading" \in Early
    BY DEF Working, Early
  <1>7. /\ ~f.write_inprogress /\ ~f.write_wanted /\ f.append = NoAppend /\ f.gets = {}
        /\ f.N = 0 /\ f.M = 0 /\ f.flushed = 0 /\ f.ip = {} /\ f.shuttingdown = 0
        /\ f.conn = "none"
    BY Zenon DEF Fresh, f
  <1>8. Fresh(t)
    BY Zenon, <1>2, <1>3, <1>6, <1>7 DEF Fresh
  <1>9. OneProc(proc[p])'
    BY Zenon, <1>1, <1>2, <1>5, <1>6, <1>8, FreshOne
  <1>10. /\ \A o \in t.out : o[1] \in {"getmd", "icas"} /\ o[1] # "icas"
         /\ \A o, r \in t.out : o = r
         /\ \E o \in t.out : o[1] = "getmd"
    BY Zenon, <1>2, GetMetadataOut
  <1>11. (t.pid = proc[p].pid /\ t.stored = proc[p].stored) \/ t.pid = 0
    BY Zenon, <1>2
  <1>12. Starting(p, t, A)
    BY Zenon, <1>2, <1>3, <1>4, <1>5, <1>6, <1>7, <1>10, <1>11 DEF Starting
  <1>13. \A m \in net' \ net : m.op # "icas"
    BY <1>5, <1>10 DEF Step, Request
  <1>14. \A m \in net : m.p = p /\ m.op = "icas" => StaleMsg(m, t)
    BY Zenon DEF t
  <1> QED
    BY Zenon, <1>9, <1>12, <1>13, <1>14, StartStep

\* metadata_init, up to the request for the metadata: it keeps the invariant.
LEMMA InitStep ==
    ASSUME SetFacts, DynInv, NEW p \in Daemons, metadata_init(p)
    PROVE  GoodStep
  <1>1. Types /\ IcasInv /\ ReadInv
    BY Zenon DEF DynInv
  <1>2. proc[p].phase = "off" /\ Become(p, Reading(Off), {})
        /\ UNCHANGED <<dynamo, run, pids, acked, freed, deleted, denied>>
    BY Zenon DEF metadata_init, Reading, GetMetadata
  <1>3. proc[p].phase \in Early /\ proc[p].phase # "claiming" /\ proc[p].phase # "reading"
    BY <1>2 DEF Early
  <1>4. proc[p].phase \notin Working /\ Fresh(proc[p])
    BY Zenon, <1>3, EarlyFacts
  <1>5. proc[p].pid = 0
    BY Zenon, <1>2, <1>4 DEF Fresh
  <1>6. /\ \A m \in net : m.p = p /\ m.live => m.op # "icas" /\ m.op # "getmd"
        /\ \A c \in ans : c.p = p => c.op # "icas" /\ c.op # "getmd"
    <2>1. \A x, y : ~Asked(proc[p], x, y)
      BY Zenon, <1>3, <1>4 DEF Asked
    <2> QED
      BY Zenon, <1>1, <1>3, <2>1 DEF IcasInv, IcasMsg, IcasAns, ReadInv
  <1>7. ASSUME NEW m \in net, m.p = p, m.op = "icas" PROVE StaleMsg(m, Reading(Off))
    <2>1. m.arg[2].pid > 0 /\ m.arg[2].pid <= 0
      BY Zenon, <1>1, <1>5, <1>7 DEF IcasInv, IcasMsg
    <2>2. m.arg \in ItemRec \X ItemRec
      BY Zenon, <1>1, <1>7 DEF Types, ArgOK
    <2>3. m.arg[2].pid \in Nat
      BY <2>2 DEF ItemRec
    <2> QED
      BY <2>1, <2>3
  <1>8. /\ \A m \in net : m.p = p /\ m.live => m.op \notin {"icas", "getmd"}
        /\ \A c \in ans \ {} : c.p = p => c.op \notin {"icas", "getmd"}
    BY Zenon, <1>6
  <1>9. Off \in Handling
    BY Zenon, OffType
  <1>10. Fresh([Off EXCEPT !.phase = "reading"])
    BY DEF Fresh, Off
  <1>11. Off.pid = 0 /\ Off.pid <= pids
    BY <1>1 DEF Off, Types
  <1>12. \A a \in {} : a.p = p
    OBVIOUS
  <1> QED
    BY <1>2, <1>3, <1>7, <1>8, <1>9, <1>10, <1>11, <1>12, ReadingStep

\* The claim was not stored: somebody else owns the metadata.
LEMMA ClaimLostStep ==
    ASSUME SetFacts, DynInv, NEW p \in Daemons, NEW a \in ans, a.p = p, a.op = "icas",
           proc[p].phase = "claiming", Become(p, Reading(proc[p]), {a}),
           UNCHANGED <<dynamo, run, pids, acked, freed, deleted, denied>>
    PROVE  GoodStep
  <1> DEFINE s == proc[p]
             A == {a}
  <1>1. Types /\ IcasInv /\ Alone
    BY Zenon DEF DynInv
  <1>2. s.phase \in Early
    BY DEF Early
  <1>3. s \in Handling /\ Fresh(s) /\ s.phase \notin Working /\ s.pid <= pids
    BY Zenon, <1>2, EarlyFacts
  <1>4. /\ \A m \in net : m.p = p /\ m.live => m.op \notin {"icas", "getmd"}
        /\ \A c \in ans \ A : c.p = p => c.op \notin {"icas", "getmd"}
    BY Zenon, <1>1, MetadataOnce
  <1>5. \A c \in A : c.p = p
    OBVIOUS
  <1>6. Fresh([s EXCEPT !.phase = "reading"])
    <2> DEFINE f == [s EXCEPT !.phase = "reading"]
    <2>1. /\ f.phase = "reading" /\ f.append = s.append /\ f.gets = s.gets
          /\ f.ip = s.ip /\ f.N = s.N /\ f.M = s.M /\ f.flushed = s.flushed
          /\ f.write_inprogress = s.write_inprogress /\ f.write_wanted = s.write_wanted
          /\ f.shuttingdown = s.shuttingdown /\ f.conn = s.conn
      BY <1>3 DEF Handling, ProcWith
    <2> HIDE DEF f
    <2>2. f.phase # "off" /\ f.phase # "claiming"
      BY <2>1
    <2>3. Fresh(f)
      BY Zenon, <1>3, <2>1, <2>2 DEF Fresh
    <2> QED
      BY Zenon, <2>3 DEF f
  <1>7. /\ Reading(s).pid = s.pid /\ Reading(s).stored = s.stored /\ Reading(s).phase = "reading"
        /\ Reading(s).write_inprogress = s.write_inprogress
    BY Zenon, <1>3, ReadingFields
  <1>8. Reading(s).phase \notin Working /\ ~s.write_inprogress
    BY <1>3, <1>7 DEF Working, Fresh
  <1>9. ASSUME NEW m \in net, m.p = p, m.op = "icas" PROVE StaleMsg(m, Reading(s))
    <2>1. /\ m.arg[2].pid <= s.pid
          /\ \/ Past(m.arg[1]) \/ m.arg[2].pid < s.pid
             \/ Current(s, m.arg[1], m.arg[2])
      BY Zenon, <1>1, <1>9 DEF IcasInv, IcasMsg
    <2>2. Current(s, m.arg[1], m.arg[2]) => Current(Reading(s), m.arg[1], m.arg[2])
      BY Zenon, <1>7, <1>8 DEF Current
    <2> QED
      BY Zenon, <1>7, <2>1, <2>2 DEF StaleMsg
  <1> HIDE DEF A
  <1>10. Become(p, Reading(s), A)
    BY Zenon DEF A
  <1> QED
    BY <1>2, <1>3, <1>4, <1>5, <1>6, <1>9, <1>10, ReadingStep

\* The tuple of the item r, the claim of it under the process ID n, and the
\* process that claims it (callback_readmetadata).
ReadTuple(r) == Tuple(r.nextblk, r.deletedto, r.generation, r.lastblk, NoCallback)

ClaimOut(r, n) == {<<"icas", <<r, [r EXCEPT !.pid = n]>>>>}

Claiming(s, r, n) ==
    [s EXCEPT !.phase = "claiming", !.pid = n, !.stored = ReadTuple(r), !.out = ClaimOut(r, n)]

\* The fields of the process that claims.
ClaimingOf(t, s, r, n, y) ==
    /\ t \in Handling /\ t.phase = "claiming" /\ t.out = ClaimOut(r, n)
    /\ t.pid = n /\ t.stored.cb = NoCallback
    /\ y = Item(t.stored, n) /\ y \in ItemRec
    /\ t.append = s.append /\ t.gets = s.gets
    /\ t.ip = s.ip /\ t.N = s.N /\ t.M = s.M /\ t.flushed = s.flushed
    /\ t.write_inprogress = s.write_inprogress /\ t.write_wanted = s.write_wanted
    /\ t.shuttingdown = s.shuttingdown /\ t.conn = s.conn

\* What callback_readmetadata sets: the tuple it read, and a new process ID.
LEMMA ClaimingFields ==
    ASSUME NEW s \in Handling, NEW r \in ItemRec, NEW n \in Nat,
           NEW t, t = Claiming(s, r, n), NEW y, y = [r EXCEPT !.pid = n]
    PROVE  ClaimingOf(t, s, r, n, y)
  <1> DEFINE O == ClaimOut(r, n)
             T == ReadTuple(r)
  <1>1. T \in MTuple /\ T.cb = NoCallback
    BY DEF ReadTuple, Tuple, MTuple, ItemRec
  <1>2. y \in ItemRec /\ y = Item(T, n)
    BY DEF ReadTuple, Tuple, Item, ItemRec
  <1>3. O \in SUBSET Outs
    <2>1. <<r, y>> \in ItemRec \X ItemRec
      BY <1>2
    <2>2. <<"icas", <<r, y>>>> \in Outs
      BY <2>1 DEF Outs
    <2> QED
      BY Zenon, <2>2 DEF ClaimOut
  <1>4. /\ \A v \in Handling : [v EXCEPT !.phase = "claiming"] \in Handling
        /\ \A v \in Handling : [v EXCEPT !.pid = n] \in Handling
        /\ \A v \in Handling : \A x \in MTuple : [v EXCEPT !.stored = x] \in Handling
        /\ \A v \in Handling : \A x \in SUBSET Outs : [v EXCEPT !.out = x] \in Handling
    BY DEF Handling, ProcWith
  <1> HIDE DEF O, T
  <1>5. t = [[[[s EXCEPT !.phase = "claiming"] EXCEPT !.pid = n] EXCEPT !.stored = T]
               EXCEPT !.out = O]
    BY DEF Claiming, O, T
  <1>6. t \in Handling
    <2> DEFINE v1 == [s EXCEPT !.phase = "claiming"]
               v2 == [v1 EXCEPT !.pid = n]
               v3 == [v2 EXCEPT !.stored = T]
    <2>1. v1 \in Handling
      BY <1>4
    <2> HIDE DEF v1
    <2>2. v2 \in Handling
      BY <1>4, <2>1
    <2> HIDE DEF v2
    <2>3. v3 \in Handling
      BY <1>1, <1>4, <2>2
    <2>4. t = [v3 EXCEPT !.out = O]
      BY Zenon, <1>5 DEF v1, v2
    <2> HIDE DEF v3
    <2> QED
      BY <1>3, <1>4, <2>3, <2>4
  <1>7. /\ t.phase = "claiming" /\ t.out = O /\ t.pid = n /\ t.stored = T
        /\ t.append = s.append /\ t.gets = s.gets
        /\ t.ip = s.ip /\ t.N = s.N /\ t.M = s.M /\ t.flushed = s.flushed
        /\ t.write_inprogress = s.write_inprogress /\ t.write_wanted = s.write_wanted
        /\ t.shuttingdown = s.shuttingdown /\ t.conn = s.conn
    BY <1>6 DEF Handling, ProcWith, Claiming, O, T
  <1> QED
    BY Zenon, <1>1, <1>2, <1>6, <1>7 DEF O, T, ClaimingOf

\* callback_readmetadata, which claims the metadata: it keeps the invariant.
LEMMA ClaimStep ==
    ASSUME SetFacts, DynInv, NEW p \in Daemons, callback_readmetadata(p)
    PROVE  GoodStep
  <1>1. Types /\ IcasInv /\ ReadInv /\ Alone /\ OwnerInv
    BY Zenon DEF DynInv
  <1>2. PICK a \in ans :
          /\ a.p = p /\ a.op = "getmd" /\ pids' = pids + 1
          /\ Become(p, Claiming(proc[p], a.res, pids'), {a})
          /\ UNCHANGED <<dynamo, run, acked, freed, deleted, denied>>
    BY Zenon DEF callback_readmetadata, Claiming, ClaimOut, ReadTuple
  <1> DEFINE s == proc[p]
             A == {a}
  <1>3. PICK r : r = a.res
    BY Zenon
  <1>4. PICK n : n = pids'
    BY Zenon
  <1>5. PICK y : y = [r EXCEPT !.pid = n]
    BY Zenon
  <1>6. PICK t : t = Claiming(s, r, n)
    BY Zenon
  <1>7. s.phase = "reading" /\ r \in ItemRec /\ Good(r)
    BY Zenon, <1>1, <1>2, <1>3 DEF ReadInv
  <1>8. s.phase \in Early
    BY <1>7 DEF Early
  <1>9. s \in Handling /\ Fresh(s) /\ s.phase \notin Working /\ s.pid <= pids
    BY Zenon, <1>8, EarlyFacts
  <1>10. pids \in Nat /\ n \in Nat /\ n > pids /\ n > 0 /\ n = pids + 1
    BY <1>1, <1>2, <1>4 DEF Types
  <1>11. /\ t \in Handling /\ t.phase = "claiming" /\ t.out = ClaimOut(r, n)
         /\ t.pid = n /\ t.stored.cb = NoCallback
         /\ y = Item(t.stored, n) /\ y \in ItemRec
         /\ t.append = s.append /\ t.gets = s.gets
         /\ t.ip = s.ip /\ t.N = s.N /\ t.M = s.M /\ t.flushed = s.flushed
         /\ t.write_inprogress = s.write_inprogress /\ t.write_wanted = s.write_wanted
         /\ t.shuttingdown = s.shuttingdown /\ t.conn = s.conn
    <2>1. ClaimingOf(t, s, r, n, y)
      BY Zenon, <1>7, <1>9, <1>10, <1>5, <1>6, ClaimingFields
    <2> QED
      BY Zenon, <2>1 DEF ClaimingOf
  <1>12. /\ run' = run /\ freed' = freed /\ acked' = acked /\ denied' = denied
         /\ deleted' = deleted /\ UNCHANGED dynamo /\ md' = md
    BY <1>2 DEF dynamo
  <1>13. y.pid = n /\ Claim(r, y)
    <2>1. y.pid = n /\ r.pid \in Nat
      BY <1>7, <1>10, <1>5 DEF ItemRec
    <2>2. r.pid < y.pid
      BY <1>7, <1>10, <2>1 DEF Good
    <2>3. y = [r EXCEPT !.pid = y.pid]
      BY Zenon, <1>5, <2>1
    <2> QED
      BY Zenon, <2>1, <2>2, <2>3 DEF Claim
  <1>14. /\ y.lastblk = r.lastblk /\ y.nextblk = r.nextblk /\ y.deletedto = r.deletedto
    BY <1>7, <1>5 DEF ItemRec
  <1>15. t.out = {<<"icas", <<r, y>>>>}
    BY Zenon, <1>11, <1>5 DEF ClaimOut
  <1> HIDE DEF A
  <1>16. Step(p, t, A)
    <2>1. /\ run' \in Run /\ run'.maxblk = run.maxblk /\ pids' \in Nat /\ pids' >= pids
          /\ freed' \in Nat /\ freed' >= freed
      BY <1>1, <1>10, <1>12, <1>4 DEF Types
    <2>2. Become(p, t, A) /\ \A c \in A : c.p = p
      BY Zenon, <1>2, <1>3, <1>4, <1>6 DEF A
    <2> QED
      BY <1>1, <1>11, <1>12, <2>1, <2>2, BecomeStep
  <1>17. "claiming" # "off" /\ "claiming" \notin Working /\ "claiming" \in Early
         /\ "claiming" # "reading" /\ "icas" # "getmd"
    BY DEF Working, Early
  <1>18. Fresh(t)
    BY Zenon, <1>9, <1>10, <1>11, <1>17 DEF Fresh
  <1>19. OneProc(proc[p])'
    BY Zenon, <1>1, <1>11, <1>16, <1>17, <1>18, FreshOne
  <1>20. /\ \A o \in t.out : o[1] = "icas" /\ o[2] = <<r, y>>
         /\ \A o, q \in t.out : o = q
         /\ \E o \in t.out : o[1] = "icas"
    <2>1. <<"icas", <<r, y>>>>[1] = "icas" /\ <<"icas", <<r, y>>>>[2] = <<r, y>>
      OBVIOUS
    <2> QED
      BY Zenon, <1>15, <2>1
  <1>21. /\ \A m \in net : m.p = p /\ m.live => m.op \notin {"icas", "getmd"}
         /\ \A c \in ans \ A : c.p = p => c.op \notin {"icas", "getmd"}
    BY Zenon, <1>1, <1>2, MetadataOnce DEF A
  <1>22. Starting(p, t, A)
    <2>1. ~t.write_inprogress /\ t.append = NoAppend /\ t.gets = {} /\ t.ip = {}
      BY Zenon, <1>9, <1>11 DEF Fresh
    <2>2. t.pid > pids /\ t.pid <= pids'
      BY <1>10, <1>11, <1>4
    <2>3. t.phase \notin Working /\ t.phase # "reading"
      BY Zenon, <1>11, <1>17
    <2>4. \A o \in t.out : o[1] \in {"getmd", "icas"} /\ o[1] # "getmd"
      BY Zenon, <1>17, <1>20
    <2> QED
      BY Zenon, <1>8, <1>12, <1>16, <1>20, <1>21, <2>1, <2>2, <2>3, <2>4 DEF Starting
  <1>23. ASSUME NEW m \in net, m.p = p, m.op = "icas" PROVE StaleMsg(m, t)
    <2>1. m.arg[2].pid <= s.pid
      BY Zenon, <1>1, <1>23 DEF IcasInv, IcasMsg
    <2>2. m.arg \in ItemRec \X ItemRec
      BY Zenon, <1>1, <1>23 DEF Types, ArgOK
    <2>3. m.arg[2].pid \in Nat /\ s.pid \in Nat
      BY <1>9, <2>2 DEF ItemRec, Handling, ProcWith
    <2>4. m.arg[2].pid <= t.pid /\ m.arg[2].pid < t.pid
      BY <1>9, <1>10, <1>11, <2>1, <2>3
    <2> QED
      BY Zenon, <2>4 DEF StaleMsg
  <1>24. ASSUME NEW m \in net' \ net PROVE IcasMsg(m)'
    <2>1. m = Request(p, "icas", <<r, y>>)
      BY Zenon, <1>16, <1>20 DEF Step
    <2>2. m.p = p /\ m.arg[1] = r /\ m.arg[2] = y
      BY <2>1 DEF Request
    <2>3. Good(r)'
      BY Zenon, <1>1, <1>7, <1>16, StepStable
    <2>4. Good(y)'
      <3>1. y.pid <= pids'
        BY <1>10, <1>13, <1>4
      <3> QED
        BY Zenon, <1>14, <2>3, <3>1 DEF Good
    <2>5. \A q \in Daemons \ {p} : proc'[q].pid # y.pid
      <3> TAKE q \in Daemons \ {p}
      <3>1. proc'[q] = proc[q]
        BY Zenon, <1>16 DEF Step
      <3>2. proc[q].pid <= pids /\ proc[q].pid \in Nat
        BY <1>1 DEF OwnerInv, Types, ProcWith
      <3>3. proc[q].pid # y.pid
        BY <1>10, <1>13, <3>2
      <3> QED
        BY Zenon, <3>1, <3>3
    <2>6. /\ proc'[p].pid = n /\ proc'[p].stored = t.stored /\ proc'[p].phase = "claiming"
          /\ ~proc'[p].write_inprogress
      BY Zenon, <1>9, <1>11, <1>16 DEF Step, Settled, Fresh
    <2>7. y.pid <= proc'[p].pid /\ y.pid > 0
      BY <1>10, <1>13, <2>6
    <2>8. y = Item(proc'[p].stored, proc'[p].pid)
      BY Zenon, <1>11, <2>6
    <2>9. Current(proc'[p], r, y) /\ Asked(proc'[p], r, y)
      BY Zenon, <1>13, <1>17, <2>6, <2>8 DEF Current, Asked
    <2> QED
      BY Zenon, <1>13, <2>2, <2>3, <2>4, <2>5, <2>7, <2>9 DEF IcasMsg
  <1> QED
    BY Zenon, <1>19, <1>22, <1>23, <1>24, StartStep

\* Nothing stores an item again that a later one has replaced.
LEMMA PastBefore ==
    ASSUME md \in ItemRec, NEW x \in ItemRec, NEW y \in ItemRec,
           Claim(x, y) \/ Write(x, y), y = md \/ Past(y)
    PROVE  Past(x)
  <1>1. /\ x.generation \in Nat /\ x.pid \in Nat /\ y.generation \in Nat /\ y.pid \in Nat
        /\ md.generation \in Nat /\ md.pid \in Nat
    BY DEF ItemRec
  <1>2. \/ x.generation = y.generation /\ x.pid < y.pid
        \/ y.generation = x.generation + 1
    <2>1. CASE Claim(x, y)
      <3>1. y.generation = x.generation
        BY <2>1 DEF Claim, ItemRec
      <3> QED
        BY Zenon, <2>1, <3>1 DEF Claim
    <2>2. CASE Write(x, y)
      BY Zenon, <2>2 DEF Write
    <2> QED
      BY <2>1, <2>2
  <1>3. \/ y.generation = md.generation /\ y.pid = md.pid
        \/ y.generation < md.generation
        \/ y.generation = md.generation /\ y.pid < md.pid
    BY Zenon DEF Past
  <1> QED
    BY <1>1, <1>2, <1>3 DEF Past
=============================================================================
