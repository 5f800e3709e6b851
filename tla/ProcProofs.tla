----------------------------- MODULE ProcProofs -----------------------------
(***************************************************************************)
(* What holds of Proc for any number of slots, events and ticks: the ready  *)
(* list is one circle through the READY processes, the process tree hangs   *)
(* together, spaces, waiters and saved contexts are as they should be.      *)
(*                                                                         *)
(* First the operators of ReadyRing, for any process table; then the ready  *)
(* list, which with the types and with what the kernel's pending calls may  *)
(* still touch is an inductive invariant; then the rest, which rests on the *)
(* shape of the kernel's call stack while proc_exit recurses: the processes *)
(* that are being torn down are exactly the ZOMBIEs, and each is the father *)
(* of the one whose proc_exit it called.                                   *)
(***************************************************************************)
EXTENDS Proc, TLAPS

-----------------------------------------------------------------------------
(* The ready list: linking a process in and unlinking one keep it a circle  *)
(* through exactly its members.                                            *)

(* proc_ready's list part adds p to the circle.                            *)
LEMMA LinkRing ==
    ASSUME NEW r, NEW S \in SUBSET Pids, RingOf(r, S), NEW p \in Pids \ S
    PROVE  RingOf(Link(r, p), S \cup {p})
<1> DEFINE h == IF r.head = NULL THEN p ELSE r.head
           n == IF r.head = NULL THEN p ELSE r.next[r.head]
           l == Link(r, p)
<1>1. /\ r.next \in Links /\ r.prev \in Links /\ r.head \in Pids \cup {NULL}
      /\ NULL \notin Pids
  BY PidsAssumption DEF RingOf, Rings, NULL
<1>2. /\ h \in S \cup {p} /\ n \in S \cup {p}
      /\ S = {} => h = p /\ n = p
      /\ S # {} => h \in S /\ n \in S /\ r.prev[n] = h /\ r.next[h] = n
  BY <1>1 DEF RingOf
<1>3. /\ l.next = [r.next EXCEPT ![p] = n, ![h] = p]
      /\ l.prev = [r.prev EXCEPT ![p] = h, ![n] = p]
      /\ l.head = h
      /\ l = [next |-> l.next, prev |-> l.prev, head |-> l.head]
  BY DEF Link
<1> HIDE DEF h, n, l
<1>4. /\ l.next \in Links /\ l.prev \in Links
      /\ \A q \in Pids : l.next[q] = IF q = h THEN p ELSE IF q = p THEN n ELSE r.next[q]
      /\ \A q \in Pids : l.prev[q] = IF q = n THEN p ELSE IF q = p THEN h ELSE r.prev[q]
  BY <1>1, <1>2, <1>3 DEF Links
<1>5. l \in Rings
  BY <1>1, <1>2, <1>3, <1>4 DEF Rings
<1>6. \A q \in Pids \ (S \cup {p}) : l.next[q] = NULL /\ l.prev[q] = NULL
  BY <1>2, <1>4 DEF RingOf
<1>7. ASSUME NEW q \in S \cup {p}
      PROVE  /\ l.next[q] \in S \cup {p} /\ l.prev[l.next[q]] = q
             /\ l.prev[q] \in S \cup {p} /\ l.next[l.prev[q]] = q
  BY <1>2, <1>4 DEF RingOf
<1>8. l.head \in S \cup {p}
  BY <1>2, <1>3
<1>9. ASSUME NEW T \in SUBSET (S \cup {p}), T # {}, Closed(l, T)
      PROVE  T = S \cup {p}
  <2>1. CASE S = {}
    BY <2>1, <1>9
  <2>2. CASE S # {}
    <3> DEFINE U == T \ {p}
    <3>1. U # {}
      BY <2>2, <1>2, <1>4, <1>9 DEF Closed
    <3>2. Closed(r, U)
      BY <2>2, <1>2, <1>4, <1>9 DEF Closed, RingOf
    <3>3. U = S
      BY <3>1, <3>2 DEF RingOf
    <3>4. p \in T
      BY <2>2, <3>3, <1>2, <1>4, <1>9 DEF Closed
    <3> QED
      BY <3>3, <3>4
  <2> QED
    BY <2>1, <2>2
<1> QED
  BY <1>5, <1>6, <1>7, <1>8, <1>9 DEF RingOf, l

(* procs_init's empty list is a ring without members.                      *)
LEMMA EmptyRingIsRing == RingOf(EmptyRing, {})
BY DEF RingOf, EmptyRing, Rings, Links

(* proc_unready's list part takes p out of the circle.                     *)
LEMMA UnlinkRing ==
    ASSUME NEW r, NEW S \in SUBSET Pids, RingOf(r, S), NEW p \in S
    PROVE  RingOf(Unlink(r, p), S \ {p})
<1> DEFINE n == r.next[p]
           a == r.prev[p]
           u == Unlink(r, p)
<1>1. /\ r.next \in Links /\ r.prev \in Links
      /\ NULL \notin Pids
  BY PidsAssumption DEF RingOf, Rings, NULL
<1>2. n \in S /\ a \in S /\ r.prev[n] = p /\ r.next[a] = p
  BY DEF RingOf
<1>3. n = p \/ a = p => S = {p}
  <2>1. SUFFICES ASSUME n = p \/ a = p PROVE Closed(r, {p})
    BY DEF RingOf
  <2> QED
    BY <2>1, <1>2 DEF Closed
<1>4. /\ u.next = [q \in Pids |-> IF q = p THEN NULL ELSE IF q = a THEN n ELSE r.next[q]]
      /\ u.prev = [q \in Pids |-> IF q = p THEN NULL ELSE IF q = n THEN a ELSE r.prev[q]]
      /\ u.head = IF n = p THEN NULL ELSE n
      /\ u = [next |-> u.next, prev |-> u.prev, head |-> u.head]
  BY DEF Unlink
<1> HIDE DEF n, a, u
<1>5. /\ u.next \in Links /\ u.prev \in Links
      /\ \A q \in Pids : u.next[q] = IF q = p THEN NULL ELSE IF q = a THEN n ELSE r.next[q]
      /\ \A q \in Pids : u.prev[q] = IF q = p THEN NULL ELSE IF q = n THEN a ELSE r.prev[q]
  BY <1>1, <1>2, <1>4 DEF Links
<1>6. u \in Rings
  BY <1>2, <1>4, <1>5 DEF Rings
<1>7. \A q \in Pids \ (S \ {p}) : u.next[q] = NULL /\ u.prev[q] = NULL
  BY <1>2, <1>5 DEF RingOf
<1>8. ASSUME NEW q \in S \ {p}
      PROVE  /\ u.next[q] \in S \ {p} /\ u.prev[u.next[q]] = q
             /\ u.prev[q] \in S \ {p} /\ u.next[u.prev[q]] = q
  <2>1. /\ r.next[q] \in S /\ r.prev[r.next[q]] = q
        /\ r.prev[q] \in S /\ r.next[r.prev[q]] = q
    BY DEF RingOf
  <2>2. n # p /\ a # p
    BY <1>3
  <2>3. (r.next[q] = p => q = a) /\ (r.prev[q] = p => q = n)
    BY <2>1, <1>2 DEF a, n
  <2>4. (r.next[q] = n => q = p) /\ (r.prev[q] = a => q = p)
    BY <2>1, <1>2
  <2> QED
    BY <2>1, <2>2, <2>3, <2>4, <1>2, <1>5
<1>9. IF S \ {p} = {} THEN u.head = NULL ELSE u.head \in S \ {p}
  <2>1. CASE n = p
    BY <2>1, <1>3, <1>4
  <2>2. CASE n # p
    BY <2>2, <1>2, <1>4
  <2> QED
    BY <2>1, <2>2
<1>10. ASSUME NEW T \in SUBSET (S \ {p}), T # {}, Closed(u, T)
       PROVE  T = S \ {p}
  <2>1. a # p
    BY <1>3, <1>10
  <2>2. CASE a \in T
    <3>1. Closed(r, T \cup {p})
      BY <2>1, <2>2, <1>2, <1>5, <1>10 DEF Closed, n
    <3>2. T \cup {p} = S
      BY <3>1 DEF RingOf
    <3> QED
      BY <3>2
  <2>3. CASE a \notin T
    <3>1. Closed(r, T)
      BY <2>3, <1>5, <1>10 DEF Closed
    <3>2. T = S
      BY <3>1, <1>10 DEF RingOf
    <3> QED
      BY <3>2
  <2> QED
    BY <2>2, <2>3
<1> QED
  BY <1>6, <1>7, <1>8, <1>9, <1>10 DEF RingOf, u

-----------------------------------------------------------------------------
(* The ready list of Proc.                                                 *)

IInv == TypeOK /\ RingOK /\ PendingOK

Slots == Pids \cup {NULL}
Waking == {"SLEEPING", "WAIT", "BLOCK", "READY"}
ReadyIn(st) == {p \in Pids : st[p] = "READY"}

-----------------------------------------------------------------------------
(* Pending calls.                                                          *)

LEMMA CallTypes ==
    ASSUME NEW op \in {"exit", "free", "tick", "abort"}, NEW p \in Slots
    PROVE  Call(op, p) \in Calls /\ Call(op, p).op = op /\ Call(op, p).pid = p
BY DEF Calls, Call, Slots

(* Pushing a call.                                                         *)
LEMMA PushFrames ==
    ASSUME NEW f \in Calls, NEW s \in Seq(Calls)
    PROVE  /\ <<f>> \o s \in Seq(Calls) /\ <<f>> \o s # <<>>
           /\ Frames(<<f>> \o s) = {f} \cup Frames(s)
           /\ Head(<<f>> \o s) = f /\ Tail(<<f>> \o s) = s
<1> DEFINE t == <<f>> \o s
<1>1. /\ t \in Seq(Calls) /\ Len(t) = 1 + Len(s) /\ Len(s) \in Nat
      /\ t[1] = f /\ \A i \in 1 .. Len(s) : t[i + 1] = s[i]
  OBVIOUS
<1>2. Head(t) = f /\ t # <<>> /\ Tail(t) = s
  OBVIOUS
<1> HIDE DEF t
<1>3. Frames(t) \subseteq {f} \cup Frames(s)
  <2> SUFFICES ASSUME NEW i \in 1 .. Len(t), i # 1 PROVE t[i] \in Frames(s)
    BY <1>1 DEF Frames
  <2>1. i - 1 \in 1 .. Len(s) /\ t[i] = s[i - 1]
    BY <1>1
  <2> QED
    BY <2>1 DEF Frames
<1>4. {f} \cup Frames(s) \subseteq Frames(t)
  <2>1. f \in Frames(t)
    BY <1>1 DEF Frames
  <2>2. ASSUME NEW i \in 1 .. Len(s) PROVE s[i] \in Frames(t)
    <3>1. i + 1 \in 1 .. Len(t)
      BY <1>1
    <3> QED
      BY <3>1, <1>1 DEF Frames
  <2> QED
    BY <2>1, <2>2 DEF Frames
<1> QED
  BY <1>1, <1>2, <1>3, <1>4 DEF t

(* Finishing one.                                                          *)
LEMMA PopFrames ==
    ASSUME NEW s \in Seq(Calls), s # <<>>
    PROVE  /\ Head(s) \in Calls /\ Head(s) \in Frames(s)
           /\ Tail(s) \in Seq(Calls) /\ Frames(Tail(s)) \subseteq Frames(s)
<1>1. /\ Len(s) \in Nat /\ Len(s) >= 1 /\ Head(s) = s[1] /\ s[1] \in Calls
      /\ Tail(s) \in Seq(Calls) /\ Len(Tail(s)) = Len(s) - 1
      /\ \A i \in 1 .. Len(Tail(s)) : Tail(s)[i] = s[i + 1]
  OBVIOUS
<1>2. ASSUME NEW i \in 1 .. Len(Tail(s)) PROVE Tail(s)[i] \in Frames(s)
  <2>1. i + 1 \in 1 .. Len(s)
    BY <1>1
  <2> QED
    BY <2>1, <1>1 DEF Frames
<1> QED
  BY <1>1, <1>2 DEF Frames

LEMMA EmptyStack == ASSUME NEW st PROVE StackOK(st, <<>>) /\ Calm(<<>>)
BY DEF StackOK, Calm, Frames

(* A call of another kind than "ready" on top of such calls.               *)
LEMMA PushStack ==
    ASSUME NEW st, NEW s \in Seq(Calls), StackOK(st, s), Calm(s),
           NEW f \in Calls, f.op # "ready",
           f.op \in {"exit", "free"} =>
               f.pid \in Pids \ {0} /\ st[f.pid] \in {"ZOMBIE", "UNUSED"}
    PROVE  StackOK(st, <<f>> \o s) /\ Calm(<<f>> \o s) /\ <<f>> \o s \in Seq(Calls)
BY PushFrames DEF StackOK, Calm

(* The readying of a set of processes on top of other calls.               *)
LEMMA PushReady ==
    ASSUME NEW st, NEW s \in Seq(Calls), StackOK(st, s), Calm(s),
           NEW S \in SUBSET Pids, \A p \in S : st[p] \in Waking
    PROVE  StackOK(st, CallReady(S) \o s) /\ CallReady(S) \o s \in Seq(Calls)
<1>1. CASE S = {}
  BY <1>1 DEF CallReady
<1>2. CASE S # {}
  <2> DEFINE f == [op |-> "ready", pid |-> NULL, pids |-> S, events |-> {}]
  <2>1. CallReady(S) = <<f>> /\ f \in Calls /\ f.op = "ready" /\ f.pids = S
    BY <1>2 DEF CallReady, Calls
  <2> HIDE DEF f
  <2> QED
    BY <2>1, PushFrames DEF StackOK, Calm, Waking
<1> QED
  BY <1>1, <1>2

LEMMA PushClose ==
    ASSUME NEW st, NEW s \in Seq(Calls), StackOK(st, s), Calm(s), NEW E \in SUBSET Events
    PROVE  /\ StackOK(st, CallClose(E) \o s) /\ Calm(CallClose(E) \o s)
           /\ CallClose(E) \o s \in Seq(Calls)
<1>1. CASE E = {}
  BY <1>1 DEF CallClose
<1>2. CASE E # {}
  <2> DEFINE f == [op |-> "close", pid |-> NULL, pids |-> {}, events |-> E]
  <2>1. CallClose(E) = <<f>> /\ f \in Calls /\ f.op = "close"
    BY <1>2 DEF CallClose, Calls
  <2> HIDE DEF f
  <2> QED
    BY <2>1, PushStack
<1> QED
  BY <1>1, <1>2

LEMMA PopStack ==
    ASSUME NEW st, NEW s \in Seq(Calls), s # <<>>, StackOK(st, s)
    PROVE  /\ StackOK(st, Tail(s)) /\ Calm(Tail(s)) /\ Tail(s) \in Seq(Calls)
           /\ Head(s).op # "ready" => Calm(s)
<1>1. /\ Head(s) \in Frames(s) /\ Tail(s) \in Seq(Calls)
      /\ Frames(Tail(s)) \subseteq Frames(s)
  BY PopFrames
<1>2. Calm(Tail(s))
  BY DEF StackOK
<1>3. StackOK(st, Tail(s))
  <2>1. ASSUME Tail(s) # <<>>
        PROVE  /\ Calm(Tail(Tail(s))) /\ Head(Tail(s)).op # "ready"
    BY <2>1, <1>1, <1>2, PopFrames DEF Calm
  <2> QED
    BY <2>1, <1>1 DEF StackOK
<1>4. ASSUME Head(s).op # "ready" PROVE Calm(s)
  <2>1. Frames(s) = {Head(s)} \cup Frames(Tail(s))
    <3>1. s = <<Head(s)>> \o Tail(s) /\ Head(s) \in Calls
      BY PopFrames
    <3> QED
      BY <3>1, <1>1, PushFrames
  <2> QED
    BY <2>1, <1>2, <1>4 DEF Calm
<1> QED
  BY <1>1, <1>2, <1>3, <1>4

(* The invariant of the stack survives a change of state that leaves dead   *)
(* processes dead, when no "ready" call is pending.                        *)
LEMMA StackMono ==
    ASSUME NEW st, NEW st1, NEW s \in Seq(Calls), StackOK(st, s), Calm(s),
           \A p \in Pids : st[p] \in {"ZOMBIE", "UNUSED"} => st1[p] \in {"ZOMBIE", "UNUSED"}
    PROVE  StackOK(st1, s)
<1>1. s # <<>> => Head(s).op # "ready"
  BY PopFrames DEF Calm
<1> QED
  BY <1>1 DEF StackOK

-----------------------------------------------------------------------------
(* The scheduler and the start of proc_exit.                               *)

LEMMA SlotFacts == NULL \notin Pids /\ 0 \in Pids /\ 0 \in Slots /\ NULL \in Slots
BY PidsAssumption DEF NULL, Slots

(* Whatever a handler has done to the states and the list, schedule leaves  *)
(* them agreeing, changes no state but that of process 0, and picks a READY *)
(* process.                                                                *)
LEMMA ScheduleLemma ==
    ASSUME TypeOK, NEW cur \in Slots, NEW st \in [Pids -> States], NEW r,
           RingOf(r, ReadyIn(st)), NEW sv \in [Pids -> Slots],
           st[0] \notin {"UNUSED", "ZOMBIE", "CREATED"},
           Schedule(cur, st, r, sv)
    PROVE  /\ state' \in [Pids -> States]
           /\ RingOf(ring', ReadyIn(state'))
           /\ current' \in Pids /\ state'[current'] = "READY"
           /\ frame' \in Slots
           /\ saved' \in [Pids -> Slots]
           /\ \A p \in Pids : state'[p] = st[p] \/ (p = 0 /\ state'[p] = "READY")
<1> DEFINE S == ReadyIn(st)
           cand == IF cur # NULL /\ r.next[cur] # NULL THEN r.next[cur] ELSE r.head
<1>1. /\ r.next \in [Pids -> Slots] /\ r.head \in Slots /\ S \subseteq Pids
      /\ \A p \in Pids : r.next[p] # NULL => r.next[p] \in S
      /\ r.head # NULL => r.head \in S
      /\ r.head = NULL => S = {}
  BY SlotFacts DEF RingOf, Rings, Links, Slots, ReadyIn
<1>2. frame \in Slots
  BY DEF TypeOK, Slots
<1>3. cand \in Slots /\ (cand # NULL => cand \in S) /\ (cand = NULL => S = {})
  BY <1>1 DEF Slots
<1>4. CASE cand # NULL
  <2>1. /\ state' = st /\ ring' = r
        /\ current' = IF cand = cur THEN cur ELSE cand
        /\ frame' = IF cand = cur THEN frame ELSE sv[cand]
        /\ saved' = IF cand = cur \/ cur = NULL \/ st[cur] = "UNUSED" THEN sv
                    ELSE [sv EXCEPT ![cur] = frame]
    BY <1>4 DEF Schedule
  <2>2. cand \in Pids /\ st[cand] = "READY"
    BY <1>3, <1>4 DEF ReadyIn
  <2>3. frame' \in Slots
    BY <2>1, <2>2, <1>2
  <2>4. saved' \in [Pids -> Slots]
    BY <2>1, <1>2
  <2> HIDE DEF cand
  <2> QED
    BY <2>1, <2>2, <2>3, <2>4
<1>5. CASE cand = NULL
  <2>1. S = {} /\ st[0] # "READY"
    BY <1>3, <1>5, SlotFacts DEF ReadyIn
  <2>2. /\ state' = [st EXCEPT ![0] = "READY"] /\ ring' = Link(r, 0)
        /\ current' = IF 0 = cur THEN cur ELSE 0
        /\ frame' = IF 0 = cur THEN frame ELSE sv[0]
        /\ saved' = IF 0 = cur \/ cur = NULL \/ st[cur] = "UNUSED" THEN sv
                    ELSE [sv EXCEPT ![cur] = frame]
    BY <1>5, <2>1 DEF Schedule
  <2>3. state' \in [Pids -> States] /\ state'[0] = "READY"
        /\ \A p \in Pids : state'[p] = st[p] \/ (p = 0 /\ state'[p] = "READY")
    BY <2>2, SlotFacts DEF States
  <2>4. ReadyIn(state') = S \cup {0}
    BY <2>1, <2>2, SlotFacts DEF ReadyIn
  <2>5. RingOf(ring', ReadyIn(state'))
    <3>1. 0 \in Pids \ S /\ S \in SUBSET Pids
      BY <2>1, <1>1, SlotFacts
    <3> HIDE DEF S
    <3>2. RingOf(Link(r, 0), S \cup {0})
      BY <3>1, LinkRing DEF S
    <3> QED
      BY <2>2, <2>4, <3>2
  <2>6. frame' \in Slots /\ saved' \in [Pids -> Slots] /\ current' = 0
    BY <2>2, <1>2, SlotFacts
  <2> QED
    BY <2>3, <2>5, <2>6, SlotFacts
<1> QED
  BY <1>4, <1>5

(* A process that stops being READY is unlinked.                           *)
LEMMA UnlinkReady ==
    ASSUME TypeOK, RingOK, NEW p \in Pids, state[p] = "READY",
           NEW s \in States \ {"READY"}
    PROVE  /\ [state EXCEPT ![p] = s] \in [Pids -> States]
           /\ RingOf(Unlink(ring, p), ReadyIn([state EXCEPT ![p] = s]))
<1>1. ReadyIn([state EXCEPT ![p] = s]) = ReadySet \ {p}
  BY DEF TypeOK, ReadyIn, ReadySet
<1>2. p \in ReadySet /\ ReadySet \in SUBSET Pids
  BY DEF ReadySet
<1>3. RingOf(Unlink(ring, p), ReadySet \ {p})
  BY <1>2, UnlinkRing DEF RingOK
<1> QED
  BY <1>1, <1>3 DEF TypeOK

(* A process that becomes READY is linked.                                 *)
LEMMA LinkReady ==
    ASSUME TypeOK, RingOK, NEW p \in Pids, state[p] # "READY"
    PROVE  /\ [state EXCEPT ![p] = "READY"] \in [Pids -> States]
           /\ RingOf(Link(ring, p), ReadyIn([state EXCEPT ![p] = "READY"]))
<1>1. ReadyIn([state EXCEPT ![p] = "READY"]) = ReadySet \cup {p}
  BY DEF TypeOK, ReadyIn, ReadySet
<1>2. p \in Pids \ ReadySet /\ ReadySet \in SUBSET Pids
  BY DEF ReadySet
<1>3. RingOf(Link(ring, p), ReadySet \cup {p})
  BY <1>2, LinkRing DEF RingOK
<1> QED
  BY <1>1, <1>3 DEF TypeOK, States

LEMMA TrappedType == TypeOK => Trapped \in [Pids -> Slots]
BY DEF TypeOK, Trapped, Slots

(* The running process gives up the CPU.                                   *)
LEMMA SuspendLemma ==
    ASSUME IInv, kstk = <<>>, current # NULL, NEW s \in {"SLEEPING", "WAIT", "BLOCK"},
           Suspend(s)
    PROVE  /\ state' \in [Pids -> States]
           /\ RingOf(ring', ReadyIn(state'))
           /\ current' \in Pids /\ state'[current'] = "READY"
           /\ frame' \in Slots
           /\ saved' \in [Pids -> Slots]
           /\ state'[0] \notin {"UNUSED", "ZOMBIE", "CREATED"}
<1>1. TypeOK /\ RingOK /\ PendingOK /\ current \in Pids /\ current \in Slots
  BY DEF IInv, TypeOK, Slots
<1>2. state[current] = "READY" /\ s \in States \ {"READY"}
  BY <1>1 DEF PendingOK, States
<1> DEFINE st == [state EXCEPT ![current] = s]
<1>3. st \in [Pids -> States] /\ RingOf(Unlink(ring, current), ReadyIn(st))
  BY <1>1, <1>2, UnlinkReady
<1>4. st[0] \notin {"UNUSED", "ZOMBIE", "CREATED"}
  BY <1>1, SlotFacts DEF PendingOK, TypeOK
<1>5. Schedule(current, st, Unlink(ring, current), Trapped)
  BY DEF Suspend
<1> HIDE DEF st
<1> QED
  BY <1>1, <1>3, <1>4, <1>5, TrappedType, ScheduleLemma, SlotFacts

(* The start of proc_exit(p) keeps the ring and the pending calls sane.     *)
LEMMA TerminateLemma ==
    ASSUME IInv, NEW p \in Pids \ {0}, NEW sv \in [Pids -> Slots],
           NEW rest \in Seq(Calls), StackOK(state, rest), Calm(rest),
           Terminate(p, sv, rest), father' = father
    PROVE  /\ state' \in [Pids -> States] /\ kstk' \in Seq(Calls)
           /\ RingOf(ring', ReadyIn(state'))
           /\ current' \in Slots /\ frame' \in Slots /\ saved' \in [Pids -> Slots]
           /\ PendingOK'
<1>0. TypeOK /\ RingOK /\ PendingOK /\ p \in Pids /\ p \in Slots /\ p # 0
  BY DEF IInv, Slots
<1>1. CASE state[p] \in {"ZOMBIE", "UNUSED"}
  <2>1. /\ kstk' = <<Call("free", p)>> \o rest /\ saved' = sv /\ state' = state
        /\ ring' = ring /\ current' = current /\ frame' = frame
    BY <1>1 DEF Terminate
  <2>2. StackOK(state, <<Call("free", p)>> \o rest) /\ kstk' \in Seq(Calls)
    BY <1>0, <1>1, <2>1, CallTypes, PushStack
  <2>3. PendingOK'
    BY <2>1, <2>2, <1>0 DEF PendingOK
  <2> QED
    BY <2>1, <2>2, <2>3, <1>0 DEF TypeOK, RingOK, ReadySet, ReadyIn, Slots
<1>2. CASE state[p] \notin {"ZOMBIE", "UNUSED"}
  <2> DEFINE dead == [state EXCEPT ![p] = "ZOMBIE"]
  <2>1. kstk' = <<Call("exit", p)>> \o rest
    BY <1>2 DEF Terminate
  <2>2. dead \in [Pids -> States] /\ dead[p] = "ZOMBIE"
        /\ \A q \in Pids \ {p} : dead[q] = state[q]
    BY <1>0 DEF TypeOK, States
  <2>3. dead[0] \notin {"UNUSED", "ZOMBIE", "CREATED"}
    BY <2>2, <1>0, SlotFacts DEF PendingOK
  <2>4. state[p] = "READY" => RingOf(Unlink(ring, p), ReadyIn(dead))
    BY <1>0, UnlinkReady DEF States
  <2>5. state[p] # "READY" => ReadyIn(dead) = ReadySet
    BY <2>2 DEF ReadyIn, ReadySet
  <2>6. CASE state[p] = "READY" /\ p = current
    <3>1. Schedule(current, dead, Unlink(ring, p), sv)
      BY <1>2, <2>6 DEF Terminate
    <3> HIDE DEF dead
    <3>2. /\ state' \in [Pids -> States]
          /\ RingOf(ring', ReadyIn(state'))
          /\ current' \in Pids /\ state'[current'] = "READY"
          /\ frame' \in Slots
          /\ saved' \in [Pids -> Slots]
          /\ \A q \in Pids : state'[q] = dead[q] \/ (q = 0 /\ state'[q] = "READY")
      BY <1>0, <2>2, <2>3, <2>4, <2>6, <3>1, ScheduleLemma
    <3>3. /\ state'[0] \notin {"UNUSED", "ZOMBIE", "CREATED"} /\ state'[p] = "ZOMBIE"
          /\ \A q \in Pids : state[q] \in {"ZOMBIE", "UNUSED"} => state'[q] = state[q]
      BY <3>2, <2>2, <2>3, <1>0, SlotFacts DEF PendingOK
    <3>4. StackOK(state', rest)
      BY <3>3, StackMono
    <3>5. StackOK(state', kstk') /\ kstk' \in Seq(Calls)
      BY <1>0, <2>1, <3>3, <3>4, CallTypes, PushStack
    <3>6. PendingOK'
      BY <3>2, <3>3, <3>5, <1>0 DEF PendingOK
    <3> QED
      BY <3>2, <3>5, <3>6 DEF Slots
  <2>7. CASE ~(state[p] = "READY" /\ p = current)
    <3>1. /\ state' = dead
          /\ ring' = IF state[p] = "READY" THEN Unlink(ring, p) ELSE ring
          /\ saved' = IF state[p] = "READY" THEN [sv EXCEPT ![p] = frame] ELSE sv
          /\ current' = current /\ frame' = frame
      BY <1>2, <2>7 DEF Terminate
    <3>2. RingOf(ring', ReadyIn(state'))
      BY <3>1, <2>4, <2>5, <1>0 DEF RingOK
    <3>3. saved' \in [Pids -> Slots] /\ current' \in Slots /\ frame' \in Slots
      BY <3>1, <1>0 DEF TypeOK, Slots
    <3>4. /\ state'[0] \notin {"UNUSED", "ZOMBIE", "CREATED"} /\ state'[p] = "ZOMBIE"
          /\ \A q \in Pids : state[q] \in {"ZOMBIE", "UNUSED"} => state'[q] \in {"ZOMBIE", "UNUSED"}
      BY <3>1, <2>2, <2>3
    <3>5. StackOK(state', rest)
      BY <3>4, StackMono
    <3>6. StackOK(state', kstk') /\ kstk' \in Seq(Calls)
      BY <1>0, <2>1, <3>4, <3>5, CallTypes, PushStack
    <3>7. current' # NULL => state'[current'] = "READY"
      BY <3>1, <2>2, <2>7, <1>0 DEF PendingOK, TypeOK
    <3>8. PendingOK'
      BY <3>4, <3>6, <3>7, <1>0 DEF PendingOK
    <3> QED
      BY <3>1, <3>2, <3>3, <3>6, <3>8, <2>2
  <2> QED
    BY <2>6, <2>7
<1> QED
  BY <1>1, <1>2

-----------------------------------------------------------------------------
(* Every step keeps the invariant.                                         *)

LEMMA ReadySetIs == ReadySet = ReadyIn(state) /\ ReadySet' = ReadyIn(state')
BY DEF ReadySet, ReadyIn

LEMMA InitIInv == Init => IInv
<1> SUFFICES ASSUME Init PROVE IInv
  OBVIOUS
<1>1. ReadySet = {0}
  BY SlotFacts DEF Init, ReadySet
<1>2. RingOf(ring, {} \cup {0})
  BY SlotFacts, EmptyRingIsRing, LinkRing DEF Init
<1>3. RingOK
  <2>1. {} \cup {0} = {0}
    OBVIOUS
  <2> QED
    BY <1>1, <1>2, <2>1 DEF RingOK
<1>4. TypeOK
  <2>1. ring \in Rings
    BY <1>2 DEF RingOf
  <2>2. kstk \in Seq(Calls)
    BY DEF Init
  <2> QED
    BY <2>1, <2>2, SlotFacts, ProcAssumption DEF Init, TypeOK, States
<1>5. PendingOK
  BY EmptyStack, SlotFacts DEF Init, PendingOK
<1> QED
  BY <1>3, <1>4, <1>5 DEF IInv

(* fork and thread creation: a free slot is neither process 0 nor READY.    *)
LEMMA NewProcIInv ==
    ASSUME IInv, Syscall, NEW c \in Pids, NEW t \in {"PROC", "THREAD"},
           NEW s \in {"READY", "CREATED"}, NewProc(c, t, s),
           ring' = IF s = "READY" THEN Link(ring, c) ELSE ring,
           saved' \in [Pids -> Slots]
    PROVE  IInv'
<1>1. /\ TypeOK /\ RingOK /\ PendingOK /\ kstk = <<>> /\ kstk' = kstk
      /\ current \in Pids /\ state[c] = "UNUSED" /\ c # 0 /\ c \in Slots
      /\ state' = [state EXCEPT ![c] = s]
      /\ father' = [father EXCEPT ![c] = current]
      /\ current' = current /\ frame' = frame
  BY SlotFacts DEF IInv, Syscall, NewProc, First, Live, PendingOK, TypeOK, Slots
<1>2. RingOf(ring', ReadyIn(state'))
  <2>1. CASE s = "READY"
    BY <1>1, <2>1, LinkReady
  <2>2. CASE s = "CREATED"
    <3>1. ReadyIn(state') = ReadySet
      BY <1>1, <2>2 DEF ReadyIn, ReadySet, TypeOK
    <3> QED
      BY <1>1, <2>2, <3>1 DEF RingOK
  <2> QED
    BY <2>1, <2>2
<1>3. RingOK' /\ ring' \in Rings
  BY <1>2, ReadySetIs DEF RingOK, RingOf
<1>4. PendingOK'
  BY <1>1, EmptyStack, SlotFacts DEF PendingOK, TypeOK
<1>5. /\ type' \in [Pids -> {"PROC", "THREAD"}]
      /\ space' \in [Pids -> Pids \cup {NULL}]
      /\ wait' \in [Pids -> Pids] /\ event' \in [Pids -> Events \cup {0}]
      /\ sleep' \in [Pids -> 0 .. SLEEP_MAX]
      /\ critical' \in [Pids -> 0 .. CRITICAL_MAX]
  BY <1>1, SlotFacts, ProcAssumption DEF NewProc, Clear, TypeOK, Slots
<1>6. TypeOK'
  BY <1>1, <1>3, <1>5 DEF TypeOK, States, Slots
<1> QED
  BY <1>3, <1>4, <1>6 DEF IInv

(* A system call that gives up the CPU.                                    *)
LEMMA SuspendIInv ==
    ASSUME IInv, Syscall, NEW s \in {"SLEEPING", "WAIT", "BLOCK"}, Suspend(s),
           UNCHANGED <<type, father, space, critical, kstk>>,
           wait' \in [Pids -> Pids], event' \in [Pids -> Events \cup {0}],
           sleep' \in [Pids -> 0 .. SLEEP_MAX]
    PROVE  IInv'
<1>1. kstk = <<>> /\ current # NULL /\ TypeOK /\ PendingOK
  BY DEF Syscall, IInv
<1>2. /\ state' \in [Pids -> States]
      /\ RingOf(ring', ReadyIn(state'))
      /\ current' \in Pids /\ state'[current'] = "READY"
      /\ frame' \in Slots
      /\ saved' \in [Pids -> Slots]
      /\ state'[0] \notin {"UNUSED", "ZOMBIE", "CREATED"}
  BY <1>1, SuspendLemma
<1>3. RingOK' /\ ring' \in Rings
  BY <1>2, ReadySetIs DEF RingOK, RingOf
<1>4. PendingOK'
  BY <1>1, <1>2, EmptyStack DEF PendingOK
<1>5. TypeOK'
  BY <1>1, <1>2, <1>3 DEF TypeOK, Slots
<1> QED
  BY <1>3, <1>4, <1>5 DEF IInv

(* The start of proc_exit, from a system call or from proc_exit itself.     *)
LEMMA TerminateIInv ==
    ASSUME IInv, NEW p \in Pids \ {0}, NEW sv \in [Pids -> Slots],
           NEW rest \in Seq(Calls), StackOK(state, rest), Calm(rest),
           Terminate(p, sv, rest), UNCHANGED fields
    PROVE  IInv'
<1>1. TypeOK /\ father' = father
  BY DEF IInv, fields
<1>2. /\ state' \in [Pids -> States] /\ kstk' \in Seq(Calls)
      /\ RingOf(ring', ReadyIn(state'))
      /\ current' \in Slots /\ frame' \in Slots /\ saved' \in [Pids -> Slots]
      /\ PendingOK'
  BY <1>1, TerminateLemma
<1>3. RingOK' /\ ring' \in Rings
  BY <1>2, ReadySetIs DEF RingOK, RingOf
<1>4. TypeOK'
  BY <1>1, <1>2, <1>3 DEF TypeOK, fields, Slots
<1> QED
  BY <1>2, <1>3, <1>4 DEF IInv

(* A handler's end in schedule.                                            *)
LEMMA ScheduleIInv ==
    ASSUME IInv, NEW cur \in Slots, NEW sv \in [Pids -> Slots],
           Schedule(cur, state, ring, sv), kstk' \in Seq(Calls),
           StackOK(state, kstk'), Calm(kstk'),
           UNCHANGED <<type, father, space, wait, event, sleep>>,
           critical' \in [Pids -> 0 .. CRITICAL_MAX]
    PROVE  IInv'
<1>1. TypeOK /\ RingOK /\ PendingOK
  BY DEF IInv
<1>2. state \in [Pids -> States] /\ RingOf(ring, ReadyIn(state))
      /\ state[0] \notin {"UNUSED", "ZOMBIE", "CREATED"}
  BY <1>1, ReadySetIs DEF TypeOK, RingOK, PendingOK
<1>3. /\ state' \in [Pids -> States]
      /\ RingOf(ring', ReadyIn(state'))
      /\ current' \in Pids /\ state'[current'] = "READY"
      /\ frame' \in Slots
      /\ saved' \in [Pids -> Slots]
      /\ \A p \in Pids : state'[p] = state[p] \/ (p = 0 /\ state'[p] = "READY")
  BY <1>1, <1>2, ScheduleLemma
<1>4. RingOK' /\ ring' \in Rings
  BY <1>3, ReadySetIs DEF RingOK, RingOf
<1>5. StackOK(state', kstk')
  <2>1. \A p \in Pids : state[p] \in {"ZOMBIE", "UNUSED"} => state'[p] \in {"ZOMBIE", "UNUSED"}
    BY <1>2, <1>3
  <2> QED
    BY <2>1, StackMono
<1>6. PendingOK'
  BY <1>1, <1>2, <1>3, <1>5, SlotFacts DEF PendingOK
<1>7. TypeOK'
  BY <1>1, <1>3, <1>4 DEF TypeOK, Slots
<1> QED
  BY <1>4, <1>6, <1>7 DEF IInv

(* A step that leaves states, list and stack alone.                        *)
LEMMA QuietIInv ==
    ASSUME IInv, UNCHANGED <<state, ring, current, frame, kstk, type, space, wait, event, sleep>>,
           saved' \in [Pids -> Slots], critical' \in [Pids -> 0 .. CRITICAL_MAX],
           father' \in [Pids -> Slots], father'[0] \in {NULL, 0}
    PROVE  IInv'
<1>1. ReadySet' = ReadySet
  BY DEF ReadySet
<1> QED
  BY <1>1 DEF IInv, TypeOK, RingOK, PendingOK, Slots

LEMMA UserIInv == ASSUME IInv, User PROVE IInv'
<1>1. TypeOK /\ RingOK /\ PendingOK /\ Trapped \in [Pids -> Slots]
  BY TrappedType DEF IInv
<1>2. ASSUME Syscall
      PROVE  /\ kstk = <<>> /\ kstk \in Seq(Calls) /\ current \in Pids
             /\ current \in Slots /\ state[current] = "READY"
             /\ StackOK(state, <<>>) /\ Calm(<<>>) /\ <<>> \in Seq(Calls)
  BY <1>1, <1>2, EmptyStack DEF Syscall, TypeOK, PendingOK, Slots
<1>3. ASSUME NEW t \in {"PROC", "THREAD"}, Fork(t) PROVE IInv'
  <2> PICK c \in Pids : /\ NewProc(c, t, "READY") /\ ring' = Link(ring, c)
                         /\ saved' = [Trapped EXCEPT ![c] = c]
    BY <1>3 DEF Fork
  <2>1. saved' \in [Pids -> Slots]
    BY <1>1 DEF Slots
  <2> QED
    BY <1>3, <2>1, NewProcIInv DEF Fork
<1>4. CASE ForkFail
  <2> PICK c \in Pids : NewProc(c, "PROC", "CREATED") /\ ring' = ring /\ saved' = Trapped
    BY <1>4 DEF ForkFail
  <2> QED
    BY <1>1, <1>4, NewProcIInv DEF ForkFail
<1>5. CASE Exec
  BY <1>1, <1>5, QuietIInv DEF Exec, fields, TypeOK, PendingOK, Slots
<1>6. CASE Detach
  <2>1. father' \in [Pids -> Slots] /\ father'[0] \in {NULL, 0}
    BY <1>1, <1>6, SlotFacts DEF Detach, TypeOK, PendingOK, Slots
  <2> QED
    BY <1>1, <1>6, <2>1, QuietIInv DEF Detach, TypeOK
<1>7. CASE Exit
  BY <1>1, <1>2, <1>7, TerminateIInv DEF Exit
<1>8. CASE Yield
  <2>1. /\ Schedule(current, state, ring, Trapped) /\ kstk' = kstk
        /\ UNCHANGED <<type, father, space, wait, event, sleep>> /\ critical' = critical
    BY <1>8 DEF Yield, fields
  <2> QED
    BY <1>1, <1>2, <1>8, <2>1, ScheduleIInv DEF Yield, TypeOK
<1>9. ASSUME NEW p \in Pids, Kill(p) PROVE IInv'
  <2>1. p \in Pids \ {0}
    BY <1>9 DEF Kill
  <2> QED
    BY <1>1, <1>2, <1>9, <2>1, TerminateIInv DEF Kill
<1>10. ASSUME NEW p \in Pids, WaitPid(p) PROVE IInv'
  <2>1. wait' \in [Pids -> Pids]
    BY <1>1, <1>10 DEF WaitPid, TypeOK
  <2> QED
    BY <1>1, <1>10, <2>1, SuspendIInv DEF WaitPid, TypeOK
<1>11. ASSUME NEW n \in 1 .. SLEEP_MAX, Usleep(n) PROVE IInv'
  <2>0. n \in 0 .. SLEEP_MAX
    BY ProcAssumption
  <2>1. sleep' \in [Pids -> 0 .. SLEEP_MAX]
    BY <1>1, <1>11, <2>0 DEF Usleep, TypeOK
  <2> QED
    BY <1>1, <1>11, <2>1, SuspendIInv DEF Usleep, TypeOK
<1>12. ASSUME NEW e \in Events, BlockOn(e) PROVE IInv'
  <2>1. event' \in [Pids -> Events \cup {0}]
    BY <1>1, <1>12 DEF BlockOn, TypeOK
  <2> QED
    BY <1>1, <1>12, <2>1, SuspendIInv DEF BlockOn, TypeOK
<1>13. ASSUME NEW e \in Events, Wakeup(e) PROVE IInv'
  <2> DEFINE W == {p \in {q \in Pids : state[q] = "BLOCK" /\ event[q] = e} : sleep[p] = 0}
  <2>1. /\ kstk' = CallReady(W) \o <<>> /\ W \in SUBSET Pids
        /\ \A p \in W : state[p] \in Waking
        /\ event' \in [Pids -> Events \cup {0}]
        /\ saved' = Trapped
        /\ UNCHANGED <<state, ring, current, frame, type, father, space, wait, sleep, critical>>
    BY <1>1, <1>13 DEF Wakeup, Wake, Waking, TypeOK
  <2> HIDE DEF W
  <2>2. StackOK(state, kstk') /\ kstk' \in Seq(Calls)
    BY <1>2, <1>13, <2>1, PushReady DEF Wakeup
  <2>3. ReadySet' = ReadySet
    BY <2>1 DEF ReadySet
  <2> QED
    BY <1>1, <2>1, <2>2, <2>3 DEF IInv, TypeOK, RingOK, PendingOK, Slots
<1>14. CASE CriticalEnter \/ CriticalQuit
  <2> PICK n \in 0 .. CRITICAL_MAX : SetCritical(n)
    BY <1>14, ProcAssumption DEF CriticalEnter, CriticalQuit
  <2>1. critical' \in [Pids -> 0 .. CRITICAL_MAX]
    BY <1>1 DEF SetCritical, TypeOK
  <2> QED
    BY <1>1, <2>1, QuietIInv DEF SetCritical, TypeOK, PendingOK, Slots
<1>15. CASE DataAbort
  <2>1. Call("abort", NULL) \in Calls /\ Call("abort", NULL).op = "abort"
    BY SlotFacts, CallTypes
  <2> DEFINE rest == <<Call("abort", NULL)>> \o <<>>
  <2>2. StackOK(state, rest) /\ Calm(rest) /\ rest \in Seq(Calls)
    BY <1>2, <1>15, <2>1, PushStack DEF DataAbort
  <2>3. rest = <<Call("abort", NULL)>>
    BY <2>1
  <2> HIDE DEF rest
  <2> QED
    BY <1>1, <1>2, <1>15, <2>2, <2>3, TerminateIInv DEF DataAbort
<1> QED
  BY <1>3, <1>4, <1>5, <1>6, <1>7, <1>8, <1>9, <1>10, <1>11, <1>12, <1>13, <1>14, <1>15
  DEF User

(* The timer interrupt pushes its end, then the readying of who is due.     *)
LEMMA TimerIInv == ASSUME IInv, NEW gap \in 1 .. SLEEP_MAX, Tick(gap) PROVE IInv'
<1> DEFINE asleep == {p \in Pids : state[p] = "SLEEPING" /\ sleep[p] > 0}
           due == {p \in asleep : sleep[p] <= gap}
           end == <<Call("tick", NULL)>> \o <<>>
<1>1. TypeOK /\ RingOK /\ PendingOK /\ saved' \in [Pids -> Slots]
      /\ UNCHANGED <<state, ring, current, frame, type, father, space, wait, event, critical>>
  BY TrappedType DEF IInv, Tick
<1>2. StackOK(state, end) /\ Calm(end) /\ end \in Seq(Calls)
      /\ end = <<Call("tick", NULL)>>
  <2>1. Call("tick", NULL) \in Calls /\ Call("tick", NULL).op = "tick"
    BY SlotFacts, CallTypes
  <2>2. StackOK(state, <<>>) /\ Calm(<<>>) /\ <<>> \in Seq(Calls)
    BY EmptyStack
  <2>3. end = <<Call("tick", NULL)>>
    BY <2>1
  <2> HIDE DEF end
  <2>4. StackOK(state, end) /\ Calm(end) /\ end \in Seq(Calls)
    BY <2>1, <2>2, PushStack DEF end
  <2> QED
    BY <2>3, <2>4
<1>3. due \in SUBSET Pids /\ \A p \in due : state[p] \in Waking
  BY DEF Waking
<1>4. \/ kstk' = CallReady(due) \o end
      \/ kstk' = end
  BY <1>2 DEF Tick
<1>5. sleep' \in [Pids -> 0 .. SLEEP_MAX]
  <2>1. CASE current = NULL \/ critical[current] = 0
    <3>1. sleep' = [p \in Pids |-> IF p \in due THEN 0
                                   ELSE IF p \in asleep THEN sleep[p] - gap
                                   ELSE sleep[p]]
      BY <2>1 DEF Tick
    <3>2. ASSUME NEW p \in Pids
          PROVE  /\ sleep[p] \in 0 .. SLEEP_MAX
                 /\ p \in asleep /\ p \notin due => sleep[p] - gap \in 0 .. SLEEP_MAX
                 /\ 0 \in 0 .. SLEEP_MAX
      BY <1>1, ProcAssumption DEF TypeOK
    <3> HIDE DEF due, asleep
    <3> QED
      BY <3>1, <3>2
  <2>2. CASE ~(current = NULL \/ critical[current] = 0)
    BY <1>1, <2>2 DEF Tick, TypeOK
  <2> QED
    BY <2>1, <2>2
<1> HIDE DEF due, end
<1>6. StackOK(state, kstk') /\ kstk' \in Seq(Calls)
  BY <1>2, <1>3, <1>4, PushReady
<1>7. ReadySet' = ReadySet
  BY <1>1 DEF ReadySet
<1> QED
  BY <1>1, <1>5, <1>6, <1>7 DEF IInv, TypeOK, RingOK, PendingOK, Slots

(* proc_ready of one of the processes to wake.                             *)
LEMMA ReadyNextIInv == ASSUME IInv, NEW p \in Pids, ReadyNext(p) PROVE IInv'
<1> DEFINE S == Head(kstk).pids \ {p}
<1>1. /\ TypeOK /\ RingOK /\ PendingOK /\ kstk \in Seq(Calls) /\ kstk # <<>>
      /\ StackOK(state, kstk) /\ Head(kstk).op = "ready" /\ p \in Head(kstk).pids
      /\ state' = [state EXCEPT ![p] = "READY"]
      /\ ring' = IF state[p] = "READY" THEN ring ELSE Link(ring, p)
      /\ kstk' = CallReady(S) \o Tail(kstk)
      /\ wait' = [wait EXCEPT ![p] = 0]
      /\ UNCHANGED <<current, frame, saved, type, father, space, event, sleep, critical>>
  BY DEF IInv, TypeOK, PendingOK, ReadyNext, Running, First
<1>2. state[p] \in Waking /\ \A q \in Head(kstk).pids : state[q] \in Waking
  BY <1>1 DEF StackOK, Waking
<1>3. Head(kstk) \in Calls /\ S \in SUBSET Pids
  BY <1>1, PopFrames DEF Calls
<1>4. state' \in [Pids -> States] /\ state'[p] = "READY"
      /\ \A q \in Pids \ {p} : state'[q] = state[q]
  BY <1>1 DEF TypeOK, States
<1>5. RingOf(ring', ReadyIn(state'))
  <2>1. CASE state[p] = "READY"
    <3>1. ReadyIn(state') = ReadySet
      BY <1>4, <2>1 DEF ReadyIn, ReadySet
    <3> QED
      BY <1>1, <2>1, <3>1 DEF RingOK
  <2>2. CASE state[p] # "READY"
    BY <1>1, <2>2, LinkReady
  <2> QED
    BY <2>1, <2>2
<1>6. RingOK' /\ ring' \in Rings
  BY <1>5, ReadySetIs DEF RingOK, RingOf
<1>7. StackOK(state', kstk') /\ kstk' \in Seq(Calls)
  <2>1. StackOK(state, Tail(kstk)) /\ Calm(Tail(kstk)) /\ Tail(kstk) \in Seq(Calls)
    BY <1>1, PopStack
  <2>2. StackOK(state', Tail(kstk))
    <3>1. \A q \in Pids : state[q] \in {"ZOMBIE", "UNUSED"} => state'[q] \in {"ZOMBIE", "UNUSED"}
      BY <1>2, <1>4 DEF Waking
    <3> QED
      BY <2>1, <3>1, StackMono
  <2>3. \A q \in S : state'[q] \in Waking
    BY <1>2, <1>3, <1>4
  <2> HIDE DEF S
  <2> QED
    BY <1>1, <1>3, <2>1, <2>2, <2>3, PushReady
<1>8. PendingOK'
  BY <1>1, <1>2, <1>4, <1>7, SlotFacts DEF PendingOK, TypeOK
<1>9. TypeOK'
  <2>1. wait' \in [Pids -> Pids]
    BY <1>1, SlotFacts DEF TypeOK
  <2> QED
    BY <1>1, <1>4, <1>6, <1>7, <2>1 DEF TypeOK
<1> QED
  BY <1>6, <1>8, <1>9 DEF IInv

(* The slot of a process that is being torn down is zeroed.                *)
LEMMA FreeProcIInv == ASSUME IInv, FreeProc PROVE IInv'
<1> DEFINE a == Arg
<1>1. /\ TypeOK /\ RingOK /\ PendingOK /\ kstk \in Seq(Calls) /\ kstk # <<>>
      /\ StackOK(state, kstk) /\ Head(kstk).op = "free" /\ a = Head(kstk).pid
  BY DEF IInv, TypeOK, PendingOK, FreeProc, Running, Arg
<1>2. a \in Pids /\ a # 0 /\ state[a] \in {"ZOMBIE", "UNUSED"}
  BY <1>1, PopFrames DEF StackOK
<1>3. /\ state' = [state EXCEPT ![a] = "UNUSED"]
      /\ father' = [father EXCEPT ![a] = 0]
      /\ type' = [type EXCEPT ![a] = "PROC"]
      /\ space' = [space EXCEPT ![a] = NULL]
      /\ saved' = [saved EXCEPT ![a] = NULL]
      /\ wait' = [wait EXCEPT ![a] = 0]
      /\ event' = [event EXCEPT ![a] = 0]
      /\ sleep' = [sleep EXCEPT ![a] = 0]
      /\ critical' = [critical EXCEPT ![a] = 0]
      /\ UNCHANGED <<ring, current, frame>>
  BY DEF FreeProc, Clear
<1> HIDE DEF a
<1>4. state' \in [Pids -> States] /\ state'[a] = "UNUSED"
      /\ \A q \in Pids \ {a} : state'[q] = state[q]
  BY <1>1, <1>2, <1>3 DEF TypeOK, States
<1>5. ReadySet' = ReadySet
  BY <1>2, <1>4 DEF ReadySet
<1>6. PICK E \in SUBSET Events : kstk' = CallClose(E) \o Tail(kstk)
  BY DEF FreeProc
<1>7. StackOK(state', kstk') /\ kstk' \in Seq(Calls)
  <2>1. StackOK(state, Tail(kstk)) /\ Calm(Tail(kstk)) /\ Tail(kstk) \in Seq(Calls)
    BY <1>1, PopStack
  <2>2. StackOK(state', Tail(kstk))
    <3>1. \A q \in Pids : state[q] \in {"ZOMBIE", "UNUSED"} => state'[q] \in {"ZOMBIE", "UNUSED"}
      BY <1>4
    <3> QED
      BY <2>1, <3>1, StackMono
  <2> QED
    BY <1>6, <2>1, <2>2, PushClose
<1>8. PendingOK'
  BY <1>1, <1>2, <1>3, <1>4, <1>7, SlotFacts DEF PendingOK, TypeOK
<1>9. /\ type' \in [Pids -> {"PROC", "THREAD"}]
      /\ father' \in [Pids -> Slots] /\ space' \in [Pids -> Slots]
      /\ saved' \in [Pids -> Slots]
      /\ wait' \in [Pids -> Pids] /\ event' \in [Pids -> Events \cup {0}]
      /\ sleep' \in [Pids -> 0 .. SLEEP_MAX]
      /\ critical' \in [Pids -> 0 .. CRITICAL_MAX]
  <2>1. 0 \in 0 .. SLEEP_MAX /\ 0 \in 0 .. CRITICAL_MAX
    BY ProcAssumption
  <2> QED
    BY <1>1, <1>2, <1>3, <2>1, SlotFacts DEF TypeOK, Slots
<1>10. TypeOK'
  BY <1>1, <1>3, <1>4, <1>7, <1>9 DEF TypeOK, Slots
<1> QED
  BY <1>1, <1>3, <1>5, <1>8, <1>10 DEF IInv, RingOK

LEMMA KernelIInv == ASSUME IInv, Kernel PROVE IInv'
<1>1. /\ TypeOK /\ RingOK /\ PendingOK /\ kstk \in Seq(Calls)
      /\ StackOK(state, kstk) /\ saved \in [Pids -> Slots] /\ current \in Slots
  BY DEF IInv, TypeOK, PendingOK, Slots
<1>2. ASSUME NEW c \in Pids, ExitChild(c) PROVE IInv'
  <2>1. kstk # <<>> /\ Head(kstk).op = "exit" /\ Arg = Head(kstk).pid
        /\ father[c] = Arg
    BY <1>2 DEF ExitChild, Running, First, Children, Arg
  <2>2. Arg \in Pids \ {0}
    BY <1>1, <2>1, PopFrames DEF StackOK
  <2>3. c \in Pids \ {0}
    BY <1>1, <2>1, <2>2, SlotFacts DEF PendingOK
  <2>4. Calm(kstk)
    BY <1>1, <2>1, PopStack
  <2> QED
    BY <1>1, <1>2, <2>3, <2>4, TerminateIInv DEF ExitChild
<1>3. CASE ExitWaiters
  <2> DEFINE W == {p \in Pids : state[p] = "WAIT" /\ wait[p] = Arg}
             rest == <<Call("free", Arg)>> \o Tail(kstk)
  <2>1. kstk # <<>> /\ Head(kstk).op = "exit" /\ Arg = Head(kstk).pid
        /\ kstk' = CallReady(W) \o rest /\ UNCHANGED <<sched, fields>>
    BY <1>3 DEF ExitWaiters, Running, Arg
  <2>2. Arg \in Pids \ {0} /\ Arg \in Slots /\ state[Arg] \in {"ZOMBIE", "UNUSED"}
    BY <1>1, <2>1, PopFrames DEF StackOK, Slots
  <2>3. StackOK(state, Tail(kstk)) /\ Calm(Tail(kstk)) /\ Tail(kstk) \in Seq(Calls)
    BY <1>1, <2>1, PopStack
  <2>4. StackOK(state, rest) /\ Calm(rest) /\ rest \in Seq(Calls)
    <3>1. /\ Call("free", Arg) \in Calls /\ Call("free", Arg).op = "free"
          /\ Call("free", Arg).pid = Arg
      BY <2>2, CallTypes
    <3> QED
      BY <2>2, <2>3, <3>1, PushStack
  <2>5. W \in SUBSET Pids /\ \A p \in W : state[p] \in Waking
    BY DEF Waking
  <2> HIDE DEF W, rest
  <2>6. StackOK(state, kstk') /\ kstk' \in Seq(Calls)
    BY <2>1, <2>4, <2>5, PushReady
  <2>7. ReadySet' = ReadySet
    BY <2>1 DEF ReadySet, sched
  <2> QED
    BY <1>1, <2>1, <2>6, <2>7 DEF IInv, TypeOK, RingOK, PendingOK, sched, fields
<1>4. CASE CloseFile
  <2> PICK e \in Head(kstk).events :
          Wake(e, CallClose(Head(kstk).events \ {e}) \o Tail(kstk))
    BY <1>4 DEF CloseFile
  <2> DEFINE E == Head(kstk).events \ {e}
             rest == CallClose(E) \o Tail(kstk)
             W == {p \in {q \in Pids : state[q] = "BLOCK" /\ event[q] = e} : sleep[p] = 0}
  <2>1. /\ kstk # <<>> /\ kstk' = CallReady(W) \o rest
        /\ UNCHANGED <<sched, type, father, space, wait, sleep, critical>>
    BY <1>4 DEF CloseFile, Running, Wake
  <2>2. event' \in [Pids -> Events \cup {0}]
    BY <1>1 DEF Wake, TypeOK
  <2>3. E \in SUBSET Events
    BY <1>1, <2>1, PopFrames DEF Calls
  <2>4. W \in SUBSET Pids /\ \A p \in W : state[p] \in Waking
    BY DEF Waking
  <2>5. StackOK(state, Tail(kstk)) /\ Calm(Tail(kstk)) /\ Tail(kstk) \in Seq(Calls)
    BY <1>1, <2>1, PopStack
  <2> HIDE DEF E, W
  <2>6. StackOK(state, rest) /\ Calm(rest) /\ rest \in Seq(Calls)
    BY <2>3, <2>5, PushClose
  <2> HIDE DEF rest
  <2>7. StackOK(state, kstk') /\ kstk' \in Seq(Calls)
    BY <2>1, <2>4, <2>6, PushReady
  <2>8. ReadySet' = ReadySet
    BY <2>1 DEF ReadySet, sched
  <2> QED
    BY <1>1, <2>1, <2>2, <2>7, <2>8 DEF IInv, TypeOK, RingOK, PendingOK, sched
<1>5. CASE TickEnd
  <2>1. kstk # <<>> /\ kstk' = Tail(kstk)
        /\ UNCHANGED <<type, father, space, wait, event, sleep>>
    BY <1>5 DEF TickEnd, Running
  <2>2. StackOK(state, kstk') /\ Calm(kstk') /\ kstk' \in Seq(Calls)
    BY <1>1, <2>1, PopStack
  <2>3. CASE current # NULL /\ critical[current] > 0
    <3>1. UNCHANGED sched /\ critical' = [critical EXCEPT ![current] = @ - 1]
      BY <1>5, <2>3 DEF TickEnd
    <3>2. critical' \in [Pids -> 0 .. CRITICAL_MAX]
      <4>1. current \in Pids
        BY <1>1, <2>3 DEF Slots
      <4>2. critical[current] \in 0 .. CRITICAL_MAX
        BY <1>1, <4>1 DEF TypeOK
      <4>3. critical[current] - 1 \in 0 .. CRITICAL_MAX
        BY <2>3, <4>2, ProcAssumption
      <4> QED
        BY <1>1, <3>1, <4>1, <4>3 DEF TypeOK
    <3>3. ReadySet' = ReadySet
      BY <3>1 DEF ReadySet, sched
    <3> QED
      BY <1>1, <2>1, <2>2, <3>1, <3>2, <3>3 DEF IInv, TypeOK, RingOK, PendingOK, sched
  <2>4. CASE ~(current # NULL /\ critical[current] > 0)
    <3>1. Schedule(current, state, ring, saved) /\ critical' = critical
      BY <1>5, <2>4 DEF TickEnd
    <3> QED
      BY <1>1, <2>1, <2>2, <3>1, ScheduleIInv DEF TypeOK
  <2> QED
    BY <2>3, <2>4
<1>6. CASE AbortEnd
  <2>1. kstk # <<>> /\ kstk' = Tail(kstk) /\ Schedule(NULL, state, ring, saved)
        /\ UNCHANGED fields
    BY <1>6 DEF AbortEnd, Running
  <2>2. StackOK(state, kstk') /\ Calm(kstk') /\ kstk' \in Seq(Calls)
    BY <1>1, <2>1, PopStack
  <2> QED
    BY <1>1, <2>1, <2>2, SlotFacts, ScheduleIInv DEF fields, TypeOK
<1> QED
  BY <1>2, <1>3, <1>4, <1>5, <1>6, ReadyNextIInv, FreeProcIInv DEF Kernel

LEMMA Inductive == Spec => []IInv
<1>1. Init => IInv
  BY InitIInv
<1>2. IInv /\ [Next]_vars => IInv'
  <2> SUFFICES ASSUME IInv, [Next]_vars PROVE IInv'
    OBVIOUS
  <2>1. CASE Next
    BY <2>1, UserIInv, TimerIInv, KernelIInv DEF Next, Timer
  <2>2. CASE UNCHANGED vars
    BY <2>2 DEF vars, sched, fields, IInv, TypeOK, RingOK, ReadySet, PendingOK
  <2> QED
    BY <2>1, <2>2
<1> QED
  BY <1>1, <1>2, PTL DEF Spec

-----------------------------------------------------------------------------
(* The ready list is always one well-linked circle through exactly the      *)
(* READY processes: proc_get_next_ready never follows a dangling link, no   *)
(* READY process drops out of it and no other is in it.                    *)
THEOREM ReadyListOK == Spec => []RingOK
<1>1. IInv => RingOK
  BY DEF IInv
<1> QED
  BY <1>1, Inductive, PTL

(* Every field keeps its type, the running process is READY, proc_exit's    *)
(* recursion only ever tears down dead processes and the waking loops only  *)
(* ever wake live ones, for every number of slots and depth of recursion.   *)
THEOREM KernelSafe == Spec => []KernelOK
<1>1. IInv => KernelOK
  BY DEF IInv, KernelOK
<1> QED
  BY <1>1, Inductive, PTL

-----------------------------------------------------------------------------
(* The process tree, spaces, waiters and contexts.                         *)

Ops == {"exit", "free", "ready", "close", "tick", "abort"}
Torn(f) == f.op \in {"exit", "free"}
ZombieIn(st) == {p \in Pids : st[p] = "ZOMBIE"}

-----------------------------------------------------------------------------
(* The shape of the stack F[1] .. F[n], innermost call first.              *)

(* Its calls of proc_exit are on the processes of Z, one call on each.     *)
TornAre(Z, F, n) ==
    /\ \A i \in 1 .. n : Torn(F[i]) => F[i].pid \in Z
    /\ \A z \in Z : \E i \in 1 .. n : Torn(F[i]) /\ F[i].pid = z
    /\ \A i, j \in 1 .. n : Torn(F[i]) /\ Torn(F[j]) /\ F[i].pid = F[j].pid => i = j

(* Where the kinds of call may stand.                                      *)
Placed(F, n) ==
    \A i \in 1 .. n : /\ F[i].op \in {"tick", "abort"} => i = n
                      /\ F[i].op = "ready" => i = 1
                      /\ F[i].op \in {"free", "close"} => i = 1 \/ (i = 2 /\ F[1].op = "ready")

(* A process that exits is called by its father's exit.                    *)
CalledByFather(fa, F, n) ==
    \A i \in 1 .. n : i + 1 \in 1 .. n /\ Torn(F[i]) /\ Torn(F[i + 1]) =>
        fa[F[i].pid] = F[i + 1].pid

ChainAt(Z, fa, F, n) == TornAre(Z, F, n) /\ Placed(F, n) /\ CalledByFather(fa, F, n)

(* The innermost call is one that others are called from.                  *)
Calling(F, n) == n = 0 \/ F[1].op \in {"exit", "tick", "abort"}

Chain(Z, fa, s) == ChainAt(Z, fa, s, Len(s))
Base(s) == s = <<>> \/ Head(s).op \in {"exit", "tick", "abort"}

Pushed(F, n, f, G, m) == m = n + 1 /\ G[1] = f /\ \A i \in 1 .. n : G[i + 1] = F[i]

LEMMA PushedIndex ==
    ASSUME NEW n \in Nat, NEW F, NEW f, NEW G, NEW m, Pushed(F, n, f, G, m)
    PROVE  /\ m \in Nat /\ 1 \in 1 .. m
           /\ \A i \in 1 .. m : i # 1 => i - 1 \in 1 .. n /\ G[i] = F[i - 1]
           /\ \A i \in 1 .. n : i + 1 \in 1 .. m /\ i + 1 # 1
<1>1. m = n + 1 /\ \A i \in 1 .. n : G[i + 1] = F[i]
  BY DEF Pushed
<1>2. ASSUME NEW i \in 1 .. m, i # 1 PROVE i - 1 \in 1 .. n /\ G[i] = F[i - 1]
  <2>1. i - 1 \in 1 .. n /\ (i - 1) + 1 = i
    BY <1>1, <1>2
  <2> QED
    BY <1>1, <2>1
<1>3. m \in Nat /\ 1 \in 1 .. m /\ \A i \in 1 .. n : i + 1 \in 1 .. m /\ i + 1 # 1
  BY <1>1
<1> QED
  BY <1>2, <1>3

(* proc_exit is called on c, by the exit of its father if by any.          *)
LEMMA PushTornAt ==
    ASSUME NEW n \in Nat, NEW F, NEW Z, NEW fa, ChainAt(Z, fa, F, n), Calling(F, n),
           NEW f, Torn(f), f.pid \notin Z,
           n # 0 /\ F[1].op = "exit" => fa[f.pid] = F[1].pid,
           NEW G, NEW m, Pushed(F, n, f, G, m)
    PROVE  ChainAt(Z \cup {f.pid}, fa, G, m)
<1>0. /\ m \in Nat /\ 1 \in 1 .. m /\ m = n + 1 /\ G[1] = f
      /\ \A i \in 1 .. m : i # 1 => i - 1 \in 1 .. n /\ G[i] = F[i - 1]
      /\ \A i \in 1 .. n : i + 1 \in 1 .. m /\ i + 1 # 1 /\ G[i + 1] = F[i]
  BY PushedIndex DEF Pushed
<1>1. TornAre(Z \cup {f.pid}, G, m)
  <2>1. \A i \in 1 .. m : Torn(G[i]) => G[i].pid \in Z \cup {f.pid}
    BY <1>0 DEF ChainAt, TornAre
  <2>2. \A z \in Z \cup {f.pid} : \E i \in 1 .. m : Torn(G[i]) /\ G[i].pid = z
    <3>1. ASSUME NEW z \in Z PROVE \E i \in 1 .. m : Torn(G[i]) /\ G[i].pid = z
      <4>1. PICK i \in 1 .. n : Torn(F[i]) /\ F[i].pid = z
        BY DEF ChainAt, TornAre
      <4> QED
        BY <1>0, <4>1
    <3> QED
      BY <1>0, <3>1
  <2>3. ASSUME NEW i \in 1 .. m, NEW j \in 1 .. m, Torn(G[i]), Torn(G[j]), G[i].pid = G[j].pid
        PROVE  i = j
    <3>1. \A k \in 1 .. m : k # 1 /\ Torn(G[k]) => G[k].pid # f.pid
      BY <1>0 DEF ChainAt, TornAre
    <3>2. CASE i = 1 \/ j = 1
      BY <1>0, <2>3, <3>1, <3>2
    <3>3. CASE i # 1 /\ j # 1
      <4>1. i - 1 = j - 1
        BY <1>0, <2>3, <3>3 DEF ChainAt, TornAre
      <4> QED
        BY <4>1
    <3> QED
      BY <3>2, <3>3
  <2> QED
    BY <2>1, <2>2, <2>3 DEF TornAre
<1>2. Placed(G, m)
  <2>1. \A i \in 1 .. n : F[i].op \notin {"ready", "free", "close"}
    <3>1. n # 0 => F[1].op \in {"exit", "tick", "abort"}
      BY DEF Calling
    <3> QED
      BY <3>1 DEF ChainAt, Placed
  <2>2. ASSUME NEW i \in 1 .. m, i # 1
        PROVE  /\ G[i].op \in {"tick", "abort"} => i = m
               /\ G[i].op \notin {"ready", "free", "close"}
    <3>1. i - 1 \in 1 .. n /\ G[i] = F[i - 1]
      BY <1>0, <2>2
    <3>2. F[i - 1].op \in {"tick", "abort"} => i - 1 = n
      BY <3>1 DEF ChainAt, Placed
    <3> QED
      BY <1>0, <2>1, <3>1, <3>2
  <2>3. G[1].op \notin {"tick", "abort", "ready"}
    BY <1>0 DEF Torn
  <2> QED
    BY <2>2, <2>3 DEF Placed
<1>3. CalledByFather(fa, G, m)
  <2> SUFFICES ASSUME NEW i \in 1 .. m, i + 1 \in 1 .. m, Torn(G[i]), Torn(G[i + 1])
               PROVE  fa[G[i].pid] = G[i + 1].pid
    BY DEF CalledByFather
  <2>1. i \in 1 .. n /\ G[i + 1] = F[i]
    BY <1>0
  <2>2. CASE i = 1
    <3>1. n # 0 /\ F[1].op = "exit"
      BY <2>1, <2>2 DEF Calling, Torn
    <3> QED
      BY <1>0, <2>1, <2>2, <3>1
  <2>3. CASE i # 1
    <3>1. i - 1 \in 1 .. n /\ G[i] = F[i - 1] /\ (i - 1) + 1 = i
      BY <1>0, <2>3
    <3>2. (i - 1) + 1 \in 1 .. n /\ Torn(F[i - 1]) /\ Torn(F[(i - 1) + 1])
      BY <2>1, <3>1
    <3> QED
      BY <2>1, <3>1, <3>2 DEF ChainAt, CalledByFather
  <2> QED
    BY <2>2, <2>3
<1> QED
  BY <1>1, <1>2, <1>3 DEF ChainAt

(* A call of another kind is pushed: the end of an interrupt at the bottom, *)
(* wake-ups on what calls them, proc_ready on those.                       *)
LEMMA PushOtherAt ==
    ASSUME NEW n \in Nat, NEW F, NEW Z, NEW fa, ChainAt(Z, fa, F, n),
           NEW f,
           \/ f.op \in {"tick", "abort"} /\ n = 0
           \/ f.op = "close" /\ Calling(F, n)
           \/ f.op = "ready" /\ (n = 0 \/ F[1].op # "ready"),
           NEW G, NEW m, Pushed(F, n, f, G, m)
    PROVE  ChainAt(Z, fa, G, m)
<1>0. /\ m \in Nat /\ 1 \in 1 .. m /\ m = n + 1 /\ G[1] = f
      /\ \A i \in 1 .. m : i # 1 => i - 1 \in 1 .. n /\ G[i] = F[i - 1]
      /\ \A i \in 1 .. n : i + 1 \in 1 .. m /\ i + 1 # 1 /\ G[i + 1] = F[i]
      /\ ~Torn(f)
  BY PushedIndex DEF Pushed, Torn
<1>1. TornAre(Z, G, m)
  <2>1. \A i \in 1 .. m : Torn(G[i]) => i # 1 /\ G[i].pid \in Z
    BY <1>0 DEF ChainAt, TornAre
  <2>2. ASSUME NEW z \in Z PROVE \E i \in 1 .. m : Torn(G[i]) /\ G[i].pid = z
    <3>1. PICK i \in 1 .. n : Torn(F[i]) /\ F[i].pid = z
      BY DEF ChainAt, TornAre
    <3> QED
      BY <1>0, <3>1
  <2>3. ASSUME NEW i \in 1 .. m, NEW j \in 1 .. m, Torn(G[i]), Torn(G[j]), G[i].pid = G[j].pid
        PROVE  i = j
    <3>1. i - 1 = j - 1
      BY <1>0, <2>1, <2>3 DEF ChainAt, TornAre
    <3> QED
      BY <3>1
  <2> QED
    BY <2>1, <2>2, <2>3 DEF TornAre
<1>2. Placed(G, m)
  <2>1. ASSUME NEW i \in 1 .. m, i # 1
        PROVE  /\ G[i].op \in {"tick", "abort"} => i = m
               /\ G[i].op # "ready"
               /\ G[i].op \in {"free", "close"} => i = 2 /\ f.op = "ready"
    <3>1. i - 1 \in 1 .. n /\ G[i] = F[i - 1]
      BY <1>0, <2>1
    <3>2. /\ F[i - 1].op \in {"tick", "abort"} => i - 1 = n
          /\ F[i - 1].op = "ready" => i - 1 = 1
          /\ F[i - 1].op \in {"free", "close"} => i - 1 = 1 \/ F[1].op = "ready"
      BY <3>1 DEF ChainAt, Placed
    <3>3. n # 0 /\ F[1].op # "ready" /\ (f.op = "close" => F[1].op \notin {"free", "close"})
          /\ f.op \in {"close", "ready"}
      BY <3>1 DEF Calling
    <3> QED
      BY <1>0, <3>1, <3>2, <3>3
  <2>2. G[1].op \in {"tick", "abort"} => 1 = m
    BY <1>0
  <2> QED
    BY <1>0, <2>1, <2>2 DEF Placed
<1>3. CalledByFather(fa, G, m)
  <2> SUFFICES ASSUME NEW i \in 1 .. m, i + 1 \in 1 .. m, Torn(G[i]), Torn(G[i + 1])
               PROVE  fa[G[i].pid] = G[i + 1].pid
    BY DEF CalledByFather
  <2>1. i \in 1 .. n /\ G[i + 1] = F[i] /\ i # 1
    BY <1>0
  <2>2. i - 1 \in 1 .. n /\ G[i] = F[i - 1] /\ (i - 1) + 1 = i
    BY <1>0, <2>1
  <2>3. (i - 1) + 1 \in 1 .. n /\ Torn(F[i - 1]) /\ Torn(F[(i - 1) + 1])
    BY <2>1, <2>2
  <2> QED
    BY <2>1, <2>2, <2>3 DEF ChainAt, CalledByFather
<1> QED
  BY <1>1, <1>2, <1>3 DEF ChainAt

(* The innermost call ends: the processes left are the others.             *)
LEMMA PopAt ==
    ASSUME NEW n \in Nat, NEW F, NEW Z, NEW fa, NEW f, NEW G, NEW m,
           ChainAt(Z, fa, G, m), Pushed(F, n, f, G, m), \A i \in 1 .. n : F[i].op \in Ops
    PROVE  /\ Torn(f) => /\ f.pid \in Z
                         /\ ChainAt(Z \ {f.pid}, fa, F, n) /\ Calling(F, n)
                         /\ n # 0 /\ F[1].op = "exit" => fa[f.pid] = F[1].pid
           /\ ~Torn(f) => ChainAt(Z, fa, F, n)
           /\ f.op = "close" => Calling(F, n)
           /\ f.op \in {"tick", "abort"} => n = 0
           /\ n # 0 => F[1].op # "ready"
<1>0. /\ m \in Nat /\ 1 \in 1 .. m /\ m = n + 1 /\ G[1] = f
      /\ \A i \in 1 .. m : i # 1 => i - 1 \in 1 .. n /\ G[i] = F[i - 1]
      /\ \A i \in 1 .. n : i + 1 \in 1 .. m /\ i + 1 # 1 /\ G[i + 1] = F[i]
  BY PushedIndex DEF Pushed
<1>1. TornAre(IF Torn(f) THEN Z \ {f.pid} ELSE Z, F, n)
  <2>1. ASSUME NEW i \in 1 .. n, Torn(F[i])
        PROVE  F[i].pid \in Z /\ (Torn(f) => F[i].pid # f.pid)
    BY <1>0, <2>1 DEF ChainAt, TornAre
  <2>2. ASSUME NEW z \in Z, Torn(f) => z # f.pid
        PROVE  \E i \in 1 .. n : Torn(F[i]) /\ F[i].pid = z
    <3>1. PICK i \in 1 .. m : Torn(G[i]) /\ G[i].pid = z
      BY DEF ChainAt, TornAre
    <3>2. i # 1
      BY <1>0, <2>2, <3>1
    <3> QED
      BY <1>0, <3>1, <3>2
  <2>3. ASSUME NEW i \in 1 .. n, NEW j \in 1 .. n, Torn(F[i]), Torn(F[j]), F[i].pid = F[j].pid
        PROVE  i = j
    <3>1. i + 1 = j + 1
      BY <1>0, <2>3 DEF ChainAt, TornAre
    <3> QED
      BY <3>1
  <2> QED
    BY <2>1, <2>2, <2>3 DEF TornAre
<1>2. ASSUME NEW i \in 1 .. n
      PROVE  /\ F[i].op \in {"tick", "abort"} => i = n
             /\ F[i].op # "ready"
             /\ F[i].op \in {"free", "close"} => i = 1 /\ f.op = "ready"
  <2>1. /\ F[i].op \in {"tick", "abort"} => i + 1 = m
        /\ F[i].op = "ready" => i + 1 = 1
        /\ F[i].op \in {"free", "close"} => i + 1 = 1 \/ (i + 1 = 2 /\ f.op = "ready")
    BY <1>0 DEF ChainAt, Placed
  <2> QED
    BY <1>0, <2>1
<1>3. CalledByFather(fa, F, n)
  <2> SUFFICES ASSUME NEW i \in 1 .. n, i + 1 \in 1 .. n, Torn(F[i]), Torn(F[i + 1])
               PROVE  fa[F[i].pid] = F[i + 1].pid
    BY DEF CalledByFather
  <2>1. i + 1 \in 1 .. m /\ (i + 1) + 1 \in 1 .. m /\ G[i + 1] = F[i] /\ G[(i + 1) + 1] = F[i + 1]
    BY <1>0
  <2> QED
    BY <2>1 DEF ChainAt, CalledByFather
<1>4. /\ Torn(f) => f.pid \in Z
      /\ f.op \in {"tick", "abort"} => n = 0
      /\ n # 0 /\ Torn(f) /\ F[1].op = "exit" => fa[f.pid] = F[1].pid
  <2>1. f.op \in {"tick", "abort"} => 1 = m
    BY <1>0 DEF ChainAt, Placed
  <2>2. Torn(f) => f.pid \in Z
    BY <1>0 DEF ChainAt, TornAre
  <2>3. ASSUME n # 0, Torn(f), F[1].op = "exit" PROVE fa[f.pid] = F[1].pid
    <3>1. 1 + 1 \in 1 .. m /\ G[1 + 1] = F[1] /\ Torn(F[1])
      BY <1>0, <2>3 DEF Torn
    <3> QED
      BY <1>0, <2>3, <3>1 DEF ChainAt, CalledByFather
  <2> QED
    BY <1>0, <2>1, <2>2, <2>3
<1>5. Placed(F, n)
  BY <1>2 DEF Placed
<1>6. (Torn(f) \/ f.op = "close") => Calling(F, n)
  <2>1. n # 0 => 1 \in 1 .. n
    OBVIOUS
  <2>2. (Torn(f) \/ f.op = "close") => f.op # "ready"
    BY DEF Torn
  <2> QED
    BY <1>2, <2>1, <2>2 DEF Calling, Ops
<1>7. n # 0 => F[1].op # "ready"
  BY <1>2
<1> QED
  BY <1>1, <1>3, <1>4, <1>5, <1>6, <1>7 DEF ChainAt

-----------------------------------------------------------------------------
(* The same for the stack as a sequence.                                   *)

LEMMA PushedSeq ==
    ASSUME NEW s \in Seq(Calls), NEW f \in Calls
    PROVE  /\ Pushed(s, Len(s), f, <<f>> \o s, Len(<<f>> \o s)) /\ Len(s) \in Nat
           /\ Base(s) <=> Calling(s, Len(s))
           /\ Len(s) = 0 <=> s = <<>>
           /\ Len(s) # 0 => s[1] = Head(s)
           /\ \A i \in 1 .. Len(s) : s[i].op \in Ops
<1>1. \A i \in 1 .. Len(s) : s[i].op \in Ops
  <2>1. \A i \in 1 .. Len(s) : s[i] \in Calls
    OBVIOUS
  <2> QED
    BY <2>1 DEF Calls, Ops
<1>2. Len(s) \in Nat /\ (Len(s) = 0 <=> s = <<>>) /\ (Len(s) # 0 => s[1] = Head(s))
  OBVIOUS
<1> QED
  BY <1>1, <1>2 DEF Pushed, Base, Calling

LEMMA PushTorn ==
    ASSUME NEW s \in Seq(Calls), NEW Z, NEW fa, Chain(Z, fa, s), Base(s),
           NEW f \in Calls, Torn(f), f.pid \notin Z,
           s # <<>> /\ Head(s).op = "exit" => fa[f.pid] = Head(s).pid
    PROVE  Chain(Z \cup {f.pid}, fa, <<f>> \o s)
<1>1. /\ Pushed(s, Len(s), f, <<f>> \o s, Len(<<f>> \o s)) /\ Len(s) \in Nat
      /\ ChainAt(Z, fa, s, Len(s)) /\ Calling(s, Len(s))
      /\ Len(s) # 0 /\ s[1].op = "exit" => fa[f.pid] = s[1].pid
  BY PushedSeq DEF Chain
<1> HIDE DEF Chain
<1>2. ChainAt(Z \cup {f.pid}, fa, <<f>> \o s, Len(<<f>> \o s))
  BY ONLY <1>1, Torn(f), f.pid \notin Z, PushTornAt, Zenon
<1> QED
  BY <1>2 DEF Chain

LEMMA PushOther ==
    ASSUME NEW s \in Seq(Calls), NEW Z, NEW fa, Chain(Z, fa, s), NEW f \in Calls,
           \/ f.op \in {"tick", "abort"} /\ s = <<>>
           \/ f.op = "close" /\ Base(s)
           \/ f.op = "ready" /\ (s = <<>> \/ Head(s).op # "ready")
    PROVE  Chain(Z, fa, <<f>> \o s)
<1>1. /\ Pushed(s, Len(s), f, <<f>> \o s, Len(<<f>> \o s)) /\ Len(s) \in Nat
      /\ ChainAt(Z, fa, s, Len(s))
      /\ \/ f.op \in {"tick", "abort"} /\ Len(s) = 0
         \/ f.op = "close" /\ Calling(s, Len(s))
         \/ f.op = "ready" /\ (Len(s) = 0 \/ s[1].op # "ready")
  BY PushedSeq DEF Chain
<1>2. ChainAt(Z, fa, <<f>> \o s, Len(<<f>> \o s))
  BY <1>1, PushOtherAt, Zenon
<1> QED
  BY <1>2 DEF Chain

NotReady(s) == s = <<>> \/ Head(s).op # "ready"

LEMMA Pop ==
    ASSUME NEW s \in Seq(Calls), s # <<>>, NEW Z, NEW fa, Chain(Z, fa, s)
    PROVE  /\ Tail(s) \in Seq(Calls) /\ Head(s) \in Calls /\ NotReady(Tail(s))
           /\ Torn(Head(s)) =>
                 /\ Head(s).pid \in Z
                 /\ Chain(Z \ {Head(s).pid}, fa, Tail(s)) /\ Base(Tail(s))
                 /\ Tail(s) # <<>> /\ Head(Tail(s)).op = "exit" =>
                       fa[Head(s).pid] = Head(Tail(s)).pid
           /\ ~Torn(Head(s)) => Chain(Z, fa, Tail(s))
           /\ Head(s).op = "close" => Base(Tail(s))
           /\ Head(s).op \in {"tick", "abort"} => Tail(s) = <<>>
<1> DEFINE f == Head(s)
           t == Tail(s)
<1>1. f \in Calls /\ t \in Seq(Calls) /\ s = <<f>> \o t
  BY PopFrames
<1> HIDE DEF f, t
<1>2. /\ Pushed(t, Len(t), f, s, Len(s)) /\ Len(t) \in Nat
      /\ Base(t) <=> Calling(t, Len(t))
      /\ Len(t) = 0 <=> t = <<>>
      /\ Len(t) # 0 => t[1] = Head(t)
      /\ \A i \in 1 .. Len(t) : t[i].op \in Ops
  BY <1>1, PushedSeq
<1>3. ChainAt(Z, fa, s, Len(s))
  BY DEF Chain
<1>4. /\ Torn(f) => /\ f.pid \in Z
                    /\ ChainAt(Z \ {f.pid}, fa, t, Len(t)) /\ Calling(t, Len(t))
                    /\ Len(t) # 0 /\ t[1].op = "exit" => fa[f.pid] = t[1].pid
      /\ ~Torn(f) => ChainAt(Z, fa, t, Len(t))
      /\ f.op = "close" => Calling(t, Len(t))
      /\ f.op \in {"tick", "abort"} => Len(t) = 0
      /\ Len(t) # 0 => t[1].op # "ready"
  BY ONLY <1>2, <1>3, PopAt, Zenon
<1>5. /\ t \in Seq(Calls) /\ f \in Calls /\ NotReady(t)
      /\ Torn(f) =>
                 /\ f.pid \in Z
                 /\ Chain(Z \ {f.pid}, fa, t) /\ Base(t)
                 /\ t # <<>> /\ Head(t).op = "exit" => fa[f.pid] = Head(t).pid
      /\ ~Torn(f) => Chain(Z, fa, t)
      /\ f.op = "close" => Base(t)
      /\ f.op \in {"tick", "abort"} => t = <<>>
  BY <1>1, <1>2, <1>4 DEF Chain, NotReady
<1> QED
  BY <1>5 DEF f, t

LEMMA PushReadyChain ==
    ASSUME NEW s \in Seq(Calls), NEW Z, NEW fa, Chain(Z, fa, s), NotReady(s),
           NEW S \in SUBSET Pids
    PROVE  Chain(Z, fa, CallReady(S) \o s)
<1>1. CASE S = {}
  BY <1>1 DEF CallReady
<1>2. CASE S # {}
  <2> DEFINE f == [op |-> "ready", pid |-> NULL, pids |-> S, events |-> {}]
  <2>1. CallReady(S) = <<f>> /\ f \in Calls /\ f.op = "ready"
    BY <1>2 DEF CallReady, Calls
  <2> HIDE DEF f
  <2>2. f.op = "ready" /\ (s = <<>> \/ Head(s).op # "ready")
    BY <2>1 DEF NotReady
  <2> QED
    BY <2>1, <2>2, PushOther
<1> QED
  BY <1>1, <1>2

LEMMA PushCloseChain ==
    ASSUME NEW s \in Seq(Calls), NEW Z, NEW fa, Chain(Z, fa, s), Base(s),
           NEW E \in SUBSET Events
    PROVE  /\ Chain(Z, fa, CallClose(E) \o s) /\ NotReady(CallClose(E) \o s)
           /\ CallClose(E) \o s \in Seq(Calls)
<1>1. CASE E = {}
  BY <1>1 DEF CallClose, Base, NotReady
<1>2. CASE E # {}
  <2> DEFINE f == [op |-> "close", pid |-> NULL, pids |-> {}, events |-> E]
  <2>1. CallClose(E) = <<f>> /\ f \in Calls /\ f.op = "close"
    BY <1>2 DEF CallClose, Calls
  <2> HIDE DEF f
  <2>2. Chain(Z, fa, <<f>> \o s)
    BY <2>1, PushOther
  <2>3. <<f>> \o s \in Seq(Calls) /\ Head(<<f>> \o s) = f
    BY <2>1, PushFrames
  <2> QED
    BY <2>1, <2>2, <2>3 DEF NotReady
<1> QED
  BY <1>1, <1>2

(* The fathers of processes that are not being torn down do not matter.    *)
LEMMA ChainFathers ==
    ASSUME NEW s, NEW Z, NEW fa, NEW fb, Chain(Z, fa, s), \A z \in Z : fb[z] = fa[z]
    PROVE  Chain(Z, fb, s)
BY DEF Chain, ChainAt, TornAre, CalledByFather

(* Between handlers no process is being torn down.                         *)
LEMMA EmptyChain ==
    ASSUME NEW Z, NEW fa
    PROVE  Chain(Z, fa, <<>>) <=> Z = {}
<1>1. Len(<<>>) = 0 /\ 1 .. 0 = {}
  OBVIOUS
<1> QED
  BY <1>1 DEF Chain, ChainAt, TornAre, Placed, CalledByFather

-----------------------------------------------------------------------------
(* What the handlers' common ends do to the states: schedule may make       *)
(* process 0 READY and changes no other.                                   *)

Woken(st) == \A p \in Pids : state'[p] = st[p] \/ (p = 0 /\ state'[p] = "READY")
Dead == {"UNUSED", "ZOMBIE", "CREATED"}

LEMMA ScheduleFacts ==
    ASSUME IInv, NEW cur \in Slots, NEW sv \in [Pids -> Slots],
           Schedule(cur, state, ring, sv)
    PROVE  state' \in [Pids -> States] /\ Woken(state)
<1>1. /\ TypeOK /\ state \in [Pids -> States] /\ RingOf(ring, ReadyIn(state))
      /\ state[0] \notin {"UNUSED", "ZOMBIE", "CREATED"}
  BY ReadySetIs DEF IInv, TypeOK, RingOK, PendingOK
<1> QED
  BY <1>1, ScheduleLemma DEF Woken

LEMMA SuspendFacts ==
    ASSUME IInv, Syscall, NEW s \in {"SLEEPING", "WAIT", "BLOCK"}, Suspend(s)
    PROVE  state' \in [Pids -> States] /\ Woken([state EXCEPT ![current] = s])
<1>1. TypeOK /\ RingOK /\ PendingOK /\ current \in Pids /\ current \in Slots
  BY DEF IInv, TypeOK, Slots, Syscall
<1>2. state[current] = "READY" /\ s \in States \ {"READY"}
  BY <1>1 DEF PendingOK, States, Syscall
<1> DEFINE st == [state EXCEPT ![current] = s]
<1>3. st \in [Pids -> States] /\ RingOf(Unlink(ring, current), ReadyIn(st))
  BY <1>1, <1>2, UnlinkReady
<1>4. st[0] \notin {"UNUSED", "ZOMBIE", "CREATED"}
  BY <1>1, SlotFacts DEF PendingOK, TypeOK
<1>5. Schedule(current, st, Unlink(ring, current), Trapped)
  BY DEF Suspend
<1> HIDE DEF st
<1>6. state' \in [Pids -> States] /\ Woken(st)
  BY <1>1, <1>3, <1>4, <1>5, TrappedType, ScheduleLemma, SlotFacts DEF Woken
<1> QED
  BY <1>6 DEF st

(* proc_exit(p) of a process that is not being torn down yet.              *)
LEMMA TerminateFacts ==
    ASSUME IInv, NEW p \in Pids \ {0}, state[p] \notin {"ZOMBIE", "UNUSED"},
           NEW sv \in [Pids -> Slots], NEW rest, Terminate(p, sv, rest)
    PROVE  /\ kstk' = <<Call("exit", p)>> \o rest
           /\ state' \in [Pids -> States] /\ state'[p] = "ZOMBIE"
           /\ Woken([state EXCEPT ![p] = "ZOMBIE"])
<1>0. TypeOK /\ RingOK /\ PendingOK /\ p \in Pids /\ p \in Slots /\ p # 0
  BY DEF IInv, Slots
<1> DEFINE dead == [state EXCEPT ![p] = "ZOMBIE"]
<1>1. kstk' = <<Call("exit", p)>> \o rest
  BY DEF Terminate
<1>2. dead \in [Pids -> States] /\ dead[p] = "ZOMBIE"
      /\ \A q \in Pids \ {p} : dead[q] = state[q]
  BY <1>0 DEF TypeOK, States
<1>3. dead[0] \notin {"UNUSED", "ZOMBIE", "CREATED"}
  BY <1>2, <1>0, SlotFacts DEF PendingOK
<1>4. CASE state[p] = "READY" /\ p = current
  <2>1. Schedule(current, dead, Unlink(ring, p), sv)
    BY <1>4 DEF Terminate
  <2>2. RingOf(Unlink(ring, p), ReadyIn(dead))
    BY <1>0, <1>4, UnlinkReady DEF States
  <2>3. current \in Slots
    BY <1>0, <1>4
  <2> HIDE DEF dead
  <2>4. /\ state' \in [Pids -> States] /\ Woken(dead)
    BY <1>0, <1>2, <1>3, <2>1, <2>2, <2>3, ScheduleLemma DEF Woken
  <2>5. state'[p] = "ZOMBIE"
    BY <1>0, <1>2, <2>4 DEF Woken
  <2> QED
    BY <1>1, <2>4, <2>5 DEF dead
<1>5. CASE ~(state[p] = "READY" /\ p = current)
  <2>1. state' = dead
    BY <1>5 DEF Terminate
  <2> QED
    BY <1>1, <1>2, <2>1 DEF Woken
<1> QED
  BY <1>4, <1>5

LiveIn(st) == {p \in Pids : st[p] # "UNUSED"}

LEMMA WokenSets ==
    ASSUME NEW st, Woken(st), st[0] \notin Dead
    PROVE  ZombieIn(state') = ZombieIn(st) /\ LiveIn(state') = LiveIn(st)
BY SlotFacts DEF Woken, Dead, ZombieIn, LiveIn

LEMMA LiveIs == Live = LiveIn(state) /\ Live' = LiveIn(state')
BY DEF Live, LiveIn

(* In a system call nobody is being torn down, and the caller is READY.    *)
LEMMA SyscallFacts ==
    ASSUME IInv, Chain(ZombieIn(state), father, kstk), Syscall
    PROVE  /\ kstk = <<>> /\ ZombieIn(state) = {} /\ current \in Pids
           /\ state[current] = "READY" /\ Trapped \in [Pids -> Slots]
<1>1. /\ kstk = <<>> /\ current \in Pids /\ TypeOK /\ state[current] = "READY"
  BY DEF IInv, Syscall, TypeOK, PendingOK
<1>2. ZombieIn(state) = {}
  BY <1>1, EmptyChain
<1> QED
  BY <1>1, <1>2, TrappedType

-----------------------------------------------------------------------------
(* The process tree.                                                       *)

(* Read upwards, the tree ends in init; read downwards, in childless ones.  *)
Rooted(L, fa) == \A S \in SUBSET (L \ {0}) : S # {} => \E p \in S : fa[p] \notin S
Leafy(L, fa) == \A S \in SUBSET (L \ {0}) : S # {} => \E p \in S : \A q \in S : fa[q] # p
Parented(L, fa) == \A p \in L \ {0} : fa[p] \in L \ {p}

(* The slot that is about to be zeroed has no children left.               *)
FreesBarren(fa, s) == \A f \in Frames(s) : f.op = "free" => \A c \in Pids : fa[c] # f.pid

(* A zeroed slot has father_pid 0.                                         *)
ZeroedFather(st, fa) == \A p \in Pids : st[p] = "UNUSED" => fa[p] = 0

Tree(L, fa) == Parented(L, fa) /\ Rooted(L, fa) /\ Leafy(L, fa)

TreeInv ==
    /\ Chain(ZombieIn(state), father, kstk)
    /\ FreesBarren(father, kstk)
    /\ ZeroedFather(state, father)
    /\ Tree(LiveIn(state), father)

LEMMA TreeInvTreeOK == TreeInv => TreeOK
BY LiveIs DEF TreeInv, Tree, Parented, Rooted, TreeOK

(* With an exit on top, every process that is being torn down but its own   *)
(* one has a child that is being torn down.                                *)
LEMMA InnerChild ==
    ASSUME NEW n \in Nat, n # 0, NEW F, NEW Z, NEW fa, ChainAt(Z, fa, F, n),
           F[1].op = "exit", \A i \in 1 .. n : F[i].op \in Ops,
           NEW z \in Z, z # F[1].pid
    PROVE  \E q \in Z : fa[q] = z
<1>1. PICK i \in 1 .. n : Torn(F[i]) /\ F[i].pid = z
  BY DEF ChainAt, TornAre
<1>2. i # 1 /\ i - 1 \in 1 .. n /\ (i - 1) + 1 = i
  BY <1>1
<1>3. /\ F[i - 1].op \notin {"tick", "abort"}
      /\ F[i - 1].op \notin {"ready", "close"}
  <2>1. F[i - 1].op \in {"tick", "abort"} => i - 1 = n
    BY <1>2 DEF ChainAt, Placed
  <2>2. F[i - 1].op = "ready" => i - 1 = 1
    BY <1>2 DEF ChainAt, Placed
  <2>3. F[i - 1].op = "close" => i - 1 = 1 \/ F[1].op = "ready"
    BY <1>2 DEF ChainAt, Placed
  <2>4. i - 1 # n
    BY <1>2
  <2> QED
    BY <2>1, <2>2, <2>3, <2>4
<1>4. Torn(F[i - 1])
  <2>1. F[i - 1].op \in Ops
    BY <1>2
  <2> QED
    BY <1>3, <2>1 DEF Torn, Ops
<1>5. F[i - 1].pid \in Z /\ fa[F[i - 1].pid] = z
  <2>1. fa[F[i - 1].pid] = F[(i - 1) + 1].pid
    <3>1. (i - 1) + 1 \in 1 .. n /\ Torn(F[(i - 1) + 1])
      BY <1>1, <1>2
    <3> QED
      BY <1>2, <1>4, <3>1 DEF ChainAt, CalledByFather
  <2>2. F[i - 1].pid \in Z
    BY <1>2, <1>4 DEF ChainAt, TornAre
  <2> QED
    BY <1>1, <1>2, <2>1, <2>2
<1> QED
  BY <1>5

(* So the children that proc_exit(Arg) finds are not being torn down yet:   *)
(* its recursion never comes back to a process it came from.               *)
LEMMA ChildAlive ==
    ASSUME IInv, TreeInv, Running("exit"), NEW c \in Children(Arg)
    PROVE  c \in Pids \ {0} /\ father[c] = Arg /\ state[c] \notin {"ZOMBIE", "UNUSED"}
<1>1. /\ TypeOK /\ PendingOK /\ kstk \in Seq(Calls) /\ kstk # <<>> /\ Head(kstk).op = "exit"
      /\ Arg = Head(kstk).pid /\ c \in Pids /\ father[c] = Arg /\ StackOK(state, kstk)
  BY DEF IInv, TypeOK, PendingOK, Running, Arg, Children
<1>2. Arg \in Pids \ {0}
  BY <1>1, PopFrames DEF StackOK
<1>3. c # 0
  BY <1>1, <1>2, SlotFacts DEF PendingOK
<1>4. state[c] # "UNUSED"
  BY <1>1, <1>2 DEF TreeInv, ZeroedFather
<1>5. ASSUME state[c] = "ZOMBIE" PROVE FALSE
  <2> DEFINE Z == ZombieIn(state)
  <2>1. c \in Z /\ Z \in SUBSET (LiveIn(state) \ {0})
    BY <1>1, <1>5, SlotFacts DEF ZombieIn, LiveIn, PendingOK
  <2>2. PICK z \in Z : \A q \in Z : father[q] # z
    BY <2>1 DEF TreeInv, Tree, Leafy
  <2>3. z # Arg
    BY <1>1, <2>1, <2>2
  <2>4. /\ Len(kstk) \in Nat /\ Len(kstk) # 0 /\ kstk[1] = Head(kstk)
        /\ \A i \in 1 .. Len(kstk) : kstk[i].op \in Ops
    <3>1. Head(kstk) \in Calls
      BY <1>1, PopFrames
    <3> QED
      BY <1>1, <3>1, PushedSeq
  <2>5. ChainAt(Z, father, kstk, Len(kstk))
    BY DEF TreeInv, Chain
  <2>6. kstk[1].op = "exit" /\ z # kstk[1].pid
    BY <1>1, <2>3, <2>4
  <2> HIDE DEF Z
  <2>7. \E q \in Z : father[q] = z
    BY <2>4, <2>5, <2>6, InnerChild
  <2> QED
    BY <2>2, <2>7
<1> QED
  BY <1>1, <1>3, <1>4, <1>5

LEMMA BarrenPush ==
    ASSUME NEW fa, NEW s \in Seq(Calls), FreesBarren(fa, s)
    PROVE  /\ \A S \in SUBSET Pids : FreesBarren(fa, CallReady(S) \o s)
           /\ \A E \in SUBSET Events : FreesBarren(fa, CallClose(E) \o s)
           /\ \A f \in Calls : (f.op = "free" => \A c \in Pids : fa[c] # f.pid)
                                  => FreesBarren(fa, <<f>> \o s)
<1>1. ASSUME NEW f \in Calls, f.op = "free" => \A c \in Pids : fa[c] # f.pid
      PROVE  FreesBarren(fa, <<f>> \o s)
  <2>1. Frames(<<f>> \o s) = {f} \cup Frames(s)
    BY PushFrames
  <2> QED
    BY <1>1, <2>1 DEF FreesBarren
<1>2. ASSUME NEW S \in SUBSET Pids PROVE FreesBarren(fa, CallReady(S) \o s)
  <2>1. CASE S = {}
    BY <2>1 DEF CallReady
  <2>2. CASE S # {}
    <3> DEFINE f == [op |-> "ready", pid |-> NULL, pids |-> S, events |-> {}]
    <3>1. CallReady(S) = <<f>> /\ f \in Calls /\ f.op = "ready"
      BY <2>2 DEF CallReady, Calls
    <3> HIDE DEF f
    <3> QED
      BY <3>1, <1>1
  <2> QED
    BY <2>1, <2>2
<1>3. ASSUME NEW E \in SUBSET Events PROVE FreesBarren(fa, CallClose(E) \o s)
  <2>1. CASE E = {}
    BY <2>1 DEF CallClose
  <2>2. CASE E # {}
    <3> DEFINE f == [op |-> "close", pid |-> NULL, pids |-> {}, events |-> E]
    <3>1. CallClose(E) = <<f>> /\ f \in Calls /\ f.op = "close"
      BY <2>2 DEF CallClose, Calls
    <3> HIDE DEF f
    <3> QED
      BY <3>1, <1>1
  <2> QED
    BY <2>1, <2>2
<1> QED
  BY <1>1, <1>2, <1>3

LEMMA BarrenPop ==
    ASSUME NEW fa, NEW s \in Seq(Calls), s # <<>>, FreesBarren(fa, s)
    PROVE  FreesBarren(fa, Tail(s))
BY PopFrames DEF FreesBarren

LEMMA BarrenEmpty == ASSUME NEW fa PROVE FreesBarren(fa, <<>>)
BY DEF FreesBarren, Frames

(* A step that keeps the fathers and who is live, and whose stack is well   *)
(* shaped.                                                                 *)
LEMMA KeepTree ==
    ASSUME TreeInv, father' = father, LiveIn(state') = LiveIn(state),
           Chain(ZombieIn(state'), father, kstk'), FreesBarren(father, kstk')
    PROVE  TreeInv'
<1>1. ZeroedFather(state', father)
  BY DEF TreeInv, ZeroedFather, LiveIn
<1> QED
  BY <1>1 DEF TreeInv

LEMMA TerminateTree ==
    ASSUME IInv, TreeInv, NEW p \in Pids \ {0}, state[p] \notin {"ZOMBIE", "UNUSED"},
           NEW sv \in [Pids -> Slots], NEW rest \in Seq(Calls),
           Chain(ZombieIn(state), father, rest), Base(rest), FreesBarren(father, rest),
           rest # <<>> /\ Head(rest).op = "exit" => father[p] = Head(rest).pid,
           Terminate(p, sv, rest), UNCHANGED fields
    PROVE  TreeInv'
<1> DEFINE f == Call("exit", p)
           dead == [state EXCEPT ![p] = "ZOMBIE"]
<1>1. /\ kstk' = <<f>> \o rest /\ state' \in [Pids -> States] /\ Woken(dead)
  BY TerminateFacts
<1>2. /\ dead[0] \notin Dead /\ ZombieIn(dead) = ZombieIn(state) \cup {p}
      /\ LiveIn(dead) = LiveIn(state) /\ p \notin ZombieIn(state)
  BY SlotFacts DEF IInv, TypeOK, PendingOK, Dead, ZombieIn, LiveIn
<1>3. f \in Calls /\ f.op = "exit" /\ f.pid = p
  BY CallTypes DEF Slots
<1> HIDE DEF f, dead
<1>4. ZombieIn(state') = ZombieIn(state) \cup {p} /\ LiveIn(state') = LiveIn(state)
  BY <1>1, <1>2, WokenSets
<1>5. Chain(ZombieIn(state) \cup {f.pid}, father, <<f>> \o rest)
  <2>1. Torn(f) /\ f.pid \notin ZombieIn(state)
    BY <1>2, <1>3 DEF Torn
  <2> QED
    BY <1>3, <2>1, PushTorn
<1>6. FreesBarren(father, kstk')
  BY <1>1, <1>3, BarrenPush
<1>7. father' = father
  BY DEF fields
<1> QED
  BY <1>1, <1>3, <1>4, <1>5, <1>6, <1>7, KeepTree

(* The running process schedules, or schedules after it went to sleep.     *)
LEMMA ScheduleTree ==
    ASSUME IInv, TreeInv, NEW st, st \in {[state EXCEPT ![current] = s] :
                                            s \in {"SLEEPING", "WAIT", "BLOCK", "READY"}},
           Syscall, state' \in [Pids -> States], Woken(st), father' = father, kstk' = kstk
    PROVE  TreeInv'
<1>1. /\ kstk = <<>> /\ ZombieIn(state) = {} /\ current \in Pids
      /\ state[current] = "READY"
  BY SyscallFacts DEF TreeInv
<1>2. st[0] \notin Dead /\ ZombieIn(st) = ZombieIn(state) /\ LiveIn(st) = LiveIn(state)
  BY <1>1, SlotFacts DEF IInv, TypeOK, PendingOK, Dead, ZombieIn, LiveIn
<1>3. ZombieIn(state') = ZombieIn(state) /\ LiveIn(state') = LiveIn(state)
  BY <1>2, WokenSets
<1> QED
  BY <1>3, KeepTree DEF TreeInv

(* A new child of the running process is a leaf.                           *)
LEMMA NewProcTree ==
    ASSUME IInv, TreeInv, Syscall, NEW c \in Pids, NEW t \in {"PROC", "THREAD"},
           NEW s \in {"READY", "CREATED"}, NewProc(c, t, s)
    PROVE  TreeInv'
<1> DEFINE L == LiveIn(state)
<1>1. /\ kstk = <<>> /\ kstk' = kstk /\ ZombieIn(state) = {} /\ current \in Pids
      /\ state[current] = "READY"
      /\ state[c] = "UNUSED"
      /\ state' = [state EXCEPT ![c] = s]
      /\ father' = [father EXCEPT ![c] = current]
      /\ TypeOK
  BY SyscallFacts DEF TreeInv, NewProc, First, Live, IInv
<1>2. /\ c \notin L /\ L \subseteq Pids /\ current \in L /\ current # c
      /\ 0 \in L /\ LiveIn(state') = L \cup {c} /\ ZombieIn(state') = {}
      /\ father'[c] = current /\ \A p \in Pids \ {c} : father'[p] = father[p]
  BY <1>1, SlotFacts DEF LiveIn, TypeOK, IInv, PendingOK, ZombieIn
<1>3. Tree(L, father)
  BY DEF TreeInv
<1>4. \A p \in L \ {0} : father[p] # c
  BY <1>2, <1>3 DEF Tree, Parented
<1> HIDE DEF L
<1>5. Parented(L \cup {c}, father')
  BY <1>2, <1>3 DEF Tree, Parented
<1>6. Rooted(L \cup {c}, father')
  <2> SUFFICES ASSUME NEW S \in SUBSET ((L \cup {c}) \ {0}), S # {}
               PROVE  \E p \in S : father'[p] \notin S
    BY DEF Rooted
  <2>1. CASE S \ {c} = {}
    BY <1>2, <2>1
  <2>2. CASE S \ {c} # {}
    <3>1. PICK p \in S \ {c} : father[p] \notin S \ {c}
      BY <1>3, <2>2 DEF Tree, Rooted
    <3>2. p \in L \ {0} /\ father'[p] = father[p] /\ father[p] # c
      BY <1>2, <1>4
    <3> QED
      BY <3>1, <3>2
  <2> QED
    BY <2>1, <2>2
<1>7. Leafy(L \cup {c}, father')
  <2> SUFFICES ASSUME NEW S \in SUBSET ((L \cup {c}) \ {0}), S # {}
               PROVE  \E p \in S : \A q \in S : father'[q] # p
    BY DEF Leafy
  <2>1. CASE c \in S
    <3>1. \A q \in S : father'[q] # c
      BY <1>2, <1>4
    <3> QED
      BY <2>1, <3>1
  <2>2. CASE c \notin S
    <3>1. S \in SUBSET (L \ {0})
      BY <2>2
    <3>2. PICK p \in S : \A q \in S : father[q] # p
      BY <1>3, <3>1 DEF Tree, Leafy
    <3>3. \A q \in S : father'[q] = father[q]
      BY <1>2, <2>2, <3>1
    <3> QED
      BY <3>2, <3>3
  <2> QED
    BY <2>1, <2>2
<1>8. ZeroedFather(state', father')
  <2>1. s # "UNUSED"
    OBVIOUS
  <2> QED
    BY <1>1, <1>2, <2>1 DEF TreeInv, ZeroedFather, TypeOK
<1>9. Chain(ZombieIn(state'), father', kstk') /\ FreesBarren(father', kstk')
  BY <1>1, <1>2, EmptyChain, BarrenEmpty
<1> QED
  BY <1>2, <1>5, <1>6, <1>7, <1>8, <1>9 DEF TreeInv, Tree

(* A process that detaches becomes a child of init.                        *)
LEMMA DetachTree == ASSUME IInv, TreeInv, Detach PROVE TreeInv'
<1> DEFINE L == LiveIn(state)
<1>1. /\ kstk = <<>> /\ kstk' = kstk /\ current \in Pids /\ ZombieIn(state) = {}
      /\ state' = state /\ TypeOK
      /\ father' = [father EXCEPT ![current] = 0]
  BY SyscallFacts DEF TreeInv, Detach, IInv
<1>2. 0 \in L /\ L \subseteq Pids /\ father'[current] = 0
      /\ \A p \in Pids \ {current} : father'[p] = father[p]
  BY <1>1, SlotFacts DEF LiveIn, TypeOK, IInv, PendingOK
<1>3. Tree(L, father)
  BY DEF TreeInv
<1> HIDE DEF L
<1>4. Parented(L, father')
  BY <1>2, <1>3 DEF Tree, Parented
<1>5. Rooted(L, father')
  <2> SUFFICES ASSUME NEW S \in SUBSET (L \ {0}), S # {}
               PROVE  \E p \in S : father'[p] \notin S
    BY DEF Rooted
  <2>1. PICK p \in S : father[p] \notin S
    BY <1>3 DEF Tree, Rooted
  <2>2. 0 \notin S /\ p \in Pids
    BY <1>2
  <2> QED
    BY <1>2, <2>1, <2>2
<1>6. Leafy(L, father')
  <2> SUFFICES ASSUME NEW S \in SUBSET (L \ {0}), S # {}
               PROVE  \E p \in S : \A q \in S : father'[q] # p
    BY DEF Leafy
  <2>1. PICK p \in S : \A q \in S : father[q] # p
    BY <1>3 DEF Tree, Leafy
  <2>2. p # 0 /\ S \subseteq Pids
    BY <1>2
  <2> QED
    BY <1>2, <2>1, <2>2
<1>7. ZeroedFather(state', father')
  BY <1>1, <1>2, SlotFacts DEF TreeInv, ZeroedFather
<1>8. Chain(ZombieIn(state'), father', kstk') /\ FreesBarren(father', kstk')
  BY <1>1, EmptyChain, BarrenEmpty
<1> QED
  BY <1>1, <1>4, <1>5, <1>6, <1>7, <1>8 DEF TreeInv, Tree, L

(* A slot is zeroed when nobody is its child any more.                     *)
LEMMA FreeTree == ASSUME IInv, TreeInv, FreeProc PROVE TreeInv'
<1> DEFINE a == Head(kstk).pid
           L == LiveIn(state)
<1>1. /\ TypeOK /\ kstk \in Seq(Calls) /\ kstk # <<>> /\ Head(kstk).op = "free"
      /\ StackOK(state, kstk) /\ Arg = a
  BY DEF IInv, TypeOK, PendingOK, FreeProc, Running, Arg
<1>2. a \in Pids \ {0} /\ Head(kstk) \in Frames(kstk)
  BY <1>1, PopFrames DEF StackOK
<1>3. \A c \in Pids : father[c] # a
  BY <1>1, <1>2 DEF TreeInv, FreesBarren
<1>4. /\ state' = [state EXCEPT ![a] = "UNUSED"]
      /\ father' = [father EXCEPT ![a] = 0]
      /\ \E E \in SUBSET Events : kstk' = CallClose(E) \o Tail(kstk)
  BY <1>1 DEF FreeProc
<1>5. Tree(L, father)
  BY DEF TreeInv
<1>6. /\ LiveIn(state') = L \ {a} /\ ZombieIn(state') = ZombieIn(state) \ {a}
      /\ L \subseteq Pids
      /\ father'[a] = 0 /\ \A p \in Pids \ {a} : father'[p] = father[p]
  BY <1>1, <1>2, <1>4 DEF TypeOK, LiveIn, ZombieIn
<1>7. /\ Tail(kstk) \in Seq(Calls) /\ Base(Tail(kstk))
      /\ Chain(ZombieIn(state'), father, Tail(kstk))
  <2>1. Torn(Head(kstk))
    BY <1>1 DEF Torn
  <2> HIDE DEF a
  <2>2. Chain(ZombieIn(state), father, kstk)
    BY DEF TreeInv
  <2>3. /\ Tail(kstk) \in Seq(Calls) /\ Base(Tail(kstk))
        /\ Chain(ZombieIn(state) \ {Head(kstk).pid}, father, Tail(kstk))
    BY <1>1, <2>1, <2>2, Pop
  <2> QED
    BY <1>6, <2>3 DEF a
<1>8. FreesBarren(father, Tail(kstk))
  BY <1>1, BarrenPop DEF TreeInv
<1> HIDE DEF a, L
<1>9. Chain(ZombieIn(state'), father', Tail(kstk)) /\ FreesBarren(father', Tail(kstk))
  <2>1. \A z \in ZombieIn(state') : father'[z] = father[z]
    BY <1>6 DEF ZombieIn
  <2>2. ASSUME NEW f \in Frames(Tail(kstk)), f.op = "free", NEW c \in Pids
        PROVE  father'[c] # f.pid
    <3>1. f \in Frames(kstk) /\ f.pid # 0
      BY <1>1, <2>2, PopFrames DEF StackOK
    <3> QED
      BY <1>6, <1>8, <2>2, <3>1 DEF FreesBarren
  <2> QED
    BY <1>7, <2>1, <2>2, ChainFathers DEF FreesBarren
<1>10. Chain(ZombieIn(state'), father', kstk') /\ FreesBarren(father', kstk')
  BY <1>4, <1>7, <1>9, PushCloseChain, BarrenPush
<1>11. Tree(L \ {a}, father')
  <2>1. Parented(L \ {a}, father')
    BY <1>3, <1>5, <1>6 DEF Tree, Parented
  <2>2. ASSUME NEW S \in SUBSET ((L \ {a}) \ {0}), S # {}
        PROVE  /\ \E p \in S : father'[p] \notin S
               /\ \E p \in S : \A q \in S : father'[q] # p
    <3>1. S \in SUBSET (L \ {0}) /\ \A q \in S : father'[q] = father[q]
      BY <1>6
    <3> QED
      BY <1>5, <2>2, <3>1 DEF Tree, Rooted, Leafy
  <2> QED
    BY <2>1, <2>2 DEF Tree, Rooted, Leafy
<1>12. ZeroedFather(state', father')
  BY <1>4, <1>6 DEF TreeInv, ZeroedFather, IInv, TypeOK
<1> QED
  BY <1>6, <1>10, <1>11, <1>12 DEF TreeInv

LEMMA UserTree == ASSUME IInv, TreeInv, User PROVE TreeInv'
<1>1. ASSUME Syscall
      PROVE  /\ kstk = <<>> /\ ZombieIn(state) = {} /\ current \in Pids
             /\ state[current] = "READY" /\ Trapped \in [Pids -> Slots]
             /\ current \in Slots /\ TypeOK
             /\ <<>> \in Seq(Calls) /\ Chain(ZombieIn(state), father, <<>>)
             /\ Base(<<>>) /\ FreesBarren(father, <<>>)
  BY <1>1, SyscallFacts, EmptyChain, BarrenEmpty DEF TreeInv, Slots, Base, IInv
<1>2. ASSUME NEW t \in {"PROC", "THREAD"}, Fork(t) PROVE TreeInv'
  BY <1>2, NewProcTree DEF Fork
<1>3. CASE ForkFail
  BY <1>3, NewProcTree DEF ForkFail
<1>4. CASE Exec
  BY <1>4, KeepTree DEF Exec, fields, TreeInv
<1>5. CASE Detach
  BY <1>5, DetachTree
<1>6. CASE Exit
  BY <1>1, <1>6, TerminateTree DEF Exit
<1>7. CASE Yield
  <2>1. /\ state' \in [Pids -> States] /\ Woken(state) /\ father' = father /\ kstk' = kstk
    BY <1>1, <1>7, ScheduleFacts DEF Yield, fields
  <2>2. state = [state EXCEPT ![current] = "READY"]
    BY <1>1, <1>7 DEF TypeOK, Yield
  <2> QED
    BY <1>7, <2>1, <2>2, ScheduleTree DEF Yield
<1>8. ASSUME NEW p \in Pids, Kill(p) PROVE TreeInv'
  <2>1. p \in Pids \ {0} /\ state[p] \notin {"ZOMBIE", "UNUSED"}
    BY <1>1, <1>8 DEF Kill, Live, ZombieIn
  <2> QED
    BY <1>1, <1>8, <2>1, TerminateTree DEF Kill
<1>9. ASSUME NEW s \in {"SLEEPING", "WAIT", "BLOCK"}, Syscall, Suspend(s),
             father' = father, kstk' = kstk
      PROVE  TreeInv'
  BY <1>9, SuspendFacts, ScheduleTree
<1>10. ASSUME NEW p \in Pids, WaitPid(p) PROVE TreeInv'
  BY <1>9, <1>10 DEF WaitPid
<1>11. ASSUME NEW n \in 1 .. SLEEP_MAX, Usleep(n) PROVE TreeInv'
  BY <1>9, <1>11 DEF Usleep
<1>12. ASSUME NEW e \in Events, BlockOn(e) PROVE TreeInv'
  BY <1>9, <1>12 DEF BlockOn
<1>13. ASSUME NEW e \in Events, Wakeup(e) PROVE TreeInv'
  <2>1. /\ \E S \in SUBSET Pids : kstk' = CallReady(S) \o <<>>
        /\ state' = state /\ father' = father
    BY <1>13 DEF Wakeup, Wake
  <2>2. NotReady(<<>>)
    BY DEF NotReady
  <2>3. Chain(ZombieIn(state'), father, kstk') /\ FreesBarren(father, kstk')
    BY <1>1, <1>13, <2>1, <2>2, PushReadyChain, BarrenPush DEF Wakeup
  <2> QED
    BY <2>1, <2>3, KeepTree
<1>14. CASE CriticalEnter \/ CriticalQuit
  BY <1>14, KeepTree DEF CriticalEnter, CriticalQuit, SetCritical, TreeInv
<1>15. CASE DataAbort
  <2> DEFINE f == Call("abort", NULL)
  <2>1. f \in Calls /\ f.op = "abort"
    BY SlotFacts, CallTypes
  <2>2. /\ current \in Pids \ {0} /\ state[current] \notin {"ZOMBIE", "UNUSED"}
        /\ Terminate(current, Trapped, <<f>>) /\ UNCHANGED fields /\ Syscall
    BY <1>1, <1>15 DEF DataAbort
  <2> HIDE DEF f
  <2>3. Chain(ZombieIn(state), father, <<f>> \o <<>>) /\ FreesBarren(father, <<f>> \o <<>>)
    <3>1. f.op = "free" => \A c \in Pids : father[c] # f.pid
      BY <2>1
    <3>2. f.op \in {"tick", "abort"} /\ <<>> = <<>>
      BY <2>1
    <3> QED
      BY <1>1, <2>1, <2>2, <3>1, <3>2, PushOther, BarrenPush
  <2>4. <<f>> \o <<>> = <<f>> /\ <<f>> \in Seq(Calls) /\ Head(<<f>>) = f
    BY <2>1
  <2>5. Base(<<f>>) /\ (<<f>> # <<>> /\ Head(<<f>>).op = "exit" => father[current] = Head(<<f>>).pid)
    BY <2>1, <2>4 DEF Base
  <2> QED
    BY <1>1, <2>2, <2>3, <2>4, <2>5, TerminateTree
<1> QED
  BY <1>2, <1>3, <1>4, <1>5, <1>6, <1>7, <1>8, <1>10, <1>11, <1>12, <1>13, <1>14, <1>15
  DEF User

LEMMA TimerTree == ASSUME IInv, TreeInv, NEW gap \in 1 .. SLEEP_MAX, Tick(gap) PROVE TreeInv'
<1> DEFINE f == Call("tick", NULL)
<1>1. f \in Calls /\ f.op = "tick"
  BY SlotFacts, CallTypes
<1>2. /\ \/ \E S \in SUBSET Pids : kstk' = CallReady(S) \o <<f>>
         \/ kstk' = <<f>>
      /\ kstk = <<>> /\ state' = state /\ father' = father
  BY DEF Tick
<1> HIDE DEF f
<1>3. Chain(ZombieIn(state), father, <<f>> \o <<>>) /\ FreesBarren(father, <<f>> \o <<>>)
  <2>1. f.op = "free" => \A c \in Pids : father[c] # f.pid
    BY <1>1
  <2>2. f.op \in {"tick", "abort"} /\ <<>> = <<>>
    BY <1>1
  <2>3. /\ <<>> \in Seq(Calls) /\ Chain(ZombieIn(state), father, <<>>)
        /\ FreesBarren(father, <<>>)
    BY <1>2, BarrenEmpty DEF TreeInv
  <2> QED
    BY <1>1, <2>1, <2>2, <2>3, PushOther, BarrenPush
<1>4. <<f>> \o <<>> = <<f>> /\ <<f>> \in Seq(Calls) /\ NotReady(<<f>>)
  BY <1>1 DEF NotReady
<1>5. Chain(ZombieIn(state), father, kstk') /\ FreesBarren(father, kstk')
  BY <1>2, <1>3, <1>4, PushReadyChain, BarrenPush
<1> QED
  BY <1>2, <1>5, KeepTree

LEMMA ReadyNextTree == ASSUME IInv, TreeInv, NEW p \in Pids, ReadyNext(p) PROVE TreeInv'
<1>1. /\ kstk \in Seq(Calls) /\ kstk # <<>> /\ Head(kstk).op = "ready" /\ TypeOK
      /\ p \in Head(kstk).pids /\ StackOK(state, kstk)
      /\ state' = [state EXCEPT ![p] = "READY"] /\ father' = father
      /\ kstk' = CallReady(Head(kstk).pids \ {p}) \o Tail(kstk)
  BY DEF IInv, TypeOK, PendingOK, ReadyNext, Running, First
<1>2. state[p] \in Waking /\ Head(kstk) \in Calls
  BY <1>1, PopFrames DEF StackOK, Waking
<1>3. Head(kstk).pids \ {p} \in SUBSET Pids
  BY <1>2 DEF Calls
<1>4. ZombieIn(state') = ZombieIn(state) /\ LiveIn(state') = LiveIn(state)
  BY <1>1, <1>2 DEF ZombieIn, LiveIn, TypeOK, Waking
<1>5. /\ Tail(kstk) \in Seq(Calls) /\ NotReady(Tail(kstk))
      /\ Chain(ZombieIn(state), father, Tail(kstk)) /\ FreesBarren(father, Tail(kstk))
  <2>1. ~Torn(Head(kstk))
    BY <1>1 DEF Torn
  <2> QED
    BY <1>1, <2>1, Pop, BarrenPop DEF TreeInv
<1>6. Chain(ZombieIn(state'), father, kstk') /\ FreesBarren(father, kstk')
  BY <1>1, <1>3, <1>4, <1>5, PushReadyChain, BarrenPush
<1> QED
  BY <1>1, <1>4, <1>6, KeepTree

LEMMA KernelTree == ASSUME IInv, TreeInv, Kernel PROVE TreeInv'
<1>1. /\ kstk \in Seq(Calls) /\ saved \in [Pids -> Slots] /\ current \in Slots
      /\ StackOK(state, kstk) /\ state[0] \notin Dead /\ TypeOK
      /\ Chain(ZombieIn(state), father, kstk) /\ FreesBarren(father, kstk)
  BY DEF IInv, TypeOK, PendingOK, Slots, Dead, TreeInv
<1>2. ASSUME NEW c \in Pids, ExitChild(c) PROVE TreeInv'
  <2>1. /\ kstk # <<>> /\ Head(kstk).op = "exit" /\ Arg = Head(kstk).pid
        /\ Running("exit") /\ c \in Children(Arg)
        /\ Terminate(c, saved, kstk) /\ UNCHANGED fields
    BY <1>2 DEF ExitChild, Running, First, Arg
  <2>2. c \in Pids \ {0} /\ father[c] = Arg /\ state[c] \notin {"ZOMBIE", "UNUSED"}
    BY <2>1, ChildAlive
  <2>3. Base(kstk)
    BY <2>1 DEF Base
  <2> QED
    BY <1>1, <2>1, <2>2, <2>3, TerminateTree
<1>3. CASE ExitWaiters
  <2> DEFINE a == Head(kstk).pid
             f == Call("free", a)
             t == Tail(kstk)
             W == {p \in Pids : state[p] = "WAIT" /\ wait[p] = a}
  <2>1. /\ kstk # <<>> /\ Head(kstk).op = "exit" /\ Arg = a /\ Torn(Head(kstk))
        /\ kstk' = CallReady(W) \o (<<f>> \o t) /\ W \in SUBSET Pids
        /\ UNCHANGED <<sched, fields>>
        /\ \A c \in Pids : father[c] # a
    BY <1>3 DEF ExitWaiters, Running, Arg, Torn, Children
  <2>2. a \in Pids \ {0} /\ a \in Slots
    <3>1. Head(kstk) \in Frames(kstk)
      BY <1>1, <2>1, PopFrames
    <3> QED
      BY <1>1, <2>1, <3>1 DEF StackOK, Slots
  <2>3. f \in Calls /\ f.op = "free" /\ f.pid = a /\ Torn(f)
    BY <2>2, CallTypes DEF Torn
  <2>4. /\ t \in Seq(Calls) /\ a \in ZombieIn(state) /\ Base(t)
        /\ Chain(ZombieIn(state) \ {a}, father, t)
        /\ t # <<>> /\ Head(t).op = "exit" => father[a] = Head(t).pid
    BY <1>1, <2>1, Pop
  <2>5. FreesBarren(father, t)
    BY <1>1, <2>1, BarrenPop
  <2> HIDE DEF a, f, t, W
  <2>6. Chain(ZombieIn(state), father, <<f>> \o t)
    <3>1. (ZombieIn(state) \ {a}) \cup {f.pid} = ZombieIn(state) /\ f.pid \notin ZombieIn(state) \ {a}
      BY <2>3, <2>4
    <3>2. Chain((ZombieIn(state) \ {a}) \cup {f.pid}, father, <<f>> \o t)
      BY <2>3, <2>4, <3>1, PushTorn
    <3> QED
      BY <3>1, <3>2
  <2>7. FreesBarren(father, <<f>> \o t)
    BY <2>1, <2>3, <2>4, <2>5, BarrenPush
  <2>8. <<f>> \o t \in Seq(Calls) /\ NotReady(<<f>> \o t)
    BY <2>3, <2>4, PushFrames DEF NotReady
  <2>9. Chain(ZombieIn(state), father, kstk') /\ FreesBarren(father, kstk')
    BY <2>1, <2>6, <2>7, <2>8, PushReadyChain, BarrenPush
  <2>10. state' = state /\ father' = father
    BY <2>1 DEF sched, fields
  <2> QED
    BY <2>9, <2>10, KeepTree
<1>4. CASE CloseFile
  <2> DEFINE t == Tail(kstk)
  <2>1. /\ kstk # <<>> /\ Head(kstk).op = "close" /\ ~Torn(Head(kstk))
        /\ \E e \in Head(kstk).events : \E S \in SUBSET Pids :
              kstk' = CallReady(S) \o (CallClose(Head(kstk).events \ {e}) \o t)
        /\ state' = state /\ father' = father
    BY <1>4 DEF CloseFile, Wake, Running, Torn, sched
  <2>2. /\ t \in Seq(Calls) /\ Chain(ZombieIn(state), father, t) /\ Base(t)
        /\ FreesBarren(father, t) /\ Head(kstk) \in Calls
    BY <1>1, <2>1, Pop, BarrenPop
  <2> HIDE DEF t
  <2>3. PICK e \in Head(kstk).events : \E S \in SUBSET Pids :
              kstk' = CallReady(S) \o (CallClose(Head(kstk).events \ {e}) \o t)
    BY <2>1
  <2> DEFINE E == Head(kstk).events \ {e}
             r == CallClose(E) \o t
  <2>4. E \in SUBSET Events
    BY <2>2 DEF Calls
  <2> HIDE DEF E
  <2>5. /\ Chain(ZombieIn(state), father, r) /\ NotReady(r) /\ r \in Seq(Calls)
        /\ FreesBarren(father, r)
    BY <2>2, <2>4, PushCloseChain, BarrenPush
  <2>6. \E S \in SUBSET Pids : kstk' = CallReady(S) \o r
    BY <2>3 DEF E
  <2> HIDE DEF r
  <2>7. Chain(ZombieIn(state), father, kstk') /\ FreesBarren(father, kstk')
    BY <2>5, <2>6, PushReadyChain, BarrenPush
  <2> QED
    BY <2>1, <2>7, KeepTree
<1>5. CASE TickEnd \/ AbortEnd
  <2>1. /\ kstk # <<>> /\ ~Torn(Head(kstk)) /\ kstk' = Tail(kstk) /\ father' = father
        /\ state' \in [Pids -> States] /\ Woken(state)
    <3>1. \/ Schedule(current, state, ring, saved)
          \/ Schedule(NULL, state, ring, saved)
          \/ state' = state
      BY <1>5 DEF TickEnd, AbortEnd, sched
    <3>2. state' \in [Pids -> States] /\ Woken(state)
      <4>1. CASE state' = state
        BY <1>1, <4>1 DEF TypeOK, Woken
      <4>2. CASE Schedule(current, state, ring, saved)
        BY <1>1, <4>2, ScheduleFacts
      <4>3. CASE Schedule(NULL, state, ring, saved)
        BY <1>1, <4>3, SlotFacts, ScheduleFacts
      <4> QED
        BY <3>1, <4>1, <4>2, <4>3
    <3> QED
      BY <1>5, <3>2 DEF TickEnd, AbortEnd, fields, Running, Torn
  <2>2. ZombieIn(state') = ZombieIn(state) /\ LiveIn(state') = LiveIn(state)
    BY <1>1, <2>1, WokenSets
  <2>3. Chain(ZombieIn(state), father, Tail(kstk)) /\ FreesBarren(father, Tail(kstk))
    BY <1>1, <2>1, Pop, BarrenPop
  <2> QED
    BY <2>1, <2>2, <2>3, KeepTree
<1> QED
  BY <1>2, <1>3, <1>4, <1>5, ReadyNextTree, FreeTree DEF Kernel

LEMMA InitTree == Init => TreeInv
<1> SUFFICES ASSUME Init PROVE TreeInv
  OBVIOUS
<1>1. /\ kstk = <<>> /\ ZombieIn(state) = {} /\ LiveIn(state) = {0}
      /\ ZeroedFather(state, father)
  BY SlotFacts DEF Init, ZombieIn, LiveIn, ZeroedFather
<1>2. Tree({0}, father)
  BY DEF Tree, Parented, Rooted, Leafy
<1> QED
  BY <1>1, <1>2, EmptyChain, BarrenEmpty DEF TreeInv

LEMMA TreeInductive == Spec => []TreeInv
<1>1. Init => TreeInv
  BY InitTree
<1>2. IInv /\ TreeInv /\ [Next]_vars => TreeInv'
  <2> SUFFICES ASSUME IInv, TreeInv, [Next]_vars PROVE TreeInv'
    OBVIOUS
  <2>1. CASE Next
    BY <2>1, UserTree, TimerTree, KernelTree DEF Next, Timer
  <2>2. CASE UNCHANGED vars
    BY <2>2 DEF vars, sched, fields, TreeInv
  <2> QED
    BY <2>1, <2>2
<1> QED
  BY <1>1, <1>2, Inductive, PTL DEF Spec

(* Every process but init has a live father and descends from init, for any *)
(* number of slots and any depth of the exits that are going on.           *)
THEOREM TreeHolds == Spec => []TreeOK
BY TreeInductive, TreeInvTreeOK, PTL

-----------------------------------------------------------------------------
(* The spaces.                                                             *)

(* Only three handlers change who is live, or whose child or in which       *)
(* space a process is.                                                     *)
Family == <<type, father, space, LiveIn(state)>>

LEMMA TerminateFamily ==
    ASSUME IInv, NEW p \in Pids \ {0}, state[p] \notin {"ZOMBIE", "UNUSED"},
           NEW sv \in [Pids -> Slots], NEW rest, Terminate(p, sv, rest), UNCHANGED fields
    PROVE  Family' = Family
<1> DEFINE dead == [state EXCEPT ![p] = "ZOMBIE"]
<1>1. state' \in [Pids -> States] /\ Woken(dead)
  BY TerminateFacts
<1>2. dead[0] \notin Dead /\ LiveIn(dead) = LiveIn(state)
  BY SlotFacts DEF IInv, TypeOK, PendingOK, Dead, LiveIn
<1> HIDE DEF dead
<1>3. LiveIn(state') = LiveIn(state)
  BY <1>1, <1>2, WokenSets
<1> QED
  BY <1>3 DEF Family, fields

LEMMA SuspendFamily ==
    ASSUME IInv, TreeInv, Syscall, NEW s \in {"SLEEPING", "WAIT", "BLOCK"}, Suspend(s),
           UNCHANGED <<type, father, space>>
    PROVE  Family' = Family
<1> DEFINE st == [state EXCEPT ![current] = s]
<1>1. state' \in [Pids -> States] /\ Woken(st)
  BY SuspendFacts
<1>2. current \in Pids /\ state[current] = "READY"
  BY SyscallFacts DEF TreeInv
<1>3. st[0] \notin Dead /\ LiveIn(st) = LiveIn(state)
  BY <1>2, SlotFacts DEF IInv, TypeOK, PendingOK, Dead, LiveIn
<1> HIDE DEF st
<1>4. LiveIn(state') = LiveIn(state)
  BY <1>1, <1>3, WokenSets
<1> QED
  BY <1>4 DEF Family

LEMMA ScheduleFamily ==
    ASSUME IInv, NEW cur \in Slots, NEW sv \in [Pids -> Slots],
           Schedule(cur, state, ring, sv), UNCHANGED <<type, father, space>>
    PROVE  Family' = Family
<1>1. Woken(state)
  BY ScheduleFacts
<1>2. state[0] \notin Dead
  BY DEF IInv, PendingOK, Dead
<1>3. LiveIn(state') = LiveIn(state)
  BY <1>1, <1>2, WokenSets
<1> QED
  BY <1>3 DEF Family

LEMMA FamilySteps ==
    ASSUME IInv, TreeInv, Next
    PROVE  \/ \E c \in Pids, t \in {"PROC", "THREAD"}, s \in {"READY", "CREATED"} :
                 Syscall /\ NewProc(c, t, s)
           \/ Detach
           \/ FreeProc
           \/ Family' = Family
<1>1. /\ Syscall => /\ current \in Pids /\ state[current] = "READY"
                    /\ Trapped \in [Pids -> Slots] /\ ZombieIn(state) = {}
      /\ saved \in [Pids -> Slots] /\ current \in Slots /\ TypeOK
      /\ kstk \in Seq(Calls) /\ StackOK(state, kstk)
  BY SyscallFacts DEF TreeInv, IInv, TypeOK, PendingOK, Slots
<1>2. ASSUME NEW t \in {"PROC", "THREAD"}, Fork(t)
      PROVE  \E c \in Pids, u \in {"PROC", "THREAD"}, s \in {"READY", "CREATED"} :
                Syscall /\ NewProc(c, u, s)
  BY <1>2 DEF Fork
<1>3. ASSUME ForkFail
      PROVE  \E c \in Pids, u \in {"PROC", "THREAD"}, s \in {"READY", "CREATED"} :
                Syscall /\ NewProc(c, u, s)
  BY <1>3 DEF ForkFail
<1>4. ASSUME Exec \/ CriticalEnter \/ CriticalQuit PROVE Family' = Family
  BY <1>4 DEF Exec, CriticalEnter, CriticalQuit, SetCritical, fields, Family, LiveIn
<1>5. ASSUME NEW e \in Events, Wakeup(e) PROVE Family' = Family
  BY <1>5 DEF Wakeup, Family, LiveIn
<1>6. ASSUME Exit PROVE Family' = Family
  BY <1>1, <1>6, TerminateFamily DEF Exit
<1>7. ASSUME Yield PROVE Family' = Family
  BY <1>1, <1>7, ScheduleFamily DEF Yield, fields
<1>8. ASSUME NEW p \in Pids, Kill(p) PROVE Family' = Family
  <2>1. p \in Pids \ {0} /\ state[p] \notin {"ZOMBIE", "UNUSED"}
    BY <1>1, <1>8 DEF Kill, Live, ZombieIn
  <2> QED
    BY <1>1, <1>8, <2>1, TerminateFamily DEF Kill
<1>9. ASSUME DataAbort PROVE Family' = Family
  BY <1>1, <1>9, TerminateFamily DEF DataAbort
<1>10. ASSUME NEW p \in Pids, WaitPid(p) PROVE Family' = Family
  BY <1>10, SuspendFamily DEF WaitPid
<1>11. ASSUME NEW n \in 1 .. SLEEP_MAX, Usleep(n) PROVE Family' = Family
  BY <1>11, SuspendFamily DEF Usleep
<1>12. ASSUME NEW e \in Events, BlockOn(e) PROVE Family' = Family
  BY <1>12, SuspendFamily DEF BlockOn
<1>13. ASSUME NEW gap \in 1 .. SLEEP_MAX, Tick(gap) PROVE Family' = Family
  BY <1>13 DEF Tick, Family, LiveIn
<1>14. ASSUME NEW c \in Pids, ExitChild(c) PROVE Family' = Family
  <2>1. c \in Pids \ {0} /\ state[c] \notin {"ZOMBIE", "UNUSED"}
    BY <1>14, ChildAlive DEF ExitChild, First
  <2> QED
    BY <1>1, <1>14, <2>1, TerminateFamily DEF ExitChild
<1>15. ASSUME NEW p \in Pids, ReadyNext(p) PROVE Family' = Family
  <2>1. state[p] \in Waking /\ state' = [state EXCEPT ![p] = "READY"]
        /\ UNCHANGED <<type, father, space>>
    BY <1>1, <1>15 DEF ReadyNext, Running, First, StackOK, Waking
  <2>2. LiveIn(state') = LiveIn(state)
    BY <1>1, <2>1 DEF LiveIn, TypeOK, Waking
  <2> QED
    BY <2>1, <2>2 DEF Family
<1>16. ASSUME ExitWaiters \/ CloseFile PROVE Family' = Family
  BY <1>16 DEF ExitWaiters, CloseFile, sched, fields, Family, LiveIn
<1>17. ASSUME TickEnd PROVE Family' = Family
  <2>1. CASE UNCHANGED sched
    BY <1>17, <2>1 DEF TickEnd, sched, Family, LiveIn
  <2>2. CASE Schedule(current, state, ring, saved)
    BY <1>1, <1>17, <2>2, ScheduleFamily DEF TickEnd
  <2> QED
    BY <1>17, <2>1, <2>2 DEF TickEnd
<1>18. ASSUME AbortEnd PROVE Family' = Family
  BY <1>1, <1>18, SlotFacts, ScheduleFamily DEF AbortEnd, fields
<1> QED
  BY <1>2, <1>3, <1>4, <1>5, <1>6, <1>7, <1>8, <1>9, <1>10, <1>11, <1>12, <1>13, <1>14,
     <1>15, <1>16, <1>17, <1>18 DEF Next, User, Timer, Kernel

(* Besides SpaceOK: a process that is no thread runs in its own space.      *)
SpaceInv ==
    /\ SpaceOK
    /\ type[0] = "PROC"
    /\ \A p \in Live : type[p] = "PROC" => space[p] = p

LEMMA NewProcSpace ==
    ASSUME IInv, TreeInv, SpaceInv, Syscall, NEW c \in Pids, NEW t \in {"PROC", "THREAD"},
           NEW s \in {"READY", "CREATED"}, NewProc(c, t, s)
    PROVE  SpaceInv'
<1>1. /\ TypeOK /\ current \in Live /\ current \in Pids /\ 0 \in Live
      /\ c \notin Live /\ c # current /\ Live' = Live \cup {c} /\ Live \subseteq Pids
  BY SyscallFacts, SlotFacts
  DEF IInv, TreeInv, TypeOK, PendingOK, NewProc, First, Live
<1>2. /\ type'[c] = t /\ father'[c] = current
      /\ space'[c] = IF t = "PROC" THEN c ELSE space[current]
      /\ \A p \in Pids \ {c} : type'[p] = type[p] /\ father'[p] = father[p] /\ space'[p] = space[p]
  BY <1>1 DEF NewProc, TypeOK
<1>3. \A p \in Live : /\ space[p] \in Live /\ space[space[p]] = space[p]
                      /\ type[p] = "THREAD" => space[p] = space[father[p]]
                      /\ type[p] = "PROC" => space[p] = p
  BY DEF SpaceInv, SpaceOK
<1>4. \A p \in Live : type[p] = "THREAD" => father[p] \in Live
  <2>1. type[0] # "THREAD"
    BY DEF SpaceInv
  <2> QED
    BY <2>1, TreeInvTreeOK DEF TreeOK
<1>5. ASSUME NEW p \in Live
      PROVE  /\ space'[p] \in Live' /\ space'[space'[p]] = space'[p]
             /\ type'[p] = "THREAD" => space'[p] = space'[father'[p]]
             /\ type'[p] = "PROC" => space'[p] = p
  <2>1. p \in Pids \ {c} /\ space[p] \in Pids \ {c}
    BY <1>1, <1>3
  <2>2. type[p] = "THREAD" => father[p] \in Pids \ {c}
    BY <1>1, <1>4
  <2> QED
    BY <1>1, <1>2, <1>3, <2>1, <2>2
<1>6. /\ space'[c] \in Live' /\ space'[space'[c]] = space'[c]
      /\ type'[c] = "THREAD" => space'[c] = space'[father'[c]]
      /\ type'[c] = "PROC" => space'[c] = c
  <2>1. current \in Pids \ {c} /\ space[current] \in Pids \ {c}
        /\ space[space[current]] = space[current] /\ space[current] \in Live
    BY <1>1, <1>3
  <2> QED
    BY <1>1, <1>2, <2>1
<1>7. type'[0] = "PROC"
  BY <1>1, <1>2 DEF SpaceInv
<1> QED
  BY <1>1, <1>5, <1>6, <1>7 DEF SpaceInv, SpaceOK

LEMMA FreeSpace == ASSUME IInv, TreeInv, SpaceInv, FreeProc PROVE SpaceInv'
<1> DEFINE a == Arg
<1>1. /\ TypeOK /\ kstk \in Seq(Calls) /\ kstk # <<>> /\ Head(kstk).op = "free"
      /\ StackOK(state, kstk) /\ a = Head(kstk).pid /\ FreesBarren(father, kstk)
  BY DEF IInv, TypeOK, PendingOK, FreeProc, Running, Arg, TreeInv
<1>2. a \in Pids \ {0} /\ \A c \in Pids : father[c] # a
  BY <1>1, PopFrames DEF StackOK, FreesBarren
<1>3. /\ state' = [state EXCEPT ![a] = "UNUSED"]
      /\ type' = [type EXCEPT ![a] = "PROC"]
      /\ father' = [father EXCEPT ![a] = 0]
      /\ space' = [space EXCEPT ![a] = NULL]
  BY DEF FreeProc
<1> HIDE DEF a
<1>4. /\ Live' = Live \ {a} /\ Live \subseteq Pids /\ TreeOK
      /\ \A p \in Pids \ {a} : type'[p] = type[p] /\ father'[p] = father[p] /\ space'[p] = space[p]
  BY <1>1, <1>2, <1>3, TreeInvTreeOK DEF TypeOK, Live
<1>5. \A p \in Live : /\ space[p] \in Live /\ space[space[p]] = space[p]
                      /\ type[p] = "THREAD" => p # 0 /\ space[p] = space[father[p]]
                      /\ type[p] = "PROC" => space[p] = p
                      /\ type[p] \in {"PROC", "THREAD"}
  BY <1>1, <1>4 DEF SpaceInv, SpaceOK, TypeOK
<1>6. \A p \in Live \ {a} : space[p] # a
  <2> DEFINE S == {p \in Live \ {a} : space[p] = a}
  <2>1. \A p \in S : type[p] = "THREAD" /\ p # 0 /\ space[father[p]] = a
    BY <1>5
  <2>2. S \in SUBSET (Live \ {0})
    BY <2>1
  <2>3. ASSUME S # {} PROVE FALSE
    <3>1. PICK p \in S : father[p] \notin S
      BY <1>4, <2>2, <2>3 DEF TreeOK
    <3>2. p \in Pids /\ father[p] \in Live
      BY <1>4, <2>2, <3>1 DEF TreeOK
    <3>3. father[p] = a
      BY <2>1, <3>1, <3>2
    <3> QED
      BY <1>2, <3>2, <3>3
  <2> QED
    BY <2>3
<1>7. ASSUME NEW p \in Live \ {a}
      PROVE  /\ space'[p] \in Live \ {a} /\ space'[space'[p]] = space'[p]
             /\ type'[p] = "THREAD" => space'[p] = space'[father'[p]]
             /\ type'[p] = "PROC" => space'[p] = p
  <2>1. p \in Pids \ {a} /\ space[p] \in Pids \ {a}
    BY <1>4, <1>5, <1>6
  <2>2. type[p] = "THREAD" => father[p] \in Pids \ {a}
    BY <1>2, <1>4, <1>5, <2>1 DEF TreeOK
  <2> QED
    BY <1>4, <1>5, <2>1, <2>2
<1>8. type'[0] = "PROC"
  BY <1>2, <1>4, SlotFacts DEF SpaceInv
<1> QED
  BY <1>4, <1>7, <1>8 DEF SpaceInv, SpaceOK

LEMMA DetachSpace ==
    ASSUME "THREAD" \notin Detachers, IInv, SpaceInv, Detach
    PROVE  SpaceInv'
<1>1. /\ type[current] # "THREAD" /\ current \in Pids /\ TypeOK
      /\ father' = [father EXCEPT ![current] = 0]
      /\ UNCHANGED <<state, type, space>>
  BY DEF Detach, Syscall, IInv, TypeOK
<1>2. \A p \in Pids : type[p] = "THREAD" => father'[p] = father[p]
  BY <1>1 DEF TypeOK
<1> QED
  BY <1>1, <1>2 DEF SpaceInv, SpaceOK, Live

LEMMA SpaceStep ==
    ASSUME "THREAD" \notin Detachers, IInv, TreeInv, SpaceInv, [Next]_vars
    PROVE  SpaceInv'
<1>1. ASSUME Family' = Family PROVE SpaceInv'
  <2>1. UNCHANGED <<type, father, space>> /\ Live' = Live
    BY <1>1, LiveIs DEF Family
  <2> QED
    BY <2>1 DEF SpaceInv, SpaceOK
<1>2. CASE UNCHANGED vars
  BY <1>1, <1>2 DEF vars, sched, fields, Family, LiveIn
<1>3. CASE Next
  BY <1>1, <1>3, FamilySteps, NewProcSpace, FreeSpace, DetachSpace
<1> QED
  BY <1>2, <1>3

(* As long as no thread detaches itself, every process runs in the space of *)
(* a live process, a thread in that of its parent: proc_exit frees no space *)
(* that somebody runs in, because it ends the threads first.               *)
THEOREM SpacesHold ==
    ASSUME "THREAD" \notin Detachers
    PROVE  Spec => []SpaceOK
<1>1. Init => SpaceInv
  <2> SUFFICES ASSUME Init PROVE SpaceInv
    OBVIOUS
  <2>1. Live = {0} /\ space[0] = 0 /\ type[0] = "PROC"
    BY SlotFacts DEF Init, Live
  <2> QED
    BY <2>1 DEF SpaceInv, SpaceOK
<1>2. IInv /\ TreeInv /\ SpaceInv /\ [Next]_vars => SpaceInv'
  BY SpaceStep
<1>3. SpaceInv => SpaceOK
  BY DEF SpaceInv
<1> QED
  BY <1>1, <1>2, <1>3, Inductive, TreeInductive, PTL DEF Spec

-----------------------------------------------------------------------------
(* The saved contexts.                                                     *)

Aborting(s) == \E f \in Frames(s) : f.op = "abort"

(* Whoever may be switched to has its registers in its record: all but the  *)
(* running process, and that one too while a data abort is handled, since   *)
(* the handler's end will not save it again.                               *)
Fresh(cur, st, sv, ab) ==
    \A p \in Pids : st[p] \in Waking /\ (p # cur \/ ab) => sv[p] = p

CtxInv ==
    /\ current # NULL => frame = current
    /\ Fresh(current, state, saved, Aborting(kstk))

LEMMA AbortPush ==
    ASSUME NEW s \in Seq(Calls)
    PROVE  /\ \A f \in Calls : f.op # "abort" /\ Aborting(<<f>> \o s) => Aborting(s)
           /\ \A S \in SUBSET Pids : Aborting(CallReady(S) \o s) => Aborting(s)
<1>1. ASSUME NEW f \in Calls, f.op # "abort", Aborting(<<f>> \o s) PROVE Aborting(s)
  BY <1>1, PushFrames DEF Aborting
<1>2. ASSUME NEW S \in SUBSET Pids, Aborting(CallReady(S) \o s) PROVE Aborting(s)
  <2>1. CASE S = {}
    BY <1>2, <2>1 DEF CallReady
  <2>2. CASE S # {}
    <3> DEFINE f == [op |-> "ready", pid |-> NULL, pids |-> S, events |-> {}]
    <3>1. CallReady(S) = <<f>> /\ f \in Calls /\ f.op = "ready"
      BY <2>2 DEF CallReady, Calls
    <3> HIDE DEF f
    <3> QED
      BY <1>2, <3>1, <1>1
  <2> QED
    BY <2>1, <2>2
<1> QED
  BY <1>1, <1>2

LEMMA AbortClose ==
    ASSUME NEW s \in Seq(Calls), NEW E \in SUBSET Events
    PROVE  CallClose(E) \o s \in Seq(Calls) /\ (Aborting(CallClose(E) \o s) => Aborting(s))
<1>1. CASE E = {}
  BY <1>1 DEF CallClose
<1>2. CASE E # {}
  <2> DEFINE f == [op |-> "close", pid |-> NULL, pids |-> {}, events |-> E]
  <2>1. CallClose(E) = <<f>> /\ f \in Calls /\ f.op = "close"
    BY <1>2 DEF CallClose, Calls
  <2> HIDE DEF f
  <2>2. <<f>> \o s \in Seq(Calls)
    BY <2>1, PushFrames
  <2>3. Aborting(<<f>> \o s) => Aborting(s)
    BY <2>1, AbortPush
  <2> QED
    BY <2>1, <2>2, <2>3
<1> QED
  BY <1>1, <1>2

LEMMA AbortPop ==
    ASSUME NEW s \in Seq(Calls), s # <<>>, Aborting(Tail(s))
    PROVE  Aborting(s)
BY PopFrames DEF Aborting

LEMMA AbortEmpty == ~Aborting(<<>>)
BY DEF Aborting, Frames

LEMMA ScheduleCtx ==
    ASSUME TypeOK, NEW cur \in Slots, NEW st \in [Pids -> States], NEW r,
           RingOf(r, ReadyIn(st)), NEW sv \in [Pids -> Slots], st[0] \notin Dead,
           Schedule(cur, st, r, sv), cur # NULL => frame = cur,
           NEW ab \in BOOLEAN, Fresh(cur, st, sv, ab)
    PROVE  frame' = current' /\ Fresh(current', state', saved', ab)
<1> DEFINE S == ReadyIn(st)
           cand == IF cur # NULL /\ r.next[cur] # NULL THEN r.next[cur] ELSE r.head
<1>1. /\ r.next \in [Pids -> Slots] /\ r.head \in Slots /\ S \subseteq Pids
      /\ \A p \in Pids : r.next[p] # NULL => r.next[p] \in S
      /\ r.head # NULL => r.head \in S
      /\ r.head = NULL => S = {}
  BY SlotFacts DEF RingOf, Rings, Links, Slots, ReadyIn
<1>2. cand \in Slots /\ (cand # NULL => cand \in S) /\ (cand = NULL => S = {})
  BY <1>1 DEF Slots
<1>3. \A p \in Pids : st[p] \in Waking /\ (p # cur \/ ab) => sv[p] = p
  BY DEF Fresh
<1>4. CASE cand # NULL
  <2>1. /\ state' = st
        /\ current' = cand
        /\ frame' = IF cand = cur THEN frame ELSE sv[cand]
        /\ saved' = IF cand = cur \/ cur = NULL \/ st[cur] = "UNUSED" THEN sv
                    ELSE [sv EXCEPT ![cur] = frame]
    BY <1>4 DEF Schedule
  <2>2. cand \in Pids /\ st[cand] \in Waking
    BY <1>2, <1>4 DEF ReadyIn, Waking
  <2> HIDE DEF cand
  <2>3. CASE cand = cur
    BY <1>3, <1>4, <2>1, <2>3 DEF Fresh
  <2>4. CASE cand # cur
    <3>1. frame' = current'
      BY <1>3, <2>1, <2>2, <2>4
    <3>2. ASSUME NEW p \in Pids, st[p] \in Waking, p # cand \/ ab PROVE saved'[p] = p
      <4>1. CASE p = cur
        BY <2>1, <2>4, <3>2, <4>1, SlotFacts DEF Waking
      <4>2. CASE p # cur
        BY <1>3, <2>1, <3>2, <4>2
      <4> QED
        BY <4>1, <4>2
    <3> QED
      BY <2>1, <3>1, <3>2 DEF Fresh
  <2> QED
    BY <2>3, <2>4
<1>5. CASE cand = NULL
  <2>1. S = {} /\ st[0] # "READY"
    BY <1>2, <1>5, SlotFacts DEF ReadyIn
  <2>2. /\ state' = [st EXCEPT ![0] = "READY"]
        /\ current' = 0
        /\ frame' = IF 0 = cur THEN frame ELSE sv[0]
        /\ saved' = IF 0 = cur \/ cur = NULL \/ st[cur] = "UNUSED" THEN sv
                    ELSE [sv EXCEPT ![cur] = frame]
    BY <1>5, <2>1 DEF Schedule, Dead
  <2>3. 0 \in Pids /\ st[0] \in Waking /\ \A p \in Pids : state'[p] \in Waking => st[p] \in Waking
    BY <2>2, SlotFacts DEF Waking, Dead, States
  <2>4. CASE cur = 0
    BY <1>3, <2>2, <2>3, <2>4, SlotFacts DEF Fresh
  <2>5. CASE cur # 0
    <3>1. frame' = current'
      BY <1>3, <2>2, <2>3, <2>5
    <3>2. ASSUME NEW p \in Pids, state'[p] \in Waking, p # 0 \/ ab PROVE saved'[p] = p
      <4>1. CASE p = cur
        BY <2>2, <2>3, <2>5, <3>2, <4>1, SlotFacts DEF Waking
      <4>2. CASE p # cur
        BY <1>3, <2>2, <2>3, <3>2, <4>2
      <4> QED
        BY <4>1, <4>2
    <3> QED
      BY <2>2, <3>1, <3>2 DEF Fresh
  <2> QED
    BY <2>4, <2>5
<1> QED
  BY <1>4, <1>5

(* Fewer data aborts ask for less.                                         *)
LEMMA FreshWeaker ==
    ASSUME NEW cur, NEW st, NEW sv, NEW ab, NEW ac, Fresh(cur, st, sv, ab), ac => ab
    PROVE  Fresh(cur, st, sv, ac)
BY DEF Fresh

LEMMA TrappedFresh ==
    ASSUME IInv, TreeInv, CtxInv, Syscall \/ kstk = <<>>, NEW ab, ~ab
    PROVE  /\ Trapped \in [Pids -> Slots] /\ Fresh(current, state, Trapped, ab)
           /\ \A p \in Pids \ {current} : Trapped[p] = saved[p]
<1>1. TypeOK
  BY DEF IInv
<1>2. \A p \in Pids \ {current} : Trapped[p] = saved[p]
  BY <1>1 DEF Trapped, TypeOK
<1> QED
  BY <1>1, <1>2, TrappedType DEF Fresh, CtxInv

LEMMA TerminateCtx ==
    ASSUME IInv, CtxInv, NEW p \in Pids \ {0}, state[p] \notin {"ZOMBIE", "UNUSED"},
           NEW sv \in [Pids -> Slots], NEW rest \in Seq(Calls), Terminate(p, sv, rest),
           Fresh(current, [state EXCEPT ![p] = "ZOMBIE"], sv, Aborting(rest))
    PROVE  CtxInv'
<1>0. TypeOK /\ RingOK /\ PendingOK /\ p \in Pids /\ p \in Slots /\ p # 0
  BY DEF IInv, Slots
<1> DEFINE dead == [state EXCEPT ![p] = "ZOMBIE"]
           f == Call("exit", p)
           ab == Aborting(rest)
<1>1. kstk' = <<f>> \o rest
  BY DEF Terminate
<1>2. f \in Calls /\ f.op = "exit"
  BY <1>0, CallTypes
<1>3. dead \in [Pids -> States] /\ dead[p] = "ZOMBIE"
      /\ \A q \in Pids \ {p} : dead[q] = state[q]
  BY <1>0 DEF TypeOK, States
<1>4. dead[0] \notin Dead
  BY <1>3, <1>0, SlotFacts DEF PendingOK, Dead
<1>5. ab \in BOOLEAN
  BY DEF Aborting
<1>6. Fresh(current, dead, sv, ab)
  OBVIOUS
<1>7. CASE state[p] = "READY" /\ p = current
  <2>1. Schedule(current, dead, Unlink(ring, p), sv)
    BY <1>7 DEF Terminate
  <2>2. RingOf(Unlink(ring, p), ReadyIn(dead))
    BY <1>0, <1>7, UnlinkReady DEF States
  <2>3. current \in Slots /\ (current # NULL => frame = current)
    BY <1>0, <1>7 DEF CtxInv
  <2> HIDE DEF dead, f, ab
  <2>4. frame' = current' /\ Fresh(current', state', saved', ab)
    BY <1>0, <1>3, <1>4, <1>5, <1>6, <2>1, <2>2, <2>3, ScheduleCtx
  <2>5. Aborting(kstk') => ab
    BY <1>1, <1>2, AbortPush DEF ab
  <2> QED
    BY <2>4, <2>5, FreshWeaker DEF CtxInv
<1>8. CASE ~(state[p] = "READY" /\ p = current)
  <2>1. /\ state' = dead /\ current' = current /\ frame' = frame
        /\ saved' = sv \/ saved' = [sv EXCEPT ![p] = frame]
    BY <1>8 DEF Terminate
  <2> HIDE DEF dead, f, ab
  <2>2. Fresh(current, dead, saved', ab)
    BY <1>3, <1>6, <2>1 DEF Fresh, Waking
  <2>3. Aborting(kstk') => ab
    BY <1>1, <1>2, AbortPush DEF ab
  <2>4. Fresh(current, dead, saved', Aborting(kstk'))
    BY <2>2, <2>3, FreshWeaker
  <2> QED
    BY <2>1, <2>4 DEF CtxInv
<1> QED
  BY <1>7, <1>8

LEMMA SuspendCtx ==
    ASSUME IInv, TreeInv, CtxInv, Syscall, NEW s \in {"SLEEPING", "WAIT", "BLOCK"},
           Suspend(s), kstk' = kstk
    PROVE  CtxInv'
<1> DEFINE st == [state EXCEPT ![current] = s]
<1>1. /\ kstk = <<>> /\ current \in Pids /\ current \in Slots /\ current # NULL
      /\ state[current] = "READY"
      /\ TypeOK /\ RingOK /\ PendingOK /\ s \in States \ {"READY"}
  BY SyscallFacts DEF TreeInv, IInv, States, Slots, Syscall
<1>2. st \in [Pids -> States] /\ RingOf(Unlink(ring, current), ReadyIn(st))
  BY <1>1, UnlinkReady
<1>3. st[0] \notin Dead
  BY <1>1, SlotFacts DEF PendingOK, TypeOK, Dead
<1>4. Trapped \in [Pids -> Slots] /\ Fresh(current, state, Trapped, FALSE)
  BY TrappedFresh
<1>5. Fresh(current, st, Trapped, FALSE)
  BY <1>1, <1>4 DEF Fresh, TypeOK
<1>6. Schedule(current, st, Unlink(ring, current), Trapped) /\ frame = current
  BY <1>1 DEF Suspend, CtxInv
<1> HIDE DEF st
<1>7. frame' = current' /\ Fresh(current', state', saved', FALSE)
  BY <1>1, <1>2, <1>3, <1>4, <1>5, <1>6, ScheduleCtx
<1> QED
  BY <1>1, <1>7, AbortEmpty, FreshWeaker DEF CtxInv

LEMMA KeepCtx ==
    ASSUME IInv, TreeInv, CtxInv, UNCHANGED <<current, frame>>, kstk = <<>>,
           ~Aborting(kstk'), state' = state, saved' = Trapped
    PROVE  CtxInv'
<1>1. Fresh(current, state, Trapped, Aborting(kstk'))
  BY TrappedFresh
<1> QED
  BY <1>1 DEF CtxInv

LEMMA UserCtx == ASSUME IInv, TreeInv, CtxInv, User PROVE CtxInv'
<1>1. ASSUME Syscall
      PROVE  /\ kstk = <<>> /\ ZombieIn(state) = {} /\ current \in Pids
             /\ state[current] = "READY" /\ Trapped \in [Pids -> Slots]
             /\ TypeOK /\ <<>> \in Seq(Calls)
             /\ Fresh(current, state, Trapped, FALSE)
  <2>1. ~FALSE /\ (Syscall \/ kstk = <<>>)
    BY <1>1
  <2>2. Fresh(current, state, Trapped, FALSE)
    BY <2>1, TrappedFresh
  <2>3. <<>> \in Seq(Calls)
    OBVIOUS
  <2> QED
    BY <1>1, <2>2, <2>3, SyscallFacts DEF TreeInv, IInv
<1>2. ASSUME NEW t \in {"PROC", "THREAD"}, Fork(t) PROVE CtxInv'
  <2> PICK c \in Pids : NewProc(c, t, "READY") /\ saved' = [Trapped EXCEPT ![c] = c]
    BY <1>2 DEF Fork
  <2>1. /\ Syscall /\ state' = [state EXCEPT ![c] = "READY"]
        /\ UNCHANGED <<current, frame, kstk>>
    BY <1>2 DEF Fork, NewProc
  <2>2. Fresh(current, state', saved', FALSE)
    BY <1>1, <2>1 DEF Fresh, TypeOK
  <2> QED
    BY <1>1, <2>1, <2>2, AbortEmpty, FreshWeaker DEF CtxInv
<1>3. CASE ForkFail
  <2> PICK c \in Pids : NewProc(c, "PROC", "CREATED") /\ saved' = Trapped
    BY <1>3 DEF ForkFail
  <2>1. /\ Syscall /\ state' = [state EXCEPT ![c] = "CREATED"]
        /\ UNCHANGED <<current, frame, kstk>>
    BY <1>3 DEF ForkFail, NewProc
  <2>2. Fresh(current, state', saved', FALSE)
    BY <1>1, <2>1 DEF Fresh, TypeOK, Waking
  <2> QED
    BY <1>1, <2>1, <2>2, AbortEmpty, FreshWeaker DEF CtxInv
<1>4. CASE Exec \/ Detach \/ CriticalEnter \/ CriticalQuit
  <2>1. /\ Syscall /\ state' = state /\ saved' = Trapped /\ UNCHANGED <<current, frame, kstk>>
    BY <1>4 DEF Exec, Detach, CriticalEnter, CriticalQuit, SetCritical
  <2> QED
    BY <1>1, <2>1, AbortEmpty, KeepCtx
<1>5. ASSUME NEW e \in Events, Wakeup(e) PROVE CtxInv'
  <2>1. /\ \E S \in SUBSET Pids : kstk' = CallReady(S) \o <<>>
        /\ state' = state /\ saved' = Trapped /\ UNCHANGED <<current, frame>> /\ Syscall
    BY <1>5 DEF Wakeup, Wake
  <2>2. ~Aborting(kstk')
    BY <1>1, <2>1, AbortEmpty, AbortPush
  <2> QED
    BY <1>1, <2>1, <2>2, KeepCtx
<1>6. ASSUME NEW p \in Pids \ {0}, Syscall, state[p] \notin {"ZOMBIE", "UNUSED"},
             Terminate(p, Trapped, <<>>)
      PROVE  CtxInv'
  <2>1. Fresh(current, [state EXCEPT ![p] = "ZOMBIE"], Trapped, Aborting(<<>>))
    BY <1>1, <1>6, AbortEmpty DEF Fresh, TypeOK, Waking
  <2> QED
    BY <1>1, <1>6, <2>1, TerminateCtx
<1>7. CASE Exit
  BY <1>1, <1>6, <1>7 DEF Exit
<1>8. ASSUME NEW p \in Pids, Kill(p) PROVE CtxInv'
  <2>1. p \in Pids \ {0} /\ state[p] \notin {"ZOMBIE", "UNUSED"}
    BY <1>1, <1>8 DEF Kill, Live, ZombieIn
  <2> QED
    BY <1>6, <1>8, <2>1 DEF Kill
<1>9. CASE DataAbort
  <2> DEFINE rest == <<Call("abort", NULL)>>
  <2>1. /\ Syscall /\ current \in Pids \ {0} /\ Terminate(current, Trapped, rest)
    BY <1>1, <1>9 DEF DataAbort
  <2>2. rest \in Seq(Calls)
    BY SlotFacts, CallTypes
  <2> HIDE DEF rest
  <2>3. Fresh(current, [state EXCEPT ![current] = "ZOMBIE"], Trapped, Aborting(rest))
    BY <1>1, <2>1 DEF Fresh, TypeOK, Waking
  <2> QED
    BY <1>1, <2>1, <2>2, <2>3, TerminateCtx
<1>10. CASE Yield
  <2>1. /\ Syscall /\ Schedule(current, state, ring, Trapped) /\ kstk' = kstk
    BY <1>10 DEF Yield
  <2>2. /\ state \in [Pids -> States] /\ RingOf(ring, ReadyIn(state)) /\ state[0] \notin Dead
        /\ frame = current /\ current \in Slots
    BY <1>1, <2>1, ReadySetIs DEF IInv, TypeOK, RingOK, PendingOK, Dead, CtxInv, Syscall, Slots
  <2>3. frame' = current' /\ Fresh(current', state', saved', FALSE)
    BY <1>1, <2>1, <2>2, ScheduleCtx
  <2> QED
    BY <1>1, <2>1, <2>3, AbortEmpty, FreshWeaker DEF CtxInv
<1>11. ASSUME NEW p \in Pids, WaitPid(p) PROVE CtxInv'
  BY <1>11, SuspendCtx DEF WaitPid
<1>12. ASSUME NEW n \in 1 .. SLEEP_MAX, Usleep(n) PROVE CtxInv'
  BY <1>12, SuspendCtx DEF Usleep
<1>13. ASSUME NEW e \in Events, BlockOn(e) PROVE CtxInv'
  BY <1>13, SuspendCtx DEF BlockOn
<1> QED
  BY <1>2, <1>3, <1>4, <1>5, <1>7, <1>8, <1>9, <1>10, <1>11, <1>12, <1>13 DEF User

LEMMA TimerCtx == ASSUME IInv, TreeInv, CtxInv, NEW gap \in 1 .. SLEEP_MAX, Tick(gap) PROVE CtxInv'
<1> DEFINE f == Call("tick", NULL)
<1>1. f \in Calls /\ f.op = "tick"
  BY SlotFacts, CallTypes
<1>2. /\ \/ \E S \in SUBSET Pids : kstk' = CallReady(S) \o <<f>>
         \/ kstk' = <<f>>
      /\ kstk = <<>> /\ state' = state /\ saved' = Trapped /\ UNCHANGED <<current, frame>>
  BY DEF Tick
<1> HIDE DEF f
<1>3. ~Aborting(<<f>> \o <<>>)
  <2>1. <<>> \in Seq(Calls) /\ f.op # "abort"
    BY <1>1
  <2> QED
    BY <1>1, <2>1, AbortEmpty, AbortPush
<1>4. <<f>> \o <<>> = <<f>> /\ <<f>> \in Seq(Calls)
  BY <1>1
<1>5. ~Aborting(kstk')
  BY <1>2, <1>3, <1>4, AbortPush
<1> QED
  BY <1>2, <1>5, KeepCtx

LEMMA KernelCtx == ASSUME IInv, TreeInv, CtxInv, Kernel PROVE CtxInv'
<1>1. /\ kstk \in Seq(Calls) /\ saved \in [Pids -> Slots] /\ current \in Slots
      /\ StackOK(state, kstk) /\ state[0] \notin Dead /\ TypeOK
      /\ state \in [Pids -> States] /\ RingOf(ring, ReadyIn(state))
      /\ current # NULL => frame = current
      /\ Fresh(current, state, saved, Aborting(kstk))
  BY ReadySetIs DEF IInv, TypeOK, RingOK, PendingOK, Slots, Dead, CtxInv
<1>2. ASSUME NEW c \in Pids, ExitChild(c) PROVE CtxInv'
  <2>1. /\ Terminate(c, saved, kstk) /\ Running("exit") /\ c \in Children(Arg)
    BY <1>2 DEF ExitChild, First
  <2>2. c \in Pids \ {0} /\ state[c] \notin {"ZOMBIE", "UNUSED"}
    BY <2>1, ChildAlive
  <2>3. Fresh(current, [state EXCEPT ![c] = "ZOMBIE"], saved, Aborting(kstk))
    BY <1>1 DEF Fresh, TypeOK, Waking
  <2> QED
    BY <1>1, <2>1, <2>2, <2>3, TerminateCtx
<1>3. ASSUME Aborting(kstk') => Aborting(kstk), UNCHANGED <<current, frame, state, saved>>
      PROVE  CtxInv'
  <2>1. Fresh(current, state, saved, Aborting(kstk'))
    BY <1>1, <1>3, FreshWeaker
  <2> QED
    BY <1>1, <1>3, <2>1 DEF CtxInv
<1>4. CASE ExitWaiters
  <2> DEFINE a == Head(kstk).pid
             f == Call("free", a)
             t == Tail(kstk)
             W == {p \in Pids : state[p] = "WAIT" /\ wait[p] = a}
  <2>1. /\ kstk # <<>> /\ Head(kstk).op = "exit" /\ Arg = a
        /\ kstk' = CallReady(W) \o (<<f>> \o t) /\ W \in SUBSET Pids
        /\ UNCHANGED <<sched, fields>>
    BY <1>4 DEF ExitWaiters, Running, Arg
  <2>2. a \in Slots /\ t \in Seq(Calls)
    BY <1>1, <2>1, PopFrames DEF StackOK, Slots
  <2>3. f \in Calls /\ f.op = "free"
    BY <2>2, CallTypes
  <2>4. Aborting(t) => Aborting(kstk)
    BY <1>1, <2>1, AbortPop
  <2> HIDE DEF a, f, t, W
  <2>5. <<f>> \o t \in Seq(Calls) /\ (Aborting(<<f>> \o t) => Aborting(t))
    BY <2>2, <2>3, PushFrames, AbortPush
  <2>6. Aborting(kstk') => Aborting(kstk)
    BY <2>1, <2>4, <2>5, AbortPush
  <2> QED
    BY <1>3, <2>1, <2>6 DEF sched
<1>5. CASE CloseFile
  <2> DEFINE t == Tail(kstk)
  <2>1. /\ kstk # <<>> /\ UNCHANGED sched
        /\ \E e \in Head(kstk).events : \E S \in SUBSET Pids :
              kstk' = CallReady(S) \o (CallClose(Head(kstk).events \ {e}) \o t)
    BY <1>5 DEF CloseFile, Wake, Running
  <2>2. /\ t \in Seq(Calls) /\ Head(kstk) \in Calls /\ (Aborting(t) => Aborting(kstk))
    BY <1>1, <2>1, PopFrames, AbortPop
  <2> HIDE DEF t
  <2>3. PICK e \in Head(kstk).events : \E S \in SUBSET Pids :
              kstk' = CallReady(S) \o (CallClose(Head(kstk).events \ {e}) \o t)
    BY <2>1
  <2> DEFINE E == Head(kstk).events \ {e}
             r == CallClose(E) \o t
  <2>4. E \in SUBSET Events
    BY <2>2 DEF Calls
  <2> HIDE DEF E
  <2>5. r \in Seq(Calls) /\ (Aborting(r) => Aborting(t))
    BY <2>2, <2>4, AbortClose
  <2>6. \E S \in SUBSET Pids : kstk' = CallReady(S) \o r
    BY <2>3 DEF E
  <2> HIDE DEF r
  <2>7. Aborting(kstk') => Aborting(kstk)
    BY <2>2, <2>5, <2>6, AbortPush
  <2> QED
    BY <1>3, <2>1, <2>7 DEF sched
<1>6. ASSUME NEW p \in Pids, ReadyNext(p) PROVE CtxInv'
  <2>1. /\ kstk # <<>> /\ Head(kstk).op = "ready" /\ p \in Head(kstk).pids
        /\ state' = [state EXCEPT ![p] = "READY"]
        /\ kstk' = CallReady(Head(kstk).pids \ {p}) \o Tail(kstk)
        /\ UNCHANGED <<current, frame, saved>>
    BY <1>6 DEF ReadyNext, Running, First
  <2>2. state[p] \in Waking /\ Head(kstk) \in Calls /\ Tail(kstk) \in Seq(Calls)
    BY <1>1, <2>1, PopFrames DEF StackOK, Waking
  <2>3. Aborting(kstk') => Aborting(kstk)
    <3>1. Head(kstk).pids \ {p} \in SUBSET Pids
      BY <2>2 DEF Calls
    <3>2. Aborting(kstk') => Aborting(Tail(kstk))
      BY <2>1, <2>2, <3>1, AbortPush
    <3> QED
      BY <1>1, <2>1, <3>2, AbortPop
  <2>4. Fresh(current, state', saved, Aborting(kstk))
    BY <1>1, <2>1, <2>2 DEF Fresh
  <2>5. Fresh(current, state', saved, Aborting(kstk'))
    BY <2>3, <2>4, FreshWeaker
  <2> QED
    BY <1>1, <2>1, <2>5 DEF CtxInv
<1>7. CASE FreeProc
  <2>1. /\ kstk # <<>> /\ Arg = Head(kstk).pid /\ UNCHANGED <<current, frame>>
        /\ state' = [state EXCEPT ![Arg] = "UNUSED"]
        /\ saved' = [saved EXCEPT ![Arg] = NULL]
        /\ \E E \in SUBSET Events : kstk' = CallClose(E) \o Tail(kstk)
    BY <1>7 DEF FreeProc, Running, Arg
  <2>2. Aborting(kstk') => Aborting(kstk)
    <3> PICK E \in SUBSET Events : kstk' = CallClose(E) \o Tail(kstk)
      BY <2>1
    <3>1. Tail(kstk) \in Seq(Calls) /\ (Aborting(Tail(kstk)) => Aborting(kstk))
      BY <1>1, <2>1, PopFrames, AbortPop
    <3>2. Aborting(CallClose(E) \o Tail(kstk)) => Aborting(Tail(kstk))
      BY <3>1, AbortClose
    <3> QED
      BY <3>1, <3>2
  <2>3. Fresh(current, state', saved', Aborting(kstk))
    BY <1>1, <2>1 DEF Fresh, Waking
  <2>4. Fresh(current, state', saved', Aborting(kstk'))
    BY <2>2, <2>3, FreshWeaker
  <2> QED
    BY <1>1, <2>1, <2>4 DEF CtxInv
<1>8. CASE TickEnd
  <2>1. kstk # <<>> /\ kstk' = Tail(kstk) /\ (Aborting(kstk') => Aborting(kstk))
    BY <1>1, <1>8, AbortPop DEF TickEnd, Running
  <2>2. CASE UNCHANGED sched
    BY <1>3, <2>1, <2>2 DEF sched
  <2>3. CASE Schedule(current, state, ring, saved)
    <3>1. Aborting(kstk) \in BOOLEAN
      BY DEF Aborting
    <3>2. frame' = current' /\ Fresh(current', state', saved', Aborting(kstk))
      BY <1>1, <2>3, <3>1, ScheduleCtx
    <3> QED
      BY <2>1, <3>2, FreshWeaker DEF CtxInv
  <2> QED
    BY <1>8, <2>2, <2>3 DEF TickEnd
<1>9. CASE AbortEnd
  <2>1. kstk # <<>> /\ Head(kstk).op = "abort" /\ Schedule(NULL, state, ring, saved)
    BY <1>9 DEF AbortEnd, Running
  <2>2. Aborting(kstk)
    BY <1>1, <2>1, PopFrames DEF Aborting
  <2>3. Fresh(NULL, state, saved, TRUE)
    BY <1>1, <2>2 DEF Fresh
  <2>4. frame' = current' /\ Fresh(current', state', saved', TRUE)
    BY <1>1, <2>1, <2>3, SlotFacts, ScheduleCtx
  <2> QED
    BY <2>4, FreshWeaker DEF CtxInv
<1> QED
  BY <1>2, <1>4, <1>5, <1>6, <1>7, <1>8, <1>9 DEF Kernel

(* Between handlers the CPU runs a READY process on its own registers, and  *)
(* every other process has its own in its record, whatever was forked,      *)
(* killed, woken or switched on the way, and whichever handler it was.     *)
THEOREM ContextsHold == Spec => []ContextOK
<1>1. Init => CtxInv
  BY SlotFacts DEF Init, CtxInv, Fresh, Waking
<1>2. IInv /\ TreeInv /\ CtxInv /\ [Next]_vars => CtxInv'
  <2> SUFFICES ASSUME IInv, TreeInv, CtxInv, [Next]_vars PROVE CtxInv'
    OBVIOUS
  <2>1. CASE Next
    BY <2>1, UserCtx, TimerCtx, KernelCtx DEF Next, Timer
  <2>2. CASE UNCHANGED vars
    BY <2>2 DEF vars, sched, CtxInv
  <2> QED
    BY <2>1, <2>2
<1>3. IInv /\ TreeInv /\ CtxInv => ContextOK
  <2> SUFFICES ASSUME IInv, TreeInv, CtxInv, kstk = <<>>
               PROVE  /\ current # NULL => state[current] = "READY" /\ frame = current
                      /\ \A p \in Live \ {current} : state[p] # "CREATED" => saved[p] = p
    BY DEF ContextOK
  <2>1. ZombieIn(state) = {}
    BY EmptyChain DEF TreeInv
  <2>2. \A p \in Live : state[p] # "CREATED" => state[p] \in Waking
    BY <2>1 DEF Live, ZombieIn, IInv, TypeOK, States, Waking
  <2> QED
    BY <2>2 DEF CtxInv, Fresh, IInv, PendingOK, Live
<1> QED
  BY <1>1, <1>2, <1>3, Inductive, TreeInductive, PTL DEF Spec

-----------------------------------------------------------------------------
(* Who waits, and what for.                                                *)

DueOf(s) == IF s # <<>> /\ Head(s).op = "ready" THEN Head(s).pids ELSE {}
FreeFrames(s) == {f \in Frames(s) : f.op = "free"}

LEMMA DueIs == Due = DueOf(kstk) /\ Due' = DueOf(kstk')
BY DEF Due, DueOf, Running

(* A process waits for something that is still to come; and as soon as the  *)
(* kernel goes on to free a process, all who wait for it are due.          *)
Counted(st, sl) ==
    \A p \in Pids \ {0} : sl[p] > 0 => st[p] \in {"SLEEPING", "ZOMBIE"}
Expecting(st, sl, ev, due) ==
    \A p \in Pids \ {0} : /\ st[p] = "SLEEPING" /\ sl[p] = 0 => p \in due
                          /\ st[p] = "BLOCK" /\ ev[p] = 0 => p \in due
AwaitLive(st, wt) == \A p \in Pids : st[p] = "WAIT" => st[wt[p]] # "UNUSED"
DueCounted(sl, due) == \A p \in due \ {0} : sl[p] = 0
WaitersDue(st, wt, due, fr) ==
    \A f \in fr : \A q \in Pids : st[q] = "WAIT" /\ wt[q] = f.pid => q \in due
DueForFree(st, wt, due, fr) ==
    \A q \in due : st[q] = "WAIT" => \E f \in fr : f.pid = wt[q]

WaitInv ==
    /\ Counted(state, sleep)
    /\ Expecting(state, sleep, event, DueOf(kstk))
    /\ AwaitLive(state, wait)
    /\ DueCounted(sleep, DueOf(kstk))
    /\ WaitersDue(state, wait, DueOf(kstk), FreeFrames(kstk))
    /\ DueForFree(state, wait, DueOf(kstk), FreeFrames(kstk))

LEMMA WaitInvWaitersOK == WaitInv => WaitersOK
BY DueIs DEF WaitInv, Counted, Expecting, AwaitLive, WaitersOK

LEMMA DuePush ==
    ASSUME NEW s \in Seq(Calls)
    PROVE  /\ \A f \in Calls : /\ f.op # "ready" => DueOf(<<f>> \o s) = {}
                               /\ f.op # "free" => FreeFrames(<<f>> \o s) = FreeFrames(s)
                               /\ f.op = "free" => FreeFrames(<<f>> \o s) = {f} \cup FreeFrames(s)
           /\ NotReady(s) => DueOf(s) = {}
<1>1. ASSUME NEW f \in Calls
      PROVE  /\ f.op # "ready" => DueOf(<<f>> \o s) = {}
             /\ f.op # "free" => FreeFrames(<<f>> \o s) = FreeFrames(s)
             /\ f.op = "free" => FreeFrames(<<f>> \o s) = {f} \cup FreeFrames(s)
  <2>1. Frames(<<f>> \o s) = {f} \cup Frames(s) /\ Head(<<f>> \o s) = f
    BY PushFrames
  <2>2. f.op # "ready" => DueOf(<<f>> \o s) = {}
    BY <2>1 DEF DueOf
  <2>3. /\ f.op # "free" => FreeFrames(<<f>> \o s) = FreeFrames(s)
        /\ f.op = "free" => FreeFrames(<<f>> \o s) = {f} \cup FreeFrames(s)
    BY <2>1 DEF FreeFrames
  <2> QED
    BY <2>2, <2>3
<1> QED
  BY <1>1 DEF NotReady, DueOf

LEMMA DueReady ==
    ASSUME NEW s \in Seq(Calls), NotReady(s), NEW S \in SUBSET Pids
    PROVE  DueOf(CallReady(S) \o s) = S /\ FreeFrames(CallReady(S) \o s) = FreeFrames(s)
<1>1. CASE S = {}
  BY <1>1, DuePush DEF CallReady
<1>2. CASE S # {}
  <2> DEFINE f == [op |-> "ready", pid |-> NULL, pids |-> S, events |-> {}]
  <2>1. CallReady(S) = <<f>> /\ f \in Calls /\ f.op = "ready" /\ f.pids = S
    BY <1>2 DEF CallReady, Calls
  <2> HIDE DEF f
  <2>2. Head(<<f>> \o s) = f /\ <<f>> \o s # <<>>
    BY <2>1, PushFrames
  <2>3. FreeFrames(<<f>> \o s) = FreeFrames(s)
    BY <2>1, DuePush
  <2> QED
    BY <2>1, <2>2, <2>3 DEF DueOf
<1> QED
  BY <1>1, <1>2

LEMMA DueClose ==
    ASSUME NEW s \in Seq(Calls), NotReady(s), NEW E \in SUBSET Events
    PROVE  /\ CallClose(E) \o s \in Seq(Calls) /\ NotReady(CallClose(E) \o s)
           /\ FreeFrames(CallClose(E) \o s) = FreeFrames(s)
<1>1. CASE E = {}
  BY <1>1 DEF CallClose
<1>2. CASE E # {}
  <2> DEFINE f == [op |-> "close", pid |-> NULL, pids |-> {}, events |-> E]
  <2>1. CallClose(E) = <<f>> /\ f \in Calls /\ f.op = "close"
    BY <1>2 DEF CallClose, Calls
  <2> HIDE DEF f
  <2>2. Head(<<f>> \o s) = f /\ <<f>> \o s \in Seq(Calls)
    BY <2>1, PushFrames
  <2>3. FreeFrames(<<f>> \o s) = FreeFrames(s)
    BY <2>1, DuePush
  <2> QED
    BY <2>1, <2>2, <2>3 DEF NotReady
<1> QED
  BY <1>1, <1>2

LEMMA DuePop ==
    ASSUME NEW s \in Seq(Calls), s # <<>>, NEW st, StackOK(st, s)
    PROVE  /\ Tail(s) \in Seq(Calls) /\ NotReady(Tail(s)) /\ Head(s) \in Calls
           /\ FreeFrames(Tail(s)) \subseteq FreeFrames(s)
           /\ Head(s).op # "free" => FreeFrames(Tail(s)) = FreeFrames(s)
           /\ Head(s).op = "free" => Head(s) \in FreeFrames(s)
           /\ Head(s).op # "ready" => DueOf(s) = {}
<1>1. /\ Head(s) \in Frames(s) /\ Head(s) \in Calls /\ Tail(s) \in Seq(Calls)
      /\ Frames(Tail(s)) \subseteq Frames(s)
      /\ s = <<Head(s)>> \o Tail(s)
  BY PopFrames
<1>2. Frames(s) = {Head(s)} \cup Frames(Tail(s))
  <2>1. Frames(<<Head(s)>> \o Tail(s)) = {Head(s)} \cup Frames(Tail(s))
    BY <1>1, PushFrames
  <2> QED
    BY <1>1, <2>1
<1>3. NotReady(Tail(s))
  <2>1. Tail(s) # <<>> => Head(Tail(s)) \in Frames(Tail(s))
    BY <1>1, PopFrames
  <2> QED
    BY <2>1 DEF StackOK, Calm, NotReady
<1>4. /\ FreeFrames(Tail(s)) \subseteq FreeFrames(s)
      /\ Head(s).op # "free" => FreeFrames(Tail(s)) = FreeFrames(s)
      /\ Head(s).op = "free" => Head(s) \in FreeFrames(s)
  BY <1>2 DEF FreeFrames
<1>5. Head(s).op # "ready" => DueOf(s) = {}
  BY DEF DueOf
<1> QED
  BY <1>1, <1>3, <1>4, <1>5

(* What a step that makes nobody due may do to p.                          *)
Settled(p) ==
    \/ state'[p] = state[p] /\ sleep'[p] = sleep[p] /\ event'[p] = event[p] /\ wait'[p] = wait[p]
    \/ state'[p] = "ZOMBIE"
    \/ state'[p] \in {"READY", "CREATED", "UNUSED"} /\ (p # 0 => sleep'[p] = 0)
    \/ state'[p] = "SLEEPING" /\ sleep'[p] > 0
    \/ state'[p] = "BLOCK" /\ (p # 0 => sleep'[p] = 0 /\ event'[p] # 0)
    \/ state'[p] = "WAIT" /\ (p # 0 => sleep'[p] = 0) /\ state'[wait'[p]] # "UNUSED"
         /\ \A f \in FreeFrames(kstk') : f.pid # wait'[p]

LEMMA WaitStep ==
    ASSUME TypeOK, TypeOK', WaitInv, DueOf(kstk) = {}, DueOf(kstk') = {},
           FreeFrames(kstk') \subseteq FreeFrames(kstk),
           \A p, q \in Pids : state[p] = "WAIT" /\ wait[p] = q => state'[q] # "UNUSED",
           \A p \in Pids : Settled(p)
    PROVE  WaitInv'
<1>1. \A p \in Pids : sleep[p] \in Nat /\ sleep'[p] \in Nat /\ wait[p] \in Pids
  BY ProcAssumption DEF TypeOK
<1>2. Counted(state', sleep')
  BY <1>1 DEF WaitInv, Counted, Settled
<1>3. Expecting(state', sleep', event', {})
  BY <1>1 DEF WaitInv, Expecting, Settled
<1>4. AwaitLive(state', wait')
  BY <1>1 DEF WaitInv, AwaitLive, Settled
<1>5. WaitersDue(state', wait', {}, FreeFrames(kstk'))
  BY DEF WaitInv, WaitersDue, Settled
<1> QED
  BY <1>2, <1>3, <1>4, <1>5 DEF WaitInv, DueCounted, DueForFree

LEMMA NatPos == ASSUME NEW n \in Nat, ~(n > 0) PROVE n = 0
OBVIOUS

(* Who is neither asleep nor dead has no counter.                          *)
LEMMA NotCounted ==
    ASSUME TypeOK, WaitInv, NEW p \in Pids \ {0}, state[p] \notin {"SLEEPING", "ZOMBIE"}
    PROVE  sleep[p] = 0
<1>1. sleep[p] \in Nat
  BY ProcAssumption DEF TypeOK
<1>2. ~(sleep[p] > 0)
  BY DEF WaitInv, Counted
<1> QED
  BY <1>1, <1>2, NatPos

LEMMA TerminateWait ==
    ASSUME IInv, IInv', WaitInv, NEW p \in Pids \ {0}, state[p] \notin {"ZOMBIE", "UNUSED"},
           NEW sv \in [Pids -> Slots], NEW rest \in Seq(Calls), Terminate(p, sv, rest),
           UNCHANGED fields, DueOf(kstk) = {}, FreeFrames(rest) \subseteq FreeFrames(kstk)
    PROVE  WaitInv'
<1> DEFINE f == Call("exit", p)
<1>1. /\ kstk' = <<f>> \o rest /\ state'[p] = "ZOMBIE"
      /\ Woken([state EXCEPT ![p] = "ZOMBIE"])
  BY TerminateFacts
<1>2. f \in Calls /\ f.op = "exit"
  BY CallTypes DEF Slots
<1> HIDE DEF f
<1>3. DueOf(kstk') = {} /\ FreeFrames(kstk') \subseteq FreeFrames(kstk)
  BY <1>1, <1>2, DuePush
<1>4. /\ TypeOK /\ TypeOK' /\ sleep' = sleep /\ event' = event /\ wait' = wait
      /\ state[0] # "UNUSED"
  BY DEF IInv, fields, PendingOK
<1>5. \A q \in Pids \ {p} : state'[q] = state[q] \/ (q = 0 /\ state'[q] = "READY")
  BY <1>1, <1>4 DEF Woken, TypeOK
<1>6. \A q \in Pids : Settled(q)
  BY <1>1, <1>4, <1>5 DEF Settled
<1>7. \A q, r \in Pids : state[q] = "WAIT" /\ wait[q] = r => state'[r] # "UNUSED"
  BY <1>1, <1>4, <1>5 DEF WaitInv, AwaitLive
<1> QED
  BY <1>3, <1>4, <1>6, <1>7, WaitStep

(* The running process goes to sleep, blocks or waits.                     *)
LEMMA SuspendWait ==
    ASSUME IInv, IInv', TreeInv, WaitInv, Syscall, NEW s \in {"SLEEPING", "WAIT", "BLOCK"},
           Suspend(s), kstk' = kstk,
           \A q \in Pids \ {current} : sleep'[q] = sleep[q] /\ event'[q] = event[q] /\ wait'[q] = wait[q],
           s = "SLEEPING" => sleep'[current] > 0,
           s = "BLOCK" => sleep'[current] = sleep[current] /\ event'[current] # 0,
           s = "WAIT" => sleep'[current] = sleep[current] /\ state[wait'[current]] # "UNUSED"
                           /\ wait'[current] \in Pids
    PROVE  WaitInv'
<1>1. /\ kstk = <<>> /\ current \in Pids /\ state[current] = "READY"
      /\ TypeOK /\ TypeOK' /\ state[0] # "UNUSED"
  BY SyscallFacts DEF TreeInv, IInv, PendingOK
<1>2. Woken([state EXCEPT ![current] = s])
  BY SuspendFacts
<1>3. /\ \A q \in Pids \ {current} : state'[q] = state[q] \/ (q = 0 /\ state'[q] = "READY")
      /\ state'[current] = s \/ (current = 0 /\ state'[current] = "READY")
  BY <1>1, <1>2 DEF Woken, TypeOK
<1>4. DueOf(kstk) = {} /\ FreeFrames(kstk) = {} /\ DueOf(kstk') = {} /\ FreeFrames(kstk') = {}
  BY <1>1 DEF DueOf, FreeFrames, Frames
<1>5. current # 0 => sleep[current] = 0
  BY <1>1, NotCounted
<1>6. \A q \in Pids : state[q] # "UNUSED" => state'[q] # "UNUSED"
  BY <1>1, <1>3
<1>7. Settled(current)
  BY <1>1, <1>3, <1>4, <1>5, <1>6 DEF Settled
<1>8. \A q \in Pids \ {current} : Settled(q)
  BY <1>3 DEF Settled
<1>9. \A q, r \in Pids : state[q] = "WAIT" /\ wait[q] = r => state'[r] # "UNUSED"
  BY <1>6 DEF WaitInv, AwaitLive
<1> QED
  BY <1>1, <1>4, <1>7, <1>8, <1>9, WaitStep

(* schedule makes nobody wait; nor do calls that end.                      *)
LEMMA KeepWait ==
    ASSUME IInv, IInv', WaitInv, UNCHANGED <<sleep, event, wait>>,
           DueOf(kstk) = {}, DueOf(kstk') = {}, FreeFrames(kstk') \subseteq FreeFrames(kstk),
           Woken(state)
    PROVE  WaitInv'
<1>1. TypeOK /\ TypeOK'
  BY DEF IInv
<1>2. \A q \in Pids : state'[q] = state[q] \/ (q = 0 /\ state'[q] = "READY")
  BY DEF Woken
<1>3. \A q \in Pids : Settled(q)
  BY <1>2 DEF Settled
<1>4. \A q, r \in Pids : state[q] = "WAIT" /\ wait[q] = r => state'[r] # "UNUSED"
  BY <1>2 DEF WaitInv, AwaitLive
<1> QED
  BY <1>1, <1>3, <1>4, WaitStep

LEMMA NewProcWait ==
    ASSUME IInv, IInv', TreeInv, WaitInv, Syscall, NEW c \in Pids, NEW t \in {"PROC", "THREAD"},
           NEW s \in {"READY", "CREATED"}, NewProc(c, t, s)
    PROVE  WaitInv'
<1>1. /\ kstk = <<>> /\ kstk' = <<>> /\ TypeOK /\ TypeOK'
      /\ state' = [state EXCEPT ![c] = s] /\ s # "UNUSED"
      /\ wait' = [wait EXCEPT ![c] = 0]
      /\ event' = [event EXCEPT ![c] = 0]
      /\ sleep' = [sleep EXCEPT ![c] = 0]
  BY DEF NewProc, Clear, Syscall, IInv
<1>2. DueOf(kstk) = {} /\ DueOf(kstk') = {} /\ FreeFrames(kstk') = FreeFrames(kstk)
  BY <1>1 DEF DueOf
<1>3. \A q \in Pids : Settled(q)
  BY <1>1 DEF Settled, TypeOK
<1>4. \A q, r \in Pids : state[q] = "WAIT" /\ wait[q] = r => state'[r] # "UNUSED"
  BY <1>1 DEF WaitInv, AwaitLive, TypeOK
<1> QED
  BY <1>1, <1>2, <1>3, <1>4, WaitStep

(* proc_wakeup makes due whom it takes the event from.                     *)
LEMMA WakeWait ==
    ASSUME IInv, WaitInv, NEW e \in Events, NEW rest \in Seq(Calls), NotReady(rest),
           DueOf(kstk) = {}, FreeFrames(rest) \subseteq FreeFrames(kstk), Wake(e, rest),
           UNCHANGED <<state, wait, sleep>>
    PROVE  WaitInv'
<1> DEFINE woken == {p \in Pids : state[p] = "BLOCK" /\ event[p] = e}
           W == {p \in woken : sleep[p] = 0}
<1>1. /\ event' = [p \in Pids |-> IF p \in woken THEN 0 ELSE event[p]]
      /\ kstk' = CallReady(W) \o rest
  BY DEF Wake
<1>2. W \in SUBSET Pids
  OBVIOUS
<1>3. /\ \A p \in W : state[p] = "BLOCK" /\ sleep[p] = 0
      /\ \A p \in woken \ {0} : p \in W
  BY NotCounted DEF IInv
<1> HIDE DEF W
<1>4. DueOf(kstk') = W /\ FreeFrames(kstk') \subseteq FreeFrames(kstk)
  BY <1>1, <1>2, DueReady
<1>5. Expecting(state, sleep, event', W)
  BY <1>1, <1>3 DEF WaitInv, Expecting
<1>6. WaitersDue(state, wait, W, FreeFrames(kstk'))
  BY <1>4 DEF WaitInv, WaitersDue
<1>7. DueForFree(state, wait, W, FreeFrames(kstk')) /\ DueCounted(sleep, W)
  BY <1>3 DEF DueForFree, DueCounted
<1> QED
  BY <1>4, <1>5, <1>6, <1>7 DEF WaitInv

LEMMA UserWait == ASSUME IInv, IInv', TreeInv, WaitInv, User PROVE WaitInv'
<1>1. ASSUME Syscall
      PROVE  /\ kstk = <<>> /\ ZombieIn(state) = {} /\ current \in Pids /\ current \in Slots
             /\ state[current] = "READY" /\ Trapped \in [Pids -> Slots]
             /\ TypeOK /\ <<>> \in Seq(Calls) /\ NotReady(<<>>)
             /\ DueOf(kstk) = {} /\ FreeFrames(<<>>) \subseteq FreeFrames(kstk)
  BY <1>1, SyscallFacts DEF TreeInv, IInv, DueOf, NotReady, Slots
<1>2. ASSUME NEW t \in {"PROC", "THREAD"}, Fork(t) PROVE WaitInv'
  BY <1>2, NewProcWait DEF Fork
<1>3. CASE ForkFail
  BY <1>3, NewProcWait DEF ForkFail
<1>4. CASE Exec \/ Detach \/ CriticalEnter \/ CriticalQuit
  <2>1. /\ Syscall /\ state' = state /\ UNCHANGED <<sleep, event, wait, kstk>>
    BY <1>4 DEF Exec, fields, Detach, CriticalEnter, CriticalQuit, SetCritical
  <2> QED
    BY <1>1, <2>1, KeepWait DEF Woken
<1>5. ASSUME NEW e \in Events, Wakeup(e) PROVE WaitInv'
  BY <1>1, <1>5, WakeWait DEF Wakeup
<1>6. CASE Exit
  BY <1>1, <1>6, TerminateWait DEF Exit
<1>7. ASSUME NEW p \in Pids, Kill(p) PROVE WaitInv'
  <2>1. p \in Pids \ {0} /\ state[p] \notin {"ZOMBIE", "UNUSED"}
    BY <1>1, <1>7 DEF Kill, Live, ZombieIn
  <2> QED
    BY <1>1, <1>7, <2>1, TerminateWait DEF Kill
<1>8. CASE DataAbort
  <2> DEFINE f == Call("abort", NULL)
  <2>1. f \in Calls /\ f.op = "abort"
    BY SlotFacts, CallTypes
  <2>2. Syscall /\ current \in Pids \ {0} /\ Terminate(current, Trapped, <<f>>) /\ UNCHANGED fields
    BY <1>1, <1>8 DEF DataAbort
  <2> HIDE DEF f
  <2>3. <<f>> \o <<>> = <<f>> /\ <<f>> \in Seq(Calls)
    BY <2>1
  <2>4. FreeFrames(<<f>>) \subseteq FreeFrames(kstk)
    <3>1. FreeFrames(<<f>> \o <<>>) = FreeFrames(<<>>)
      BY <1>1, <2>1, <2>2, DuePush
    <3> QED
      BY <1>1, <2>2, <2>3, <3>1
  <2> QED
    BY <1>1, <2>2, <2>3, <2>4, TerminateWait
<1>9. CASE Yield
  <2>1. /\ Syscall /\ Schedule(current, state, ring, Trapped)
        /\ UNCHANGED <<sleep, event, wait, kstk>>
    BY <1>9 DEF Yield, fields
  <2> QED
    BY <1>1, <2>1, ScheduleFacts, KeepWait
<1>10. ASSUME NEW p \in Pids, WaitPid(p) PROVE WaitInv'
  <2>1. /\ Syscall /\ Suspend("WAIT") /\ kstk' = kstk /\ state[p] # "UNUSED"
        /\ wait' = [wait EXCEPT ![current] = p] /\ UNCHANGED <<sleep, event>>
    BY <1>10 DEF WaitPid
  <2>2. /\ \A q \in Pids \ {current} : wait'[q] = wait[q]
        /\ wait'[current] = p
    BY <1>1, <2>1 DEF TypeOK
  <2> QED
    BY <2>1, <2>2, SuspendWait
<1>11. ASSUME NEW n \in 1 .. SLEEP_MAX, Usleep(n) PROVE WaitInv'
  <2>1. /\ Syscall /\ Suspend("SLEEPING") /\ kstk' = kstk
        /\ sleep' = [sleep EXCEPT ![current] = n] /\ UNCHANGED <<wait, event>>
    BY <1>11 DEF Usleep
  <2>2. /\ \A q \in Pids \ {current} : sleep'[q] = sleep[q]
        /\ sleep'[current] = n /\ n > 0
    BY <1>1, <2>1, ProcAssumption DEF TypeOK
  <2> QED
    BY <2>1, <2>2, SuspendWait
<1>12. ASSUME NEW e \in Events, BlockOn(e) PROVE WaitInv'
  <2>1. /\ Syscall /\ Suspend("BLOCK") /\ kstk' = kstk
        /\ event' = [event EXCEPT ![current] = e] /\ UNCHANGED <<wait, sleep>>
    BY <1>12 DEF BlockOn
  <2>2. /\ \A q \in Pids \ {current} : event'[q] = event[q]
        /\ event'[current] = e /\ e # 0
    BY <1>1, <2>1, ProcAssumption DEF TypeOK
  <2> QED
    BY <2>1, <2>2, SuspendWait
<1> QED
  BY <1>2, <1>3, <1>4, <1>5, <1>6, <1>7, <1>8, <1>9, <1>10, <1>11, <1>12 DEF User

LEMMA CountDown ==
    ASSUME NEW n \in Nat, NEW gap \in Nat, ~(n <= gap)
    PROVE  n - gap \in Nat /\ n - gap > 0 /\ n > 0
OBVIOUS

(* The timer interrupt makes due whose counter it ends.                    *)
LEMMA TimerWait ==
    ASSUME IInv, IInv', WaitInv, NEW gap \in 1 .. SLEEP_MAX, Tick(gap)
    PROVE  WaitInv'
<1> DEFINE asleep == {p \in Pids : state[p] = "SLEEPING" /\ sleep[p] > 0}
           due == {p \in asleep : sleep[p] <= gap}
           f == Call("tick", NULL)
<1>1. /\ kstk = <<>> /\ UNCHANGED <<state, wait, event>>
      /\ f \in Calls /\ f.op = "tick" /\ gap \in Nat
      /\ \A p \in Pids : sleep[p] \in Nat
      /\ DueOf(kstk) = {} /\ FreeFrames(kstk) = {}
  BY SlotFacts, CallTypes, ProcAssumption DEF Tick, DueOf, FreeFrames, Frames, IInv, TypeOK
<1>2. \/ /\ sleep' = [p \in Pids |-> IF p \in due THEN 0
                                     ELSE IF p \in asleep THEN sleep[p] - gap
                                     ELSE sleep[p]]
         /\ kstk' = CallReady(due) \o <<f>>
      \/ sleep' = sleep /\ kstk' = <<f>>
  BY DEF Tick
<1>3. due \in SUBSET Pids
  OBVIOUS
<1> HIDE DEF f
<1>4. /\ <<f>> \o <<>> = <<f>> /\ <<f>> \in Seq(Calls) /\ NotReady(<<f>>)
      /\ DueOf(<<f>>) = {} /\ FreeFrames(<<f>>) = {}
  <2>1. /\ <<f>> \o <<>> = <<f>> /\ <<f>> \in Seq(Calls) /\ Head(<<f>>) = f /\ <<>> \in Seq(Calls)
    BY <1>1
  <2>2. FreeFrames(<<f>> \o <<>>) = FreeFrames(<<>>)
    BY <1>1, <2>1, DuePush
  <2> QED
    BY <1>1, <2>1, <2>2 DEF NotReady, DueOf
<1>5. CASE sleep' = sleep /\ kstk' = <<f>>
  BY <1>1, <1>4, <1>5, KeepWait DEF Woken
<1>6. CASE /\ sleep' = [p \in Pids |-> IF p \in due THEN 0
                                       ELSE IF p \in asleep THEN sleep[p] - gap
                                       ELSE sleep[p]]
           /\ kstk' = CallReady(due) \o <<f>>
  <2>1. /\ \A p \in due : sleep'[p] = 0 /\ state[p] = "SLEEPING"
        /\ \A p \in asleep \ due : state[p] = "SLEEPING" /\ sleep'[p] > 0
        /\ \A p \in Pids \ asleep : sleep'[p] = sleep[p]
    <3>1. ASSUME NEW p \in asleep \ due PROVE sleep'[p] > 0
      <4>1. sleep'[p] = sleep[p] - gap /\ ~(sleep[p] <= gap) /\ sleep[p] \in Nat
        BY <1>1, <1>6
      <4> QED
        BY <1>1, <4>1, CountDown
    <3> QED
      BY <1>6, <3>1
  <2>2. \A p \in Pids : state[p] = "SLEEPING" /\ p \notin asleep => sleep[p] = 0
    BY <1>1
  <2>3. due \subseteq asleep
    OBVIOUS
  <2> HIDE DEF asleep, due
  <2>4. DueOf(kstk') = due /\ FreeFrames(kstk') = {}
    BY <1>3, <1>4, <1>6, DueReady
  <2>5. Counted(state, sleep')
    BY <2>1, <2>3 DEF WaitInv, Counted
  <2>6. Expecting(state, sleep', event, due)
    <3>1. ASSUME NEW p \in Pids \ {0}, state[p] = "SLEEPING", sleep'[p] = 0 PROVE p \in due
      <4>1. CASE p \in asleep
        BY <2>1, <3>1, <4>1
      <4>2. CASE p \notin asleep
        BY <1>1, <2>2, <3>1, <4>2 DEF WaitInv, Expecting
      <4> QED
        BY <4>1, <4>2
    <3>2. ASSUME NEW p \in Pids \ {0}, state[p] = "BLOCK", event[p] = 0 PROVE p \in due
      BY <1>1, <3>2 DEF WaitInv, Expecting
    <3> QED
      BY <3>1, <3>2 DEF Expecting
  <2>7. /\ DueCounted(sleep', due) /\ WaitersDue(state, wait, due, {})
        /\ DueForFree(state, wait, due, {})
    BY <2>1 DEF DueCounted, WaitersDue, DueForFree
  <2>8. AwaitLive(state, wait)
    BY DEF WaitInv
  <2> QED
    BY <1>1, <2>4, <2>5, <2>6, <2>7, <2>8 DEF WaitInv
<1> QED
  BY <1>2, <1>5, <1>6

(* proc_wakeup_waiting makes due all who wait for the process.             *)
LEMMA ExitWaitersWait == ASSUME IInv, WaitInv, ExitWaiters PROVE WaitInv'
<1> DEFINE a == Head(kstk).pid
           f == Call("free", a)
           t == Tail(kstk)
           W == {p \in Pids : state[p] = "WAIT" /\ wait[p] = a}
<1>1. /\ kstk # <<>> /\ Head(kstk).op = "exit" /\ Arg = a /\ kstk \in Seq(Calls)
      /\ StackOK(state, kstk) /\ TypeOK
      /\ kstk' = CallReady(W) \o (<<f>> \o t) /\ W \in SUBSET Pids
      /\ UNCHANGED <<sched, fields>>
  BY DEF ExitWaiters, Running, Arg, IInv, TypeOK, PendingOK
<1>2. a \in Slots
  BY <1>1, PopFrames DEF StackOK, Slots
<1>3. f \in Calls /\ f.op = "free" /\ f.pid = a
  BY <1>2, CallTypes
<1>4. /\ t \in Seq(Calls) /\ FreeFrames(t) = FreeFrames(kstk) /\ DueOf(kstk) = {}
  BY <1>1, DuePop
<1>5. \A p \in Pids : p \in W <=> state[p] = "WAIT" /\ wait[p] = a
  OBVIOUS
<1> HIDE DEF a, f, t, W
<1>6. <<f>> \o t \in Seq(Calls) /\ NotReady(<<f>> \o t)
      /\ FreeFrames(<<f>> \o t) = {f} \cup FreeFrames(t)
  BY <1>3, <1>4, PushFrames, DuePush DEF NotReady
<1>7. DueOf(kstk') = W /\ FreeFrames(kstk') = {f} \cup FreeFrames(kstk)
  BY <1>1, <1>4, <1>6, DueReady
<1>8. UNCHANGED <<state, wait, sleep, event>>
  BY <1>1 DEF sched, fields
<1>9. Expecting(state, sleep, event, W)
  BY <1>4 DEF WaitInv, Expecting
<1>10. DueCounted(sleep, W)
  <2>1. ASSUME NEW p \in W \ {0} PROVE sleep[p] = 0
    BY <1>1, <1>5, <2>1, NotCounted
  <2> QED
    BY <2>1 DEF DueCounted
<1>11. WaitersDue(state, wait, W, {f} \cup FreeFrames(kstk))
  BY <1>3, <1>4, <1>5 DEF WaitInv, WaitersDue
<1>12. DueForFree(state, wait, W, {f} \cup FreeFrames(kstk))
  BY <1>1, <1>3, <1>5 DEF DueForFree
<1> QED
  BY <1>7, <1>8, <1>9, <1>10, <1>11, <1>12 DEF WaitInv

(* Nobody waits for the slot that is zeroed.                               *)
LEMMA FreeWait == ASSUME IInv, IInv', WaitInv, FreeProc PROVE WaitInv'
<1> DEFINE a == Head(kstk).pid
<1>1. /\ TypeOK /\ TypeOK' /\ kstk \in Seq(Calls) /\ kstk # <<>> /\ Head(kstk).op = "free"
      /\ StackOK(state, kstk) /\ Arg = a
      /\ \E E \in SUBSET Events : kstk' = CallClose(E) \o Tail(kstk)
      /\ state' = [state EXCEPT ![a] = "UNUSED"]
      /\ wait' = [wait EXCEPT ![a] = 0]
      /\ event' = [event EXCEPT ![a] = 0]
      /\ sleep' = [sleep EXCEPT ![a] = 0]
  BY DEF IInv, TypeOK, PendingOK, FreeProc, Running, Arg, Clear
<1>2. a \in Pids /\ Head(kstk) \in FreeFrames(kstk) /\ DueOf(kstk) = {}
      /\ Tail(kstk) \in Seq(Calls) /\ NotReady(Tail(kstk))
      /\ FreeFrames(Tail(kstk)) \subseteq FreeFrames(kstk)
  <2>1. Head(kstk) \in FreeFrames(kstk) /\ DueOf(kstk) = {}
        /\ Tail(kstk) \in Seq(Calls) /\ NotReady(Tail(kstk))
        /\ FreeFrames(Tail(kstk)) \subseteq FreeFrames(kstk)
    BY <1>1, DuePop
  <2>2. a \in Pids
    BY <1>1, PopFrames DEF StackOK
  <2> QED
    BY <2>1, <2>2
<1>3. \A q \in Pids : ~(state[q] = "WAIT" /\ wait[q] = a)
  BY <1>2 DEF WaitInv, WaitersDue
<1> HIDE DEF a
<1>4. PICK E \in SUBSET Events : kstk' = CallClose(E) \o Tail(kstk)
  BY <1>1
<1>5. /\ CallClose(E) \o Tail(kstk) \in Seq(Calls) /\ NotReady(CallClose(E) \o Tail(kstk))
      /\ FreeFrames(CallClose(E) \o Tail(kstk)) = FreeFrames(Tail(kstk))
  BY <1>2, DueClose
<1>6. DueOf(kstk') = {} /\ FreeFrames(kstk') \subseteq FreeFrames(kstk)
  BY <1>2, <1>4, <1>5, DuePush
<1>7. \A q \in Pids : Settled(q)
  BY <1>1 DEF Settled, TypeOK
<1>8. \A q, r \in Pids : state[q] = "WAIT" /\ wait[q] = r => state'[r] # "UNUSED"
  <2>1. \A q \in Pids : state[q] = "WAIT" => wait[q] # a /\ state[wait[q]] # "UNUSED"
    BY <1>3 DEF WaitInv, AwaitLive
  <2> QED
    BY <1>1, <2>1 DEF TypeOK
<1> QED
  BY <1>1, <1>2, <1>6, <1>7, <1>8, WaitStep

(* proc_ready of one who is due.                                           *)
LEMMA ReadyNextWait ==
    ASSUME IInv, WaitInv, NEW p \in Pids, ReadyNext(p)
    PROVE  WaitInv'
<1> DEFINE D == Head(kstk).pids
           R == D \ {p}
<1>1. /\ kstk \in Seq(Calls) /\ kstk # <<>> /\ Head(kstk).op = "ready" /\ TypeOK
      /\ p \in D /\ StackOK(state, kstk)
      /\ state' = [state EXCEPT ![p] = "READY"] /\ wait' = [wait EXCEPT ![p] = 0]
      /\ kstk' = CallReady(R) \o Tail(kstk)
      /\ UNCHANGED <<sleep, event>>
  BY DEF IInv, TypeOK, PendingOK, ReadyNext, Running, First
<1>2. /\ state[p] \in Waking /\ Head(kstk) \in Calls /\ DueOf(kstk) = D
  BY <1>1, PopFrames DEF StackOK, Waking, DueOf
<1>3. R \in SUBSET Pids /\ \A q \in D : q # p => q \in R
  BY <1>2 DEF Calls
<1>4. /\ Tail(kstk) \in Seq(Calls) /\ NotReady(Tail(kstk))
      /\ FreeFrames(Tail(kstk)) = FreeFrames(kstk)
  BY <1>1, DuePop
<1>5. DueOf(kstk') = R /\ FreeFrames(kstk') = FreeFrames(kstk)
  <2> HIDE DEF D, R
  <2> QED
    BY <1>1, <1>3, <1>4, DueReady
<1>6. /\ state'[p] = "READY" /\ \A q \in Pids \ {p} : state'[q] = state[q] /\ wait'[q] = wait[q]
      /\ wait \in [Pids -> Pids] /\ R \subseteq D
  BY <1>1 DEF TypeOK
<1>7. p # 0 => sleep[p] = 0
  BY <1>1, <1>2 DEF WaitInv, DueCounted
<1> HIDE DEF D, R
<1>8. Counted(state', sleep)
  <2>1. ASSUME NEW q \in Pids \ {0}, sleep[q] > 0 PROVE state'[q] \in {"SLEEPING", "ZOMBIE"}
    <3>1. CASE q = p
      <4>1. ~(0 > 0)
        OBVIOUS
      <4> QED
        BY <1>7, <2>1, <3>1, <4>1
    <3>2. CASE q # p
      BY <1>6, <2>1, <3>2 DEF WaitInv, Counted
    <3> QED
      BY <3>1, <3>2
  <2> QED
    BY <2>1 DEF Counted
<1>9. Expecting(state', sleep, event, R)
  BY <1>2, <1>3, <1>6 DEF WaitInv, Expecting
<1>10. AwaitLive(state', wait')
  BY <1>6 DEF WaitInv, AwaitLive
<1>11. DueCounted(sleep, R)
  BY <1>2, <1>6 DEF WaitInv, DueCounted
<1>12. WaitersDue(state', wait', R, FreeFrames(kstk))
  BY <1>2, <1>3, <1>6 DEF WaitInv, WaitersDue
<1>13. DueForFree(state', wait', R, FreeFrames(kstk))
  <2>1. ASSUME NEW q \in R, state'[q] = "WAIT" PROVE \E f \in FreeFrames(kstk) : f.pid = wait'[q]
    <3>1. q \in Pids \ {p} /\ q \in D
      BY <1>3, <1>6, <2>1
    <3> QED
      BY <1>2, <1>6, <2>1, <3>1 DEF WaitInv, DueForFree
  <2> QED
    BY <2>1 DEF DueForFree
<1> QED
  BY <1>1, <1>5, <1>8, <1>9, <1>10, <1>11, <1>12, <1>13 DEF WaitInv

LEMMA KernelWait == ASSUME IInv, IInv', TreeInv, WaitInv, Kernel PROVE WaitInv'
<1>1. /\ kstk \in Seq(Calls) /\ saved \in [Pids -> Slots] /\ current \in Slots
      /\ StackOK(state, kstk) /\ TypeOK
  BY DEF IInv, TypeOK, PendingOK, Slots
<1>2. ASSUME NEW c \in Pids, ExitChild(c) PROVE WaitInv'
  <2>1. /\ Terminate(c, saved, kstk) /\ Running("exit") /\ c \in Children(Arg) /\ UNCHANGED fields
    BY <1>2 DEF ExitChild, First
  <2>2. c \in Pids \ {0} /\ state[c] \notin {"ZOMBIE", "UNUSED"}
    BY <2>1, ChildAlive
  <2>3. DueOf(kstk) = {}
    BY <2>1 DEF Running, DueOf
  <2> QED
    BY <1>1, <2>1, <2>2, <2>3, TerminateWait
<1>3. CASE CloseFile
  <2> DEFINE t == Tail(kstk)
  <2>1. /\ kstk # <<>> /\ Head(kstk).op = "close" /\ UNCHANGED <<state, wait, sleep>>
        /\ \E e \in Head(kstk).events : Wake(e, CallClose(Head(kstk).events \ {e}) \o t)
    BY <1>3 DEF CloseFile, Running, sched
  <2>2. /\ t \in Seq(Calls) /\ NotReady(t) /\ FreeFrames(t) = FreeFrames(kstk)
        /\ DueOf(kstk) = {} /\ Head(kstk) \in Calls
    BY <1>1, <2>1, DuePop
  <2> HIDE DEF t
  <2>3. PICK e \in Head(kstk).events : Wake(e, CallClose(Head(kstk).events \ {e}) \o t)
    BY <2>1
  <2> DEFINE E == Head(kstk).events \ {e}
             r == CallClose(E) \o t
  <2>4. E \in SUBSET Events /\ e \in Events
    BY <2>2 DEF Calls
  <2>5. Wake(e, r)
    BY <2>3
  <2> HIDE DEF E
  <2>6. r \in Seq(Calls) /\ NotReady(r) /\ FreeFrames(r) = FreeFrames(t)
    BY <2>2, <2>4, DueClose
  <2> HIDE DEF r
  <2> QED
    BY <2>1, <2>2, <2>4, <2>5, <2>6, WakeWait
<1>4. CASE TickEnd \/ AbortEnd
  <2>1. /\ kstk # <<>> /\ Head(kstk).op \in {"tick", "abort"} /\ kstk' = Tail(kstk)
        /\ UNCHANGED <<sleep, event, wait>>
    BY <1>4 DEF TickEnd, AbortEnd, fields, Running
  <2>2. Woken(state)
    <3>1. CASE UNCHANGED sched
      BY <3>1 DEF sched, Woken
    <3>2. CASE Schedule(current, state, ring, saved) \/ Schedule(NULL, state, ring, saved)
      BY <1>1, <3>2, SlotFacts, ScheduleFacts
    <3> QED
      BY <1>4, <3>1, <3>2 DEF TickEnd, AbortEnd
  <2>3. /\ FreeFrames(kstk') = FreeFrames(kstk) /\ DueOf(kstk) = {} /\ NotReady(kstk')
        /\ kstk' \in Seq(Calls)
    BY <1>1, <2>1, DuePop
  <2>4. DueOf(kstk') = {}
    BY <2>3 DEF NotReady, DueOf
  <2> QED
    BY <2>1, <2>2, <2>3, <2>4, KeepWait
<1> QED
  BY <1>2, <1>3, <1>4, ExitWaitersWait, FreeWait, ReadyNextWait DEF Kernel

LEMMA WaitInductive == Spec => []WaitInv
<1>1. Init => WaitInv
  <2> SUFFICES ASSUME Init PROVE WaitInv
    OBVIOUS
  <2>1. /\ kstk = <<>> /\ \A p \in Pids : sleep[p] = 0 /\ state[p] \in {"READY", "UNUSED"}
    BY DEF Init
  <2>2. DueOf(kstk) = {} /\ FreeFrames(kstk) = {}
    BY <2>1 DEF DueOf, FreeFrames, Frames
  <2> QED
    BY <2>1, <2>2 DEF WaitInv, Counted, Expecting, AwaitLive, DueCounted, WaitersDue, DueForFree
<1>2. IInv /\ IInv' /\ TreeInv /\ WaitInv /\ [Next]_vars => WaitInv'
  <2> SUFFICES ASSUME IInv, IInv', TreeInv, WaitInv, [Next]_vars PROVE WaitInv'
    OBVIOUS
  <2>1. CASE Next
    BY <2>1, UserWait, TimerWait, KernelWait DEF Next, Timer
  <2>2. CASE UNCHANGED vars
    BY <2>2 DEF vars, sched, fields, WaitInv
  <2> QED
    BY <2>1, <2>2
<1> QED
  BY <1>1, <1>2, Inductive, TreeInductive, PTL DEF Spec

(* A sleeping or blocked process has what will wake it, and nobody waits    *)
(* for a slot that is already free: no wake-up is lost, whoever exits, is   *)
(* killed or is woken in between.                                          *)
THEOREM WaitersHold == Spec => []WaitersOK
BY WaitInductive, WaitInvWaitersOK, PTL

-----------------------------------------------------------------------------
(* waitpid.                                                                *)

(* Only proc_ready makes a waiting process READY.                          *)
LEMMA WaitingReadied ==
    ASSUME IInv, TreeInv, Next, NEW p \in Pids \ {0}, state[p] = "WAIT", state'[p] = "READY"
    PROVE  ReadyNext(p)
<1>1. /\ Syscall => /\ current \in Pids /\ state[current] = "READY"
                    /\ Trapped \in [Pids -> Slots] /\ ZombieIn(state) = {}
      /\ saved \in [Pids -> Slots] /\ current \in Slots /\ TypeOK
  BY SyscallFacts DEF TreeInv, IInv, TypeOK, Slots
<1>2. ASSUME NEW q \in Pids \ {0}, state[q] \notin {"ZOMBIE", "UNUSED"},
             NEW sv \in [Pids -> Slots], NEW rest, Terminate(q, sv, rest)
      PROVE  FALSE
  <2>1. Woken([state EXCEPT ![q] = "ZOMBIE"]) /\ state'[q] = "ZOMBIE"
    BY <1>2, TerminateFacts
  <2> QED
    BY <1>1, <2>1 DEF Woken, TypeOK
<1>3. ASSUME NEW s \in {"SLEEPING", "WAIT", "BLOCK"}, Syscall, Suspend(s) PROVE FALSE
  <2>1. Woken([state EXCEPT ![current] = s])
    BY <1>3, SuspendFacts
  <2>2. p # current
    BY <1>1, <1>3
  <2> QED
    BY <1>1, <2>1, <2>2 DEF Woken, TypeOK
<1>4. ASSUME NEW cur \in Slots, NEW sv \in [Pids -> Slots], Schedule(cur, state, ring, sv)
      PROVE  FALSE
  BY <1>4, ScheduleFacts DEF Woken
<1>5. ASSUME NEW c \in Pids, NEW t \in {"PROC", "THREAD"}, NEW s \in {"READY", "CREATED"},
             NewProc(c, t, s)
      PROVE  FALSE
  <2>1. p # c /\ state' = [state EXCEPT ![c] = s]
    BY <1>5 DEF NewProc, First, Live
  <2> QED
    BY <1>1, <2>1 DEF TypeOK
<1>6. state' # state
  OBVIOUS
<1>7. CASE User
  <2>1. ASSUME NEW t \in {"PROC", "THREAD"}, Fork(t) PROVE FALSE
    BY <1>5, <2>1 DEF Fork
  <2>2. ASSUME ForkFail PROVE FALSE
    BY <1>5, <2>2 DEF ForkFail
  <2>3. ASSUME Exec \/ Detach \/ CriticalEnter \/ CriticalQuit PROVE FALSE
    BY <1>6, <2>3 DEF Exec, Detach, CriticalEnter, CriticalQuit, SetCritical
  <2>4. ASSUME Exit \/ DataAbort PROVE FALSE
    BY <1>1, <1>2, <2>4 DEF Exit, DataAbort
  <2>5. ASSUME Yield PROVE FALSE
    BY <1>1, <1>4, <2>5 DEF Yield
  <2>6. ASSUME NEW q \in Pids, Kill(q) PROVE FALSE
    <3>1. q \in Pids \ {0} /\ state[q] \notin {"ZOMBIE", "UNUSED"}
      BY <1>1, <2>6 DEF Kill, Live, ZombieIn
    <3> QED
      BY <1>1, <1>2, <2>6, <3>1 DEF Kill
  <2>7. ASSUME NEW q \in Pids, WaitPid(q) PROVE FALSE
    BY <1>3, <2>7 DEF WaitPid
  <2>8. ASSUME NEW n \in 1 .. SLEEP_MAX, Usleep(n) PROVE FALSE
    BY <1>3, <2>8 DEF Usleep
  <2>9. ASSUME NEW e \in Events, BlockOn(e) \/ Wakeup(e) PROVE FALSE
    BY <1>3, <1>6, <2>9 DEF BlockOn, Wakeup
  <2> QED
    BY <1>7, <2>1, <2>2, <2>3, <2>4, <2>5, <2>6, <2>7, <2>8, <2>9 DEF User
<1>8. CASE Timer
  BY <1>6, <1>8 DEF Timer, Tick
<1>9. CASE Kernel
  <2>1. ASSUME NEW c \in Pids, ExitChild(c) PROVE FALSE
    <3>1. c \in Pids \ {0} /\ state[c] \notin {"ZOMBIE", "UNUSED"}
      BY <2>1, ChildAlive DEF ExitChild, First
    <3> QED
      BY <1>1, <1>2, <2>1, <3>1 DEF ExitChild
  <2>2. ASSUME ExitWaiters \/ CloseFile PROVE FALSE
    BY <1>6, <2>2 DEF ExitWaiters, CloseFile, sched
  <2>3. ASSUME FreeProc PROVE FALSE
    <3>1. state' = [state EXCEPT ![Arg] = "UNUSED"]
      BY <2>3 DEF FreeProc
    <3> QED
      BY <1>1, <3>1 DEF TypeOK
  <2>4. ASSUME TickEnd \/ AbortEnd PROVE FALSE
    BY <1>1, <1>4, <1>6, <2>4, SlotFacts DEF TickEnd, AbortEnd, sched
  <2>5. ASSUME NEW q \in Pids, ReadyNext(q) PROVE q = p
    <3>1. state' = [state EXCEPT ![q] = "READY"]
      BY <2>5 DEF ReadyNext
    <3> QED
      BY <1>1, <3>1 DEF TypeOK
  <2> QED
    BY <1>9, <2>1, <2>2, <2>3, <2>4, <2>5 DEF Kernel
<1> QED
  BY <1>7, <1>8, <1>9 DEF Next

(* waitpid returns while the awaited process is being torn down and after   *)
(* its children are gone, never before and never for the slot's next owner. *)
THEOREM WaitPidHolds == Spec => WaitPidReturns
<1> DEFINE Back == \A p \in Pids \ {0} :
              state[p] = "WAIT" /\ state'[p] = "READY" =>
                  state[wait[p]] = "ZOMBIE" /\ Children(wait[p]) = {}
<1>1. IInv /\ TreeInv /\ WaitInv /\ [Next]_vars => [Back]_vars
  <2> SUFFICES ASSUME IInv, TreeInv, WaitInv, Next, NEW p \in Pids \ {0},
                      state[p] = "WAIT", state'[p] = "READY"
               PROVE  state[wait[p]] = "ZOMBIE" /\ Children(wait[p]) = {}
    OBVIOUS
  <2>1. p \in DueOf(kstk)
    BY WaitingReadied DEF ReadyNext, Running, First, DueOf
  <2>2. PICK f \in FreeFrames(kstk) : f.pid = wait[p]
    BY <2>1 DEF WaitInv, DueForFree
  <2>3. f \in Frames(kstk) /\ f.op = "free" /\ Torn(f)
    BY <2>2 DEF FreeFrames, Torn
  <2>4. f.pid \in ZombieIn(state)
    BY <2>3 DEF TreeInv, Chain, ChainAt, TornAre, Frames
  <2>5. \A c \in Pids : father[c] # f.pid
    BY <2>3 DEF TreeInv, FreesBarren
  <2> QED
    BY <2>2, <2>4, <2>5 DEF ZombieIn, Children
<1>2. WaitPidReturns <=> [][Back]_vars
  BY DEF WaitPidReturns
<1> HIDE DEF Back
<1> QED
  BY <1>1, <1>2, Inductive, TreeInductive, WaitInductive, PTL DEF Spec
=============================================================================
