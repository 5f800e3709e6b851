-------------------------------- MODULE Proc --------------------------------
(***************************************************************************)
(* The process table and the scheduler of the kernel: kernel/kernel/proc.c,*)
(* schedule.c, the process system calls of svc.c and the timer interrupt   *)
(* and data abort of irq.c.                                                *)
(*                                                                         *)
(* A handler runs with interrupts off (svc.c:631, irq.c:24), so handlers   *)
(* do not interleave with each other; but proc_exit recurses over the      *)
(* process tree and several handlers wake a set of processes one by one,   *)
(* and each of these steps may move the ready list and the CPU under the   *)
(* rest of the handler.  They are modelled one loop iteration at a time:   *)
(* kstk is the kernel's call stack, and while it is not empty only the     *)
(* kernel moves.                                                           *)
(***************************************************************************)
EXTENDS ReadyRing, Sequences

CONSTANTS
    Events,         \* what proc_block_on waits for: addresses, never 0
    SLEEP_MAX,      \* bound: the longest usleep, in timer ticks
    CRITICAL_MAX,   \* length of a critical zone, in timer ticks (16 in proc.h)
    Detachers       \* the types of process whose program calls detach()

ASSUME ProcAssumption ==
    /\ 0 \notin Events
    /\ SLEEP_MAX \in Nat \ {0}
    /\ CRITICAL_MAX \in Nat
    /\ Detachers \subseteq {"PROC", "THREAD"}

VARIABLES
    state,      \* proc_t.state
    type,       \* proc_t.type
    father,     \* proc_t.father_pid
    space,      \* proc_t.space, named by the process it was created for
    wait,       \* proc_t.wait_pid
    event,      \* proc_t.block_event
    sleep,      \* proc_t.sleep_counter, in timer ticks
    critical,   \* proc_t.critical_counter
    ring,       \* proc_t.next, proc_t.prev and _ready_proc
    current,    \* _current_proc
    frame,      \* whose registers are in the trap frame the handler returns to
    saved,      \* whose registers are in proc_t.ctx; NULL: out of date
    kstk        \* the calls the running handler still has to finish

sched == <<state, ring, current, frame, saved>>
fields == <<type, father, space, wait, event, sleep, critical>>
vars == <<sched, fields, kstk>>

States == {"UNUSED", "CREATED", "SLEEPING", "WAIT", "BLOCK", "READY", "ZOMBIE"}

(* A pending call: of proc_exit on pid, before or after its loop over the  *)
(* children (exit, free), the proc_ready of each of pids, the wake-ups of  *)
(* events by vfs_close, or the end of a timer interrupt or a data abort.   *)
Calls == [op : {"exit", "free", "ready", "close", "tick", "abort"},
          pid : Pids \cup {NULL}, pids : SUBSET Pids, events : SUBSET Events]

Call(op, p) == [op |-> op, pid |-> p, pids |-> {}, events |-> {}]
CallReady(S) == IF S = {} THEN <<>>
                ELSE <<[op |-> "ready", pid |-> NULL, pids |-> S, events |-> {}]>>
CallClose(E) == IF E = {} THEN <<>>
                ELSE <<[op |-> "close", pid |-> NULL, pids |-> {}, events |-> E]>>

Live == {p \in Pids : state[p] # "UNUSED"}
ReadySet == {p \in Pids : state[p] = "READY"}
First(p, S) == p \in S /\ \A q \in S : p <= q

(* procs_init and load_init: slot 0 holds init, READY, and the CPU idles in *)
(* the kernel until the first timer interrupt.                             *)
Init ==
    /\ state = [p \in Pids |-> IF p = 0 THEN "READY" ELSE "UNUSED"]
    /\ type = [p \in Pids |-> "PROC"]
    /\ father = [p \in Pids |-> IF p = 0 THEN NULL ELSE 0]
    /\ space = [p \in Pids |-> IF p = 0 THEN 0 ELSE NULL]
    /\ wait = [p \in Pids |-> 0]
    /\ event = [p \in Pids |-> 0]
    /\ sleep = [p \in Pids |-> 0]
    /\ critical = [p \in Pids |-> 0]
    /\ ring = Link(EmptyRing, 0)
    /\ current = NULL
    /\ frame = NULL
    /\ saved = [p \in Pids |-> IF p = 0 THEN 0 ELSE NULL]
    /\ kstk = <<>>

-----------------------------------------------------------------------------
(* memset in proc_create and proc_exit, for the fields a free slot's next   *)
(* owner would otherwise inherit.                                          *)
Clear(p) ==
    /\ wait' = [wait EXCEPT ![p] = 0]
    /\ event' = [event EXCEPT ![p] = 0]
    /\ sleep' = [sleep EXCEPT ![p] = 0]
    /\ critical' = [critical EXCEPT ![p] = 0]

(* While a program runs, what its proc_t.ctx holds goes out of date; every *)
(* entry into the kernel finds it so.                                      *)
Trapped == IF current = NULL THEN saved ELSE [saved EXCEPT ![current] = NULL]

Syscall == kstk = <<>> /\ current # NULL

(* Mutations of Schedule, for the runs' properties: the registers of the    *)
(* process that is switched out are lost; the head of the ready list is     *)
(* picked, not the process after the running one.                          *)
Schedule_NoSave(cur, st, r, sv) ==
    LET cand == IF cur # NULL /\ r.next[cur] # NULL THEN r.next[cur] ELSE r.head
        to == IF cand = NULL THEN 0 ELSE cand
    IN  /\ state' = [st EXCEPT ![to] = "READY"]
        /\ ring' = IF cand = NULL THEN Link(r, to) ELSE r
        /\ current' = to
        /\ frame' = IF to = cur THEN frame ELSE sv[to]
        /\ saved' = sv
Schedule_Head(cur, st, r, sv) ==
    LET to == IF r.head = NULL THEN 0 ELSE r.head
    IN  /\ state' = [st EXCEPT ![to] = "READY"]
        /\ ring' = IF r.head = NULL THEN Link(r, to) ELSE r
        /\ current' = to
        /\ frame' = IF to = cur THEN frame ELSE sv[to]
        /\ saved' = IF to = cur \/ cur = NULL THEN sv ELSE [sv EXCEPT ![cur] = frame]

(* schedule: proc_get_next_ready and proc_switch, for _current_proc = cur   *)
(* and the states, list and saved contexts the caller has reached.  When    *)
(* nobody is READY process 0 is made READY, whatever it was waiting for.    *)
Schedule(cur, st, r, sv) ==
    LET cand == IF cur # NULL /\ r.next[cur] # NULL THEN r.next[cur] ELSE r.head
        idle == cand = NULL
        to   == IF idle THEN 0 ELSE cand
        stay == to = cur \/ (idle /\ st[0] \in {"UNUSED", "ZOMBIE", "CREATED"})
        wake == idle /\ st[0] \notin {"UNUSED", "ZOMBIE", "CREATED", "READY"}
    IN  /\ state' = IF wake THEN [st EXCEPT ![0] = "READY"] ELSE st
        /\ ring' = IF wake THEN Link(r, 0) ELSE r
        /\ current' = IF stay THEN cur ELSE to
        /\ frame' = IF stay THEN frame ELSE sv[to]
        /\ saved' = IF stay \/ cur = NULL \/ st[cur] = "UNUSED" THEN sv
                    ELSE [sv EXCEPT ![cur] = frame]

(* The running process leaves the ready list in state s: proc_unready.     *)
Suspend(s) ==
    Schedule(current, [state EXCEPT ![current] = s], Unlink(ring, current), Trapped)

(* The start of proc_exit(p), up to the loop over the children of p; rest   *)
(* is what the kernel does after it.  (proc_terminate sets ZOMBIE after     *)
(* proc_unready has switched; only for process 0 could that be seen.)       *)
Terminate(p, sv, rest) ==
    LET dead == [state EXCEPT ![p] = "ZOMBIE"]
    IN  IF state[p] \in {"ZOMBIE", "UNUSED"}
        THEN /\ kstk' = <<Call("free", p)>> \o rest
             /\ saved' = sv
             /\ UNCHANGED <<state, ring, current, frame>>
        ELSE /\ kstk' = <<Call("exit", p)>> \o rest
             /\ IF state[p] = "READY" /\ p = current
                THEN Schedule(current, dead, Unlink(ring, p), sv)
                ELSE /\ state' = dead
                     /\ ring' = IF state[p] = "READY" THEN Unlink(ring, p) ELSE ring
                     /\ saved' = IF state[p] = "READY" THEN [sv EXCEPT ![p] = frame]
                                                       ELSE sv
                     /\ UNCHANGED <<current, frame>>

(* Mutations of Wake: the state is not looked at, so that a process that is *)
(* being torn down is woken; the event is cleared, nobody is made READY.   *)
Wake_AnyState(e, rest) ==
    /\ event' = [p \in Pids |-> IF event[p] = e THEN 0 ELSE event[p]]
    /\ kstk' = CallReady({p \in Pids : event[p] = e /\ sleep[p] = 0}) \o rest
Wake_NotReady(e, rest) ==
    /\ event' = [p \in Pids |-> IF state[p] = "BLOCK" /\ event[p] = e THEN 0 ELSE event[p]]
    /\ kstk' = rest

(* proc_wakeup(e), then rest.  The event is cleared for all the processes   *)
(* blocked on it, but one with a sleep counter is not made READY.           *)
Wake(e, rest) ==
    LET woken == {p \in Pids : state[p] = "BLOCK" /\ event[p] = e}
    IN  /\ event' = [p \in Pids |-> IF p \in woken THEN 0 ELSE event[p]]
        /\ kstk' = CallReady({p \in woken : sleep[p] = 0}) \o rest

-----------------------------------------------------------------------------
(* System calls of the running process.                                    *)

(* Mutation of NewProc: a thread's space is taken to be its parent's own.   *)
NewProc_ThreadSpace(c, t, s) ==
    /\ First(c, Pids \ Live)
    /\ state' = [state EXCEPT ![c] = s]
    /\ type' = [type EXCEPT ![c] = t]
    /\ father' = [father EXCEPT ![c] = current]
    /\ space' = [space EXCEPT ![c] = IF t = "PROC" THEN c ELSE current]
    /\ Clear(c)
    /\ UNCHANGED <<current, frame, kstk>>

(* proc_create and kfork: the lowest free slot becomes a child of the       *)
(* running process, with a space of its own or, for a thread, the parent's. *)
NewProc(c, t, s) ==
    /\ First(c, Pids \ Live)
    /\ state' = [state EXCEPT ![c] = s]
    /\ type' = [type EXCEPT ![c] = t]
    /\ father' = [father EXCEPT ![c] = current]
    /\ space' = [space EXCEPT ![c] = IF t = "PROC" THEN c ELSE space[current]]
    /\ Clear(c)
    /\ UNCHANGED <<current, frame, kstk>>

Fork(t) ==
    /\ Syscall
    /\ \E c \in Pids : /\ NewProc(c, t, "READY")
                       /\ ring' = Link(ring, c)
                       /\ saved' = [Trapped EXCEPT ![c] = c]

(* Memory runs out in proc_clone: kfork returns NULL, the slot stays taken. *)
ForkFail ==
    /\ Syscall
    /\ \E c \in Pids : /\ NewProc(c, "PROC", "CREATED")
                       /\ ring' = ring
                       /\ saved' = Trapped

(* sys_load_elf: proc_ready finds the process READY, and the child it may   *)
(* be keeps its father.                                                    *)
Exec ==
    /\ Syscall
    /\ saved' = Trapped
    /\ UNCHANGED <<state, ring, current, frame, fields, kstk>>

Detach ==
    /\ Syscall
    /\ type[current] \in Detachers
    /\ father' = [father EXCEPT ![current] = 0]
    /\ saved' = Trapped
    /\ UNCHANGED <<state, ring, current, frame, type, space, wait, event,
                   sleep, critical, kstk>>

(* init neither exits, aborts nor is killed: /sbin/init loops for ever, and *)
(* with father_pid 0 in every zeroed slot the kernel would not survive it.  *)
Exit ==
    /\ Syscall
    /\ current # 0
    /\ Terminate(current, Trapped, <<>>)
    /\ UNCHANGED fields

Kill(p) ==
    /\ Syscall
    /\ p \in Live \ {0}
    /\ Terminate(p, Trapped, <<>>)
    /\ UNCHANGED fields

Usleep(n) ==
    /\ Syscall
    /\ sleep' = [sleep EXCEPT ![current] = n]
    /\ Suspend("SLEEPING")
    /\ UNCHANGED <<type, father, space, wait, event, critical, kstk>>

(* proc_block_on, as the last step of get_msg, lock, pipe read or write.    *)
BlockOn(e) ==
    /\ Syscall
    /\ event' = [event EXCEPT ![current] = e]
    /\ Suspend("BLOCK")
    /\ UNCHANGED <<type, father, space, wait, sleep, critical, kstk>>

WaitPid(p) ==
    /\ Syscall
    /\ state[p] # "UNUSED"
    /\ wait' = [wait EXCEPT ![current] = p]
    /\ Suspend("WAIT")
    /\ UNCHANGED <<type, father, space, event, sleep, critical, kstk>>

(* proc_wakeup by send_msg, unlock, pipe, close or device calls; a pipe call *)
(* that wakes and then blocks is this step and then BlockOn.                 *)
Wakeup(e) ==
    /\ Syscall
    /\ Wake(e, <<>>)
    /\ saved' = Trapped
    /\ UNCHANGED <<state, ring, current, frame, type, father, space, wait, sleep,
                   critical>>

Yield ==
    /\ Syscall
    /\ Schedule(current, state, ring, Trapped)
    /\ UNCHANGED <<fields, kstk>>

SetCritical(n) ==
    /\ Syscall
    /\ critical' = [critical EXCEPT ![current] = n]
    /\ saved' = Trapped
    /\ UNCHANGED <<state, ring, current, frame, type, father, space, wait, event,
                   sleep, kstk>>
CriticalEnter == SetCritical(CRITICAL_MAX)
CriticalQuit == SetCritical(0)

(* data_abort_handler: the running program made a bad access.              *)
DataAbort ==
    /\ Syscall
    /\ current # 0
    /\ Terminate(current, Trapped, <<Call("abort", NULL)>>)
    /\ UNCHANGED fields

(* Mutation of Tick: a counter that the gap brings to 0 exactly is passed.  *)
Tick_OffByOne(gap) ==
    /\ kstk = <<>>
    /\ saved' = Trapped
    /\ LET due == {p \in Pids : state[p] = "SLEEPING" /\ sleep[p] \in 1 .. gap - 1}
       IN  /\ sleep' = [p \in Pids |-> IF sleep[p] <= gap THEN 0 ELSE sleep[p] - gap]
           /\ kstk' = CallReady(due) \o <<Call("tick", NULL)>>
    /\ UNCHANGED <<state, ring, current, frame, type, father, space, wait, event, critical>>

(* The timer interrupt, up to renew_sleep_counter(gap): skipped in a        *)
(* critical zone, whose length the next gap then makes up for.              *)
Tick(gap) ==
    /\ kstk = <<>>
    /\ saved' = Trapped
    /\ IF current = NULL \/ critical[current] = 0
       THEN LET asleep == {p \in Pids : state[p] = "SLEEPING" /\ sleep[p] > 0}
                due    == {p \in asleep : sleep[p] <= gap}
            IN  /\ sleep' = [p \in Pids |-> IF p \in due THEN 0
                                            ELSE IF p \in asleep THEN sleep[p] - gap
                                            ELSE sleep[p]]
                /\ kstk' = CallReady(due) \o <<Call("tick", NULL)>>
       ELSE /\ kstk' = <<Call("tick", NULL)>>
            /\ UNCHANGED sleep
    /\ UNCHANGED <<state, ring, current, frame, type, father, space, wait, event,
                   critical>>

-----------------------------------------------------------------------------
(* The rest of the running handler, one iteration of a loop at a time.     *)

Running(op) == kstk # <<>> /\ Head(kstk).op = op
Arg == Head(kstk).pid
Due == IF Running("ready") THEN Head(kstk).pids ELSE {}
Children(p) == {c \in Pids : father[c] = p}

(* proc_terminate: the next child, in slot order, goes through proc_exit.  *)
ExitChild(c) ==
    /\ Running("exit")
    /\ First(c, Children(Arg))
    /\ Terminate(c, saved, kstk)
    /\ UNCHANGED fields

(* Mutations of ExitWaiters: the waiters are woken before the children are  *)
(* gone, and nobody goes back to the loop; nobody is woken at all.         *)
ExitWaiters_Early ==
    /\ Running("exit")
    /\ kstk' = CallReady({p \in Pids : state[p] = "WAIT" /\ wait[p] = Arg})
                 \o <<Call("free", Arg)>> \o Tail(kstk)
    /\ UNCHANGED <<sched, fields>>
ExitWaiters_None ==
    /\ Running("exit")
    /\ Children(Arg) = {}
    /\ kstk' = <<Call("free", Arg)>> \o Tail(kstk)
    /\ UNCHANGED <<sched, fields>>

(* ... and after the last one proc_wakeup_waiting.                         *)
ExitWaiters ==
    /\ Running("exit")
    /\ Children(Arg) = {}
    /\ kstk' = CallReady({p \in Pids : state[p] = "WAIT" /\ wait[p] = Arg})
                 \o <<Call("free", Arg)>> \o Tail(kstk)
    /\ UNCHANGED <<sched, fields>>

(* Mutation of FreeProc: the slot is marked free and keeps its father_pid.  *)
FreeProc_NoMemset ==
    /\ Running("free")
    /\ state' = [state EXCEPT ![Arg] = "UNUSED"]
    /\ saved' = [saved EXCEPT ![Arg] = NULL]
    /\ kstk' = Tail(kstk)
    /\ UNCHANGED <<ring, current, frame, fields>>

(* The rest of proc_exit: the slot is zeroed and free; the space of a       *)
(* process goes with it, and vfs_close wakes who is blocked on its files.   *)
FreeProc ==
    /\ Running("free")
    /\ state' = [state EXCEPT ![Arg] = "UNUSED"]
    /\ type' = [type EXCEPT ![Arg] = "PROC"]
    /\ father' = [father EXCEPT ![Arg] = 0]
    /\ space' = [space EXCEPT ![Arg] = NULL]
    /\ saved' = [saved EXCEPT ![Arg] = NULL]
    /\ Clear(Arg)
    /\ \E E \in SUBSET Events : /\ type[Arg] = "THREAD" => E = {}
                                /\ kstk' = CallClose(E) \o Tail(kstk)
    /\ UNCHANGED <<ring, current, frame>>

CloseFile ==
    /\ Running("close")
    /\ \E e \in Head(kstk).events :
          Wake(e, CallClose(Head(kstk).events \ {e}) \o Tail(kstk))
    /\ UNCHANGED <<sched, type, father, space, wait, sleep, critical>>

(* proc_ready of the next process, in slot order, of a waking loop.  (The   *)
(* wait_pid it leaves behind is read in state WAIT only: it is forgotten.)  *)
ReadyNext(p) ==
    /\ Running("ready")
    /\ First(p, Head(kstk).pids)
    /\ state' = [state EXCEPT ![p] = "READY"]
    /\ ring' = IF state[p] = "READY" THEN ring ELSE Link(ring, p)
    /\ wait' = [wait EXCEPT ![p] = 0]
    /\ kstk' = CallReady(Head(kstk).pids \ {p}) \o Tail(kstk)
    /\ UNCHANGED <<current, frame, saved, type, father, space, event, sleep, critical>>

(* Mutation of TickEnd: the counter stays as it is.                        *)
TickEnd_NoCountdown ==
    /\ Running("tick")
    /\ kstk' = Tail(kstk)
    /\ IF current # NULL /\ critical[current] > 0
       THEN UNCHANGED sched ELSE Schedule(current, state, ring, saved)
    /\ UNCHANGED fields

(* The end of the timer interrupt: no schedule inside a critical zone.     *)
TickEnd ==
    /\ Running("tick")
    /\ kstk' = Tail(kstk)
    /\ IF current # NULL /\ critical[current] > 0
       THEN /\ critical' = [critical EXCEPT ![current] = @ - 1]
            /\ UNCHANGED sched
       ELSE /\ Schedule(current, state, ring, saved)
            /\ UNCHANGED critical
    /\ UNCHANGED <<type, father, space, wait, event, sleep>>

(* The end of a data abort: there is no current process any more.          *)
AbortEnd ==
    /\ Running("abort")
    /\ kstk' = Tail(kstk)
    /\ Schedule(NULL, state, ring, saved)
    /\ UNCHANGED fields

User ==
    \/ \E t \in {"PROC", "THREAD"} : Fork(t)
    \/ ForkFail \/ Exec \/ Detach \/ Exit \/ Yield
    \/ \E p \in Pids : Kill(p) \/ WaitPid(p)
    \/ \E n \in 1 .. SLEEP_MAX : Usleep(n)
    \/ \E e \in Events : BlockOn(e) \/ Wakeup(e)
    \/ CriticalEnter \/ CriticalQuit
    \/ DataAbort

Timer == \E gap \in 1 .. SLEEP_MAX : Tick(gap)

Kernel ==
    \/ \E p \in Pids : ExitChild(p) \/ ReadyNext(p)
    \/ ExitWaiters \/ FreeProc \/ CloseFile \/ TickEnd \/ AbortEnd

Next == User \/ Timer \/ Kernel

Spec == Init /\ [][Next]_vars

(* A handler runs to its end, and the timer keeps interrupting: a tick that *)
(* comes while interrupts are off stays pending, so it is not enough for    *)
(* the kernel to be busy again and again to lose it (strong fairness).      *)
Fairness == WF_vars(Kernel) /\ SF_vars(Timer)

-----------------------------------------------------------------------------
Frames(s) == {s[i] : i \in 1 .. Len(s)}
Calm(s) == \A f \in Frames(s) : f.op # "ready"

StackOK(st, s) ==
    /\ \A f \in Frames(s) : f.op \in {"exit", "free"} =>
          f.pid \in Pids \ {0} /\ st[f.pid] \in {"ZOMBIE", "UNUSED"}
    /\ s # <<>> => /\ Calm(Tail(s))
                   /\ Head(s).op = "ready" => \A p \in Head(s).pids :
                        st[p] \in {"SLEEPING", "WAIT", "BLOCK", "READY"}

(* The fields hold values of their types.                                  *)
TypeOK ==
    /\ state \in [Pids -> States]
    /\ type \in [Pids -> {"PROC", "THREAD"}]
    /\ father \in [Pids -> Pids \cup {NULL}]
    /\ space \in [Pids -> Pids \cup {NULL}]
    /\ wait \in [Pids -> Pids]
    /\ event \in [Pids -> Events \cup {0}]
    /\ sleep \in [Pids -> 0 .. SLEEP_MAX]
    /\ critical \in [Pids -> 0 .. CRITICAL_MAX]
    /\ ring \in Rings
    /\ current \in Pids \cup {NULL}
    /\ frame \in Pids \cup {NULL}
    /\ saved \in [Pids -> Pids \cup {NULL}]
    /\ kstk \in Seq(Calls)

(* The ready list is one well-linked circle through exactly the READY       *)
(* processes, at every step of every handler (proc_ready, proc_unready).    *)
RingOK == RingOf(ring, ReadySet)

PendingOK ==
    /\ current # NULL => state[current] = "READY"
    /\ state[0] \notin {"UNUSED", "ZOMBIE", "CREATED"} /\ father[0] \in {NULL, 0}
    /\ StackOK(state, kstk)

(* What the kernel is tearing down is not runnable, what it is about to     *)
(* make READY is, and the running process is READY; init is always there,   *)
(* and every counter and pid stays in its range.                           *)
(* (proc_terminate, proc_wakeup and proc_get_next_ready's fallback.)        *)
KernelOK == TypeOK /\ PendingOK

(* Between handlers the CPU runs a READY process on that process's own      *)
(* registers, and every other process the scheduler may pick or that waits  *)
(* has its own, up to date, in its record (proc_switch, proc_unready).      *)
ContextOK ==
    kstk = <<>> =>
        /\ current # NULL => state[current] = "READY" /\ frame = current
        /\ \A p \in Live \ {current} : state[p] # "CREATED" => saved[p] = p

(* Every process but init has a live parent and descends from init, so that *)
(* no exit leaves a subtree behind (proc_terminate, slot reuse).            *)
TreeOK ==
    /\ \A p \in Live \ {0} : father[p] \in Live \ {p}
    /\ \A S \in SUBSET (Live \ {0}) : S # {} => \E p \in S : father[p] \notin S

(* A thread runs in the space of its parent, and no space is freed under a  *)
(* process that runs in it (proc_free_space, proc_exit's order).            *)
SpaceOK ==
    \A p \in Live : /\ space[p] \in Live /\ space[space[p]] = space[p]
                    /\ type[p] = "THREAD" => space[p] = space[father[p]]

(* A sleeping or blocked process has what will wake it: a counter the timer *)
(* still counts, or an event and no counter that would make proc_wakeup     *)
(* pass it over.  Process 0 alone can be made READY early by the scheduler. *)
(* And a process waits only for a slot that has not been freed, so that it  *)
(* cannot miss the end of what it waits for or wait for the next owner.     *)
WaitersOK ==
    /\ \A p \in Pids \ {0} :
        /\ sleep[p] > 0 => state[p] \in {"SLEEPING", "ZOMBIE"}
        /\ state[p] = "SLEEPING" /\ sleep[p] = 0 => p \in Due
        /\ state[p] = "BLOCK" /\ event[p] = 0 => p \in Due
    /\ \A p \in Pids : state[p] = "WAIT" => state[wait[p]] # "UNUSED"

(* waitpid comes back only while the awaited process is being torn down     *)
(* (and not before its children are gone); init may be woken by idleness.   *)
WaitPidReturns ==
    [][\A p \in Pids \ {0} :
          state[p] = "WAIT" /\ state'[p] = "READY" =>
              state[wait[p]] = "ZOMBIE" /\ Children(wait[p]) = {}]_vars

(* Every handler of a system call, a tick or a data abort ends: the         *)
(* recursion of proc_exit and the waking loops.  (prefetch_abort_handler   *)
(* loops for ever, and no action models it.)                               *)
HandlersEnd == kstk # <<>> ~> kstk = <<>>

(* Who waits for a process that is being torn down gets to run again.      *)
WaitersRun ==
    \A p, q \in Pids :
        state[p] = "WAIT" /\ wait[p] = q /\ state[q] = "ZOMBIE"
            ~> state[p] \in {"READY", "ZOMBIE"}

(* The timer counts a critical zone down though its process never calls the *)
(* kernel, and however often it enters the zone again (irq_handler).        *)
CriticalEnds ==
    \A p \in Pids : \A n \in 1 .. CRITICAL_MAX :
        current = p /\ critical[p] = n ~> current # p \/ critical[p] # n

(* Nothing is being torn down and nobody is in a critical zone.            *)
Quiet == /\ \A f \in Frames(kstk) : f.op \notin {"exit", "free"}
         /\ \A p \in Pids : critical[p] = 0

(* Once processes have stopped ending and entering critical zones, a READY  *)
(* process gets the CPU, or stops being READY, under ticks alone, whatever  *)
(* is forked, woken and inserted ahead of it, and a sleeping one wakes up   *)
(* (proc_ready, schedule, renew_sleep_counter).  While processes keep       *)
(* ending, a READY one further on can be passed over for ever.             *)
ReadyRuns ==
    <>[]Quiet =>
        \A p \in Pids : /\ state[p] = "READY" ~> current = p \/ state[p] # "READY"
                        /\ state[p] = "SLEEPING" ~> state[p] # "SLEEPING"
=============================================================================
