--------------------------------- MODULE Ipc --------------------------------
(***************************************************************************)
(* Messages between processes: the queues of kernel/kernel/ipc.c, the get  *)
(* and send calls of svc.c, and the call and server loops of libs/sys      *)
(* (ipc.c, vdevice.c) that every driver and file system runs on.           *)
(*                                                                         *)
(* A system call is atomic (svc.c:631); between two of them any other      *)
(* process may run.  Of the scheduler only this is left: a process that    *)
(* finds no message is blocked on its queue until somebody sends to it,    *)
(* and then tries again from user space.                                   *)
(*                                                                         *)
(* Memory may run out in new_msg, so that there is no message at all.  That *)
(* it runs out for the data of a message (ipc.c:91-95) is not in the model: *)
(* the message is then freed where it is linked, nobody is woken, and what  *)
(* the receiver's queue holds from there on is undefined.                  *)
(***************************************************************************)
EXTENDS Integers, Sequences, SequencesExt

CONSTANTS
    Procs,          \* process slots
    Uses,           \* <<p, q>>: the program of p calls the server q
    MSG_MAX,        \* bound: requests sent in all (_msg_counter stays below 2^31)
    MemoryFails     \* whether new_msg may get no memory for an answer

NULL == -1

ASSUME IpcAssumption ==
    /\ Procs \subseteq Nat
    /\ Uses \subseteq Procs \X Procs /\ \A p \in Procs : <<p, p>> \notin Uses
    /\ MSG_MAX \in Nat
    /\ MemoryFails \in BOOLEAN

Servers == {p \in Procs : \E c \in Procs : <<c, p>> \in Uses}

VARIABLES
    alive,      \* the slots that hold a process
    queue,      \* proc_t.msg_queue_head .. msg_queue_tail
    counter,    \* _msg_counter
    blocked,    \* the processes in state BLOCK on their own queue
    want,       \* the call a process is waiting in ipc_recv for the answer to
    hold        \* the message a server is handling

vars == <<alive, queue, counter, blocked, want, hold>>

(* answer: whether the command in the message is one the server's handler   *)
(* sends an answer to; tag: what the data is about, the caller and his call.*)
Tags == Procs \X (0 .. MSG_MAX)
Messages == [id : 0 .. MSG_MAX, type : {"MSG_PUB", "MSG_ID"}, from : Procs,
             answer : BOOLEAN, tag : Tags]
NoMsg == [id |-> NULL]
Waits == [id : 0 .. MSG_MAX, to : Procs, tag : Tags]
NoCall == [id |-> NULL]

Init ==
    /\ alive = Procs
    /\ queue = [p \in Procs |-> <<>>]
    /\ counter = 0
    /\ blocked = {}
    /\ want = [p \in Procs |-> NoCall]
    /\ hold = [p \in Procs |-> NoMsg]

-----------------------------------------------------------------------------
(* Mutation of Matches: a message is matched by its type alone.            *)
Matches_Type(p, id) ==
    {i \in 1 .. Len(queue[p]) : queue[p][i].type = IF id < 0 THEN "MSG_PUB" ELSE "MSG_ID"}

(* get_msg: the places of the queue it stops at, the first of them first.   *)
Matches(p, id) ==
    {i \in 1 .. Len(queue[p]) :
        IF id < 0 THEN queue[p][i].type = "MSG_PUB" ELSE queue[p][i].id = id}
Found(p, id, i) == i \in Matches(p, id) /\ \A j \in Matches(p, id) : i <= j

(* Mutations of Send: the receiver is not woken; a message is put in front  *)
(* of the others.                                                          *)
Send_NoWakeup(to, m) ==
    /\ queue' = [queue EXCEPT ![to] = Append(@, m)]
    /\ UNCHANGED blocked
Send_Front(to, m) ==
    /\ queue' = [queue EXCEPT ![to] = <<m>> \o @]
    /\ blocked' = blocked \ {to}

(* proc_send_msg to a process that exists: new_msg, and the wake-up.       *)
Send(to, m) ==
    /\ queue' = [queue EXCEPT ![to] = Append(@, m)]
    /\ blocked' = blocked \ {to}

(* Mutation of Request: ids come round again while calls are pending.      *)
Request_Wraps(p, q, answer) ==
    /\ q \in alive
    /\ Send(q, [id |-> counter, type |-> "MSG_PUB", from |-> p, answer |-> answer,
                tag |-> <<p, counter>>])
    /\ counter' = (counter + 1) % 2

(* A request: MSG_PUB under a fresh id.                                    *)
Request(p, q, answer) ==
    /\ counter < MSG_MAX
    /\ q \in alive
    /\ Send(q, [id |-> counter, type |-> "MSG_PUB", from |-> p, answer |-> answer,
                tag |-> <<p, counter>>])
    /\ counter' = counter + 1

(* A process that is in none of the library's waits.                       *)
Runs(p) == p \in alive \ blocked /\ want[p] = NoCall

(* ipc_call up to ipc_recv, by a client or by a server that needs another   *)
(* one.  (To a slot that is free, or without memory in new_msg, it fails    *)
(* at once and nothing has changed.)                                       *)
Call(p, q) ==
    /\ Runs(p)
    /\ <<p, q>> \in Uses
    /\ Request(p, q, TRUE)
    /\ want' = [want EXCEPT ![p] = [id |-> counter, to |-> q, tag |-> <<p, counter>>]]
    /\ UNCHANGED <<alive, hold>>

(* ipc_call without an answer, and the message vfs_close sends for the      *)
(* process whose file it closes.                                           *)
Tell(p, q) ==
    /\ Runs(p)
    /\ <<p, q>> \in Uses
    /\ Request(p, q, FALSE)
    /\ UNCHANGED <<alive, want, hold>>

(* Mutation of Take: the message that is read stays in the queue.          *)
Take_Peek(p, i) == i \in 1 .. Len(queue[p]) /\ UNCHANGED <<queue, blocked>>

(* sys_get_msg: the message that is found leaves the queue, without one the *)
(* caller is blocked.                                                      *)
Take(p, i) == queue' = [queue EXCEPT ![p] = RemoveAt(@, i)] /\ UNCHANGED blocked
Block(p) == blocked' = blocked \cup {p} /\ UNCHANGED queue

(* One turn of ipc_recv.                                                   *)
Recv(p) ==
    /\ p \in alive \ blocked
    /\ want[p] # NoCall
    /\ \/ \E i \in 1 .. Len(queue[p]) :
             /\ Found(p, want[p].id, i)
             /\ Take(p, i)
             /\ want' = [want EXCEPT ![p] = NoCall]
       \/ Matches(p, want[p].id) = {} /\ Block(p) /\ UNCHANGED want
    /\ UNCHANGED <<alive, counter, hold>>

(* One turn of ipc_server or device_run, for any request.                  *)
Serve(p) ==
    /\ p \in Servers
    /\ Runs(p)
    /\ hold[p] = NoMsg
    /\ \/ \E i \in 1 .. Len(queue[p]) :
             /\ Found(p, NULL, i)
             /\ Take(p, i)
             /\ hold' = [hold EXCEPT ![p] = queue[p][i]]
       \/ Matches(p, NULL) = {} /\ Block(p) /\ UNCHANGED hold
    /\ UNCHANGED <<alive, counter, want>>

(* The end of the handler: MSG_ID under the request's id, to whoever has    *)
(* the slot the request came from.  Nobody looks at ipc_send's result.     *)
Reply(p) ==
    /\ Runs(p)
    /\ hold[p] # NoMsg
    /\ hold' = [hold EXCEPT ![p] = NoMsg]
    /\ IF hold[p].answer /\ hold[p].from \in alive
       THEN Send(hold[p].from, [id |-> hold[p].id, type |-> "MSG_ID", from |-> p,
                                answer |-> FALSE, tag |-> hold[p].tag])
       ELSE UNCHANGED <<queue, blocked>>
    /\ UNCHANGED <<alive, counter, want>>

(* new_msg gets no memory for the answer: nothing is sent.                  *)
ReplyLost(p) ==
    /\ MemoryFails
    /\ Runs(p)
    /\ hold[p] # NoMsg
    /\ hold' = [hold EXCEPT ![p] = NoMsg]
    /\ UNCHANGED <<alive, queue, counter, blocked, want>>

(* proc_exit, wherever the process is: the memset of its slot loses the     *)
(* queue, and its messages with it.                                        *)
Exit(p) ==
    /\ p \in alive
    /\ alive' = alive \ {p}
    /\ queue' = [queue EXCEPT ![p] = <<>>]
    /\ blocked' = blocked \ {p}
    /\ want' = [want EXCEPT ![p] = NoCall]
    /\ hold' = [hold EXCEPT ![p] = NoMsg]
    /\ UNCHANGED counter

(* proc_create takes the slot again.                                       *)
Spawn(p) ==
    /\ p \in Procs \ alive
    /\ alive' = alive \cup {p}
    /\ UNCHANGED <<queue, counter, blocked, want, hold>>

Next ==
    \/ \E p, q \in Procs : Call(p, q) \/ Tell(p, q)
    \/ \E p \in Procs : \/ Recv(p) \/ Serve(p) \/ Reply(p) \/ ReplyLost(p)
                        \/ Exit(p) \/ Spawn(p)

Spec == Init /\ [][Next]_vars

(* A READY process gets to run (Proc!ReadyRuns), and handlers end.         *)
Fairness == \A p \in Procs : WF_vars(Recv(p)) /\ WF_vars(Serve(p)) /\ WF_vars(Reply(p))

FairSpec == Spec /\ Fairness

-----------------------------------------------------------------------------
Pending(p) == {queue[p][i] : i \in 1 .. Len(queue[p])}

TypeOK ==
    /\ alive \subseteq Procs
    /\ queue \in [Procs -> Seq(Messages)]
    /\ counter \in 0 .. MSG_MAX
    /\ blocked \subseteq alive
    /\ want \in [Procs -> Waits \cup {NoCall}]
    /\ hold \in [Procs -> Messages \cup {NoMsg}]

(* No message is overlooked: a process that is blocked on its queue has     *)
(* nothing in it that it is waiting for (sys_get_msg's check and block, the *)
(* retries after a wake-up that was for another message).                  *)
NoLostWakeup ==
    \A p \in blocked :
        IF want[p] # NoCall THEN Matches(p, want[p].id) = {}
        ELSE hold[p] = NoMsg /\ Matches(p, NULL) = {}

(* Whatever ipc_recv would return is an answer, and to the very call that   *)
(* is waiting: not a request with that id, not an answer to an earlier call *)
(* or to the slot's previous owner (get_msg's search by id).               *)
AnswerIsOurs ==
    \A p \in Procs : want[p] # NoCall =>
        \A m \in Pending(p) : m.id = want[p].id => m.type = "MSG_ID" /\ m.tag = want[p].tag

(* A call is in one place at most: waiting in its server's queue, in the    *)
(* server's hands, or answered once, in its caller's queue.                *)
CallOnce ==
    /\ TypeOK
    /\ \A p \in Procs : want[p] # NoCall =>
          LET places == {x \in Procs \X (1 .. MSG_MAX) :
                            /\ x[2] <= Len(queue[x[1]])
                            /\ queue[x[1]][x[2]].tag = want[p].tag}
              held   == {q \in Procs : hold[q] # NoMsg /\ hold[q].tag = want[p].tag}
          IN  /\ held \subseteq {want[p].to}
              /\ \A x, y \in places : x = y
              /\ held # {} => places = {}

(* A server takes up requests in the order they were sent to it, whatever   *)
(* calls of its own it makes in between.                                   *)
ServedInOrder ==
    \A p \in Procs : \A m \in Pending(p) : m.type = "MSG_PUB" =>
        /\ m.id < counter
        /\ hold[p] # NoMsg => hold[p].id < m.id
        /\ \A n \in Pending(p) : n.type = "MSG_PUB" /\ n.id = m.id => n = m

(* What has become of the call of p.                                       *)
Progress(p) ==
    IF want[p] = NoCall THEN [phase |-> "idle", to |-> NULL]
    ELSE LET w == want[p]
             is(m, type) == m.type = type /\ m.id = w.id
         IN  [to |-> w.to,
              phase |-> IF \E m \in Pending(p) : is(m, "MSG_ID") THEN "answered"
                        ELSE IF \E m \in Pending(w.to) : is(m, "MSG_PUB") THEN "sent"
                        ELSE IF hold[w.to].id = w.id THEN "taken"
                        ELSE "lost"]

Calls == [p \in Procs |-> Progress(p)]
R == INSTANCE Rpc WITH call <- Calls

(* The queues, ids, retries and reused slots come to nothing more than Rpc: *)
(* a call is taken when the server is free, answered once and returns.  It  *)
(* is lost with its server, or when there is no memory for the message of   *)
(* the answer (proc_send_msg, ipc_call, device_run).                       *)
ImplementsRpc == R!Spec

(* Exits and reused slots alone hang nobody: a call returns, through any     *)
(* number of servers that call each other in no circle, unless some call     *)
(* has been lost with its server or for want of a message to answer with    *)
(* (ipc_recv's loop).                                                       *)
CallsReturn ==
    \A p \in Procs :
        want[p] # NoCall ~> \/ want[p] = NoCall
                            \/ \E q \in Procs : Progress(q).phase = "lost"
=============================================================================
