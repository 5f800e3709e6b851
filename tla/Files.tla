-------------------------------- MODULE Files -------------------------------
(***************************************************************************)
(* Descriptors and what a file server knows of them.  The kernel keeps the  *)
(* descriptors of every process (files[] in its space) and counts them in   *)
(* the node (kernel/kernel/vfs.c); a server that wants to know who has it   *)
(* open, like the window server with its views, learns it from the messages *)
(* OPEN, which it answers by calling SYS_VFS_OPEN for the sender (do_open   *)
(* of libs/sys/vdevice.c), and CLOSED, which the kernel sends it.  Between  *)
(* any two calls other processes run, fork, end and take over the slot, and *)
(* with it the pid, of one that ended.  Memory for the messages does not    *)
(* run out: a CLOSED that is not sent would leave its view for ever.        *)
(***************************************************************************)
EXTENDS Integers, Sequences, FiniteSets, FiniteSetsExt

CONSTANTS
    Slots,          \* slots of _proc_table for programs: the pids
    Fds,            \* descriptors, those under 3 are kept for stdio
    Nodes,          \* nodes that the server mounted
    QMAX,           \* bound: messages that programs may leave in its queue
    HAUNTED_MAX     \* bound: processes that end before their OPEN is taken

None == "none"
STDIO == 3

ASSUME FilesAssumption ==
    /\ Slots \subseteq Nat /\ IsFiniteSet(Slots) /\ Slots # {}
    /\ Fds \subseteq Nat /\ IsFiniteSet(Fds)
    /\ None \notin Nodes
    /\ QMAX \in Nat /\ HAUNTED_MAX \in Nat

VARIABLES
    alive,          \* slots in use
    files,          \* proc->space->files: node of each descriptor
    refs,           \* node->refs
    waiting,        \* processes that wait for the answer to OPEN
    queue,          \* messages to the server
    opening,        \* the server in do_open, after SYS_VFS_OPEN
    views,          \* the server's list of <<fd, from_pid>>, as a set
    byOpen,         \* descriptors that came from OPEN and are not closed
    haunted         \* slots whose owner ended before its OPEN was taken

kernel == <<alive, files, refs, waiting>>
server == <<opening, views>>
vars == <<kernel, queue, server, byOpen, haunted>>

NoFiles == [fd \in Fds |-> None]
NoOpening == [from |-> None]

Init ==
    /\ alive = {Min(Slots)} /\ waiting = {} /\ haunted = {}
    /\ files = [p \in Slots |-> NoFiles]
    /\ refs = [n \in Nodes |-> 0]
    /\ queue = <<>> /\ opening = NoOpening
    /\ views = {} /\ byOpen = {}

-----------------------------------------------------------------------------
(* get_free_fd.                                                            *)
FreeFds(fs) == {fd \in Fds : fd >= STDIO /\ fs[fd] = None}
Has(fs) == {fd \in Fds : fs[fd] # None}

(* Mutation of Closed: the message is from whoever runs, not from the       *)
(* process whose descriptor it is.                                         *)
Closed_ByCaller(p, by, fd) == [cmd |-> "closed", from |-> by, fd |-> fd]

(* The message of vfs_close.                                               *)
Closed(p, by, fd) == [cmd |-> "closed", from |-> p, fd |-> fd]

(* The references that the descriptors fs hold on n.                        *)
Count(fs, n) == Cardinality({fd \in Fds : fs[fd] = n})

AllClosed(p, by, fds) == [i \in DOMAIN fds |-> Closed(p, by, fds[i])]

(* vfs_close of the descriptors S of p, in the order of their numbers, by   *)
(* the process that runs.                                                  *)
CloseAll(p, by, S) ==
    /\ \E order \in [1 .. Cardinality(S) -> S] :
          /\ \A i, j \in DOMAIN order : i < j => order[i] < order[j]
          /\ queue' = queue \o AllClosed(p, by, order)
    /\ refs' = [n \in Nodes |->
                  refs[n] - Cardinality({fd \in S : files[p][fd] = n})]
    /\ byOpen' = byOpen \ {<<fd, p>> : fd \in S}

(* An OPEN of p is in the queue q.                                         *)
Asks(p, q) == \E i \in DOMAIN q : q[i].cmd = "open" /\ q[i].from = p

Runs(p) == p \in alive \ waiting
Room == Len(queue) < QMAX

(* open: the OPEN message, and the wait for its answer.                     *)
Open(p, n) ==
    /\ Runs(p) /\ Room
    /\ queue' = Append(queue, [cmd |-> "open", from |-> p, node |-> n])
    /\ waiting' = waiting \cup {p}
    /\ UNCHANGED <<alive, files, refs, server, byOpen, haunted>>

(* close: its own message CLOSE is for nobody, no server handles it.        *)
Close(p, fd) ==
    /\ Runs(p) /\ Room
    /\ files[p][fd] # None
    /\ CloseAll(p, p, {fd})
    /\ files' = [files EXCEPT ![p][fd] = None]
    /\ UNCHANGED <<alive, waiting, server, haunted>>

(* vfs_dup.                                                                *)
Dup(p, from) ==
    /\ Runs(p)
    /\ files[p][from] # None /\ FreeFds(files[p]) # {}
    /\ files' = [files EXCEPT ![p][Min(FreeFds(files[p]))] = files[p][from]]
    /\ refs' = [refs EXCEPT ![files[p][from]] = @ + 1]
    /\ UNCHANGED <<alive, waiting, queue, server, byOpen, haunted>>

(* vfs_dup2.                                                               *)
Dup2(p, from, to) ==
    /\ Runs(p) /\ Room
    /\ from # to
    /\ LET n == files[p][from]
           m == files[p][to]
       IN  /\ refs' = [k \in Nodes |-> refs[k] - (IF k = m THEN 1 ELSE 0)
                                               + (IF k = n THEN 1 ELSE 0)]
           /\ queue' = IF m = None THEN queue ELSE Append(queue, Closed(p, p, to))
           /\ byOpen' = byOpen \ {<<to, p>>}
           /\ files' = [files EXCEPT ![p][to] = n]
    /\ UNCHANGED <<alive, waiting, server, haunted>>

(* Mutation of Fork: the child's descriptors are copied and not counted.   *)
Fork_NoCount(p) ==
    /\ Runs(p)
    /\ Slots # alive
    /\ LET c == Min(Slots \ alive)
       IN  /\ alive' = alive \cup {c}
           /\ files' = [files EXCEPT ![c] = files[p]]
           /\ UNCHANGED refs
    /\ UNCHANGED <<waiting, queue, server, byOpen, haunted>>

(* kfork: the first free slot, and proc_clone_files.                        *)
Fork(p) ==
    /\ Runs(p)
    /\ Slots # alive
    /\ LET c == Min(Slots \ alive)
       IN  /\ alive' = alive \cup {c}
           /\ files' = [files EXCEPT ![c] = files[p]]
           /\ refs' = [n \in Nodes |-> refs[n] + Count(files[p], n)]
    /\ UNCHANGED <<waiting, queue, server, byOpen, haunted>>

(* exit, and kill by another process: proc_close_files, and the slot is     *)
(* free again.                                                             *)
End(p, by) ==
    /\ p \in alive /\ p # Min(Slots)
    /\ Runs(by) /\ Room
    /\ CloseAll(p, by, Has(files[p]))
    /\ alive' = alive \ {p}
    /\ waiting' = waiting \ {p}
    /\ files' = [files EXCEPT ![p] = NoFiles]
    /\ \/ ~Asks(p, queue) /\ UNCHANGED haunted
       \/ Asks(p, queue) /\ Cardinality(haunted) < HAUNTED_MAX /\ haunted' = haunted \cup {p}
    /\ UNCHANGED server

-----------------------------------------------------------------------------
(* The server takes its next message, when it is not in do_open.           *)
Takes(cmd) ==
    /\ opening = NoOpening
    /\ queue # <<>> /\ Head(queue).cmd = cmd
    /\ queue' = Tail(queue)

(* The answer to an OPEN of p: it has the number of that OPEN, and does not *)
(* answer one that is still in the queue.                                  *)
Answered(p) ==
    waiting' = IF Asks(p, queue') THEN waiting ELSE waiting \ {p}

(* do_open up to SYS_VFS_OPEN: vfs_open gives the sender a descriptor; a    *)
(* sender without one free is told so.                                     *)
TakeOpen ==
    /\ Takes("open")
    /\ LET p == Head(queue).from
           n == Head(queue).node
           fd == Min(FreeFds(files[p]))
       IN  /\ p \in alive
           /\ IF FreeFds(files[p]) = {}
              THEN /\ Answered(p)
                   /\ UNCHANGED <<files, refs, byOpen, opening>>
              ELSE /\ files' = [files EXCEPT ![p][fd] = n]
                   /\ refs' = [refs EXCEPT ![n] = @ + 1]
                   /\ byOpen' = byOpen \cup {<<fd, p>>}
                   /\ opening' = [from |-> p, fd |-> fd]
                   /\ UNCHANGED waiting
    /\ UNCHANGED <<alive, views, haunted>>

(* The same for a sender that has ended: proc_get does not look at the      *)
(* state of the slot, space is NULL and files[] whatever memory is there;   *)
(* a descriptor that is found in it is nobody's.                           *)
TakeOpenOfNobody ==
    /\ Takes("open")
    /\ LET p == Head(queue).from
           n == Head(queue).node
       IN  /\ p \notin alive
           /\ \/ UNCHANGED <<refs, opening>>
              \/ \E fd \in Fds : /\ fd >= STDIO
                                 /\ refs' = [refs EXCEPT ![n] = @ + 1]
                                 /\ opening' = [from |-> p, fd |-> fd]
    /\ UNCHANGED <<alive, files, waiting, views, byOpen, haunted>>

(* dev->open, and the answer.                                              *)
FinishOpen ==
    /\ opening # NoOpening
    /\ views' = views \cup {<<opening.fd, opening.from>>}
    /\ opening' = NoOpening
    /\ UNCHANGED <<alive, files, refs, queue, byOpen, haunted>>
    /\ Answered(opening.from)

(* Mutation of TakeClosed: the view stays.                                 *)
TakeClosed_Keeps ==
    /\ Takes("closed")
    /\ UNCHANGED <<kernel, server, byOpen, haunted>>

(* do_closed: the view of that descriptor of the sender, if there is one.   *)
TakeClosed ==
    /\ Takes("closed")
    /\ views' = views \ {<<Head(queue).fd, Head(queue).from>>}
    /\ UNCHANGED <<kernel, opening, byOpen, haunted>>

Server == TakeOpen \/ TakeOpenOfNobody \/ FinishOpen \/ TakeClosed

Next ==
    \/ Server
    \/ \E p \in Slots :
          \/ \E n \in Nodes : Open(p, n)
          \/ \E fd \in Fds : Close(p, fd) \/ Dup(p, fd)
          \/ \E from, to \in Fds : Dup2(p, from, to)
          \/ Fork(p)
          \/ \E by \in Slots : End(p, by)

Spec == Init /\ [][Next]_vars

(* The server is scheduled again and again, and serves whenever it runs.    *)
FairSpec == Spec /\ WF_vars(Server)

-----------------------------------------------------------------------------
TypeOK ==
    /\ alive \subseteq Slots /\ waiting \subseteq alive /\ haunted \subseteq Slots
    /\ files \in [Slots -> [Fds -> Nodes \cup {None}]]
    /\ refs \in [Nodes -> Nat]
    /\ views \subseteq Fds \X Slots
    /\ byOpen \subseteq Fds \X Slots

(* The descriptors of all processes that lead to n.                        *)
Holders(fs, n) == {d \in Slots \X Fds : fs[d[1]][d[2]] = n}

(* A node counts the descriptors that lead to it, through open, dup, dup2,  *)
(* fork, close, exit and kill in any order: vfs_del never frees it under    *)
(* one of them.  Only an OPEN of a process that ended in the meantime       *)
(* leaves a reference too many.                                            *)
RefsOK ==
    /\ TypeOK
    /\ \A n \in Nodes :
          LET held == Cardinality(Holders(files, n))
          IN  refs[n] >= held /\ (haunted = {} => refs[n] = held)

(* What the server will know when it has taken all that is in its queue is  *)
(* what is true: its views of a process are the descriptors the process got *)
(* from it and has not closed, though it learns of a close, of an exit and  *)
(* of the next owner of the pid only later (msg->from_pid = proc->pid, and  *)
(* the order of the queue).  It fails for a pid whose owner ended while its *)
(* OPEN was in the queue.                                                  *)
ToClose == {<<queue[i].fd, queue[i].from>> : i \in {j \in DOMAIN queue : queue[j].cmd = "closed"}}
Knows == views \cup (IF opening = NoOpening THEN {} ELSE {<<opening.fd, opening.from>>})
ViewsOK ==
    \A p \in Slots \ haunted, fd \in Fds :
        <<fd, p>> \in Knows \ ToClose <=> <<fd, p>> \in byOpen

(* A view of a descriptor that is closed goes away, and with it the window  *)
(* of a process that was killed (proc_close_files to do_closed).            *)
ViewsGo ==
    \A p \in Slots, fd \in Fds :
        <<fd, p>> \in views \ byOpen ~>
            <<fd, p>> \notin views \/ <<fd, p>> \in byOpen \/ p \in haunted
=============================================================================
