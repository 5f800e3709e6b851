-------------------------------- MODULE Pipe --------------------------------
(***************************************************************************)
(* A pipe: the one-chunk buffer of kernel/lib/buffer.c, the pipe calls of   *)
(* svc.c with the retries of read and write in libs/sys/src/unistd.c, and   *)
(* the reference count that vfs.c keeps of the files open on the node,      *)
(* through dup, fork, close and exit.  A system call is one step; a reader  *)
(* or writer that is sent away comes back with the same call.              *)
(***************************************************************************)
EXTENDS Integers, Sequences, FiniteSets

CONSTANTS
    Procs,          \* processes, each with a space of its own
    Fds,            \* file descriptors of a process
    BUFFER_SIZE,    \* room in the buffer, in bytes
    SIZES,          \* the sizes programs ask for, never 0
    BYTES           \* bound: bytes written in all to one pipe

ASSUME PipeAssumption ==
    /\ IsFiniteSet(Procs) /\ IsFiniteSet(Fds)
    /\ BUFFER_SIZE \in Nat \ {0}
    /\ SIZES \subseteq Nat \ {0}
    /\ BYTES \in Nat

VARIABLES
    open,       \* the files on the pipe's node: <<process, descriptor>>
    refs,       \* vfs_node_t.refs
    live,       \* whether node and buffer are allocated
    buffer,     \* buffer_t: the bytes from offset to size
    call,       \* the read or write each process is in
    blocked,    \* the processes in state BLOCK on the buffer
    ended,      \* the processes whose last call returned 0: the pipe's end
    sent,       \* number of bytes written so far; byte i is the i-th
    received    \* the bytes read so far, by any process

files == <<open, refs, live>>
data == <<buffer, sent, received>>
vars == <<files, data, call, blocked, ended>>

Smaller(m, n) == IF m < n THEN m ELSE n
Calls == [op : {"read", "write"}, size : SIZES, block : BOOLEAN]
NoCall == [op |-> "none"]
FilesOf(p) == {f \in open : f[1] = p}

Init ==
    /\ open = {} /\ refs = 0 /\ live = FALSE
    /\ buffer = <<>> /\ sent = 0 /\ received = <<>>
    /\ call = [p \in Procs |-> NoCall]
    /\ blocked = {} /\ ended = {}

-----------------------------------------------------------------------------
(* sys_pipe_open: two files on a fresh node, both for reading and writing.  *)
Open(p, f, g) ==
    /\ ~live /\ f # g
    /\ open' = {<<p, f>>, <<p, g>>} /\ refs' = 2 /\ live' = TRUE
    /\ buffer' = <<>> /\ sent' = 0 /\ received' = <<>>
    /\ ended' = {}
    /\ UNCHANGED <<call, blocked>>

(* Mutation of Release: close does not wake anybody.                       *)
Release_NoWakeup(S) ==
    /\ open' = open \ S
    /\ refs' = refs - Cardinality(S)
    /\ live' = (refs' > 0)
    /\ UNCHANGED blocked

(* vfs_close of each of the files in S: with the last one the node and the  *)
(* buffer are freed.                                                       *)
Release(S) ==
    /\ open' = open \ S
    /\ refs' = refs - Cardinality(S)
    /\ live' = (refs' > 0)
    /\ blocked' = {}

Close(p, f) ==
    /\ call[p] = NoCall
    /\ <<p, f>> \in open
    /\ Release({<<p, f>>})
    /\ UNCHANGED <<data, call, ended>>

(* proc_exit, in the middle of a call or not.                              *)
Exit(p) ==
    /\ FilesOf(p) # {}
    /\ Release(FilesOf(p))
    /\ call' = [call EXCEPT ![p] = NoCall]
    /\ ended' = ended \ {p}
    /\ UNCHANGED data

(* vfs_dup, and vfs_dup2 onto a descriptor that may be open on the pipe too *)
(* and is closed first.                                                    *)
Dup(p, from, to) ==
    /\ call[p] = NoCall
    /\ from # to /\ <<p, from>> \in open
    /\ open' = open \cup {<<p, to>>}
    /\ IF <<p, to>> \in open THEN refs' = refs /\ blocked' = {}
                             ELSE refs' = refs + 1 /\ UNCHANGED blocked
    /\ UNCHANGED <<live, data, call, ended>>

(* Mutation of Fork: proc_clone_files copies the files and not their count. *)
Fork_NoRefs(p, q) ==
    /\ call[p] = NoCall
    /\ FilesOf(p) # {} /\ FilesOf(q) = {}
    /\ open' = open \cup {<<q, f[2]>> : f \in FilesOf(p)}
    /\ UNCHANGED <<refs, live, data, call, blocked, ended>>

(* kfork of a process p into the slot q: proc_clone_files.                 *)
Fork(p, q) ==
    /\ call[p] = NoCall
    /\ FilesOf(p) # {} /\ FilesOf(q) = {}
    /\ open' = open \cup {<<q, f[2]>> : f \in FilesOf(p)}
    /\ refs' = refs + Cardinality(FilesOf(p))
    /\ UNCHANGED <<live, data, call, blocked, ended>>

-----------------------------------------------------------------------------
(* read or write, blocking or not, by a process that has the pipe open.     *)
(* The bound leaves room for every write that has begun.                   *)
Writers == {p \in Procs : call[p].op = "write"}

Begin(p, c) ==
    /\ call[p] = NoCall
    /\ FilesOf(p) # {}
    /\ c.op = "write" => sent + BUFFER_SIZE * (1 + Cardinality(Writers)) <= BYTES
    /\ call' = [call EXCEPT ![p] = c]
    /\ ended' = ended \ {p}
    /\ UNCHANGED <<files, data, blocked>>

Return(p, end) ==
    /\ call' = [call EXCEPT ![p] = NoCall]
    /\ ended' = IF end THEN ended \cup {p} ELSE ended \ {p}

Turn(p, op) == call[p] # NoCall /\ call[p].op = op /\ p \notin blocked

(* Mutation of Write: the chunk that is being read is written over.        *)
Write_Over(p) ==
    /\ Turn(p, "write")
    /\ LET n == Smaller(call[p].size, BUFFER_SIZE)
       IN  buffer' = [i \in 1 .. n |-> sent + i] /\ sent' = sent + n
    /\ blocked' = {}
    /\ Return(p, FALSE)
    /\ UNCHANGED <<files, received>>

(* sys_pipe_write that finds the buffer empty: as much as there is room for.*)
Write(p) ==
    /\ Turn(p, "write")
    /\ buffer = <<>>
    /\ LET n == Smaller(call[p].size, BUFFER_SIZE)
       IN  buffer' = [i \in 1 .. n |-> sent + i] /\ sent' = sent + n
    /\ blocked' = {}
    /\ Return(p, FALSE)
    /\ UNCHANGED <<files, received>>

(* sys_pipe_read that finds something: as much of it as was asked for.     *)
Read(p) ==
    /\ Turn(p, "read")
    /\ buffer # <<>>
    /\ LET n == Smaller(call[p].size, Len(buffer))
       IN  /\ received' = received \o SubSeq(buffer, 1, n)
           /\ buffer' = SubSeq(buffer, n + 1, Len(buffer))
    /\ blocked' = {}
    /\ Return(p, FALSE)
    /\ UNCHANGED <<files, sent>>

Stuck(p) ==
    \/ Turn(p, "read") /\ buffer = <<>>
    \/ Turn(p, "write") /\ buffer # <<>>

(* Mutation of End: the pipe is taken to be closed with two files left.    *)
End_OffByOne(p) ==
    /\ Stuck(p)
    /\ refs <= 2
    /\ blocked' = {}
    /\ Return(p, TRUE)
    /\ UNCHANGED <<files, data>>

(* Nothing to read or no room, and nobody else to change that: -1, which    *)
(* read and write turn into 0.  The others are woken all the same.         *)
End(p) ==
    /\ Stuck(p)
    /\ refs < 2
    /\ blocked' = {}
    /\ Return(p, TRUE)
    /\ UNCHANGED <<files, data>>

(* ... otherwise the caller blocks, or returns at once to try later.       *)
Retry(p) ==
    /\ Stuck(p)
    /\ refs >= 2
    /\ IF call[p].block THEN blocked' = {p} /\ UNCHANGED <<call, ended>>
                        ELSE blocked' = {} /\ Return(p, FALSE)
    /\ UNCHANGED <<files, data>>

Kernel(p) == Write(p) \/ Read(p) \/ End(p) \/ Retry(p)

Next ==
    \/ \E p \in Procs, f, g \in Fds : Open(p, f, g) \/ Dup(p, f, g) \/ Close(p, f)
    \/ \E p, q \in Procs : Fork(p, q)
    \/ \E p \in Procs : Exit(p) \/ Kernel(p) \/ \E c \in Calls : Begin(p, c)

Spec == Init /\ [][Next]_vars

(* A process that is not blocked gets the CPU (Proc!ReadyRuns).            *)
FairSpec == Spec /\ \A p \in Procs : WF_vars(Kernel(p))

-----------------------------------------------------------------------------
TypeOK ==
    /\ open \subseteq Procs \X Fds
    /\ refs \in Nat
    /\ live \in BOOLEAN
    /\ buffer \in Seq(1 .. BYTES) /\ Len(buffer) <= BUFFER_SIZE
    /\ call \in [Procs -> Calls \cup {NoCall}]
    /\ blocked \subseteq Procs
    /\ ended \subseteq Procs
    /\ sent \in 0 .. BYTES
    /\ received \in Seq(1 .. BYTES)

(* The count agrees with the descriptors, through forks, dups, closes and   *)
(* exits, so node and buffer are freed with the last file and not before.   *)
RefsOK ==
    /\ TypeOK
    /\ refs = Cardinality(open)
    /\ live <=> open # {}
    /\ \A p \in Procs : call[p] # NoCall => FilesOf(p) # {}

(* What has been read and what is in the buffer are together what has been  *)
(* written: no byte is lost, read twice or out of order, whoever reads and  *)
(* writes and in whatever sizes.                                           *)
InOrder == received \o buffer = [i \in 1 .. sent |-> i]

(* A blocked process could not go on, and is not the last one: it was not   *)
(* passed over by a read, a write or a close (proc_wakeup of the buffer).   *)
NoLostWakeup ==
    \A p \in blocked :
        /\ call[p] # NoCall /\ call[p].block
        /\ call[p].op = "read" => buffer = <<>>
        /\ call[p].op = "write" => buffer # <<>>
        /\ refs >= 2

(* A program is told that the pipe has ended only when nobody else has it   *)
(* open, and a reader only after the last byte.                            *)
EndOnlyAlone ==
    [][\A p \in ended' \ ended :
          /\ open = FilesOf(p)
          /\ call[p].op = "read" => Len(received) = sent]_vars

(* Who is left alone in a read or a write comes back from it.              *)
LeftAloneReturns ==
    \A p \in Procs :
        call[p] # NoCall /\ Cardinality(open) = 1 ~> call[p] = NoCall
=============================================================================
