# EwokOS in TLA+

A verification project for EwokOS, a small ARM microkernel and the user-space
servers around it: TLA+ modules for the parts whose correctness depends on the
order of things, TLC configurations that check them on small instances, and
proofs by TLAPS of what holds of any instance. Paths are relative to the
repository (`src/`).

## The system

One CPU. The kernel (`kernel/kernel`) runs with interrupts off from its entry
(system call, timer interrupt, abort) to its return, so kernel code never
interleaves with kernel code; processes interleave between two entries, at any
instruction. Everything else, drivers, file systems and the window system
included, is a process that serves messages.

| component | state | operations | interacts with |
|---|---|---|---|
| process table and scheduler (`proc.c`, `schedule.c`, `irq.c`, process calls of `svc.c`) | `_proc_table`, the ready list, `_current_proc`, each process's `state`, `father_pid`, `wait_pid`, `block_event`, `sleep_counter`, `critical_counter`, `ctx`, `space` | create, fork, thread, exec, detach, exit, kill, sleep, block, wake, waitpid, yield, critical zone; timer tick; data abort | every blocking call; `proc_exit` calls files, shared memory, locks |
| messages (`ipc.c`; `libs/sys` `ipc.c`, `vdevice.c`) | a queue per process, `_msg_counter` | send, get by id or next request, block, wake; call and serve in the library | scheduler; `vfs_close` sends `CLOSED` |
| pipes (`lib/buffer.c`, pipe calls of `svc.c`, `vfs.c`, `unistd.c`) | a buffer, the node's `refs`, the files of every process | open, read, write, dup, dup2, fork, close, exit; retries in the library | scheduler (event: the buffer's address), `vfs.c` |
| locks (`svc.c`, `proclock.c`, `thread.c`) | a table of words per space | new, free, lock, unlock; retries in the library; the ends of threads and processes | scheduler (event: the word's address), `kmalloc` |
| virtual file system (`vfs.c`; `libs/sys` `vfs.c`, `fcntl.c`, `unistd.c`) | tree of nodes, `_vfs_mounts`, descriptors, `refs` | new, add, delete, mount, open, dup, close, and the sequences of them in `vfs_create`, `unlink`, `do_mount` | messages to the server that mounted |
| device servers (`vdevice.c`, `xserverd`, `rootfsd`, `ttyd`, `fbd`, ...) | their own; `xserverd`: a view per open descriptor | the handlers of `vdevice_t`; `do_open`, `do_closed` | messages, shared memory, `SYS_VFS_OPEN` for the sender |
| root file system (`rootfsd.c`, `ext2fs.c`, `sd.c`) | the card: bitmaps, inodes, directories, data; the sector buffer; the inode in each node's `fsinfo` | create, write, unlink, read, mount | `vfs_create`, `vfs_set`; the card |
| shared memory (`mm/shm.c`) | the list of blocks, next id, next address; ids mapped by each process | alloc, map, unmap, exit | page tables, process tree |
| heaps (`trunkmalloc.c`, `kmalloc.c`), pages (`kalloc.c`) | block lists, free lists | malloc, free, expand, shrink | everything |
| kernel events (`kevent.c`) | one queue | push (called by no code), pop | init |
| devices, architecture, libraries, programs | hardware registers, none | | |

What is hard here, and what makes each part correct:

* **Processes.** `proc_exit` recurses over the process tree and wakes waiters
  while it does; in the middle of it the running process is switched out and
  another one becomes current. The ready list must stay one circle through
  exactly the READY processes, a process must go on with its own registers,
  whoever waits must have something that will wake it, and the tree must stay a
  tree so that the recursion ends and leaves no orphan.
* **Messages.** Requests and answers share a queue and are told apart by an id;
  slots of dead processes are used again while answers to them are under way. A
  call must return its own answer, or be lost and never return somebody
  else's; nobody may sleep with a message in front of him.
* **Pipes.** One chunk of data, read in pieces, by any number of processes that
  retry from user space; the end is recognised by a reference count that five
  paths keep. No byte may be lost or repeated, and the end must be told to the
  last process, and only to him.
* **Locks.** All who are blocked on a word are woken at once and race for it;
  threads and processes end inside a lock or in front of it, and the word's
  address, the event they are blocked on, is memory that is used again. One
  thread at a time may be inside, and nobody may sleep in front of a free lock.
* **Files.** Making a file, removing one and mounting a device are sequences of
  system calls with everybody else in between; a mount puts a node in another's
  place. Lists must stay lists, a name must lead to one node, and a request must
  go to the server that was asked to keep the file. Descriptors are opened by the
  server for a sender that may be gone, and closed by exits and kills: counts and
  the server's own list must come out right.
* **The card.** Each operation reads and writes several blocks through a buffer of
  sectors, and is a few calls of a program that may be killed between them.
  Nothing may belong to two files.
* **Heaps.** Blocks are broken, merged with free neighbours, and whole pages
  are given back when the last block happens to start one; the blocks must tile
  the heap and a program must keep what it asked for, also in a forked child.
* **Shared memory.** Blocks are split and merged and given to the next owner;
  the list must tile the range and nobody may keep pages he has given up.

## Modules

| module | models | by |
|---|---|---|
| `ReadyRing` | the ready list: `Link` is `proc_ready`, `Unlink` is `proc_unready` | pure operators on a record of `next`, `prev` and `_ready_proc` |
| `Proc`, `MCProc` | the process table | one action per system call, timer tick, abort, and per iteration of the loops inside a handler |
| `Rpc` | what `ipc_call` promises | abstract specification: a call is idle, sent, taken, answered or lost |
| `Ipc`, `MCIpc` | queues, call and server loops | one action per turn of each loop; `R` is the refinement mapping to `Rpc` |
| `Pipe`, `MCPipe` | a pipe and the files on it | one action per system call |
| `Mutex` | what `proc_lock` and `proc_unlock` promise | abstract specification: who is inside each lock, and the locks that are gone with their thread |
| `Lock`, `MCLock` | the lock words of spaces | one action per system call and per turn of `proc_lock`'s loop; `M` is the refinement mapping to `Mutex` |
| `Vfs`, `MCVfs` | the tree and the mounts | one action per system call of `vfs_create`, `unlink` and `do_mount`, and kills between them, up to the first use of a node that is gone (`lost`) |
| `Files`, `MCFiles` | descriptors, counts, and the views of a server | one action per system call; the server's `do_open` before and after its own call, `do_closed` |
| `Ext2`, `MCExt2` | the root file system: requests, card and sector buffer | one action per request to rootfsd, and per call of the program before and after it |
| `Shm` | shared memory | one action per system call, and per block of an exit |
| `Trunk`, `MCTrunk` | a heap (`kmalloc`'s or a process's), and the heap of a forked child | malloc, with a block of the list (`Reuse`) or with new pages (`Expand`), and free; `Break`, `Merge`, `Shrink` are the functions they call |
| `ProcProofs`, `IpcProofs`, `PipeProofs`, `LockProofs`, `VfsProofs` (for `Vfs` and `Files`), `ShmProofs`, `TrunkProofs` | | TLAPS proofs |

**How `Proc` corresponds to the code.** The variables are the fields of
`proc_t` under their own names (`wait` is `wait_pid`, `event` is `block_event`,
and so on). `ring` is the list. `frame` says whose registers are in the trap
frame `ctx`, `saved[p]` whose are in `proc_t.ctx` of `p`; `proc_switch` copies
one to the other, and `Trapped` says that a process that has run since makes its
record out of date. `kstk` is the kernel's call stack: a stack of pending calls
(`exit p`: the loop over the children of `p`; `free p`: the rest of
`proc_exit`; `ready S`: a waking loop with the processes of `S` to go;
`close E`: the wake-ups of `vfs_close`; `tick` and `abort`: the end of the
interrupt). While it is not empty only `Kernel` actions are enabled, which is
what interrupts being off means; nothing else bounds the recursion.
`Terminate` is the start of `proc_exit`, shared by exit, kill, abort and the
recursion. `vfs_close` and friends appear as the events they wake: any set.
Elapsed time between two ticks is any number of ticks up to `SLEEP_MAX`.

**How the others do.**

* `Ipc`: a process is blocked on its queue or runs; what a command's answer
  holds is reduced to `tag`, the caller and his call. `Matches` is the search of
  `get_msg`; `hold` is the message a server is handling, `want` the call a process
  waits in `ipc_recv` for. Memory runs out in `new_msg` or not at all
  (`ReplyLost`): `proc_send_msg` that gets a message and no memory for its data
  (`ipc.c:91`) frees it where it is linked, and is not modelled.
* `Pipe`: a byte is its number. `call` is the read or write a process retries.
* `Lock`: `wait` is the lock a thread is in `proc_lock` for, `event` the word it
  is blocked on, `holds` the locks it has come back from `proc_lock` with. `Leader`
  gives each thread the process whose space it runs in.
* `Vfs`: a node is a record of the links, name and `mount_id` of
  `vfs_node_t`; `AddTo` and `Unlinked` are `vfs_add` and `vfs_remove`. The loops
  along `next` and `father` are `Walk`: what is in every set that has the first node
  and with each node the one that follows. `job` is
  how far a program has come in a sequence of calls. `keeper`, for the property
  `Routed`, remembers which server a node was made for. A file may be open or
  not when it is deleted (`Files` says when): `Delete` takes either course. Programs
  and devices may have the same names. Whoever deletes a node, or mounts over it,
  puts the programs that have its address (`Referrers`) into `stale`; if one of them
  then passes the address to the kernel (`Uses`), the module stops there: `lost`.
* `Files`: `queue` is the server's, with `OPEN` and `CLOSED`. A `CLOSED` message
  carries descriptor, pid and the node's info; `do_closed` reads the pid as the
  info, and hands both to a handler that looks at the descriptor and the
  message's sender only. `byOpen` (which descriptors came from `OPEN`) and
  `haunted` are for the properties.
* `Ext2`: a block that the code reads and writes as a whole is one field of
  `disk`; `buffer` is `_sector_buf`, the blocks as they were when they were first
  read. `data` is `fsinfo.data` of the file's node in the kernel; a program that makes
  a file (`making`) may be killed before it has set it, one that unlinks a file
  (`gone`) before it deletes the node. A write by a node that never got its inode
  goes to the root directory's; the module stops there (`garbled`).
* `Shm`: sizes and addresses are pages. An expansion may get no page at any time; one
  that fails after its first page is not modelled (below). `Trunk` keeps the code's arithmetic (the
  header's size, rounding up, half-size rule, page alignment) with small numbers
  for 16, 4 and 4096.

**What the programs are assumed to do**, from the programs in the tree: init
neither exits nor is killed (`init.c` loops for ever, and a zeroed slot's
`father_pid` is init's pid); kill is sent to live processes; processes but not
threads call `detach` (`shell.c`, `x.c`); no read, write or allocation is of 0
bytes; a lock is freed by a program that has no other use of it left; programs
run as owner 0, which passes every check of owners; directories are not deleted;
`umount` is reached by no program; a file is unlinked when it is its directory's
last entry, and there is an inode left for one that is made (what happens otherwise
is below); in `Vfs` a server that ends does not leave its pid to another process.

## Runs

| run | module, cfg | shows | bounds |
|---|---|---|---|
| proc | MCProc, MCProc.cfg | `RingOK`, `KernelOK`, `ContextOK`, `WaitersOK`, `TreeOK`, `SpaceOK`, `WaitPidReturns` under every action | 3 slots (init and two: parent and child, waiter and awaited, process and thread, init's two children), 1 event, sleeps of up to 2 ticks (passed, met exactly, or not reached by a tick's gap); no critical zones |
| proc_live | MCProc, MCProcLive.cfg | `HandlersEnd`, `WaitersRun`, `CriticalEnds`, `ReadyRuns` | 3 slots, sleeps and critical zones of 1 tick |
| ipc | MCIpc | `NoLostWakeup`, `AnswerIsOurs`, `CallOnce`, `ServedInOrder`, `ImplementsRpc`, `CallsReturn` | two clients, a server and its server; 3 requests in all; exits and reuses at any time, no memory for an answer |
| pipe | MCPipe | `RefsOK`, `InOrder`, `NoLostWakeup`, `EndOnlyAlone`, `LeftAloneReturns` | 2 processes with 3 descriptors each, buffer of 2 bytes, requests smaller and larger than it, 6 bytes in all: the buffer is filled three times |
| lock | MCLock | `LocksOK`, `NoLostWakeup`, `ImplementsMutex`, `FreeLockTaken` | a process with two more threads, another process; 2 locks per space, 2 words, so that words go from one lock and one space to another |
| vfs | MCVfs, MCVfs.cfg | `ListsOK`, `NamesUnique`, `Routed` | the root file system, a device that mounts until the 3 places are used up, a program with a file; 9 nodes in all |
| vfs_race | MCVfs, MCVfsRace.cfg | the same, while names are shared | two devices on one mount point, two programs that make and unlink the same two files, one of them named as the mount point; 6 nodes in all |
| files | MCFiles | `RefsOK`, `ViewsOK`, `ViewsGo` | a program that stays and one slot that is used again and again, 2 descriptors, 2 nodes; 2 messages in the queue when a program adds one; 1 process that ends before its `OPEN` is taken |
| shm | Shm | `Tiled`, `RefsOK`, `Isolated` | 2 processes, 2 maps each (one block twice), 4 pages, 3 ids and the one of a split: three blocks merge into one; any expansion may get no page |
| trunk | Trunk | `Tiled`, `Granted` | 3 pages of 12 units, header 2, sizes that share a page, fill one, and need two: heaps that are full, empty, and given back from the tail in any order |
| ext2_buffered | MCExt2, MCExt2.cfg | `NewBlock` violated: what a comment of the source says and the code does not keep (below) | a card with two files, whose inodes are in two blocks of the table, a third name, 3 blocks |
| trunk_fork | MCTrunk | `Granted` violated (below) | as trunk |

Deadlock is checked in every run: the timer, an exit, a new process or a kill can
always take a step, and after `lost` or `garbled` the step that changes nothing. Type invariants are conjuncts of the first invariant of each run,
and `RingOK` to `SpaceOK` are checked at every step inside a handler too.

Why the bounds are enough to be of use: each hazard needs at most one process
that acts, one that is acted on and one bystander; slots are reused within each
run (the bound is on live processes, not on their number over time, except in
`Ipc` and `Shm`, which bound requests and ids, and in `Vfs`, which bounds the
nodes that are there at a time). In `Pipe` two processes are enough: a call that blocks wakes
everybody else, so at most one waits, and the third descriptor stands for files
that others hold. Only vfs_race uses symmetry, of its devices and of its programs,
which nothing tells apart and which have no liveness property: slots of `Proc` and
`Files`, inodes, blocks and ids are ordered (the lowest free one is taken, loops run
in order), and symmetry is not sound for liveness. The safety properties that these instances
show are proved for any (below).

**Fairness.** `Proc`: weak fairness of `Kernel`, as a handler is straight-line
code that runs to its end; strong fairness of `Timer`, as the interrupt stays
pending while interrupts are off, so a kernel that is entered again and again
does not lose it. No fairness of system calls: a program need not call anything.
`Ipc`, `Pipe`, `Lock`: weak fairness of each process's turns of the library's
loops, and in `Files` of the server's; `ReadyRuns` is the justification, a process
that is READY gets to run. `CallsReturn` says nothing once a call has been lost
with its server, as everybody behind that call waits too.

**What does not hold.**

* While processes keep ending, a READY one can be passed over for ever:
  `proc_ready` links right behind `_ready_proc` and `proc_unready` moves
  `_ready_proc` on, so that comings and goings can keep the scheduler in one part
  of the ring. `ReadyRuns` is therefore about what follows when they have stopped.
  The code makes no claim about it.
* The children an exit terminates are all of them, reloaded ones too, against the
  comment at `proc.c:283`: exec does not change `father_pid`.
* `HandlersEnd` is about system calls, timer and data aborts. A prefetch abort of any
  process stops the machine: its handler (`irq.c:60`) loops for ever.
* `proc_ready` on an empty list stores through the `next` of a process that has
  none (`proc.c:217`). The list is then as `Link` has it; the stray store is not shown.
* A caller whose server ends, has no memory for the message of the answer or does not
  know the command waits for ever: in `Rpc` the call is lost. Servers that call each
  other in a circle deadlock.
* When `proc_send_msg` has memory for the message and none for its data, it frees
  the message where it is linked in the receiver's queue (`ipc.c:91-95`) and wakes
  nobody; the next search of that queue is through freed memory. `Ipc` and its
  theorems are about failures of `new_msg` only.
* A `CLOSED` for which there is no memory is not sent (`vfs.c:364`), and the server's
  view stays. `Files` has no failing memory.
* Two readers of a pipe without a writer wait for each other, and a read or write
  of 0 bytes never returns while there is another end.
* The table of locks has `LOCK_MAX` places; when it is full `sys_lock_new` gives
  -1, and a lock -1 excludes nobody.
* `sys_vfs_mount` tells nobody that `FS_MOUNT_MAX` places are used up; they are never
  given back. The device then serves nothing.
* A node is known to programs by its address, and nobody who deletes it or mounts over
  it asks who else has it. Two servers that have looked up one mount point both
  mount there: `vfs_remove` of the second (`vfs.c:188`) is of a node that is not in
  the list any more, `vfs_add` puts its node beside the first's, and one name is
  there twice. `vfs_del` and `vfs_set` with the address of a node that another program
  has unlinked go to free memory, or to the node that has been made there since.
  `ListsOK`, `NamesUnique` and `Routed` are claimed up to the first such use.
* `vfs_dup` and `vfs_dup2` (`vfs.c:371`) accept descriptor 128, one past the table.
* A process that ends while its `OPEN` is in the server's queue leaves a reference
  too many, and a view that no `CLOSED` will remove: `SYS_VFS_OPEN` does not look
  at the state of the slot. `RefsOK` and `ViewsOK` except its pid (`haunted`).
* `shm_map_pages` that runs out of pages after its first one gives those it has
  to `kfree`, though they are `kalloc4k`'s (`shm.c:49-61`, 70): `kfree` takes what lies
  in front of a page for the head of a block. `Tiled` and its theorem are about
  expansions that fail at the first page.
* `ext2_rm_child` garbles the directory when the entry is not its last one.
  `ext2_ialloc` and `ext2_balloc` return 0 when nothing is left, and nobody looks: 0
  is taken for the root directory's inode, and for the partition's first block, which is
  then overwritten. `sdext2_write` adds what it has written to the size a second time,
  and writes back an `fsinfo` that its client may have read before another's write
  (`rootfsd.c:156`). A node whose maker was killed before `vfs_set` has the inode
  number 0, and a write to it goes to the root directory's inode (`rootfsd.c:146`).
* In block groups but the first, bits are cleared by their number on the card and not
  in the group: another inode's bit (`ext2fs.c:122`), a bit past the end of the 1024
  bytes of the bitmap for a block (`ext2fs.c:136`). `put_node` writes an inode to another block than `get_node_by_ino` reads it from
  (`ext2fs.c:408`, 399). The card that `src/system/Makefile` makes, of 16384 blocks,
  has two groups.
* The id of a shared block is not unique over time, as `shm.c:16` has it: a freed
  block keeps its id and is given away under it. A block without the public flag
  is not only the family's, as `shm.c:209` has it: owners are pids, a block that was
  never mapped survives its owner, and the next process in the slot is taken for
  the owner.

## Findings

* `ext2fs.c:486` says that a write behind the last block gets a new one. With the
  sector buffer on, as rootfsd has it (`rootfsd.c:183`), `sd_write_sector`
  (`sd.c:68`) leaves the buffered copy of the block bitmap as it was read first, and
  `ext2_balloc` gives out a block that another file in the directory has already
  (`ext2_buffered`: two files of the card are written to, one after the other).
* `proc.c:563` copies the parent's memory to the child, and with it a heap with
  the blocks the program holds; `proc_init_space` (`proc.c:68`) gives the child a
  `malloc_t` that knows none of them. A child that allocates, gets new pages, and
  then frees a block it inherited whose right neighbour is free, merges up to the
  end of the inherited chain; that block becomes the tail, and its pages' worth is
  unmapped from the end of the heap, where the new block is (`trunk_fork`).

## Proofs

Each theorem is for any values of the constants that satisfy the module's named
assumption, which TLC evaluates for the instances: any number of slots, processes,
threads, locks, files, blocks, messages and bytes.

**Ready list and process table.** `ProcProofs` proves about the list
operators, for any set of slots: `LinkRing` and `UnlinkRing`, that a ring through
exactly `S` becomes a ring through `S` with `p`, or without `p`. A ring is described
without induction: the pointers undo each other, stay inside, and no proper part is
closed under `next`. On top of that it proves `Spec => []RingOK` and `Spec => []KernelOK`
(with the type invariant). The inductive invariant is
`IInv == TypeOK /\ RingOK /\ PendingOK`, and none of the three is inductive
without the others: `Unlink` keeps a ring only of a process that is in it, which
is `current # NULL => state[current] = "READY"`; a `ready` call on `kstk` may link
its processes only because the stack says that none of them is being torn down,
which in turn needs that at most the top of the stack is a waking loop; and `exit`
and `free` calls find their process ZOMBIE or already free, so that no subtraction
from the ring can be of a process that the scheduler has just picked. There is a
lemma for each operator that several actions share (`ScheduleLemma`,
`SuspendLemma`, `TerminateLemma`, the `Push`/`Pop` lemmas of the stack), then one
step per action.

**Process tree, spaces, waiters and contexts.** The second half of `ProcProofs` has
`TreeOK`, `SpaceOK`, `ContextOK`, `WaitersOK` and `WaitPidReturns` on top of `IInv`.
(`SpaceOK` is for instances where no thread detaches itself, `"THREAD" \notin
Detachers`: the code lets a thread do so, and its space then goes with its former
parent.) What all five need is the shape of the kernel's stack while `proc_exit`
recurses, `Chain`: its `exit` and `free` calls are on exactly the ZOMBIE processes, one
call on each; each is on the father of the process of the call above it; and a
`free` call has at most a waking loop above it. `Chain` is kept because `proc_exit`
never finds a child that is being torn down already (`ChildAlive`), and that is where
acyclicity comes in: under an `exit` call every other ZOMBIE has a ZOMBIE child
(`InnerChild`), and if the topmost had one too, the ZOMBIEs would be a set of
processes without a childless one. As finite sets cannot be handled by induction,
`TreeInv` states acyclicity both ways, that every set of processes has one whose
father is outside (`Rooted`) and one without a child in it (`Leafy`); each is kept
by fork, detach and the freeing of a slot. Then a slot is freed only without children
(`FreesBarren`), from which `SpaceInv` follows by `Rooted`; `CtxInv` adds that inside a
data abort the running process's registers are saved too, as the handler's end picks
a process without saving; and `WaitInv` adds that once a process is about to be
freed, all who wait for it are due, and that who is due and waits, waits for such a
process. The stack lemmas are about functions on `1 .. n` first (`PushTornAt`,
`PushOtherAt`, `PopAt`) and then about sequences.

**Messages.** `IpcProofs`: `WakeupsKept`, `AnswersAreOurs`, `InOrder`,
`CalledOnce`, and `CallsAreRpc`, that `Ipc` implements `Rpc`. Inductive is `TypeOK`
with `MessagesOK` (ids are below the counter), `OnePlace` (no id is in two queues, two
places or two hands), `Sorted`, `CallsOK` (where the message of a pending call may be,
and what it says) and `NoLostWakeup`. `CallsOK` is what makes a reused slot harmless:
an answer to the previous owner has an id that no later call has. For the
refinement, `PhaseFacts` reads the phase of a call off the place of its message, and
each action moves one call's phase or none.

**Pipes.** `PipeProofs`: `CountIsRight`, `BytesKept`, `WakeupsKept`, `EndIsReal`.
Inductive is `RefsOK /\ InOrder /\ NoLostWakeup /\ Room`; counting is by the library's
theorems on cardinalities.

**Shared memory.** `ShmProofs`: `ListIsTiled`, `CountsAreRight`, `PagesAreOwn`.
`Tiled` is strengthened by `Good` (every block ends at the next one's address, and
its id is below the next id, so that a new block has no maps); the three are then
inductive together: a count of 0 says that a block that is merged away has no maps left, so that no
process still has its pages when they are given out again. That a
split or a merge keeps the tiling is proved of lists once (`SpliceFacts`,
`SplitGood`, `MergeGood`, `AppendGood`); `RenewKeeps` says which changes of the list
no map notices.

**Locks.** `LockProofs`: `LocksSafe`, `WakeupsKept`, and `LocksAreMutexes`, that
`Lock` implements `Mutex`. `LocksOK /\ NoLostWakeup` is inductive as it stands.

**The tree.** `VfsProofs`, first part: `ListsAreRight`, `NamesAreUnique` and
`RequestsAreRouted`, from `VfsAssumption`, which says nothing of the names that
devices mount on and programs use: any of them may be shared. A list of kids is described without induction (`IsList`): each one's neighbours know
it, the ends are where the directory says, and no smaller set has the first and all
that come next; so the `Walk` along `next` comes by exactly these (`KidsAre`). Each
function of the code has a lemma field by field (`AddToNodes`, `UnlinkedNodes`), one
for the list that it changes (`AddList`, `RemoveList`) and one for the whole tree
(`SoundAdd`, `SoundRemove`, `SoundNew`, `SoundFree`, `SoundLabel`). Inductive is
`TreeInv`: `Sound` links; what the tree looks like (`RootOK`, `FathersOK`); that what is
mounted over is never freed, so that no place in `_vfs_mounts` is used twice
(`MountsOK`); who keeps which node (`KeepersOK`); and what each program is in the
middle of (`JobsOK`): a node that it has made and not added is `Blank` and in no
other's hands (`JobsApart`), one that it has looked up is still in `/dev` under the
name it was looked up by, or the program is among the `stale` (`Known`). So a step
that passes a node to `vfs_mount` or `vfs_del` passes one that is there, unless it is
the step to `lost`, after which nothing is claimed. `Steady` says what a step leaves to all others, so that each action has to be
proved once for its own program (`StepJobs`). A node that was mounted over keeps its
father, which is why `FathersOK` excepts `/dev` and `Sound` does not speak of fathers.

**Files.** `VfsProofs`, second part: `CountsAreRight` and `ViewsAreRight`. For the counts the
descriptors on a node are a finite set (`Holders`), and one lemma for each kind of
change (one descriptor set, a table copied, some descriptors closed) says by how much
it grows. For the views inductive is `ViewsOK` with `TablesOK` (who is not alive has no
descriptors, and what came from an `OPEN` and was not closed is there) and `QueueOK`: a
process whose `OPEN` is in the queue waits for its answer (`AskerWaits`), so that no
`CLOSED` of its pid can be behind that `OPEN` (`LastWord`) and take the view away that
the server is about to make. This is where `haunted` comes in: a process that ends does
not wait any more, and the next owner of its pid can close descriptors behind an `OPEN`
that was not his.

**Heaps.** `TrunkProofs`: `HeapIsTiled` and `BytesAreOwn`. Inductive is `IInv`: the
shape of the heap (`Shape`), no two free neighbours (`Apart`), and what programs hold
(`Holds`). `Shape` is stronger than `Tiled` in two ways. `Disjoint` orders all blocks
and not only neighbours, so that a new header (`Cut`) cannot hit a block that is there;
`Backward` has a block in front of each one, so that the lowest block that
`trunk_malloc` does not come by cannot be (`AllListed`). Each function of the code has a lemma
that says what it does field by field, one that it keeps `Shape`, and one that it
keeps all three; `ApartBut` is what holds between the marking of a block as free and
the end of `try_merge`. The arithmetic is proved for any sizes: that a cut leaves a
block of at least one byte (`RoomToCut`, which needs the half-size rule and that the
header is a multiple of the alignment), and that a tail that starts a page is whole
pages (`TailIsPages`), so that what `try_shrink` gives back is exactly the block it
takes out.

**Model-checked only:** all liveness, as fairness and ENABLED are outside what the
prover handles. Every safety invariant, action property and refinement that a
passing run checks is proved.

## Not modelled

Page tables and the memory of a space, boot, devices, strings and formatting,
drawing, the script engine: hardware formats or sequential code without a state
that outlives the call. `kevent`: no code pushes an event. Threads in `Pipe`,
`Files` and `Shm` (they share descriptors and maps). The contents of an `fsinfo`
but for the inode. Of the card: the two sectors of a block, which are written by two
calls, and a power failure between any two of them; block groups but the first; what
happens when nothing is free; directories other than the root; indirect blocks; data,
sizes, counts and dates. No property of `Ext2` is proved, and none but `NewBlock`
is stated: with the buffer on bitmaps, inodes and the directory are read as they
were at first, and what the code then promises is not more than its comments.
What a kernel's data structures hold after a use of freed memory: `Vfs`, `Ipc` and
`Shm` name the places where they stop (above). `PROJECT.json` lists every component with its reason.

The modelled part is small beside the repository, and stays so: about 65,000 of the
89,000 lines of its implementation are tables of fonts, drawing, image and script
libraries and code of third parties, and most of the rest is drivers and programs
that talk to the modelled calls one after the other.

## Plan

Done: the core (`ReadyRing`, `Proc`, `Rpc`, `Ipc`, `Pipe`, `Shm`, `Trunk`), locks,
files and descriptors (`Mutex`, `Lock`, `Vfs`, `Files`), the card (`Ext2`), and the
proofs above. Left, in this order:

1. Threads that share descriptors, in `Pipe` and `Files`; a server's pid that is given
   to another process, in `Vfs`.
2. `Kalloc`, the two free lists of pages; the event queues of `xserverd`.
3. `Ext2` with two groups of blocks and two sectors to a block.
