--------------------------------- MODULE Shm --------------------------------
(***************************************************************************)
(* Shared memory: the list of blocks of kernel/kernel/mm/shm.c, carved out  *)
(* of one growing range of the kernel's address space, and the blocks that *)
(* processes have mapped.  Addresses and sizes are counted in pages.       *)
(*                                                                         *)
(* A system call is one step.  The exit of a process unmaps its blocks one  *)
(* after the other (proc_unmap_shms); nothing else moves until it is done. *)
(* An expansion that fails half way is outside the model (Expand).         *)
(***************************************************************************)
EXTENDS Integers, Sequences, FiniteSets

CONSTANTS
    Pids,           \* process slots; 0 is init's
    SHM_MAX,        \* blocks a process can map
    SIZES,          \* sizes of blocks programs ask for, in pages, never 0
    PAGES,          \* pages that shared memory can get
    IDS             \* bound: block ids given out in all

NULL == -1

ASSUME ShmAssumption ==
    /\ Pids \subseteq Nat /\ 0 \in Pids /\ IsFiniteSet(Pids)
    /\ SHM_MAX \in Nat
    /\ SIZES \subseteq Nat \ {0}
    /\ PAGES \in Nat /\ IDS \in Nat

VARIABLES
    blocks,     \* the list from _shm_head to _shm_tail
    count,      \* shmem_count, the next id
    tail,       \* shmem_tail, the next address
    shms,       \* proc_t.space->shms, the ids a process has mapped; 0: none
    mapped,     \* the shared pages in each process's page tables
    father,     \* proc_t.father_pid
    alive,
    exiting     \* the process that is in proc_exit

memory == <<blocks, count, tail>>
procs == <<father, alive, exiting>>
vars == <<memory, shms, mapped, procs>>

Places == 1 .. SHM_MAX
Pages(b) == b.addr .. b.addr + b.pages - 1
First(i, S) == i \in S /\ \A j \in S : i <= j

Init ==
    /\ blocks = <<>> /\ count = 1 /\ tail = 0
    /\ shms = [p \in Pids |-> [i \in Places |-> 0]]
    /\ mapped = [p \in Pids |-> {}]
    /\ father = [p \in Pids |-> NULL]
    /\ alive = {0}
    /\ exiting = NULL

-----------------------------------------------------------------------------
(* Mutation of Split: the first part keeps the size of the whole.          *)
Split_KeepsSize(i, b) ==
    LET rest == [b EXCEPT !.id = count, !.addr = @ + b.pages, !.pages = blocks[i].pages - b.pages,
                          !.used = FALSE, !.refs = 0, !.public = FALSE, !.owner = NULL]
    IN  SubSeq(blocks, 1, i - 1) \o <<[b EXCEPT !.pages = blocks[i].pages], rest>>
            \o SubSeq(blocks, i + 1, Len(blocks))

(* shm_alloc's split of a free block i, of which b is taken.               *)
Split(i, b) ==
    LET rest == [b EXCEPT !.id = count, !.addr = @ + b.pages, !.pages = blocks[i].pages - b.pages,
                          !.used = FALSE, !.refs = 0, !.public = FALSE, !.owner = NULL]
    IN  SubSeq(blocks, 1, i - 1) \o <<b, rest>> \o SubSeq(blocks, i + 1, Len(blocks))

(* shm_alloc(n pages) that finds a free block: the first that is large      *)
(* enough, split when it is larger (or not, when kmalloc fails).           *)
Reuse(p, n, public) ==
    \E i \in 1 .. Len(blocks) :
        LET old == blocks[i]
            new == [old EXCEPT !.used = TRUE, !.owner = p, !.public = public]
        IN  /\ First(i, {j \in 1 .. Len(blocks) : ~blocks[j].used /\ blocks[j].pages >= n})
            /\ \/ /\ old.pages > n
                  /\ blocks' = Split(i, [new EXCEPT !.pages = n])
                  /\ count' = count + 1
               \/ blocks' = [blocks EXCEPT ![i] = new] /\ UNCHANGED count
            /\ tail' = IF old.addr = tail THEN tail + n ELSE tail

(* ... that finds none: a block at the end of the range, which stays in the *)
(* list without pages when shm_map_pages gets none: other parts of the      *)
(* kernel take pages too, so that may be at any time.  One that fails after *)
(* its first page is left out: it gives pages of kalloc4k to kfree, which   *)
(* takes what lies in front of them for the head of a block of kmalloc's.   *)
Expand(p, n, public) ==
    /\ \A i \in 1 .. Len(blocks) : blocks[i].used \/ blocks[i].pages < n
    /\ count' = count + 1
    /\ \/ /\ tail + n <= PAGES
          /\ blocks' = Append(blocks, [id |-> count, addr |-> tail, pages |-> n, used |-> TRUE,
                                       public |-> public, owner |-> p, refs |-> 0])
          /\ tail' = tail + n
       \/ /\ blocks' = Append(blocks, [id |-> count, addr |-> tail, pages |-> 0, used |-> FALSE,
                                       public |-> FALSE, owner |-> NULL, refs |-> 0])
          /\ UNCHANGED tail

Alloc(p, n, public) ==
    /\ p \in alive /\ exiting = NULL
    /\ count <= IDS
    /\ Reuse(p, n, public) \/ Expand(p, n, public)
    /\ UNCHANGED <<shms, mapped, procs>>

(* shm_item.                                                               *)
Item(i, id) == i \in 1 .. Len(blocks) /\ blocks[i].used /\ blocks[i].id = id

(* p and its ancestors: the pids check_owner compares with the owner's.    *)
Family(p) ==
    LET up[n \in Nat] == IF n = 0 THEN {p}
                         ELSE up[n - 1] \cup ({father[q] : q \in up[n - 1]} \cap Pids)
    IN  up[Cardinality(Pids)]

(* shm_proc_map.                                                           *)
Map(p, id) ==
    /\ p \in alive /\ exiting = NULL
    /\ \E i \in 1 .. Len(blocks), s \in Places :
          /\ Item(i, id)
          /\ blocks[i].public \/ blocks[i].owner \in Family(p)
          /\ First(s, {t \in Places : shms[p][t] = 0})
          /\ shms' = [shms EXCEPT ![p][s] = id]
          /\ mapped' = [mapped EXCEPT ![p] = @ \cup Pages(blocks[i])]
          /\ blocks' = [blocks EXCEPT ![i].refs = @ + 1]
    /\ UNCHANGED <<count, tail, procs>>

(* Mutation of Free: the block before is merged too when it is in use.     *)
Free_MergesUsed(list, i) ==
    LET lo == IF i > 1 THEN i - 1 ELSE i
        hi == IF i < Len(list) /\ ~list[i + 1].used THEN i + 1 ELSE i
        size == list[hi].addr + list[hi].pages - list[lo].addr
    IN  SubSeq(list, 1, lo - 1) \o <<[list[lo] EXCEPT !.pages = size, !.used = FALSE]>>
            \o SubSeq(list, hi + 1, Len(list))

(* free_item: the block and its free neighbours become one, under the first *)
(* one's id.                                                               *)
Free(list, i) ==
    LET lo == IF i > 1 /\ ~list[i - 1].used THEN i - 1 ELSE i
        hi == IF i < Len(list) /\ ~list[i + 1].used THEN i + 1 ELSE i
        size == list[hi].addr + list[hi].pages - list[lo].addr
    IN  SubSeq(list, 1, lo - 1) \o <<[list[lo] EXCEPT !.pages = size, !.used = FALSE]>>
            \o SubSeq(list, hi + 1, Len(list))

(* Mutation of Unmap: the page tables are left as they are.                *)
Unmap_KeepsPages(p, id) ==
    \E i \in 1 .. Len(blocks), s \in Places :
        /\ Item(i, id)
        /\ First(s, {t \in Places : shms[p][t] = id})
        /\ shms' = [shms EXCEPT ![p][s] = 0]
        /\ LET less == [blocks EXCEPT ![i].refs = @ - 1]
           IN  blocks' = IF less[i].refs <= 0 THEN Free(less, i) ELSE less
        /\ UNCHANGED <<count, tail, mapped>>

(* shm_proc_unmap.                                                         *)
Unmap(p, id) ==
    \E i \in 1 .. Len(blocks), s \in Places :
        /\ Item(i, id)
        /\ First(s, {t \in Places : shms[p][t] = id})
        /\ shms' = [shms EXCEPT ![p][s] = 0]
        /\ mapped' = [mapped EXCEPT ![p] = @ \ Pages(blocks[i])]
        /\ LET less == [blocks EXCEPT ![i].refs = @ - 1]
           IN  blocks' = IF less[i].refs <= 0 THEN Free(less, i) ELSE less
        /\ UNCHANGED <<count, tail>>

UnmapCall(p, id) ==
    /\ p \in alive /\ exiting = NULL
    /\ Unmap(p, id)
    /\ UNCHANGED procs

-----------------------------------------------------------------------------
(* kfork: the child has no blocks of its parent's.                         *)
Fork(p, c) ==
    /\ p \in alive /\ exiting = NULL
    /\ c \notin alive
    /\ alive' = alive \cup {c}
    /\ father' = [father EXCEPT ![c] = p]
    /\ UNCHANGED <<memory, shms, mapped, exiting>>

Detach(p) ==
    /\ p \in alive \ {0} /\ exiting = NULL
    /\ father' = [father EXCEPT ![p] = 0]
    /\ UNCHANGED <<memory, shms, mapped, alive, exiting>>

(* proc_exit of a process whose children are gone (Proc!ExitWaiters).      *)
Exit(p) ==
    /\ p \in alive \ {0} /\ exiting = NULL
    /\ \A c \in alive : father[c] # p
    /\ exiting' = p
    /\ UNCHANGED <<memory, shms, mapped, father, alive>>

Held == {shms[exiting][s] : s \in Places} \ {0}

ExitUnmap ==
    /\ exiting # NULL
    /\ \E s \in Places : /\ First(s, {t \in Places : shms[exiting][t] # 0})
                         /\ Unmap(exiting, shms[exiting][s])
    /\ UNCHANGED procs

(* The rest of the exit: the space is freed and the slot zeroed.           *)
ExitDone ==
    /\ exiting # NULL
    /\ \A i \in 1 .. Len(blocks) : \A id \in Held : ~Item(i, id)
    /\ shms' = [shms EXCEPT ![exiting] = [s \in Places |-> 0]]
    /\ mapped' = [mapped EXCEPT ![exiting] = {}]
    /\ father' = [father EXCEPT ![exiting] = 0]
    /\ alive' = alive \ {exiting}
    /\ exiting' = NULL
    /\ UNCHANGED memory

Next ==
    \/ \E p \in Pids, n \in SIZES, public \in BOOLEAN : Alloc(p, n, public)
    \/ \E p \in Pids, id \in 1 .. IDS + 1 : Map(p, id) \/ UnmapCall(p, id)
    \/ \E p, c \in Pids : Fork(p, c)
    \/ \E p \in Pids : Detach(p) \/ Exit(p)
    \/ ExitUnmap \/ ExitDone

Spec == Init /\ [][Next]_vars

-----------------------------------------------------------------------------
Block == [id : 1 .. IDS + 1, addr : 0 .. PAGES, pages : 0 .. PAGES, used : BOOLEAN,
          public : BOOLEAN, owner : Pids \cup {NULL}, refs : Nat]

TypeOK ==
    /\ blocks \in Seq(Block)
    /\ count \in 1 .. IDS + 2
    /\ tail \in 0 .. PAGES
    /\ shms \in [Pids -> [Places -> 0 .. IDS + 1]]
    /\ mapped \in [Pids -> SUBSET (0 .. PAGES - 1)]
    /\ father \in [Pids -> Pids \cup {NULL}]
    /\ alive \subseteq Pids
    /\ exiting \in alive \cup {NULL}

(* The blocks tile the range from its base to shmem_tail, without gap or    *)
(* overlap, through splits, merges, expansions and those that get no page   *)
(* at all, and no two have the same id.                                    *)
Tiled ==
    /\ TypeOK
    /\ \A i \in 1 .. Len(blocks) :
          blocks[i].addr = IF i = 1 THEN 0 ELSE blocks[i - 1].addr + blocks[i - 1].pages
    /\ tail = IF blocks = <<>> THEN 0
              ELSE blocks[Len(blocks)].addr + blocks[Len(blocks)].pages
    /\ \A i, j \in 1 .. Len(blocks) : blocks[i].id = blocks[j].id => i = j

Maps(id) == {x \in Pids \X Places : shms[x[1]][x[2]] = id}

(* A block's reference count is the number of times it is mapped, and a     *)
(* process that has a block mapped keeps it from being given away.         *)
RefsOK ==
    /\ \A i \in 1 .. Len(blocks) :
          IF blocks[i].used THEN blocks[i].refs = Cardinality(Maps(blocks[i].id))
                            ELSE blocks[i].refs = 0 /\ Maps(blocks[i].id) = {}
    /\ \A p \in Pids, s \in Places :
          shms[p][s] # 0 => \E i \in 1 .. Len(blocks) : Item(i, shms[p][s])

(* A process can reach the pages of no block but those it has mapped, so    *)
(* that no page it could once write is written under a later owner.        *)
Isolated ==
    \A p \in Pids : \A page \in mapped[p] :
        \E i \in 1 .. Len(blocks), s \in Places :
            Item(i, shms[p][s]) /\ page \in Pages(blocks[i])
=============================================================================
