-------------------------------- MODULE Trunk -------------------------------
(***************************************************************************)
(* The heap of kernel/kernel/mm/trunkmalloc.c, under kmalloc in the kernel  *)
(* and under malloc in every process: blocks with a header each, linked in  *)
(* the order of their addresses, in a range that grows and shrinks by pages.*)
(*                                                                         *)
(* Every call is one step: interrupts are off.  The heap is a record: the  *)
(* headers in memory by address, the pointers of malloc_t, and the end of   *)
(* the range (_kmalloc_mem_tail, heap_size).  Addresses count from the      *)
(* page-aligned start of the range.                                        *)
(***************************************************************************)
EXTENDS Integers, FiniteSets, Functions

CONSTANTS
    HEADER,         \* sizeof(mem_block_t)
    ALIGN,          \* blocks are multiples of this (4 in the code)
    PAGE_SIZE,
    LIMIT,          \* the range has no more pages behind this address
    SIZES           \* the sizes asked for, never 0

NULL == -1

ASSUME TrunkAssumption ==
    /\ ALIGN \in Nat \ {0} /\ HEADER \in Nat \ {0} /\ PAGE_SIZE \in Nat \ {0}
    /\ HEADER % ALIGN = 0 /\ PAGE_SIZE % ALIGN = 0 /\ HEADER < PAGE_SIZE
    /\ LIMIT \in Nat /\ SIZES \subseteq Nat \ {0}

VARIABLES
    heap,
    asked       \* the blocks programs hold, and the sizes they asked for

vars == <<heap, asked>>

Heaps(m, hd, tl, e) == [mem |-> m, head |-> hd, tail |-> tl, end |-> e]
Blocks == DOMAIN heap.mem
Up(n, unit) == ((n + unit - 1) \div unit) * unit
With(f, a, v) == [x \in DOMAIN f \cup {a} |-> IF x = a THEN v ELSE f[x]]
Without(f, S) == Restrict(f, DOMAIN f \ S)

Init == heap = Heaps(<<>>, NULL, NULL, 0) /\ asked = <<>>

-----------------------------------------------------------------------------
(* The header next to a, if there is one, is told where its neighbour is.   *)
PrevOf(mem, a, to) == IF a = NULL THEN mem ELSE [mem EXCEPT ![a].prev = to]
NextOf(mem, a, to) == IF a = NULL THEN mem ELSE [mem EXCEPT ![a].next = to]

(* Block a keeps size bytes, the rest of it becomes a free block behind it. *)
Cut(h, a, size) ==
    LET old == h.mem[a]
        b == a + HEADER + size
        rest == [next |-> old.next, prev |-> a, size |-> old.size - size - HEADER, used |-> FALSE]
    IN  Heaps(With(PrevOf([h.mem EXCEPT ![a].size = size, ![a].next = b], old.next, b), b, rest),
              h.head, IF h.tail = a THEN b ELSE h.tail, h.end)

(* try_break: what is left of a block that is much too big becomes free.   *)
Break(h, a, n) ==
    IF HEADER + n > h.mem[a].size \div 2 THEN h ELSE Cut(h, a, Up(n, ALIGN))

(* The blocks trunk_malloc comes by from the head: those in every set that  *)
(* has the head and with a block the next one.                             *)
Listed(h) ==
    LET walks == {S \in SUBSET DOMAIN h.mem :
                     /\ h.head = NULL \/ h.head \in S
                     /\ \A a \in S : h.mem[a].next = NULL \/ h.mem[a].next \in S}
    IN  {a \in DOMAIN h.mem : \A S \in walks : a \in S}

(* trunk_malloc: the first free block that is large enough, ...            *)
Reuse(n, fits) ==
    \E a \in fits :
        /\ \A b \in fits : a <= b
        /\ heap' = Break([heap EXCEPT !.mem[a].used = TRUE], a, n)
        /\ asked' = With(asked, a, n)

(* ... or, when there is none, new pages behind the last block, or NULL.    *)
Grown(h, n) ==
    LET a == h.end
        size == Up(n + HEADER, PAGE_SIZE)
        block == [next |-> NULL, prev |-> h.tail, size |-> size - HEADER, used |-> TRUE]
    IN  Heaps(With(NextOf(h.mem, h.tail, a), a, block),
              IF h.head = NULL THEN a ELSE h.head, a, a + size)

Expand(n) ==
    IF heap.end + Up(n + HEADER, PAGE_SIZE) <= LIMIT
    THEN /\ heap' = Break(Grown(heap, n), heap.end, n)
         /\ asked' = With(asked, heap.end, n)
    ELSE UNCHANGED vars

(* Mutation of Absorb: the header of the block that goes is forgotten.      *)
Absorb_NoHeader(h, a) ==
    LET b == h.mem[a].next
        n == h.mem[b].next
    IN  Heaps(Without(PrevOf([h.mem EXCEPT ![a].size = @ + h.mem[b].size, ![a].next = n], n, a), {b}),
              h.head, IF n = NULL THEN a ELSE h.tail, h.end)

(* One half of try_merge: a takes in the block behind it.                  *)
Absorb(h, a) ==
    LET b == h.mem[a].next
        n == h.mem[b].next
    IN  Heaps(Without(PrevOf([h.mem EXCEPT ![a].size = @ + h.mem[b].size + HEADER, ![a].next = n],
                             n, a), {b}),
              h.head, IF n = NULL THEN a ELSE h.tail, h.end)

Free(h, a) == a # NULL /\ ~h.mem[a].used

(* try_merge.                                                              *)
Merge(h, a) ==
    LET right == IF Free(h, h.mem[a].next) THEN Absorb(h, a) ELSE h
    IN  IF Free(h, h.mem[a].prev) THEN Absorb(right, h.mem[a].prev) ELSE right

(* The whole pages of the tail are given back, and the tail with them.      *)
GiveBack(h) ==
    LET p == h.mem[h.tail].prev
        size == h.mem[h.tail].size + HEADER
    IN  Heaps(Without(NextOf(h.mem, p, NULL), {h.tail}),
              IF p = NULL THEN NULL ELSE h.head, p, h.end - (size - (size % PAGE_SIZE)))

(* Mutation of Shrink: a tail in use goes as well.                         *)
Shrink_Used(h) == IF h.tail = NULL \/ h.tail % PAGE_SIZE # 0 THEN h ELSE GiveBack(h)

(* try_shrink: a free tail that starts a page is given back.               *)
Shrink(h) == IF ~Free(h, h.tail) \/ h.tail % PAGE_SIZE # 0 THEN h ELSE GiveBack(h)

Malloc ==
    \E walked \in {Listed(heap)}, n \in SIZES :
        LET fits == {a \in walked : ~heap.mem[a].used /\ heap.mem[a].size >= n}
        IN  Reuse(n, fits) \/ (fits = {} /\ Expand(n))

(* trunk_free.                                                             *)
FreeCall(a) ==
    /\ a \in DOMAIN asked
    /\ heap' = Shrink(Merge([heap EXCEPT !.mem[a].used = FALSE], a))
    /\ asked' = Without(asked, {a})

Next ==
    \/ Malloc
    \/ \E a \in DOMAIN asked : FreeCall(a)

Spec == Init /\ [][Next]_vars

-----------------------------------------------------------------------------
Addresses == 0 .. LIMIT - 1
Headers == [next : Addresses \cup {NULL}, prev : Addresses \cup {NULL}, size : 1 .. LIMIT,
            used : BOOLEAN]

TypeOK ==
    /\ Blocks \subseteq {a \in Addresses : a % ALIGN = 0}
    /\ \A a \in Blocks : heap.mem[a] \in Headers
    /\ heap.head \in Blocks \cup {NULL} /\ heap.tail \in Blocks \cup {NULL}
    /\ heap.end \in {e \in 0 .. LIMIT : e % PAGE_SIZE = 0}
    /\ \A a \in DOMAIN asked : asked[a] \in SIZES

Coalesced ==
    \A a \in Blocks :
        /\ heap.mem[a].used <=> a \in DOMAIN asked
        /\ ~heap.mem[a].used => ~Free(heap, heap.mem[a].next)

(* The blocks fill the range without a gap, in the order of the list from   *)
(* head to tail, and every neighbour knows the other: no byte is lost to    *)
(* breaks, merges and shrinks, and no block overlaps the next.  Nor does    *)
(* free memory stay in pieces: no two free blocks are neighbours, and a     *)
(* block is in use only when a program holds it.                            *)
Tiled ==
    /\ TypeOK
    /\ heap.head = IF heap.end = 0 THEN NULL ELSE 0
    /\ heap.end = 0 => heap.tail = NULL /\ Blocks = {}
    /\ \A a \in Blocks :
          LET behind == a + HEADER + heap.mem[a].size
          IN  IF behind = heap.end THEN heap.mem[a].next = NULL /\ heap.tail = a
              ELSE /\ heap.mem[a].next = behind
                   /\ behind \in Blocks /\ heap.mem[behind].prev = a
    /\ Blocks = Listed(heap)
    /\ Coalesced

(* What a program holds is its own: the bytes it asked for are mapped, and  *)
(* in nobody else's block, until it frees them itself.                     *)
Granted ==
    \A a \in DOMAIN asked :
        /\ a + HEADER + asked[a] <= heap.end
        /\ \A b \in Blocks : b > a => b >= a + HEADER + asked[a]
=============================================================================
