----------------------------- MODULE TrunkProofs ----------------------------
(***************************************************************************)
(* Proofs of Tiled and Granted for any header size, alignment, page size,   *)
(* limit and sizes.                                                        *)
(***************************************************************************)
EXTENDS Trunk, WellFoundedInduction, TLAPS

-----------------------------------------------------------------------------
(* Multiples and rounding up.                                              *)

LEMMA DivMod ==
    ASSUME NEW x \in Nat, NEW k \in Nat \ {0}
    PROVE  x = k * (x \div k) + (x % k) /\ x \div k \in Nat /\ x % k \in 0 .. k - 1
OBVIOUS

LEMMA ModOfProduct ==
    ASSUME NEW q \in Nat, NEW k \in Nat \ {0}
    PROVE  (k * q) % k = 0
OBVIOUS

LEMMA ModUnique ==
    ASSUME NEW x \in Nat, NEW k \in Nat \ {0}, NEW q \in Int, x = k * q
    PROVE  x % k = 0
OBVIOUS

LEMMA ModSum ==
    ASSUME NEW x \in Nat, NEW y \in Nat, NEW k \in Nat \ {0}, x % k = 0, y % k = 0
    PROVE  (x + y) % k = 0
<1> DEFINE q == x \div k + y \div k
<1>1. x = k * (x \div k) /\ y = k * (y \div k) /\ x \div k \in Nat /\ y \div k \in Nat
  BY DivMod
<1>2. x + y = k * q
  BY <1>1
<1>3. q \in Int /\ x + y \in Nat
  BY <1>1
<1> HIDE DEF q
<1> QED
  BY <1>2, <1>3, ModUnique

LEMMA ModDiff ==
    ASSUME NEW x \in Nat, NEW y \in Nat, NEW k \in Nat \ {0}, x % k = 0, y % k = 0, y =< x
    PROVE  (x - y) % k = 0
<1> DEFINE q == x \div k - y \div k
<1>1. x = k * (x \div k) /\ y = k * (y \div k) /\ x \div k \in Nat /\ y \div k \in Nat
  BY DivMod
<1>2. x - y = k * q
  BY <1>1
<1>3. q \in Int /\ x - y \in Nat
  BY <1>1
<1> HIDE DEF q
<1> QED
  BY <1>2, <1>3, ModUnique

LEMMA ModTrans ==
    ASSUME NEW x \in Nat, NEW y \in Nat \ {0}, NEW k \in Nat \ {0}, x % y = 0, y % k = 0
    PROVE  x % k = 0
<1> DEFINE q == (x \div y) * (y \div k)
<1>1. x = y * (x \div y) /\ x \div y \in Nat
  BY DivMod
<1>2. y = k * (y \div k) /\ y \div k \in Nat
  BY DivMod
<1>3. x = k * q
  BY <1>1, <1>2
<1>4. q \in Int
  BY <1>1, <1>2
<1> HIDE DEF q
<1> QED
  BY <1>3, <1>4, ModUnique

LEMMA UpBounds ==
    ASSUME NEW n \in Nat, NEW k \in Nat \ {0}
    PROVE  LET u == ((n + k - 1) \div k) * k IN u \in Nat /\ u % k = 0 /\ u >= n /\ u < n + k
<1> DEFINE m == n + k - 1
           q == m \div k
<1>1. m \in Nat
  OBVIOUS
<1> HIDE DEF m
<1>2. m = k * q + (m % k) /\ q \in Nat /\ m % k \in 0 .. k - 1
  BY <1>1, DivMod
<1> HIDE DEF q
<1>3. q * k = k * q /\ k * q \in Nat
  BY <1>2
<1>4. (q * k) % k = 0
  BY <1>2, <1>3, ModOfProduct
<1>5. q * k >= n /\ q * k < n + k
  BY <1>1, <1>2, <1>3 DEF m
<1> QED
  BY <1>3, <1>4, <1>5 DEF q, m

LEMMA Half ==
    ASSUME NEW x \in Nat, NEW y \in Nat, y =< x \div 2
    PROVE  2 * y =< x
OBVIOUS

LEMMA ModLeast ==
    ASSUME NEW x \in Nat \ {0}, NEW k \in Nat \ {0}, x % k = 0
    PROVE  k =< x
OBVIOUS

LEMMA Sizes ==
    /\ ALIGN \in Nat \ {0} /\ HEADER \in Nat \ {0} /\ PAGE_SIZE \in Nat \ {0}
    /\ ALIGN =< HEADER /\ LIMIT \in Nat /\ SIZES \subseteq Nat \ {0}
BY TrunkAssumption, ModLeast

LEMMA UpFacts ==
    ASSUME NEW n \in Nat, NEW unit \in Nat \ {0}
    PROVE  Up(n, unit) \in Nat /\ Up(n, unit) % unit = 0 /\ Up(n, unit) >= n /\ Up(n, unit) < n + unit
BY UpBounds DEF Up

LEMMA AlignedBehind ==
    ASSUME NEW a \in Nat, a % ALIGN = 0, NEW n \in Nat, n % ALIGN = 0
    PROVE  (a + HEADER + n) % ALIGN = 0
<1>1. HEADER \in Nat /\ HEADER % ALIGN = 0 /\ ALIGN \in Nat \ {0}
  BY TrunkAssumption
<1>2. (a + HEADER) % ALIGN = 0
  BY <1>1, ModSum
<1> DEFINE e == a + HEADER
<1>3. e \in Nat /\ e % ALIGN = 0
  BY <1>1, <1>2
<1> HIDE DEF e
<1>4. (e + n) % ALIGN = 0
  BY <1>1, <1>3, ModSum
<1> QED
  BY <1>4 DEF e

-----------------------------------------------------------------------------
(* The inductive invariant.                                                *)

HeaderType == [next : Int, prev : Int, size : Int, used : BOOLEAN]
Typed(h) ==
    /\ h = Heaps(h.mem, h.head, h.tail, h.end)
    /\ h.mem \in [DOMAIN h.mem -> HeaderType]
    /\ DOMAIN h.mem \subseteq Nat
    /\ h.head \in Int /\ h.tail \in Int /\ h.end \in Nat

Behind(h, a) == a + HEADER + h.mem[a].size

(* Blocks are aligned and not empty, and the range is made of pages.        *)
Aligned(h) ==
    /\ \A a \in DOMAIN h.mem : a % ALIGN = 0 /\ h.mem[a].size >= 1
    /\ h.end =< LIMIT /\ h.end % PAGE_SIZE = 0

(* The list runs from 0 to the end of the range, or there is none.          *)
Ends(h) ==
    \/ h.head = NULL /\ h.tail = NULL /\ h.end = 0 /\ DOMAIN h.mem = {}
    \/ h.head = 0 /\ 0 \in DOMAIN h.mem /\ h.tail \in DOMAIN h.mem /\ Behind(h, h.tail) = h.end

(* Every block is followed by the one that starts where it ends, ...        *)
Onward(h) ==
    \A a \in DOMAIN h.mem :
        IF a = h.tail THEN h.mem[a].next = NULL
        ELSE h.mem[a].next = Behind(h, a) /\ Behind(h, a) \in DOMAIN h.mem

(* ... every block but the one at 0 comes behind one that ends there, ...   *)
Backward(h) ==
    \A a \in DOMAIN h.mem :
        IF a = 0 THEN h.mem[a].prev = NULL
        ELSE h.mem[a].prev \in DOMAIN h.mem /\ Behind(h, h.mem[a].prev) = a

(* ... and no two overlap, those that are not neighbours neither.           *)
Disjoint(h) ==
    \A a \in DOMAIN h.mem :
        /\ Behind(h, a) =< h.end
        /\ \A b \in DOMAIN h.mem : a < b => Behind(h, a) =< b

Shape(h) == Typed(h) /\ Aligned(h) /\ Ends(h) /\ Onward(h) /\ Backward(h) /\ Disjoint(h)

(* No two free blocks are neighbours.                                      *)
Apart(h) == \A a \in DOMAIN h.mem : ~h.mem[a].used => ~Free(h, h.mem[a].next)

(* What programs hold is in use, is nothing else, and is large enough.      *)
Holds(h, f) ==
    /\ f = [a \in DOMAIN f |-> f[a]] /\ DOMAIN f \subseteq DOMAIN h.mem
    /\ \A a \in DOMAIN h.mem : h.mem[a].used <=> a \in DOMAIN f
    /\ \A a \in DOMAIN f : f[a] \in SIZES /\ f[a] =< h.mem[a].size

IInv == Shape(heap) /\ Apart(heap) /\ Holds(heap, asked)

-----------------------------------------------------------------------------
(* What the functions of trunkmalloc.c do, field by field.                  *)

IsMarked(h, g, a, v) ==
    /\ DOMAIN g.mem = DOMAIN h.mem /\ g.head = h.head /\ g.tail = h.tail /\ g.end = h.end
    /\ \A x \in DOMAIN h.mem :
          /\ g.mem[x].next = h.mem[x].next /\ g.mem[x].prev = h.mem[x].prev
          /\ g.mem[x].size = h.mem[x].size
          /\ g.mem[x].used = IF x = a THEN v ELSE h.mem[x].used

LEMMA MarkFacts ==
    ASSUME NEW h, Typed(h), NEW a \in DOMAIN h.mem, NEW v \in BOOLEAN
    PROVE  LET g == [h EXCEPT !.mem[a].used = v] IN Typed(g) /\ IsMarked(h, g, a, v)
<1> DEFINE m == [h.mem EXCEPT ![a].used = v]
           g == [h EXCEPT !.mem[a].used = v]
<1>1. g = Heaps(m, h.head, h.tail, h.end)
  BY DEF Typed, Heaps
<1>2. m \in [DOMAIN h.mem -> HeaderType]
  BY DEF Typed, HeaderType
<1>3. \A x \in DOMAIN h.mem :
         /\ m[x].next = h.mem[x].next /\ m[x].prev = h.mem[x].prev
         /\ m[x].size = h.mem[x].size
         /\ m[x].used = IF x = a THEN v ELSE h.mem[x].used
  BY DEF Typed, HeaderType
<1> HIDE DEF m
<1>4. /\ g.mem = m /\ g.head = h.head /\ g.tail = h.tail /\ g.end = h.end
      /\ g = Heaps(g.mem, g.head, g.tail, g.end)
  BY <1>1 DEF Heaps
<1> HIDE DEF g
<1>5. DOMAIN m = DOMAIN h.mem
  BY <1>2
<1>6. Typed(g)
  BY <1>2, <1>4, <1>5 DEF Typed
<1>7. IsMarked(h, g, a, v)
  BY <1>3, <1>4, <1>5 DEF IsMarked
<1> QED
  BY <1>6, <1>7 DEF g

IsCut(h, g, a, size) ==
    LET b == a + HEADER + size
    IN  /\ DOMAIN g.mem = DOMAIN h.mem \cup {b}
        /\ g.head = h.head /\ g.end = h.end /\ g.tail = IF h.tail = a THEN b ELSE h.tail
        /\ \A x \in DOMAIN h.mem \cup {b} :
              /\ g.mem[x].next = IF x = b THEN h.mem[a].next ELSE IF x = a THEN b ELSE h.mem[x].next
              /\ g.mem[x].prev = IF x = b THEN a ELSE IF x = h.mem[a].next THEN b ELSE h.mem[x].prev
              /\ g.mem[x].size = IF x = b THEN h.mem[a].size - size - HEADER
                                 ELSE IF x = a THEN size ELSE h.mem[x].size
              /\ g.mem[x].used = IF x = b THEN FALSE ELSE h.mem[x].used

MemOver(f, S) == S \subseteq Nat /\ f \in [S -> HeaderType]

Added(f, g, S, b, v) == \A x \in S \cup {b} : g[x] = IF x = b THEN v ELSE f[x]
Dropped(f, g, S) == \A x \in S : g[x] = f[x]
PrevTold(f, g, S, a, to) ==
    \A x \in S :
        /\ g[x].prev = IF x = a THEN to ELSE f[x].prev
        /\ g[x].next = f[x].next /\ g[x].size = f[x].size /\ g[x].used = f[x].used
NextTold(f, g, S, a, to) ==
    \A x \in S :
        /\ g[x].next = IF x = a THEN to ELSE f[x].next
        /\ g[x].prev = f[x].prev /\ g[x].size = f[x].size /\ g[x].used = f[x].used

LEMMA WithFacts ==
    ASSUME NEW f, NEW S, MemOver(f, S), NEW b \in Nat, NEW v \in HeaderType
    PROVE  MemOver(With(f, b, v), S \cup {b}) /\ Added(f, With(f, b, v), S, b, v)
BY DEF With, MemOver, Added

LEMMA WithoutFacts ==
    ASSUME NEW f, NEW S, MemOver(f, S), NEW T
    PROVE  MemOver(Without(f, T), S \ T) /\ Dropped(f, Without(f, T), S \ T)
BY DEF Without, Restrict, MemOver, Dropped

LEMMA PrevFacts ==
    ASSUME NEW f, NEW S, MemOver(f, S), NEW a \in S \cup {NULL}, NEW to \in Int
    PROVE  MemOver(PrevOf(f, a, to), S) /\ PrevTold(f, PrevOf(f, a, to), S, a, to)
<1>1. CASE a = NULL
  BY <1>1 DEF PrevOf, NULL, MemOver, PrevTold
<1>2. CASE a # NULL
  <2>1. a \in S /\ PrevOf(f, a, to) = [f EXCEPT ![a].prev = to]
    BY <1>2 DEF PrevOf
  <2> QED
    BY <2>1 DEF HeaderType, MemOver, PrevTold
<1> QED
  BY <1>1, <1>2

LEMMA NextFacts ==
    ASSUME NEW f, NEW S, MemOver(f, S), NEW a \in S \cup {NULL}, NEW to \in Int
    PROVE  MemOver(NextOf(f, a, to), S) /\ NextTold(f, NextOf(f, a, to), S, a, to)
<1>1. CASE a = NULL
  BY <1>1 DEF NextOf, NULL, MemOver, NextTold
<1>2. CASE a # NULL
  <2>1. a \in S /\ NextOf(f, a, to) = [f EXCEPT ![a].next = to]
    BY <1>2 DEF NextOf
  <2> QED
    BY <2>1 DEF HeaderType, MemOver, NextTold
<1> QED
  BY <1>1, <1>2

IsHeap(g, m, S, hd, tl, e) ==
    g.mem = m /\ g.head = hd /\ g.tail = tl /\ g.end = e /\ DOMAIN g.mem = S

(* A heap that is put together has what it is put together from.            *)
LEMMA HeapFacts ==
    ASSUME NEW m, NEW S, MemOver(m, S),
           NEW hd \in Int, NEW tl \in Int, NEW e \in Nat
    PROVE  Typed(Heaps(m, hd, tl, e)) /\ IsHeap(Heaps(m, hd, tl, e), m, S, hd, tl, e)
BY DEF Typed, Heaps, MemOver, IsHeap

LEMMA CutFacts ==
    ASSUME NEW h, Typed(h), NEW a \in DOMAIN h.mem, NEW size \in Nat,
           h.mem[a].next \in DOMAIN h.mem \cup {NULL}
    PROVE  Typed(Cut(h, a, size)) /\ IsCut(h, Cut(h, a, size), a, size)
<1> DEFINE d == DOMAIN h.mem
           old == h.mem[a]
           b == a + HEADER + size
           rest == [next |-> old.next, prev |-> a, size |-> old.size - size - HEADER, used |-> FALSE]
           m1 == [h.mem EXCEPT ![a].size = size, ![a].next = b]
           m2 == PrevOf(m1, old.next, b)
           m3 == With(m2, b, rest)
           tl == IF h.tail = a THEN b ELSE h.tail
<1>1. a \in Nat /\ b \in Nat /\ d \subseteq Nat /\ d \cup {b} \subseteq Nat /\ h.mem \in [d -> HeaderType]
  BY Sizes DEF Typed
<1>2. old.next \in d \cup {NULL} /\ b \in Int /\ old.next \in Int /\ old.size \in Int /\ rest \in HeaderType
  BY <1>1, Sizes DEF HeaderType
<1>3. /\ MemOver(m1, d)
      /\ \A x \in d : /\ m1[x].next = IF x = a THEN b ELSE h.mem[x].next
                      /\ m1[x].prev = h.mem[x].prev
                      /\ m1[x].size = IF x = a THEN size ELSE h.mem[x].size
                      /\ m1[x].used = h.mem[x].used
  BY <1>1 DEF HeaderType, MemOver
<1>4. rest.next = old.next /\ rest.prev = a /\ rest.size = old.size - size - HEADER /\ rest.used = FALSE
  OBVIOUS
<1>5. Cut(h, a, size) = Heaps(m3, h.head, tl, h.end)
  BY DEF Cut
<1> HIDE DEF m1, rest, b, old, d
<1>6. MemOver(m2, d) /\ PrevTold(m1, m2, d, old.next, b)
  BY <1>1, <1>2, <1>3, PrevFacts
<1> HIDE DEF m2
<1>7. MemOver(m3, d \cup {b}) /\ Added(m2, m3, d, b, rest)
  BY <1>1, <1>2, <1>6, WithFacts
<1>8. h.head \in Int /\ tl \in Int /\ h.end \in Nat
  BY <1>1 DEF Typed, tl
<1> HIDE DEF m3, tl
<1> DEFINE g == Heaps(m3, h.head, tl, h.end)
<1>9. Typed(g) /\ IsHeap(g, m3, d \cup {b}, h.head, tl, h.end)
  BY <1>1, <1>7, <1>8, HeapFacts
<1> HIDE DEF g
<1>10. \A x \in d \cup {b} :
         /\ m3[x].next = IF x = b THEN h.mem[a].next ELSE IF x = a THEN b ELSE h.mem[x].next
         /\ m3[x].prev = IF x = b THEN a ELSE IF x = h.mem[a].next THEN b ELSE h.mem[x].prev
         /\ m3[x].size = IF x = b THEN h.mem[a].size - size - HEADER
                         ELSE IF x = a THEN size ELSE h.mem[x].size
         /\ m3[x].used = IF x = b THEN FALSE ELSE h.mem[x].used
  <2> SUFFICES ASSUME NEW x \in d \cup {b}
               PROVE  /\ m3[x].next = IF x = b THEN h.mem[a].next ELSE IF x = a THEN b ELSE h.mem[x].next
                      /\ m3[x].prev = IF x = b THEN a ELSE IF x = h.mem[a].next THEN b ELSE h.mem[x].prev
                      /\ m3[x].size = IF x = b THEN h.mem[a].size - size - HEADER
                                      ELSE IF x = a THEN size ELSE h.mem[x].size
                      /\ m3[x].used = IF x = b THEN FALSE ELSE h.mem[x].used
    OBVIOUS
  <2>1. m3[x] = IF x = b THEN rest ELSE m2[x]
    BY <1>7 DEF Added
  <2>2. CASE x = b
    BY <2>1, <2>2, <1>4 DEF old
  <2>3. CASE x # b
    <3>1. x \in d /\ m3[x] = m2[x]
      BY <2>1, <2>3
    <3> QED
      BY <3>1, <2>3, <1>3, <1>6 DEF old, PrevTold
  <2> QED
    BY <2>2, <2>3
<1>11. IsCut(h, g, a, size)
  BY <1>9, <1>10 DEF IsCut, IsHeap, tl, b, old, d
<1> QED
  BY <1>5, <1>9, <1>11 DEF g

IsAbsorb(h, g, a) ==
    LET b == h.mem[a].next
        n == h.mem[b].next
    IN  /\ DOMAIN g.mem = DOMAIN h.mem \ {b}
        /\ g.head = h.head /\ g.end = h.end /\ g.tail = IF n = NULL THEN a ELSE h.tail
        /\ \A x \in DOMAIN h.mem \ {b} :
              /\ g.mem[x].next = IF x = a THEN n ELSE h.mem[x].next
              /\ g.mem[x].prev = IF x = n THEN a ELSE h.mem[x].prev
              /\ g.mem[x].size = IF x = a THEN h.mem[a].size + h.mem[b].size + HEADER ELSE h.mem[x].size
              /\ g.mem[x].used = h.mem[x].used

LEMMA AbsorbFacts ==
    ASSUME NEW h, Typed(h), NEW a \in DOMAIN h.mem,
           h.mem[a].next \in DOMAIN h.mem,
           h.mem[h.mem[a].next].next \in DOMAIN h.mem \cup {NULL}
    PROVE  Typed(Absorb(h, a)) /\ IsAbsorb(h, Absorb(h, a), a)
<1> DEFINE d == DOMAIN h.mem
           b == h.mem[a].next
           n == h.mem[b].next
           sum == h.mem[a].size + h.mem[b].size + HEADER
           m1 == [h.mem EXCEPT ![a].size = @ + h.mem[b].size + HEADER, ![a].next = n]
           m2 == PrevOf(m1, n, a)
           m3 == Without(m2, {b})
           tl == IF n = NULL THEN a ELSE h.tail
<1>1. a \in Nat /\ b \in d /\ n \in d \cup {NULL} /\ d \subseteq Nat /\ h.mem \in [d -> HeaderType]
  BY DEF Typed
<1>2. n \in Int /\ sum \in Int /\ a \in Int
  BY <1>1, Sizes DEF HeaderType
<1>3. /\ MemOver(m1, d)
      /\ \A x \in d : /\ m1[x].next = IF x = a THEN n ELSE h.mem[x].next
                      /\ m1[x].prev = h.mem[x].prev
                      /\ m1[x].size = IF x = a THEN sum ELSE h.mem[x].size
                      /\ m1[x].used = h.mem[x].used
  BY <1>1, <1>2 DEF HeaderType, MemOver
<1>4. Absorb(h, a) = Heaps(m3, h.head, tl, h.end)
  BY DEF Absorb
<1> HIDE DEF m1, b, d, n, sum
<1>5. MemOver(m2, d) /\ PrevTold(m1, m2, d, n, a)
  BY <1>1, <1>2, <1>3, PrevFacts
<1> HIDE DEF m2
<1>6. MemOver(m3, d \ {b}) /\ Dropped(m2, m3, d \ {b})
  BY <1>5, WithoutFacts
<1>7. h.head \in Int /\ tl \in Int /\ h.end \in Nat /\ d \ {b} \subseteq Nat
  BY <1>1, <1>2 DEF Typed, tl
<1> HIDE DEF m3, tl
<1> DEFINE g == Heaps(m3, h.head, tl, h.end)
<1>8. Typed(g) /\ IsHeap(g, m3, d \ {b}, h.head, tl, h.end)
  BY <1>6, <1>7, HeapFacts
<1> HIDE DEF g
<1>9. \A x \in d \ {b} :
         /\ m3[x].next = IF x = a THEN n ELSE h.mem[x].next
         /\ m3[x].prev = IF x = n THEN a ELSE h.mem[x].prev
         /\ m3[x].size = IF x = a THEN sum ELSE h.mem[x].size
         /\ m3[x].used = h.mem[x].used
  BY <1>3, <1>5, <1>6 DEF Dropped, PrevTold
<1>10. IsAbsorb(h, g, a)
  BY <1>8, <1>9 DEF IsAbsorb, IsHeap, tl, b, d, n, sum
<1> QED
  BY <1>4, <1>8, <1>10 DEF g

IsGrown(h, g, n) ==
    LET e == h.end
        size == Up(n + HEADER, PAGE_SIZE)
    IN  /\ DOMAIN g.mem = DOMAIN h.mem \cup {e}
        /\ g.head = (IF h.head = NULL THEN e ELSE h.head) /\ g.tail = e /\ g.end = e + size
        /\ \A x \in DOMAIN h.mem \cup {e} :
              /\ g.mem[x].next = IF x = e THEN NULL ELSE IF x = h.tail THEN e ELSE h.mem[x].next
              /\ g.mem[x].prev = IF x = e THEN h.tail ELSE h.mem[x].prev
              /\ g.mem[x].size = IF x = e THEN size - HEADER ELSE h.mem[x].size
              /\ g.mem[x].used = IF x = e THEN TRUE ELSE h.mem[x].used

LEMMA GrowFacts ==
    ASSUME NEW h, Typed(h), h.tail \in DOMAIN h.mem \cup {NULL}, NEW n \in Nat
    PROVE  Typed(Grown(h, n)) /\ IsGrown(h, Grown(h, n), n)
<1> DEFINE d == DOMAIN h.mem
           e == h.end
           size == Up(n + HEADER, PAGE_SIZE)
           block == [next |-> NULL, prev |-> h.tail, size |-> size - HEADER, used |-> TRUE]
           m1 == NextOf(h.mem, h.tail, e)
           m2 == With(m1, e, block)
           hd == IF h.head = NULL THEN e ELSE h.head
<1>1. e \in Nat /\ h.tail \in Int /\ h.head \in Int /\ MemOver(h.mem, d) /\ h.tail \in d \cup {NULL}
  BY DEF Typed, MemOver
<1>2. size \in Nat
  <2>1. n + HEADER \in Nat /\ PAGE_SIZE \in Nat \ {0}
    BY Sizes
  <2> HIDE DEF size
  <2> QED
    BY <2>1, UpFacts DEF size
<1> HIDE DEF size
<1>3. e + size \in Nat /\ hd \in Int /\ e \in Int /\ size - HEADER \in Int
  BY <1>1, <1>2, Sizes
<1>4. block \in HeaderType
  BY <1>1, <1>3 DEF HeaderType, NULL
<1>5. block.next = NULL /\ block.prev = h.tail /\ block.size = size - HEADER /\ block.used = TRUE
  OBVIOUS
<1> HIDE DEF block, d, e, hd
<1>6. MemOver(m1, d) /\ NextTold(h.mem, m1, d, h.tail, e)
  BY <1>1, <1>3, NextFacts
<1> HIDE DEF m1
<1>7. MemOver(m2, d \cup {e}) /\ Added(m1, m2, d, e, block)
  BY <1>1, <1>4, <1>6, WithFacts
<1> HIDE DEF m2
<1> DEFINE last == e + size
           g == Heaps(m2, hd, e, last)
<1>8. last \in Nat
  BY <1>3
<1> HIDE DEF last
<1>9. Typed(g) /\ IsHeap(g, m2, d \cup {e}, hd, e, last)
  BY <1>3, <1>7, <1>8, HeapFacts
<1> HIDE DEF g
<1>10. \A x \in d \cup {e} :
         /\ m2[x].next = IF x = e THEN NULL ELSE IF x = h.tail THEN e ELSE h.mem[x].next
         /\ m2[x].prev = IF x = e THEN h.tail ELSE h.mem[x].prev
         /\ m2[x].size = IF x = e THEN size - HEADER ELSE h.mem[x].size
         /\ m2[x].used = IF x = e THEN TRUE ELSE h.mem[x].used
  <2> SUFFICES ASSUME NEW x \in d \cup {e}
               PROVE  /\ m2[x].next = IF x = e THEN NULL ELSE IF x = h.tail THEN e ELSE h.mem[x].next
                      /\ m2[x].prev = IF x = e THEN h.tail ELSE h.mem[x].prev
                      /\ m2[x].size = IF x = e THEN size - HEADER ELSE h.mem[x].size
                      /\ m2[x].used = IF x = e THEN TRUE ELSE h.mem[x].used
    OBVIOUS
  <2>1. m2[x] = IF x = e THEN block ELSE m1[x]
    BY <1>7 DEF Added
  <2>2. CASE x = e
    BY <2>1, <2>2, <1>5
  <2>3. CASE x # e
    <3>1. x \in d /\ m2[x] = m1[x]
      BY <2>1, <2>3
    <3> QED
      BY <3>1, <2>3, <1>6 DEF NextTold
  <2> QED
    BY <2>2, <2>3
<1>11. IsGrown(h, g, n)
  BY <1>9, <1>10 DEF IsGrown, IsHeap, hd, e, last, size, d
<1>12. Grown(h, n) = g
  BY DEF Grown, g, m2, m1, hd, e, last, size, block
<1> QED
  BY <1>9, <1>11, <1>12

IsGiven(h, g) ==
    LET t == h.tail
        p == h.mem[t].prev
        size == h.mem[t].size + HEADER
    IN  /\ DOMAIN g.mem = DOMAIN h.mem \ {t}
        /\ g.head = (IF p = NULL THEN NULL ELSE h.head) /\ g.tail = p
        /\ g.end = h.end - (size - (size % PAGE_SIZE))
        /\ \A x \in DOMAIN h.mem \ {t} :
              /\ g.mem[x].next = IF x = p THEN NULL ELSE h.mem[x].next
              /\ g.mem[x].prev = h.mem[x].prev
              /\ g.mem[x].size = h.mem[x].size
              /\ g.mem[x].used = h.mem[x].used

LEMMA GiveFacts ==
    ASSUME NEW h, Typed(h), h.tail \in DOMAIN h.mem,
           h.mem[h.tail].prev \in DOMAIN h.mem \cup {NULL},
           h.end - ((h.mem[h.tail].size + HEADER) - ((h.mem[h.tail].size + HEADER) % PAGE_SIZE)) \in Nat
    PROVE  Typed(GiveBack(h)) /\ IsGiven(h, GiveBack(h))
<1> DEFINE d == DOMAIN h.mem
           t == h.tail
           p == h.mem[t].prev
           size == h.mem[t].size + HEADER
           last == h.end - (size - (size % PAGE_SIZE))
           m1 == NextOf(h.mem, p, NULL)
           m2 == Without(m1, {t})
           hd == IF p = NULL THEN NULL ELSE h.head
<1>1. last \in Nat
  OBVIOUS
<1>2. GiveBack(h) = Heaps(m2, hd, p, last)
  BY DEF GiveBack
<1> HIDE DEF last
<1>3. MemOver(h.mem, d) /\ p \in d \cup {NULL} /\ NULL \in Int /\ p \in Int /\ hd \in Int /\ d \ {t} \subseteq Nat
  BY DEF Typed, MemOver, HeaderType, NULL
<1> HIDE DEF p, hd, d
<1>4. MemOver(m1, d) /\ NextTold(h.mem, m1, d, p, NULL)
  BY <1>3, NextFacts
<1> HIDE DEF m1
<1>5. MemOver(m2, d \ {t}) /\ Dropped(m1, m2, d \ {t})
  BY <1>4, WithoutFacts
<1> HIDE DEF m2
<1> DEFINE g == Heaps(m2, hd, p, last)
<1>6. Typed(g) /\ IsHeap(g, m2, d \ {t}, hd, p, last)
  BY <1>1, <1>3, <1>5, HeapFacts
<1> HIDE DEF g
<1>7. \A x \in d \ {t} :
         /\ m2[x].next = IF x = p THEN NULL ELSE h.mem[x].next
         /\ m2[x].prev = h.mem[x].prev
         /\ m2[x].size = h.mem[x].size
         /\ m2[x].used = h.mem[x].used
  BY <1>4, <1>5 DEF Dropped, NextTold
<1>8. IsGiven(h, g)
  BY <1>6, <1>7 DEF IsGiven, IsHeap, hd, p, d, last
<1> QED
  BY <1>2, <1>6, <1>8 DEF g

-----------------------------------------------------------------------------
(* Each of them keeps the shape of the heap.                                *)

LEMMA BlockFacts ==
    ASSUME NEW h, Shape(h), NEW a \in DOMAIN h.mem
    PROVE  /\ a \in Nat /\ a # NULL /\ h.mem[a].size \in Nat /\ h.mem[a].size >= 1
           /\ h.mem[a].used \in BOOLEAN /\ Behind(h, a) \in Nat /\ a + HEADER < Behind(h, a)
           /\ Behind(h, a) =< h.end /\ h.end \in Nat
           /\ h.mem[a].next \in DOMAIN h.mem \cup {NULL} /\ h.mem[a].prev \in DOMAIN h.mem \cup {NULL}
           /\ h.tail \in DOMAIN h.mem /\ h.head = 0 /\ 0 \in DOMAIN h.mem /\ Behind(h, h.tail) = h.end
<1>1. a \in Nat /\ h.end \in Nat /\ h.mem[a] \in HeaderType /\ HEADER \in Nat
  BY Sizes DEF Shape, Typed
<1>2. h.mem[a].size \in Nat /\ h.mem[a].size >= 1 /\ h.mem[a].used \in BOOLEAN
  BY <1>1 DEF HeaderType, Shape, Aligned
<1>3. Behind(h, a) \in Nat /\ a + HEADER < Behind(h, a)
  BY <1>1, <1>2 DEF Behind
<1>4. Behind(h, a) =< h.end
  BY DEF Shape, Disjoint
<1>5. h.tail \in DOMAIN h.mem /\ h.head = 0 /\ 0 \in DOMAIN h.mem /\ Behind(h, h.tail) = h.end
  BY DEF Shape, Ends
<1>6. h.mem[a].next \in DOMAIN h.mem \cup {NULL}
  BY DEF Shape, Onward
<1>7. h.mem[a].prev \in DOMAIN h.mem \cup {NULL}
  BY DEF Shape, Backward
<1>8. a # NULL
  BY <1>1 DEF NULL
<1> QED
  BY <1>1, <1>2, <1>3, <1>4, <1>5, <1>6, <1>7, <1>8

(* A block has one neighbour on each side, and they know each other.        *)
LEMMA Neighbours ==
    ASSUME NEW h, Shape(h), NEW a \in DOMAIN h.mem, NEW b \in DOMAIN h.mem
    PROVE  /\ Behind(h, a) = b <=> h.mem[a].next = b
           /\ Behind(h, a) = b <=> h.mem[b].prev = a
           /\ a = h.tail <=> h.mem[a].next = NULL
           /\ a = h.tail <=> Behind(h, a) = h.end
           /\ a < b => Behind(h, a) =< b
           /\ b # 0 => h.mem[b].prev # NULL
           /\ b = 0 => h.mem[b].prev = NULL
<1>1. /\ a \in Nat /\ b \in Nat /\ Behind(h, a) \in Nat /\ Behind(h, b) \in Nat /\ h.end \in Nat
      /\ a < Behind(h, a) /\ b < Behind(h, b) /\ Behind(h, a) =< h.end /\ Behind(h, b) =< h.end
      /\ Behind(h, h.tail) = h.end
  BY BlockFacts, Sizes
<1>2. NULL \notin DOMAIN h.mem /\ NULL \notin Nat
  BY BlockFacts DEF NULL
<1>3. IF a = h.tail THEN h.mem[a].next = NULL
      ELSE h.mem[a].next = Behind(h, a) /\ Behind(h, a) \in DOMAIN h.mem
  BY DEF Shape, Onward
<1>4. IF b = 0 THEN h.mem[b].prev = NULL
      ELSE h.mem[b].prev \in DOMAIN h.mem /\ Behind(h, h.mem[b].prev) = b
  BY DEF Shape, Backward
<1>5. \A x \in DOMAIN h.mem : \A y \in DOMAIN h.mem : x < y => Behind(h, x) =< y
  BY DEF Shape, Disjoint
<1>6. ASSUME h.mem[b].prev \in DOMAIN h.mem, Behind(h, h.mem[b].prev) = b, Behind(h, a) = b
      PROVE  h.mem[b].prev = a
  <2>1. PICK c \in DOMAIN h.mem : c = h.mem[b].prev
    BY <1>6
  <2>2. c \in Nat /\ c < Behind(h, c)
    BY BlockFacts, Sizes
  <2>3. ~(c < a) /\ ~(a < c)
    BY <1>1, <1>5, <1>6, <2>1, <2>2
  <2> QED
    BY <1>1, <2>1, <2>2, <2>3
<1>7. Behind(h, a) = b <=> h.mem[b].prev = a
  BY <1>1, <1>2, <1>4, <1>6
<1>8. Behind(h, a) = h.end => a = h.tail
  <2> SUFFICES ASSUME Behind(h, a) = h.end, a # h.tail PROVE FALSE
    OBVIOUS
  <2>1. PICK c \in DOMAIN h.mem : c = h.end
    BY <1>3
  <2>2. c \in Nat /\ c + HEADER < Behind(h, c) /\ Behind(h, c) =< h.end /\ Behind(h, c) \in Nat
    BY BlockFacts
  <2> QED
    BY <1>1, <2>1, <2>2, Sizes
<1>9. Behind(h, a) = b <=> h.mem[a].next = b
  BY <1>1, <1>2, <1>3
<1>10. (b # 0 => h.mem[b].prev # NULL) /\ (b = 0 => h.mem[b].prev = NULL)
  BY <1>2, <1>4
<1>11. (a = h.tail <=> h.mem[a].next = NULL) /\ (a = h.tail => Behind(h, a) = h.end)
  BY <1>1, <1>2, <1>3
<1> QED
  BY <1>5, <1>7, <1>8, <1>9, <1>10, <1>11

LEMMA MarkShape ==
    ASSUME NEW h, Shape(h), NEW g, Typed(g), NEW a, NEW v, IsMarked(h, g, a, v)
    PROVE  Shape(g)
<1>1. \A x \in DOMAIN h.mem : Behind(g, x) = Behind(h, x)
  BY DEF IsMarked, Behind
<1>2. Aligned(g)
  BY DEF Shape, Aligned, IsMarked
<1>3. Ends(g)
  BY <1>1 DEF Shape, Ends, IsMarked
<1>4. Onward(g)
  BY <1>1 DEF Shape, Onward, IsMarked
<1>5. Backward(g)
  BY <1>1 DEF Shape, Backward, IsMarked
<1>6. Disjoint(g)
  BY <1>1 DEF Shape, Disjoint, IsMarked
<1> QED
  BY <1>2, <1>3, <1>4, <1>5, <1>6 DEF Shape

LEMMA CutShape ==
    ASSUME NEW h, Shape(h), NEW g, Typed(g), NEW a \in DOMAIN h.mem, NEW size \in Nat,
           IsCut(h, g, a, size), size >= 1, size % ALIGN = 0, size + HEADER < h.mem[a].size
    PROVE  Shape(g) /\ a + HEADER + size \notin DOMAIN h.mem
<1> DEFINE d == DOMAIN h.mem
           b == a + HEADER + size
<1>1. /\ a \in Nat /\ b \in Nat /\ HEADER \in Nat \ {0} /\ h.end \in Nat /\ Behind(h, a) \in Nat
      /\ a < b /\ b + HEADER < Behind(h, a) /\ Behind(h, a) =< h.end
  BY BlockFacts, Sizes DEF Behind
<1>2. h.head = 0 /\ h.tail \in d /\ 0 \in d /\ Behind(h, h.tail) = h.end
  BY BlockFacts
<1>3. \A x \in d : /\ x \in Nat /\ Behind(h, x) \in Nat /\ x < Behind(h, x) /\ Behind(h, x) =< h.end
                   /\ x < a => Behind(h, x) =< a
                   /\ a < x => Behind(h, a) =< x
  BY BlockFacts, Neighbours, Sizes
<1>4. b \notin d
  BY <1>1, <1>3
<1>5. /\ DOMAIN g.mem = d \cup {b} /\ g.head = h.head /\ g.end = h.end
      /\ g.tail = IF h.tail = a THEN b ELSE h.tail
  BY DEF IsCut
<1>6. \A x \in d \cup {b} :
         /\ g.mem[x].next = IF x = b THEN h.mem[a].next ELSE IF x = a THEN b ELSE h.mem[x].next
         /\ g.mem[x].prev = IF x = b THEN a ELSE IF x = h.mem[a].next THEN b ELSE h.mem[x].prev
         /\ g.mem[x].size = IF x = b THEN h.mem[a].size - size - HEADER
                            ELSE IF x = a THEN size ELSE h.mem[x].size
  BY DEF IsCut
<1>7. Behind(g, a) = b /\ Behind(g, b) = Behind(h, a)
  <2>1. h.mem[a].size \in Nat
    BY BlockFacts
  <2>2. g.mem[a].size = size /\ g.mem[b].size = h.mem[a].size - size - HEADER
    BY <1>4, <1>6
  <2> QED
    BY <1>1, <2>1, <2>2 DEF Behind
<1>8. \A x \in d : x # a => Behind(g, x) = Behind(h, x)
  BY <1>4, <1>6 DEF Behind
<1>9. /\ \A x \in d : (Behind(h, a) = x <=> h.mem[a].next = x) /\ (Behind(h, a) = x <=> h.mem[x].prev = a)
      /\ a = h.tail <=> h.mem[a].next = NULL
      /\ a # h.tail => h.mem[a].next = Behind(h, a) /\ Behind(h, a) \in d
  BY Neighbours DEF Shape, Onward
<1>10. NULL \notin d /\ b # NULL
  BY <1>1, <1>3 DEF NULL
<1> HIDE DEF b, d
<1>11. Aligned(g)
  <2>1. b % ALIGN = 0
    <3>1. a % ALIGN = 0 /\ a \in Nat
      BY <1>1 DEF Shape, Aligned
    <3> QED
      BY <3>1, AlignedBehind DEF b
  <2>2. g.mem[b].size >= 1
    <3>1. h.mem[a].size \in Nat
      BY BlockFacts
    <3> QED
      BY <1>1, <1>6, <3>1
  <2>3. \A x \in d : x % ALIGN = 0 /\ h.mem[x].size >= 1
    BY DEF Shape, Aligned, d
  <2>4. \A x \in d : g.mem[x].size >= 1
    BY <1>4, <1>6, <2>3
  <2>5. h.end =< LIMIT /\ h.end % PAGE_SIZE = 0
    BY DEF Shape, Aligned
  <2> QED
    BY <1>5, <2>1, <2>2, <2>3, <2>4, <2>5 DEF Aligned
<1>12. Ends(g)
  <2>1. g.tail \in d \cup {b} /\ Behind(g, g.tail) = h.end
    BY <1>2, <1>5, <1>7, <1>8
  <2> QED
    BY <1>2, <1>5, <2>1 DEF Ends
<1>13. Onward(g)
  <2> SUFFICES ASSUME NEW x \in d \cup {b}
               PROVE  IF x = g.tail THEN g.mem[x].next = NULL
                      ELSE g.mem[x].next = Behind(g, x) /\ Behind(g, x) \in d \cup {b}
    BY <1>5 DEF Onward
  <2>1. CASE x = b
    BY <1>2, <1>4, <1>5, <1>6, <1>7, <1>9, <2>1
  <2>2. CASE x = a
    BY <1>1, <1>4, <1>5, <1>6, <1>7, <2>2 DEF d
  <2>3. CASE x # a /\ x # b
    <3>1. IF x = h.tail THEN h.mem[x].next = NULL
          ELSE h.mem[x].next = Behind(h, x) /\ Behind(h, x) \in d
      BY <2>3 DEF Shape, Onward, d
    <3>2. x = g.tail <=> x = h.tail
      BY <1>5, <2>3
    <3> QED
      BY <1>6, <1>8, <2>3, <3>1, <3>2
  <2> QED
    BY <2>1, <2>2, <2>3
<1>14. Backward(g)
  <2> SUFFICES ASSUME NEW x \in d \cup {b}
               PROVE  IF x = 0 THEN g.mem[x].prev = NULL
                      ELSE g.mem[x].prev \in d \cup {b} /\ Behind(g, g.mem[x].prev) = x
    BY <1>5 DEF Backward
  <2>1. CASE x = b
    BY <1>1, <1>4, <1>6, <1>7, <2>1 DEF d
  <2>2. CASE x # b /\ x = h.mem[a].next
    <3>1. x \in d /\ Behind(h, a) = x
      BY <1>9, <2>2
    <3> QED
      BY <1>1, <1>6, <1>7, <2>2, <3>1
  <2>3. CASE x # b /\ x # h.mem[a].next
    <3>1. x \in d /\ g.mem[x].prev = h.mem[x].prev
      BY <1>6, <2>3
    <3>2. IF x = 0 THEN h.mem[x].prev = NULL
          ELSE h.mem[x].prev \in d /\ Behind(h, h.mem[x].prev) = x
      BY <3>1 DEF Shape, Backward, d
    <3>3. h.mem[x].prev # a
      BY <1>9, <2>3, <3>1
    <3> QED
      BY <1>8, <3>1, <3>2, <3>3
  <2> QED
    BY <2>1, <2>2, <2>3
<1>15. Disjoint(g)
  <2>1. \A x \in d \cup {b} : Behind(g, x) =< g.end
    BY <1>1, <1>3, <1>5, <1>7, <1>8
  <2>2. ASSUME NEW x \in d \cup {b}, NEW y \in d \cup {b}, x < y
        PROVE  Behind(g, x) =< y
    <3>1. \A u \in d : \A v \in d : u < v => Behind(h, u) =< v
      BY Neighbours DEF d
    <3>2. a \in d
      BY DEF d
    <3>3. CASE x = b
      BY <1>1, <1>3, <1>7, <2>2, <3>3
    <3>4. CASE x = a
      BY <1>1, <1>3, <1>7, <2>2, <3>4
    <3>5. CASE x # a /\ x # b
      BY <1>1, <1>3, <1>8, <2>2, <3>1, <3>2, <3>5
    <3> QED
      BY <3>3, <3>4, <3>5
  <2> QED
    BY <1>5, <2>1, <2>2 DEF Disjoint
<1> QED
  BY <1>4, <1>11, <1>12, <1>13, <1>14, <1>15 DEF Shape, b, d

LEMMA AbsorbShape ==
    ASSUME NEW h, Shape(h), NEW g, Typed(g), NEW a \in DOMAIN h.mem,
           h.mem[a].next \in DOMAIN h.mem, IsAbsorb(h, g, a)
    PROVE  Shape(g)
<1> DEFINE d == DOMAIN h.mem
           b == h.mem[a].next
           n == h.mem[b].next
<1>1. /\ a \in Nat /\ b \in d /\ b \in Nat /\ HEADER \in Nat \ {0} /\ h.end \in Nat
      /\ Behind(h, a) = b /\ Behind(h, b) \in Nat /\ a < b /\ b < Behind(h, b) /\ Behind(h, b) =< h.end
      /\ h.mem[b].prev = a
  BY BlockFacts, Neighbours, Sizes
<1>2. h.head = 0 /\ h.tail \in d /\ 0 \in d /\ Behind(h, h.tail) = h.end
  BY BlockFacts
<1>3. \A x \in d : /\ x \in Nat /\ Behind(h, x) \in Nat /\ x < Behind(h, x) /\ Behind(h, x) =< h.end
                   /\ a < x => b =< x
                   /\ b < x => Behind(h, b) =< x
                   /\ Behind(h, x) = b => x = a
                   /\ h.mem[x].prev = b => x = n
                   /\ h.mem[x].prev = a => x = b
                   /\ Behind(h, b) = x <=> n = x
  BY <1>1, BlockFacts, Neighbours, Sizes
<1>4. /\ DOMAIN g.mem = d \ {b} /\ g.head = h.head /\ g.end = h.end
      /\ g.tail = IF n = NULL THEN a ELSE h.tail
  BY DEF IsAbsorb
<1>5. \A x \in d \ {b} :
         /\ g.mem[x].next = IF x = a THEN n ELSE h.mem[x].next
         /\ g.mem[x].prev = IF x = n THEN a ELSE h.mem[x].prev
         /\ g.mem[x].size = IF x = a THEN h.mem[a].size + h.mem[b].size + HEADER ELSE h.mem[x].size
  BY DEF IsAbsorb
<1>6. Behind(g, a) = Behind(h, b) /\ a \in d \ {b}
  <2>1. h.mem[a].size \in Nat /\ h.mem[b].size \in Nat
    BY <1>1, BlockFacts
  <2>2. a \in d \ {b}
    BY <1>1
  <2>3. g.mem[a].size = h.mem[a].size + h.mem[b].size + HEADER
    BY <1>5, <2>2
  <2>4. b = a + HEADER + h.mem[a].size /\ Behind(h, b) = b + HEADER + h.mem[b].size
    BY <1>1 DEF Behind
  <2>5. Behind(g, a) = a + HEADER + g.mem[a].size
    BY DEF Behind
  <2> HIDE DEF b
  <2> QED
    BY <1>1, <2>1, <2>2, <2>3, <2>4, <2>5
<1>7. \A x \in d \ {b} : x # a => Behind(g, x) = Behind(h, x)
  BY <1>5 DEF Behind
<1>8. /\ b = h.tail <=> n = NULL
      /\ a # h.tail
      /\ b # h.tail => n = Behind(h, b) /\ Behind(h, b) \in d
  BY <1>1, Neighbours, BlockFacts DEF Shape, Onward
<1>9. NULL \notin d
  BY BlockFacts
<1> HIDE DEF b, d, n
<1>10. Aligned(g)
  <2>1. \A x \in d : x % ALIGN = 0 /\ h.mem[x].size \in Nat /\ h.mem[x].size >= 1
    BY BlockFacts DEF Shape, Aligned, d
  <2>2. \A x \in d \ {b} : g.mem[x].size >= 1
    <3>1. a \in d /\ b \in d /\ HEADER \in Nat
      BY <1>1, <1>6
    <3> QED
      BY <1>5, <2>1, <3>1
  <2>3. h.end =< LIMIT /\ h.end % PAGE_SIZE = 0
    BY DEF Shape, Aligned
  <2> QED
    BY <1>4, <2>1, <2>2, <2>3 DEF Aligned
<1>11. Ends(g)
  <2>1. g.tail \in d \ {b} /\ Behind(g, g.tail) = h.end
    BY <1>2, <1>4, <1>6, <1>7, <1>8
  <2>2. 0 # b
    BY <1>1
  <2> QED
    BY <1>2, <1>4, <2>1, <2>2 DEF Ends
<1>12. Onward(g)
  <2> SUFFICES ASSUME NEW x \in d \ {b}
               PROVE  IF x = g.tail THEN g.mem[x].next = NULL
                      ELSE g.mem[x].next = Behind(g, x) /\ Behind(g, x) \in d \ {b}
    BY <1>4 DEF Onward
  <2>1. CASE x = a
    BY <1>1, <1>4, <1>5, <1>6, <1>8, <2>1
  <2>2. CASE x # a
    <3>1. IF x = h.tail THEN h.mem[x].next = NULL
          ELSE h.mem[x].next = Behind(h, x) /\ Behind(h, x) \in d
      BY DEF Shape, Onward, d
    <3>2. x = g.tail <=> x = h.tail
      BY <1>4, <1>8, <2>2
    <3>3. Behind(h, x) # b
      BY <1>3, <2>2
    <3> QED
      BY <1>5, <1>7, <2>2, <3>1, <3>2, <3>3
  <2> QED
    BY <2>1, <2>2
<1>13. Backward(g)
  <2> SUFFICES ASSUME NEW x \in d \ {b}
               PROVE  IF x = 0 THEN g.mem[x].prev = NULL
                      ELSE g.mem[x].prev \in d \ {b} /\ Behind(g, g.mem[x].prev) = x
    BY <1>4 DEF Backward
  <2>1. CASE x = n
    <3>1. Behind(h, b) = x /\ x # 0
      BY <1>1, <1>3, <2>1
    <3> QED
      BY <1>5, <1>6, <2>1, <3>1
  <2>2. CASE x # n
    <3>1. IF x = 0 THEN h.mem[x].prev = NULL
          ELSE h.mem[x].prev \in d /\ Behind(h, h.mem[x].prev) = x
      BY DEF Shape, Backward, d
    <3>2. h.mem[x].prev # b /\ h.mem[x].prev # a
      BY <1>3, <2>2
    <3> QED
      BY <1>5, <1>7, <2>2, <3>1, <3>2
  <2> QED
    BY <2>1, <2>2
<1>14. Disjoint(g)
  <2>1. \A x \in d \ {b} : Behind(g, x) =< g.end
    BY <1>1, <1>3, <1>4, <1>6, <1>7
  <2>2. ASSUME NEW x \in d \ {b}, NEW y \in d \ {b}, x < y
        PROVE  Behind(g, x) =< y
    <3>1. \A u \in d : \A v \in d : u < v => Behind(h, u) =< v
      BY Neighbours DEF d
    <3>2. CASE x = a
      <4>1. y \in Nat /\ b =< y /\ y # b
        BY <1>3, <2>2, <3>2
      <4>2. b < y
        BY <1>1, <4>1
      <4> QED
        BY <1>3, <1>6, <3>2, <4>2
    <3>3. CASE x # a
      BY <1>7, <2>2, <3>1, <3>3
    <3> QED
      BY <3>2, <3>3
  <2> QED
    BY <1>4, <2>1, <2>2 DEF Disjoint
<1> QED
  BY <1>10, <1>11, <1>12, <1>13, <1>14 DEF Shape

LEMMA GrowShape ==
    ASSUME NEW h, Shape(h), NEW g, Typed(g), NEW n \in Nat, n >= 1, IsGrown(h, g, n),
           h.end + Up(n + HEADER, PAGE_SIZE) =< LIMIT
    PROVE  Shape(g) /\ h.end \notin DOMAIN h.mem
<1> DEFINE d == DOMAIN h.mem
           e == h.end
           size == Up(n + HEADER, PAGE_SIZE)
<1>1. /\ HEADER \in Nat \ {0} /\ PAGE_SIZE \in Nat \ {0} /\ e \in Nat
      /\ size \in Nat /\ size >= n + HEADER /\ size % PAGE_SIZE = 0
  <2>1. HEADER \in Nat \ {0} /\ PAGE_SIZE \in Nat \ {0} /\ n + HEADER \in Nat
    BY Sizes
  <2>2. e \in Nat
    BY DEF Shape, Typed
  <2> HIDE DEF size
  <2> QED
    BY <2>1, <2>2, UpFacts DEF size
<1>2. \A x \in d : /\ x \in Nat /\ Behind(h, x) \in Nat /\ x < Behind(h, x) /\ Behind(h, x) =< e
                   /\ h.head = 0 /\ h.tail \in d /\ 0 \in d /\ Behind(h, h.tail) = e
  BY BlockFacts, Sizes
<1>3. e \notin d /\ NULL # e /\ NULL # 0
  BY <1>1, <1>2 DEF NULL
<1>4. /\ DOMAIN g.mem = d \cup {e} /\ g.tail = e /\ g.end = e + size
      /\ g.head = IF h.head = NULL THEN e ELSE h.head
  BY DEF IsGrown
<1>5. \A x \in d \cup {e} :
         /\ g.mem[x].next = IF x = e THEN NULL ELSE IF x = h.tail THEN e ELSE h.mem[x].next
         /\ g.mem[x].prev = IF x = e THEN h.tail ELSE h.mem[x].prev
         /\ g.mem[x].size = IF x = e THEN size - HEADER ELSE h.mem[x].size
  BY DEF IsGrown
<1> HIDE DEF size
<1>6. Behind(g, e) = e + size /\ e + size \in Nat /\ e < e + size
  <2>1. g.mem[e].size = size - HEADER
    BY <1>5
  <2> QED
    BY <1>1, <2>1 DEF Behind
<1>7. \A x \in d : Behind(g, x) = Behind(h, x)
  BY <1>3, <1>5 DEF Behind
<1>8. e % PAGE_SIZE = 0 /\ e + size =< LIMIT
  BY DEF Shape, Aligned, size
<1>9. \/ h.head = NULL /\ h.tail = NULL /\ e = 0 /\ d = {}
      \/ h.head = 0 /\ 0 \in d /\ h.tail \in d /\ Behind(h, h.tail) = e
  BY DEF Shape, Ends
<1> HIDE DEF e, d
<1>10. Aligned(g)
  <2>1. e % ALIGN = 0
    BY <1>1, <1>8, ModTrans, TrunkAssumption
  <2>2. (e + size) % PAGE_SIZE = 0
    BY <1>1, <1>8, ModSum
  <2>3. \A x \in d : x % ALIGN = 0 /\ h.mem[x].size >= 1
    BY DEF Shape, Aligned, d
  <2>4. \A x \in d \cup {e} : g.mem[x].size >= 1
    BY <1>1, <1>5, <2>3
  <2> QED
    BY <1>4, <1>8, <2>1, <2>2, <2>3, <2>4 DEF Aligned
<1>11. Ends(g)
  BY <1>3, <1>4, <1>6, <1>9 DEF Ends
<1>12. Onward(g)
  <2> SUFFICES ASSUME NEW x \in d \cup {e}
               PROVE  IF x = g.tail THEN g.mem[x].next = NULL
                      ELSE g.mem[x].next = Behind(g, x) /\ Behind(g, x) \in d \cup {e}
    BY <1>4 DEF Onward
  <2>1. CASE x = e
    BY <1>4, <1>5, <2>1
  <2>2. CASE x # e
    <3>1. x \in d /\ IF x = h.tail THEN h.mem[x].next = NULL
                     ELSE h.mem[x].next = Behind(h, x) /\ Behind(h, x) \in d
      BY <2>2 DEF Shape, Onward, d
    <3> QED
      BY <1>2, <1>4, <1>5, <1>7, <2>2, <3>1
  <2> QED
    BY <2>1, <2>2
<1>13. Backward(g)
  <2> SUFFICES ASSUME NEW x \in d \cup {e}
               PROVE  IF x = 0 THEN g.mem[x].prev = NULL
                      ELSE g.mem[x].prev \in d \cup {e} /\ Behind(g, g.mem[x].prev) = x
    BY <1>4 DEF Backward
  <2>1. CASE x = e
    BY <1>3, <1>5, <1>7, <1>9, <2>1
  <2>2. CASE x # e
    <3>1. x \in d /\ IF x = 0 THEN h.mem[x].prev = NULL
                     ELSE h.mem[x].prev \in d /\ Behind(h, h.mem[x].prev) = x
      BY <2>2 DEF Shape, Backward, d
    <3> QED
      BY <1>5, <1>7, <2>2, <3>1
  <2> QED
    BY <2>1, <2>2
<1>14. Disjoint(g)
  <2>1. \A x \in d \cup {e} : Behind(g, x) =< g.end
    BY <1>1, <1>2, <1>4, <1>6, <1>7
  <2>2. ASSUME NEW x \in d \cup {e}, NEW y \in d \cup {e}, x < y
        PROVE  Behind(g, x) =< y
    <3>1. \A u \in d : \A v \in d : u < v => Behind(h, u) =< v
      BY Neighbours DEF d
    <3>2. x \in d
      BY <1>1, <1>2, <2>2
    <3> QED
      BY <1>1, <1>2, <1>7, <2>2, <3>1, <3>2
  <2> QED
    BY <1>4, <2>1, <2>2 DEF Disjoint
<1> QED
  BY <1>3, <1>10, <1>11, <1>12, <1>13, <1>14 DEF Shape, e, d

(* A tail that starts a page ends one too: all of it is whole pages.        *)
LEMMA TailIsPages ==
    ASSUME NEW h, Shape(h), h.tail \in DOMAIN h.mem, h.tail % PAGE_SIZE = 0
    PROVE  h.end - ((h.mem[h.tail].size + HEADER) - ((h.mem[h.tail].size + HEADER) % PAGE_SIZE)) = h.tail
<1> DEFINE t == h.tail
           size == h.mem[t].size + HEADER
<1>1. t \in Nat /\ h.end \in Nat /\ h.mem[t].size \in Nat /\ Behind(h, t) = h.end
  BY BlockFacts
<1>2. size \in Nat /\ h.end = t + size
  BY <1>1, Sizes DEF Behind
<1>3. h.end % PAGE_SIZE = 0 /\ PAGE_SIZE \in Nat \ {0}
  BY Sizes DEF Shape, Aligned
<1> HIDE DEF size
<1>4. size % PAGE_SIZE = 0
  <2>1. t =< h.end /\ size = h.end - t
    BY <1>1, <1>2
  <2> QED
    BY <1>1, <1>3, <2>1, ModDiff
<1>5. h.end - (size - (size % PAGE_SIZE)) = t
  BY <1>1, <1>2, <1>4
<1> QED
  BY <1>5 DEF size

LEMMA GiveShape ==
    ASSUME NEW h, Shape(h), NEW g, Typed(g), h.tail \in DOMAIN h.mem, h.tail % PAGE_SIZE = 0,
           IsGiven(h, g)
    PROVE  Shape(g)
<1> DEFINE d == DOMAIN h.mem
           t == h.tail
           p == h.mem[t].prev
<1>1. t \in Nat /\ h.end \in Nat /\ Behind(h, t) = h.end /\ h.head = 0 /\ 0 \in d /\ t \in d /\ NULL # 0
  BY BlockFacts DEF NULL
<1>2. /\ DOMAIN g.mem = d \ {t} /\ g.tail = p /\ g.end = t
      /\ g.head = IF p = NULL THEN NULL ELSE h.head
  BY TailIsPages DEF IsGiven
<1>3. \A x \in d \ {t} :
         /\ g.mem[x].next = IF x = p THEN NULL ELSE h.mem[x].next
         /\ g.mem[x].prev = h.mem[x].prev
         /\ g.mem[x].size = h.mem[x].size
  BY DEF IsGiven
<1>4. \A x \in d : /\ x \in Nat /\ Behind(h, x) \in Nat /\ x < Behind(h, x) /\ Behind(h, x) =< h.end
                   /\ Behind(h, x) = t <=> p = x
                   /\ t < x => Behind(h, t) =< x
                   /\ x < t => Behind(h, x) =< t
                   /\ h.mem[x].prev = t => Behind(h, t) = x
  BY BlockFacts, Neighbours, Sizes
<1>5. \A x \in d \ {t} : x < t /\ Behind(h, x) =< t
  <2> SUFFICES ASSUME NEW x \in d \ {t} PROVE x < t
    BY <1>4
  <2>1. x \in Nat /\ x < Behind(h, x) /\ Behind(h, x) =< h.end /\ Behind(h, x) \in Nat
    BY <1>4
  <2>2. ~(t < x)
    BY <1>1, <1>4, <2>1
  <2> QED
    BY <1>1, <2>1, <2>2
<1>6. \A x \in d \ {t} : Behind(g, x) = Behind(h, x)
  BY <1>3 DEF Behind
<1>7. IF t = 0 THEN p = NULL ELSE p \in d /\ Behind(h, p) = t
  BY <1>1 DEF Shape, Backward
<1>8. t # 0 => p \in d \ {t} /\ p # NULL
  BY <1>1, <1>4, <1>7, BlockFacts
<1> HIDE DEF p, d
<1>9. Aligned(g)
  <2>1. \A x \in d \ {t} : x % ALIGN = 0 /\ g.mem[x].size >= 1
    BY <1>3 DEF Shape, Aligned, d
  <2>2. t =< h.end
    BY <1>1, <1>4
  <2>3. h.end =< LIMIT /\ h.end \in Nat /\ LIMIT \in Nat
    BY <1>1, Sizes DEF Shape, Aligned
  <2>4. t =< LIMIT
    BY <1>1, <2>2, <2>3
  <2> QED
    BY <1>2, <2>1, <2>4 DEF Aligned
<1>10. Ends(g)
  <2>1. CASE t = 0
    <3>1. d \ {t} = {}
      BY <1>4, <1>5, <2>1
    <3> QED
      BY <1>2, <1>7, <2>1, <3>1 DEF Ends
  <2>2. CASE t # 0
    BY <1>1, <1>2, <1>6, <1>7, <1>8, <2>2 DEF Ends
  <2> QED
    BY <2>1, <2>2
<1>11. Onward(g)
  <2> SUFFICES ASSUME NEW x \in d \ {t}
               PROVE  IF x = p THEN g.mem[x].next = NULL
                      ELSE g.mem[x].next = Behind(g, x) /\ Behind(g, x) \in d \ {t}
    BY <1>2 DEF Onward
  <2>1. h.mem[x].next = Behind(h, x) /\ Behind(h, x) \in d
    BY DEF Shape, Onward, d
  <2> QED
    BY <1>3, <1>4, <1>6, <2>1
<1>12. Backward(g)
  <2> SUFFICES ASSUME NEW x \in d \ {t}
               PROVE  IF x = 0 THEN g.mem[x].prev = NULL
                      ELSE g.mem[x].prev \in d \ {t} /\ Behind(g, g.mem[x].prev) = x
    BY <1>2 DEF Backward
  <2>1. IF x = 0 THEN h.mem[x].prev = NULL
        ELSE h.mem[x].prev \in d /\ Behind(h, h.mem[x].prev) = x
    BY DEF Shape, Backward, d
  <2>2. h.mem[x].prev # t
    <3>1. x \in Nat /\ x < Behind(h, x) /\ Behind(h, x) =< h.end /\ Behind(h, x) \in Nat
      BY <1>4
    <3> QED
      BY <1>1, <1>4, <3>1
  <2> QED
    BY <1>3, <1>6, <2>1, <2>2
<1>13. Disjoint(g)
  <2>1. \A u \in d : \A v \in d : u < v => Behind(h, u) =< v
    BY Neighbours DEF d
  <2> QED
    BY <1>2, <1>5, <1>6, <2>1 DEF Disjoint
<1> QED
  BY <1>9, <1>10, <1>11, <1>12, <1>13 DEF Shape

(* trunk_malloc comes by every block: one it did not come by would have a   *)
(* lowest one, and the block in front of that leads to it.                  *)
LEMMA LowestOf ==
    ASSUME NEW S \in SUBSET Nat, S # {}
    PROVE  \E x \in S : \A y \in S : x =< y
<1>1. PICK x \in S : \A y \in S : ~ (<<y, x>> \in OpToRel(<, Nat))
  BY WFMin, NatLessThanWellFounded
<1>2. \A y \in S : ~ (y < x)
  BY <1>1, Zenon DEF OpToRel
<1> QED
  BY <1>2

LEMMA AllListed ==
    ASSUME NEW h, Shape(h)
    PROVE  Listed(h) = DOMAIN h.mem
<1> DEFINE d == DOMAIN h.mem
<1>1. ASSUME NEW S \in SUBSET d, h.head = NULL \/ h.head \in S,
             \A a \in S : h.mem[a].next = NULL \/ h.mem[a].next \in S
      PROVE  d \subseteq S
  <2> SUFFICES ASSUME d \ S # {} PROVE FALSE
    OBVIOUS
  <2>1. d \subseteq Nat
    BY DEF Shape, Typed
  <2>2. PICK x \in d \ S : \A y \in d \ S : x =< y
    <3>1. d \ S \in SUBSET Nat
      BY <2>1
    <3> HIDE DEF d
    <3> QED
      BY <3>1, LowestOf
  <2>3. x # 0
    BY <1>1, <2>2, BlockFacts DEF NULL
  <2>4. PICK p \in d : p = h.mem[x].prev /\ Behind(h, p) = x
    BY <2>2, <2>3 DEF Shape, Backward
  <2>5. p < x /\ p \in Nat /\ x \in Nat
    BY <2>2, <2>4, BlockFacts, Sizes
  <2>6. p \in S
    BY <2>2, <2>4, <2>5
  <2>7. h.mem[p].next = x /\ x # NULL
    BY <2>2, <2>4, Neighbours, BlockFacts
  <2> QED
    BY <1>1, <2>2, <2>6, <2>7
<1> QED
  BY <1>1 DEF Listed

-----------------------------------------------------------------------------
(* try_break, try_merge and try_shrink keep the whole invariant.            *)

HeapOK(h, f) == Shape(h) /\ Apart(h) /\ Holds(h, f)

LEMMA RoomToCut ==
    ASSUME NEW n \in Nat, n >= 1, NEW s \in Nat, HEADER + n =< s \div 2
    PROVE  Up(n, ALIGN) \in Nat /\ Up(n, ALIGN) >= n /\ Up(n, ALIGN) % ALIGN = 0
           /\ Up(n, ALIGN) + HEADER < s
<1> DEFINE u == Up(n, ALIGN)
           m == HEADER + n
<1>1. ALIGN \in Nat \ {0} /\ HEADER \in Nat /\ ALIGN =< HEADER
  BY Sizes
<1>2. u \in Nat /\ u % ALIGN = 0 /\ u >= n /\ u < n + ALIGN
  BY <1>1, UpFacts
<1>3. 2 * m =< s
  <2>1. m \in Nat /\ m =< s \div 2
    BY <1>1
  <2> HIDE DEF m
  <2> QED
    BY <2>1, Half
<1> HIDE DEF u
<1>4. u + HEADER < s
  BY <1>1, <1>2, <1>3
<1> QED
  BY <1>2, <1>4 DEF u

LEMMA BreakKeeps ==
    ASSUME NEW h, NEW f, HeapOK(h, f), NEW a \in DOMAIN f, ~Free(h, h.mem[a].next)
    PROVE  HeapOK(Break(h, a, f[a]), f)
<1> DEFINE n == f[a]
           d == DOMAIN h.mem
           size == Up(n, ALIGN)
           b == a + HEADER + size
           g == Cut(h, a, size)
<1>1. Shape(h) /\ Apart(h) /\ Holds(h, f)
  BY DEF HeapOK
<1>2. a \in d /\ h.mem[a].used /\ n \in Nat /\ n >= 1 /\ n =< h.mem[a].size
  BY <1>1, Sizes DEF Holds
<1>3. h.mem[a].size \in Nat /\ h.mem[a].next \in d \cup {NULL} /\ a \in Nat
  BY <1>1, <1>2, BlockFacts
<1>4. CASE HEADER + n > h.mem[a].size \div 2
  BY <1>4 DEF Break
<1>5. CASE ~(HEADER + n > h.mem[a].size \div 2)
  <2>1. Break(h, a, n) = g
    BY <1>5 DEF Break
  <2>2. HEADER + n =< h.mem[a].size \div 2
    <3>1. HEADER \in Nat
      BY Sizes
    <3>2. h.mem[a].size \div 2 \in Nat
      BY <1>3
    <3> QED
      BY <1>2, <1>5, <3>1, <3>2
  <2>3. size \in Nat /\ size >= n /\ size % ALIGN = 0 /\ size + HEADER < h.mem[a].size
    BY <1>2, <1>3, <2>2, RoomToCut
  <2>4. size >= 1
    BY <1>2, <2>3
  <2> HIDE DEF size, n
  <2>5. Typed(g) /\ IsCut(h, g, a, size)
    BY <1>1, <1>2, <1>3, <2>3, CutFacts DEF Shape
  <2> HIDE DEF g
  <2>6. Shape(g) /\ b \notin d
    BY <1>1, <1>2, <2>3, <2>4, <2>5, CutShape
  <2>7. DOMAIN g.mem = d \cup {b} /\ a # b
    BY <1>2, <2>5, <2>6 DEF IsCut
  <2>8. \A x \in d \cup {b} :
           /\ g.mem[x].next = IF x = b THEN h.mem[a].next ELSE IF x = a THEN b ELSE h.mem[x].next
           /\ g.mem[x].size = IF x = b THEN h.mem[a].size - size - HEADER
                              ELSE IF x = a THEN size ELSE h.mem[x].size
           /\ g.mem[x].used = IF x = b THEN FALSE ELSE h.mem[x].used
    BY <2>5 DEF IsCut
  <2> HIDE DEF b
  <2>9. \A x \in d \cup {NULL} : Free(g, x) <=> Free(h, x)
    BY <2>6, <2>8 DEF Free
  <2>10. Apart(g)
    <3> SUFFICES ASSUME NEW x \in d \cup {b}, ~g.mem[x].used
                 PROVE  ~Free(g, g.mem[x].next)
      BY <2>7 DEF Apart
    <3>1. CASE x = b
      BY <1>3, <2>8, <2>9, <3>1
    <3>2. CASE x # b
      <4>1. x \in d /\ ~h.mem[x].used /\ x # a
        BY <1>2, <2>8, <3>2
      <4>2. ~Free(h, h.mem[x].next) /\ h.mem[x].next \in d \cup {NULL}
        BY <1>1, <4>1, BlockFacts DEF Apart
      <4> QED
        BY <2>8, <2>9, <3>2, <4>1, <4>2
    <3> QED
      BY <3>1, <3>2
  <2>11. Holds(g, f)
    <3>1. \A x \in d : h.mem[x].used <=> x \in DOMAIN f
      BY <1>1 DEF Holds
    <3>2. DOMAIN f \subseteq d /\ f = [x \in DOMAIN f |-> f[x]]
      BY <1>1 DEF Holds
    <3>3. \A x \in DOMAIN g.mem : g.mem[x].used <=> x \in DOMAIN f
      BY <2>6, <2>7, <2>8, <3>1, <3>2
    <3>4. \A x \in DOMAIN f : f[x] \in SIZES /\ f[x] =< g.mem[x].size
      <4> SUFFICES ASSUME NEW x \in DOMAIN f PROVE f[x] \in SIZES /\ f[x] =< g.mem[x].size
        OBVIOUS
      <4>1. f[x] \in SIZES /\ f[x] =< h.mem[x].size /\ x \in d /\ x # b
        BY <1>1, <2>6, <3>2 DEF Holds
      <4>2. CASE x = a
        BY <2>3, <2>8, <4>1, <4>2 DEF n
      <4>3. CASE x # a
        BY <2>8, <4>1, <4>3
      <4> QED
        BY <4>2, <4>3
    <3> QED
      BY <2>7, <3>2, <3>3, <3>4 DEF Holds
  <2> QED
    BY <2>1, <2>6, <2>10, <2>11 DEF HeapOK, n
<1> QED
  BY <1>4, <1>5

(* One merge: the other free neighbours stay as they were.                  *)
LEMMA AbsorbKeeps ==
    ASSUME NEW h, Shape(h), NEW f, Holds(h, f), NEW a \in DOMAIN h.mem, Free(h, h.mem[a].next),
           h.mem[a].next # NULL
    PROVE  LET b == h.mem[a].next
               g == Absorb(h, a)
           IN  /\ b \in DOMAIN h.mem /\ Shape(g) /\ Holds(g, f) /\ IsAbsorb(h, g, a)
               /\ \A x \in (DOMAIN h.mem \ {b}) \cup {NULL} : Free(g, x) <=> Free(h, x)
<1> DEFINE d == DOMAIN h.mem
           b == h.mem[a].next
           n == h.mem[b].next
           g == Absorb(h, a)
<1>1. b \in d /\ n \in d \cup {NULL} /\ ~h.mem[b].used
  BY BlockFacts DEF Free
<1>2. Typed(g) /\ IsAbsorb(h, g, a)
  BY <1>1, AbsorbFacts DEF Shape
<1> HIDE DEF g
<1>3. Shape(g)
  BY <1>1, <1>2, AbsorbShape
<1>4. DOMAIN g.mem = d \ {b}
  BY <1>2 DEF IsAbsorb
<1>5. \A x \in d \ {b} :
         /\ g.mem[x].size = IF x = a THEN h.mem[a].size + h.mem[b].size + HEADER ELSE h.mem[x].size
         /\ g.mem[x].used = h.mem[x].used
  BY <1>2 DEF IsAbsorb
<1>6. \A x \in (d \ {b}) \cup {NULL} : Free(g, x) <=> Free(h, x)
  BY <1>5 DEF Free
<1>7. Holds(g, f)
  <2>1. DOMAIN f \subseteq d /\ f = [x \in DOMAIN f |-> f[x]]
    BY DEF Holds
  <2>2. \A x \in d : h.mem[x].used <=> x \in DOMAIN f
    BY DEF Holds
  <2>3. DOMAIN f \subseteq d \ {b}
    BY <1>1, <2>1, <2>2
  <2>4. \A x \in DOMAIN g.mem : g.mem[x].used <=> x \in DOMAIN f
    BY <1>4, <1>5, <2>2
  <2>5. \A x \in DOMAIN f : f[x] \in SIZES /\ f[x] =< g.mem[x].size
    <3> SUFFICES ASSUME NEW x \in DOMAIN f PROVE f[x] \in SIZES /\ f[x] =< g.mem[x].size
      OBVIOUS
    <3>1. f[x] \in SIZES /\ f[x] =< h.mem[x].size /\ f[x] \in Nat
      BY Sizes DEF Holds
    <3>2. x \in d \ {b}
      BY <2>3
    <3>3. h.mem[x].size \in Nat /\ h.mem[b].size \in Nat /\ HEADER \in Nat
      BY <1>1, <3>2, BlockFacts, Sizes
    <3>4. g.mem[x].size = IF x = a THEN h.mem[a].size + h.mem[b].size + HEADER ELSE h.mem[x].size
      BY <1>5, <3>2
    <3> HIDE DEF b
    <3>5. CASE x = a
      BY <3>1, <3>3, <3>4, <3>5
    <3>6. CASE x # a
      BY <3>1, <3>4, <3>6
    <3> QED
      BY <3>1, <3>5, <3>6
  <2> QED
    BY <1>4, <2>1, <2>3, <2>4, <2>5 DEF Holds
<1> QED
  BY <1>1, <1>2, <1>3, <1>6, <1>7 DEF g

(* Only the free block a may have free neighbours.                          *)
ApartBut(h, a) ==
    \A x \in DOMAIN h.mem :
        ~h.mem[x].used /\ x # a /\ h.mem[x].next # a => ~Free(h, h.mem[x].next)

LEMMA MergeKeeps ==
    ASSUME NEW h, Shape(h), NEW f, Holds(h, f), NEW a \in DOMAIN h.mem, ~h.mem[a].used,
           ApartBut(h, a)
    PROVE  HeapOK(Merge(h, a), f)
<1> DEFINE right == IF Free(h, h.mem[a].next) THEN Absorb(h, a) ELSE h
           p == h.mem[a].prev
<1>1. a \in Nat /\ a # NULL /\ p \in DOMAIN h.mem \cup {NULL} /\ NULL \notin DOMAIN h.mem
  BY BlockFacts
<1>2. /\ Shape(right) /\ Holds(right, f)
      /\ a \in DOMAIN right.mem /\ ~right.mem[a].used
      /\ right.mem[a].prev = p
      /\ ~Free(right, right.mem[a].next)
      /\ ApartBut(right, a)
      /\ Free(right, p) <=> Free(h, p)
  <2>1. CASE ~Free(h, h.mem[a].next)
    BY <2>1
  <2>2. CASE Free(h, h.mem[a].next)
    <3> DEFINE b == h.mem[a].next
               n == h.mem[b].next
               g == Absorb(h, a)
    <3>1. right = g /\ b # NULL
      BY <2>2 DEF Free
    <3>2. /\ b \in DOMAIN h.mem /\ Shape(g) /\ Holds(g, f) /\ IsAbsorb(h, g, a)
          /\ \A x \in (DOMAIN h.mem \ {b}) \cup {NULL} : Free(g, x) <=> Free(h, x)
      BY <2>2, <3>1, AbsorbKeeps
    <3> HIDE DEF g
    <3>3. DOMAIN g.mem = DOMAIN h.mem \ {b}
      BY <3>2 DEF IsAbsorb
    <3>4. \A x \in DOMAIN h.mem \ {b} :
             /\ g.mem[x].next = IF x = a THEN n ELSE h.mem[x].next
             /\ g.mem[x].prev = IF x = n THEN a ELSE h.mem[x].prev
             /\ g.mem[x].used = h.mem[x].used
      BY <3>2 DEF IsAbsorb
    <3>5. a < b /\ b \in Nat /\ Behind(h, a) = b /\ h.mem[b].prev = a
      BY <3>2, BlockFacts, Neighbours, Sizes
    <3>6. n \in DOMAIN h.mem \cup {NULL} /\ n # a /\ n # b /\ ~Free(h, n) /\ ~h.mem[b].used
      <4>1. n \in DOMAIN h.mem \cup {NULL}
        BY <3>2, BlockFacts
      <4>2. n \in DOMAIN h.mem => n = Behind(h, b) /\ b < n /\ n \in Nat
        BY <3>2, BlockFacts, Neighbours, Sizes
      <4>3. n # a /\ n # b
        BY <1>1, <3>2, <3>5, <4>1, <4>2
      <4>4. ~h.mem[b].used
        BY <2>2 DEF Free
      <4>5. a # b
        BY <1>1, <3>5
      <4>6. ~Free(h, n)
        BY <3>2, <4>3, <4>4, <4>5 DEF ApartBut
      <4> QED
        BY <4>1, <4>3, <4>4, <4>6
    <3>7. a \in DOMAIN h.mem \ {b} /\ a # n
      BY <1>1, <3>5, <3>6
    <3>8. p # b
      <4>1. p \in DOMAIN h.mem => Behind(h, p) = a /\ p < a /\ p \in Nat
        BY BlockFacts, Neighbours, Sizes
      <4> QED
        BY <1>1, <3>2, <3>5, <4>1
    <3> HIDE DEF b, n, p
    <3>9. /\ a \in DOMAIN g.mem /\ ~g.mem[a].used
          /\ g.mem[a].prev = p /\ g.mem[a].next = n
      BY <3>3, <3>4, <3>7 DEF p
    <3>10. ~Free(g, n)
      BY <3>2, <3>6
    <3>11. Free(g, p) <=> Free(h, p)
      BY <1>1, <3>2, <3>8
    <3>12. ApartBut(g, a)
      <4> SUFFICES ASSUME NEW x \in DOMAIN h.mem \ {b}, ~g.mem[x].used, x # a, g.mem[x].next # a
                   PROVE  ~Free(g, g.mem[x].next)
        BY <3>3 DEF ApartBut
      <4>1. g.mem[x].next = h.mem[x].next /\ ~h.mem[x].used
        BY <3>4
      <4>2. ~Free(h, h.mem[x].next) /\ h.mem[x].next \in DOMAIN h.mem \cup {NULL}
        BY <4>1, BlockFacts DEF ApartBut
      <4>3. h.mem[x].next # b
        BY <3>2, <3>5, Neighbours
      <4> QED
        BY <3>2, <4>1, <4>2, <4>3
    <3> QED
      BY <3>1, <3>2, <3>9, <3>10, <3>11, <3>12
  <2> QED
    BY <2>1, <2>2
<1>3. Merge(h, a) = IF Free(h, p) THEN Absorb(right, p) ELSE right
  BY DEF Merge
<1> HIDE DEF right, p
<1>4. CASE ~Free(h, p)
  <2>1. Apart(right)
    <3> SUFFICES ASSUME NEW x \in DOMAIN right.mem, ~right.mem[x].used
                 PROVE  ~Free(right, right.mem[x].next)
      BY DEF Apart
    <3>1. CASE x = a
      BY <1>2, <3>1
    <3>2. CASE right.mem[x].next = a
      <4>1. x = p
        BY <1>2, <3>2, Neighbours
      <4>2. x # NULL
        BY <1>2, BlockFacts
      <4> QED
        BY <1>2, <1>4, <4>1, <4>2 DEF Free
    <3>3. CASE x # a /\ right.mem[x].next # a
      BY <1>2, <3>3 DEF ApartBut
    <3> QED
      BY <3>1, <3>2, <3>3
  <2> QED
    BY <1>2, <1>3, <1>4, <2>1 DEF HeapOK
<1>5. CASE Free(h, p)
  <2> DEFINE n == right.mem[a].next
             g == Absorb(right, p)
             e == DOMAIN right.mem
  <2>1. p # NULL /\ p \in e /\ ~right.mem[p].used
    BY <1>2, <1>5, BlockFacts DEF Free
  <2>2. right.mem[p].next = a
    BY <1>2, <2>1, Neighbours
  <2>3. Free(right, a)
    BY <1>1, <1>2 DEF Free
  <2>4. /\ Shape(g) /\ Holds(g, f) /\ IsAbsorb(right, g, p)
        /\ \A x \in (e \ {a}) \cup {NULL} : Free(g, x) <=> Free(right, x)
    BY <1>1, <1>2, <2>1, <2>2, <2>3, AbsorbKeeps
  <2> HIDE DEF g
  <2>5. DOMAIN g.mem = e \ {a}
    BY <2>2, <2>4 DEF IsAbsorb
  <2>6. \A x \in e \ {a} :
           /\ g.mem[x].next = IF x = p THEN n ELSE right.mem[x].next
           /\ g.mem[x].used = right.mem[x].used
    BY <2>2, <2>4 DEF IsAbsorb
  <2>7. Apart(g)
    <3> SUFFICES ASSUME NEW x \in e \ {a}, ~g.mem[x].used
                 PROVE  ~Free(g, g.mem[x].next)
      BY <2>5 DEF Apart
    <3>1. CASE x = p
      <4>1. n \in e \cup {NULL} /\ ~Free(right, n)
        BY <1>2, BlockFacts
      <4>2. n # a
        <5>1. n = a => Behind(right, a) = a
          BY <1>2, Neighbours
        <5>2. a < Behind(right, a) /\ Behind(right, a) \in Nat
          BY <1>1, <1>2, BlockFacts, Sizes
        <5> QED
          BY <1>1, <5>1, <5>2
      <4> QED
        BY <2>4, <2>6, <3>1, <4>1, <4>2
    <3>2. CASE x # p
      <4>1. g.mem[x].next = right.mem[x].next /\ ~right.mem[x].used
        BY <2>6, <3>2
      <4>2. right.mem[x].next # a
        BY <1>2, <3>2, Neighbours
      <4>3. ~Free(right, right.mem[x].next) /\ right.mem[x].next \in e \cup {NULL}
        BY <1>2, <4>1, <4>2, BlockFacts DEF ApartBut
      <4> QED
        BY <2>4, <4>1, <4>2, <4>3
    <3> QED
      BY <3>1, <3>2
  <2> QED
    BY <1>3, <1>5, <2>4, <2>7 DEF HeapOK, g
<1> QED
  BY <1>4, <1>5

LEMMA ShrinkKeeps ==
    ASSUME NEW h, NEW f, HeapOK(h, f)
    PROVE  HeapOK(Shrink(h), f)
<1>1. Shape(h) /\ Apart(h) /\ Holds(h, f)
  BY DEF HeapOK
<1>2. CASE ~Free(h, h.tail) \/ h.tail % PAGE_SIZE # 0
  BY <1>2 DEF Shrink
<1>3. CASE Free(h, h.tail) /\ h.tail % PAGE_SIZE = 0
  <2> DEFINE d == DOMAIN h.mem
             t == h.tail
             p == h.mem[t].prev
             g == GiveBack(h)
  <2>1. t \in d /\ ~h.mem[t].used
    BY <1>1, <1>3 DEF Shape, Ends, Free
  <2>2. p \in d \cup {NULL} /\ t \in Nat
    BY <1>1, <2>1, BlockFacts
  <2>3. Typed(g) /\ IsGiven(h, g)
    BY <1>1, <1>3, <2>1, <2>2, TailIsPages, GiveFacts DEF Shape
  <2> HIDE DEF g
  <2>4. Shape(g)
    BY <1>1, <1>3, <2>1, <2>3, GiveShape
  <2>5. DOMAIN g.mem = d \ {t}
    BY <2>3 DEF IsGiven
  <2>6. \A x \in d \ {t} :
           /\ g.mem[x].next = IF x = p THEN NULL ELSE h.mem[x].next
           /\ g.mem[x].size = h.mem[x].size
           /\ g.mem[x].used = h.mem[x].used
    BY <2>3 DEF IsGiven
  <2>7. Apart(g)
    <3> SUFFICES ASSUME NEW x \in d \ {t}, ~g.mem[x].used
                 PROVE  ~Free(g, g.mem[x].next)
      BY <2>5 DEF Apart
    <3>1. CASE x = p
      BY <2>6, <3>1 DEF Free
    <3>2. CASE x # p
      <4>1. g.mem[x].next = h.mem[x].next /\ ~h.mem[x].used
        BY <2>6, <3>2
      <4>2. h.mem[x].next # t
        BY <1>1, <2>1, <3>2, Neighbours
      <4>3. ~Free(h, h.mem[x].next) /\ h.mem[x].next \in d \cup {NULL}
        BY <1>1, <4>1, BlockFacts DEF Apart
      <4> QED
        BY <2>6, <4>1, <4>2, <4>3 DEF Free
    <3> QED
      BY <3>1, <3>2
  <2>8. Holds(g, f)
    <3>1. DOMAIN f \subseteq d /\ f = [x \in DOMAIN f |-> f[x]]
      BY <1>1 DEF Holds
    <3>2. \A x \in d : h.mem[x].used <=> x \in DOMAIN f
      BY <1>1 DEF Holds
    <3>3. DOMAIN f \subseteq d \ {t}
      BY <2>1, <3>1, <3>2
    <3>4. \A x \in DOMAIN g.mem : g.mem[x].used <=> x \in DOMAIN f
      BY <2>5, <2>6, <3>2
    <3>5. \A x \in DOMAIN f : f[x] \in SIZES /\ f[x] =< g.mem[x].size
      BY <1>1, <2>6, <3>3 DEF Holds
    <3> QED
      BY <2>5, <3>1, <3>3, <3>4, <3>5 DEF Holds
  <2>9. Shrink(h) = g
    BY <1>3 DEF Shrink, g
  <2> QED
    BY <2>4, <2>7, <2>8, <2>9 DEF HeapOK
<1> QED
  BY <1>2, <1>3

-----------------------------------------------------------------------------
(* malloc with a block of the list, malloc with new pages, and free.        *)

Asked(f, g, a, n) ==
    /\ DOMAIN g = DOMAIN f \cup {a} /\ g = [x \in DOMAIN g |-> g[x]]
    /\ \A x \in DOMAIN f \cup {a} : g[x] = IF x = a THEN n ELSE f[x]

LEMMA AskFacts ==
    ASSUME NEW f, NEW a, NEW n
    PROVE  Asked(f, With(f, a, n), a, n)
BY DEF With, Asked

LEMMA ReuseKeeps ==
    ASSUME HeapOK(heap, asked), NEW n \in SIZES, NEW a \in Blocks,
           ~heap.mem[a].used, heap.mem[a].size >= n
    PROVE  HeapOK(Break([heap EXCEPT !.mem[a].used = TRUE], a, n), With(asked, a, n))
<1> DEFINE d == DOMAIN heap.mem
           h == [heap EXCEPT !.mem[a].used = TRUE]
           f == With(asked, a, n)
<1>1. Shape(heap) /\ Apart(heap) /\ Holds(heap, asked) /\ a \in d /\ n \in Nat
  BY Sizes DEF HeapOK, Blocks
<1>2. Typed(h) /\ IsMarked(heap, h, a, TRUE)
  BY <1>1, MarkFacts DEF Shape
<1>3. Asked(asked, f, a, n)
  BY AskFacts
<1>4. /\ DOMAIN f = DOMAIN asked \cup {a} /\ f = [x \in DOMAIN f |-> f[x]]
      /\ \A x \in DOMAIN asked \cup {a} : f[x] = IF x = a THEN n ELSE asked[x]
  BY <1>3 DEF Asked
<1> HIDE DEF h, f
<1>5. Shape(h)
  BY <1>1, <1>2, MarkShape
<1>6. /\ DOMAIN h.mem = d
      /\ \A x \in d : /\ h.mem[x].next = heap.mem[x].next
                      /\ h.mem[x].size = heap.mem[x].size
                      /\ h.mem[x].used = IF x = a THEN TRUE ELSE heap.mem[x].used
  BY <1>2 DEF IsMarked
<1>7. \A x \in d : ~h.mem[x].used \/ x = a => ~Free(h, h.mem[x].next)
  <2> SUFFICES ASSUME NEW x \in d, ~h.mem[x].used \/ x = a PROVE ~Free(h, h.mem[x].next)
    OBVIOUS
  <2>1. ~heap.mem[x].used
    BY <1>6
  <2>2. ~Free(heap, heap.mem[x].next) /\ heap.mem[x].next \in d \cup {NULL}
    BY <1>1, <2>1, BlockFacts DEF Apart
  <2> QED
    BY <1>6, <2>2 DEF Free
<1>8. Apart(h)
  BY <1>6, <1>7 DEF Apart
<1>9. Holds(h, f)
  <2>1. \A x \in d : heap.mem[x].used <=> x \in DOMAIN asked
    BY <1>1 DEF Holds
  <2>2. \A x \in DOMAIN h.mem : h.mem[x].used <=> x \in DOMAIN f
    BY <1>4, <1>6, <2>1
  <2>3. DOMAIN f \subseteq DOMAIN h.mem
    BY <1>1, <1>4, <1>6 DEF Holds
  <2>4. \A x \in DOMAIN f : f[x] \in SIZES /\ f[x] =< h.mem[x].size
    <3> SUFFICES ASSUME NEW x \in DOMAIN f PROVE f[x] \in SIZES /\ f[x] =< h.mem[x].size
      OBVIOUS
    <3>1. CASE x = a
      <4>1. heap.mem[a].size \in Nat
        BY <1>1, BlockFacts
      <4> QED
        BY <1>1, <1>4, <1>6, <3>1, <4>1
    <3>2. CASE x # a
      <4>1. x \in DOMAIN asked /\ x \in d
        BY <1>1, <1>4, <3>2 DEF Holds
      <4> QED
        BY <1>1, <1>4, <1>6, <3>2, <4>1 DEF Holds
    <3> QED
      BY <3>1, <3>2
  <2> QED
    BY <1>4, <2>2, <2>3, <2>4 DEF Holds
<1>10. HeapOK(h, f) /\ a \in DOMAIN f /\ f[a] = n /\ ~Free(h, h.mem[a].next)
  BY <1>1, <1>4, <1>5, <1>7, <1>8, <1>9 DEF HeapOK
<1>11. HeapOK(Break(h, a, f[a]), f)
  BY <1>10, BreakKeeps
<1> QED
  BY <1>10, <1>11 DEF h, f

LEMMA GrowKeeps ==
    ASSUME HeapOK(heap, asked), NEW n \in SIZES,
           heap.end + Up(n + HEADER, PAGE_SIZE) =< LIMIT
    PROVE  HeapOK(Break(Grown(heap, n), heap.end, n), With(asked, heap.end, n))
<1> DEFINE d == DOMAIN heap.mem
           e == heap.end
           size == Up(n + HEADER, PAGE_SIZE)
           h == Grown(heap, n)
           f == With(asked, e, n)
<1>1. /\ Shape(heap) /\ Apart(heap) /\ Holds(heap, asked) /\ n \in Nat /\ n >= 1
      /\ heap.tail \in d \cup {NULL}
  BY Sizes DEF HeapOK, Shape, Ends
<1>2. Typed(h) /\ IsGrown(heap, h, n)
  BY <1>1, GrowFacts DEF Shape
<1>3. Asked(asked, f, e, n)
  BY AskFacts
<1>4. /\ DOMAIN f = DOMAIN asked \cup {e} /\ f = [x \in DOMAIN f |-> f[x]]
      /\ \A x \in DOMAIN asked \cup {e} : f[x] = IF x = e THEN n ELSE asked[x]
  BY <1>3 DEF Asked
<1>5. size - HEADER >= n /\ size - HEADER \in Nat
  <2>1. HEADER \in Nat /\ PAGE_SIZE \in Nat \ {0} /\ n + HEADER \in Nat
    BY <1>1, Sizes
  <2> HIDE DEF size
  <2>2. size \in Nat /\ size >= n + HEADER
    BY <2>1, UpFacts DEF size
  <2> QED
    BY <1>1, <2>1, <2>2
<1> HIDE DEF h, f, size
<1>6. Shape(h) /\ e \notin d
  BY <1>1, <1>2, GrowShape
<1>7. /\ DOMAIN h.mem = d \cup {e}
      /\ \A x \in d \cup {e} :
            /\ h.mem[x].next = IF x = e THEN NULL ELSE IF x = heap.tail THEN e ELSE heap.mem[x].next
            /\ h.mem[x].size = IF x = e THEN size - HEADER ELSE heap.mem[x].size
            /\ h.mem[x].used = IF x = e THEN TRUE ELSE heap.mem[x].used
  BY <1>2 DEF IsGrown, size
<1> HIDE DEF e
<1>8. Apart(h)
  <2> SUFFICES ASSUME NEW x \in d \cup {e}, ~h.mem[x].used PROVE ~Free(h, h.mem[x].next)
    BY <1>7 DEF Apart
  <2>1. x \in d /\ x # e /\ ~heap.mem[x].used
    BY <1>7
  <2>2. CASE x = heap.tail
    BY <1>7, <2>1, <2>2 DEF Free
  <2>3. CASE x # heap.tail
    <3>1. ~Free(heap, heap.mem[x].next) /\ heap.mem[x].next \in d \cup {NULL}
      BY <1>1, <2>1, BlockFacts DEF Apart
    <3> QED
      BY <1>6, <1>7, <2>1, <2>3, <3>1 DEF Free
  <2> QED
    BY <2>2, <2>3
<1>9. Holds(h, f)
  <2>1. \A x \in d : heap.mem[x].used <=> x \in DOMAIN asked
    BY <1>1 DEF Holds
  <2>2. DOMAIN asked \subseteq d
    BY <1>1 DEF Holds
  <2>3. \A x \in DOMAIN h.mem : h.mem[x].used <=> x \in DOMAIN f
    BY <1>4, <1>6, <1>7, <2>1, <2>2
  <2>4. DOMAIN f \subseteq DOMAIN h.mem
    BY <1>4, <1>7, <2>2
  <2>5. \A x \in DOMAIN f : f[x] \in SIZES /\ f[x] =< h.mem[x].size
    <3> SUFFICES ASSUME NEW x \in DOMAIN f PROVE f[x] \in SIZES /\ f[x] =< h.mem[x].size
      OBVIOUS
    <3>1. CASE x = e
      <4>1. f[x] = n /\ h.mem[x].size = size - HEADER
        BY <1>4, <1>7, <3>1
      <4> QED
        BY <1>1, <1>5, <4>1
    <3>2. CASE x # e
      <4>1. x \in DOMAIN asked /\ x \in d
        BY <1>4, <2>2, <3>2
      <4> QED
        BY <1>1, <1>4, <1>7, <3>2, <4>1 DEF Holds
    <3> QED
      BY <3>1, <3>2
  <2> QED
    BY <1>4, <2>3, <2>4, <2>5 DEF Holds
<1>10. h.mem[e].next = NULL /\ ~Free(h, NULL)
  BY <1>7 DEF Free
<1>11. HeapOK(h, f) /\ e \in DOMAIN f /\ f[e] = n
  BY <1>4, <1>6, <1>8, <1>9 DEF HeapOK
<1>12. HeapOK(Break(h, e, f[e]), f)
  BY <1>10, <1>11, BreakKeeps
<1> QED
  BY <1>11, <1>12 DEF h, f, e

LEMMA FreeKeeps ==
    ASSUME HeapOK(heap, asked), NEW a \in DOMAIN asked
    PROVE  HeapOK(Shrink(Merge([heap EXCEPT !.mem[a].used = FALSE], a)), Without(asked, {a}))
<1> DEFINE d == DOMAIN heap.mem
           h == [heap EXCEPT !.mem[a].used = FALSE]
           f == Without(asked, {a})
<1>1. Shape(heap) /\ Apart(heap) /\ Holds(heap, asked) /\ a \in d
  BY DEF HeapOK, Holds
<1>2. Typed(h) /\ IsMarked(heap, h, a, FALSE)
  BY <1>1, MarkFacts DEF Shape
<1>3. /\ DOMAIN f = DOMAIN asked \ {a} /\ f = [x \in DOMAIN f |-> f[x]]
      /\ \A x \in DOMAIN asked \ {a} : f[x] = asked[x]
  BY DEF Without, Restrict
<1> HIDE DEF h, f
<1>4. Shape(h)
  BY <1>1, <1>2, MarkShape
<1>5. /\ DOMAIN h.mem = d
      /\ \A x \in d : /\ h.mem[x].next = heap.mem[x].next
                      /\ h.mem[x].size = heap.mem[x].size
                      /\ h.mem[x].used = IF x = a THEN FALSE ELSE heap.mem[x].used
  BY <1>2 DEF IsMarked
<1>6. ApartBut(h, a)
  <2> SUFFICES ASSUME NEW x \in d, ~h.mem[x].used, x # a, h.mem[x].next # a
               PROVE  ~Free(h, h.mem[x].next)
    BY <1>5 DEF ApartBut
  <2>1. ~Free(heap, heap.mem[x].next) /\ heap.mem[x].next \in d \cup {NULL}
    BY <1>1, <1>5, BlockFacts DEF Apart
  <2> QED
    BY <1>5, <2>1 DEF Free
<1>7. Holds(h, f)
  <2>1. \A x \in d : heap.mem[x].used <=> x \in DOMAIN asked
    BY <1>1 DEF Holds
  <2>2. \A x \in DOMAIN h.mem : h.mem[x].used <=> x \in DOMAIN f
    BY <1>3, <1>5, <2>1
  <2>3. DOMAIN f \subseteq DOMAIN h.mem
    BY <1>1, <1>3, <1>5 DEF Holds
  <2>4. \A x \in DOMAIN f : f[x] \in SIZES /\ f[x] =< h.mem[x].size
    BY <1>1, <1>3, <1>5, <2>3 DEF Holds
  <2> QED
    BY <1>3, <2>2, <2>3, <2>4 DEF Holds
<1>8. HeapOK(Merge(h, a), f)
  BY <1>1, <1>4, <1>5, <1>6, <1>7, MergeKeeps
<1>9. HeapOK(Shrink(Merge(h, a)), f)
  BY <1>8, ShrinkKeeps
<1> QED
  BY <1>9 DEF h, f

-----------------------------------------------------------------------------
(* The specification.                                                      *)

LEMMA Initially == Init => IInv
<1> SUFFICES ASSUME Init PROVE IInv
  OBVIOUS
<1>1. /\ heap.mem = <<>> /\ heap.head = NULL /\ heap.tail = NULL /\ heap.end = 0
      /\ heap = Heaps(heap.mem, heap.head, heap.tail, heap.end) /\ asked = <<>>
  BY DEF Init, Heaps
<1>2. DOMAIN heap.mem = {} /\ heap.mem \in [DOMAIN heap.mem -> HeaderType]
  BY <1>1
<1>3. DOMAIN asked = {} /\ asked = [x \in DOMAIN asked |-> asked[x]]
  BY <1>1
<1>4. Typed(heap)
  BY <1>1, <1>2 DEF Typed, NULL
<1>5. Aligned(heap)
  <2>1. 0 % PAGE_SIZE = 0 /\ 0 =< LIMIT
    BY Sizes
  <2> QED
    BY <1>1, <1>2, <2>1 DEF Aligned
<1>6. Ends(heap) /\ Onward(heap) /\ Backward(heap) /\ Disjoint(heap) /\ Apart(heap)
  BY <1>1, <1>2 DEF Ends, Onward, Backward, Disjoint, Apart
<1>7. Holds(heap, asked)
  BY <1>2, <1>3 DEF Holds
<1> QED
  BY <1>4, <1>5, <1>6, <1>7 DEF IInv, Shape

LEMMA Inductive == IInv /\ [Next]_vars => IInv'
<1> SUFFICES ASSUME IInv, [Next]_vars PROVE HeapOK(heap', asked')
  BY DEF IInv, HeapOK, Shape, Typed, Aligned, Ends, Onward, Backward, Disjoint, Apart, Holds, Behind, Free
<1>1. HeapOK(heap, asked)
  BY DEF IInv, HeapOK
<1>2. CASE UNCHANGED vars
  BY <1>1, <1>2 DEF vars
<1>3. CASE Malloc
  <2>1. PICK n \in SIZES :
           LET fits == {a \in Listed(heap) : ~heap.mem[a].used /\ heap.mem[a].size >= n}
           IN  Reuse(n, fits) \/ (fits = {} /\ Expand(n))
    BY <1>3 DEF Malloc
  <2> DEFINE fits == {a \in Listed(heap) : ~heap.mem[a].used /\ heap.mem[a].size >= n}
  <2>2. Listed(heap) = Blocks
    BY AllListed DEF IInv, Blocks
  <2>3. CASE Reuse(n, fits)
    <3>1. PICK a \in fits : /\ heap' = Break([heap EXCEPT !.mem[a].used = TRUE], a, n)
                            /\ asked' = With(asked, a, n)
      BY <2>3 DEF Reuse
    <3>2. a \in Blocks /\ ~heap.mem[a].used /\ heap.mem[a].size >= n
      BY <2>2
    <3> QED
      BY <1>1, <3>1, <3>2, ReuseKeeps
  <2>4. CASE Expand(n)
    <3>1. CASE heap.end + Up(n + HEADER, PAGE_SIZE) =< LIMIT
      <4>1. heap' = Break(Grown(heap, n), heap.end, n) /\ asked' = With(asked, heap.end, n)
        BY <2>4, <3>1 DEF Expand
      <4> QED
        BY <1>1, <3>1, <4>1, GrowKeeps
    <3>2. CASE ~(heap.end + Up(n + HEADER, PAGE_SIZE) =< LIMIT)
      BY <1>1, <2>4, <3>2 DEF Expand, vars
    <3> QED
      BY <3>1, <3>2
  <2> QED
    BY <2>1, <2>3, <2>4
<1>4. ASSUME NEW a \in DOMAIN asked, FreeCall(a)
      PROVE  HeapOK(heap', asked')
  BY <1>1, <1>4, FreeKeeps DEF FreeCall
<1> QED
  BY <1>2, <1>3, <1>4 DEF Next

LEMMA IInvHolds == Spec => []IInv
<1> QED
  BY Initially, Inductive, PTL DEF Spec

LEMMA IInvTiled == IInv => Tiled
<1> SUFFICES ASSUME IInv PROVE Tiled
  OBVIOUS
<1> DEFINE d == DOMAIN heap.mem
<1>1. Shape(heap) /\ Apart(heap) /\ Holds(heap, asked) /\ Blocks = d
  BY DEF IInv, Blocks
<1>2. heap.end \in Nat /\ heap.end =< LIMIT /\ heap.end % PAGE_SIZE = 0 /\ LIMIT \in Nat
  BY <1>1, Sizes DEF Shape, Typed, Aligned
<1>3. \A a \in d : a \in Addresses /\ heap.mem[a].size \in 1 .. LIMIT
  <2> SUFFICES ASSUME NEW a \in d PROVE a \in Addresses /\ heap.mem[a].size \in 1 .. LIMIT
    OBVIOUS
  <2>1. /\ a \in Nat /\ heap.mem[a].size \in Nat /\ heap.mem[a].size >= 1
        /\ a + HEADER + heap.mem[a].size =< heap.end /\ HEADER \in Nat
    BY <1>1, BlockFacts, Sizes DEF Behind
  <2> QED
    BY <1>2, <2>1 DEF Addresses
<1>4. \A a \in d : heap.mem[a] \in Headers
  <2> SUFFICES ASSUME NEW a \in d PROVE heap.mem[a] \in Headers
    OBVIOUS
  <2>1. heap.mem[a] \in HeaderType
    BY <1>1 DEF Shape, Typed
  <2>2. heap.mem[a].next \in Addresses \cup {NULL} /\ heap.mem[a].prev \in Addresses \cup {NULL}
    BY <1>1, <1>3, BlockFacts
  <2> QED
    BY <1>3, <2>1, <2>2 DEF Headers, HeaderType
<1>5. TypeOK
  <2>1. Blocks \subseteq {a \in Addresses : a % ALIGN = 0}
    BY <1>1, <1>3 DEF Shape, Aligned
  <2>2. heap.head \in Blocks \cup {NULL} /\ heap.tail \in Blocks \cup {NULL}
    BY <1>1 DEF Shape, Ends
  <2>3. heap.end \in {e \in 0 .. LIMIT : e % PAGE_SIZE = 0}
    BY <1>2
  <2>4. \A a \in DOMAIN asked : asked[a] \in SIZES
    BY <1>1 DEF Holds
  <2> QED
    BY <1>1, <1>4, <2>1, <2>2, <2>3, <2>4 DEF TypeOK
<1>6. \A a \in d : heap.end # 0
  BY <1>2, BlockFacts, <1>1, Sizes
<1>7. /\ heap.head = IF heap.end = 0 THEN NULL ELSE 0
      /\ heap.end = 0 => heap.tail = NULL /\ Blocks = {}
  BY <1>1, <1>6 DEF Shape, Ends
<1>8. \A a \in Blocks :
          LET behind == a + HEADER + heap.mem[a].size
          IN  IF behind = heap.end THEN heap.mem[a].next = NULL /\ heap.tail = a
              ELSE /\ heap.mem[a].next = behind
                   /\ behind \in Blocks /\ heap.mem[behind].prev = a
  <2> SUFFICES ASSUME NEW a \in d
               PROVE  IF Behind(heap, a) = heap.end THEN heap.mem[a].next = NULL /\ heap.tail = a
                      ELSE /\ heap.mem[a].next = Behind(heap, a)
                           /\ Behind(heap, a) \in d /\ heap.mem[Behind(heap, a)].prev = a
    BY <1>1 DEF Behind
  <2>1. CASE Behind(heap, a) = heap.end
    BY <1>1, <2>1, Neighbours
  <2>2. CASE Behind(heap, a) # heap.end
    <3>1. heap.mem[a].next = Behind(heap, a) /\ Behind(heap, a) \in d
      BY <1>1, <2>2, Neighbours DEF Shape, Onward
    <3> QED
      BY <1>1, <2>2, <3>1, Neighbours
  <2> QED
    BY <2>1, <2>2
<1>9. Blocks = Listed(heap)
  BY <1>1, AllListed
<1>10. Coalesced
  BY <1>1 DEF Coalesced, Apart, Holds
<1> QED
  BY <1>5, <1>7, <1>8, <1>9, <1>10 DEF Tiled

LEMMA IInvGranted == IInv => Granted
<1> SUFFICES ASSUME IInv, NEW a \in DOMAIN asked
             PROVE  /\ a + HEADER + asked[a] =< heap.end
                    /\ \A b \in Blocks : b > a => b >= a + HEADER + asked[a]
  BY DEF Granted
<1>1. Shape(heap) /\ a \in DOMAIN heap.mem /\ asked[a] \in Nat /\ asked[a] =< heap.mem[a].size
  BY Sizes DEF IInv, Holds
<1>2. /\ a \in Nat /\ heap.mem[a].size \in Nat /\ heap.end \in Nat /\ HEADER \in Nat
      /\ a + HEADER + heap.mem[a].size =< heap.end
  BY <1>1, BlockFacts, Sizes DEF Behind
<1>3. \A b \in Blocks : b \in Nat /\ (a < b => a + HEADER + heap.mem[a].size =< b)
  BY <1>1, BlockFacts, Neighbours DEF Behind, Blocks
<1> QED
  BY <1>1, <1>2, <1>3

(* The blocks fill the heap in the order of the list, every byte of it in   *)
(* one of them, and no two free ones are neighbours, whatever is allocated  *)
(* and freed in whatever order (trunk_malloc, trunk_free).                 *)
THEOREM HeapIsTiled == Spec => []Tiled
BY IInvHolds, IInvTiled, PTL

(* The bytes a program asked for are mapped and in no other block until the *)
(* program frees them (trunk_malloc, trunk_free).                          *)
THEOREM BytesAreOwn == Spec => []Granted
BY IInvHolds, IInvGranted, PTL
=============================================================================
