----------------------------- MODULE ShmProofs ------------------------------
(***************************************************************************)
(* For any number of processes, maps, sizes and pages: the list of blocks   *)
(* tiles its range, a block's count is the number of its maps, and nobody   *)
(* can reach a page of a block that he has not mapped.                     *)
(***************************************************************************)
EXTENDS Shm, FiniteSetTheorems, SequenceTheorems, TLAPS

(* A list of blocks with ids under cnt, from the base of the range to tl.   *)
Good(list, cnt, tl) ==
    /\ list \in Seq(Block) /\ tl \in 0 .. PAGES
    /\ \A i \in 1 .. Len(list) :
          /\ list[i].addr + list[i].pages <= tl /\ list[i].id < cnt
          /\ i = 1 => list[i].addr = 0
          /\ i < Len(list) => list[i + 1].addr = list[i].addr + list[i].pages
          /\ i = Len(list) => tl = list[i].addr + list[i].pages
    /\ list = <<>> => tl = 0
    /\ \A i, j \in 1 .. Len(list) : list[i].id = list[j].id => i = j

MapsIn(sh, id) == {x \in Pids \X Places : sh[x[1]][x[2]] = id}

(* The blocks lo to lo + d end before tl, each beginning where the last ends. *)
Chain(list, lo, d, tl) ==
    \A j \in lo .. lo + d :
       /\ list[j].addr \in Nat /\ list[j].pages \in Nat /\ list[j].addr + list[j].pages <= tl
       /\ j < lo + d => list[j + 1].addr = list[j].addr + list[j].pages

Span(list, lo, d) == list[lo + d].addr + list[lo + d].pages - list[lo].addr

Spans(list, lo, d, tl) ==
    /\ Span(list, lo, d) \in 0 .. tl
    /\ list[lo].addr + Span(list, lo, d) = list[lo + d].addr + list[lo + d].pages

(* r is s with its places lo to hi replaced by mid.                         *)
Spliced(r, s, mid, lo, hi) ==
    /\ Len(r) = Len(s) - (hi - lo + 1) + Len(mid)
    /\ \A j \in 1 .. Len(r) :
          r[j] = IF j < lo THEN s[j]
                 ELSE IF j < lo + Len(mid) THEN mid[j - lo + 1]
                 ELSE s[j - Len(mid) + (hi - lo + 1)]

(* new is list with its blocks lo to lo + d replaced by m.                  *)
Merged(new, list, lo, d, m) ==
    /\ Len(new) = Len(list) - d
    /\ \A j \in 1 .. Len(new) : new[j] = IF j < lo THEN list[j]
                                         ELSE IF j = lo THEN m ELSE list[j + d]

(* new is list with b and c in place of its block i.                        *)
Inserted(new, list, i, b, c) ==
    /\ Len(new) = Len(list) + 1
    /\ \A j \in 1 .. Len(new) : new[j] = IF j < i THEN list[j]
                                         ELSE IF j = i THEN b
                                         ELSE IF j = i + 1 THEN c ELSE list[j - 1]

(* Of the blocks but i those in use are in new, and its others are free.    *)
Freed(new, list, i) ==
    /\ \A j \in 1 .. Len(list) : j # i /\ list[j].used => \E k \in 1 .. Len(new) : new[k] = list[j]
    /\ \A k \in 1 .. Len(new) :
          \/ \E j \in 1 .. Len(list) : j # i /\ new[k] = list[j]
          \/ /\ ~new[k].used /\ new[k].refs = 0
             /\ \E j \in 1 .. Len(list) : new[k].id = list[j].id /\ (j = i \/ ~list[j].used)

(* RefsOK and Isolated, of any list and maps.                               *)
RefsIn(list, sh) ==
    /\ \A i \in 1 .. Len(list) :
          IF list[i].used THEN list[i].refs = Cardinality(MapsIn(sh, list[i].id))
                          ELSE list[i].refs = 0 /\ MapsIn(sh, list[i].id) = {}
    /\ \A p \in Pids, s \in Places :
          sh[p][s] # 0 => \E i \in 1 .. Len(list) : list[i].used /\ list[i].id = sh[p][s]

IsolatedIn(list, sh, mp) ==
    \A p \in Pids : \A page \in mp[p] :
        \E i \in 1 .. Len(list), s \in Places :
            list[i].used /\ list[i].id = sh[p][s] /\ page \in Pages(list[i])

(* A change of the list that leaves the blocks in use that are mapped.      *)
Renewed(new, list, sh) ==
    /\ \A j \in 1 .. Len(list) :
          list[j].used /\ MapsIn(sh, list[j].id) # {} => \E k \in 1 .. Len(new) : new[k] = list[j]
    /\ \A k \in 1 .. Len(new) :
          \/ \E j \in 1 .. Len(list) : new[k] = list[j]
          \/ new[k].refs = 0 /\ MapsIn(sh, new[k].id) = {}

IInv == TypeOK /\ Good(blocks, count, tail) /\ RefsIn(blocks, shms) /\ IsolatedIn(blocks, shms, mapped)

-----------------------------------------------------------------------------
(* Lists.                                                                  *)

LEMMA SpliceFacts ==
    ASSUME NEW M, NEW s \in Seq(M), NEW mid \in Seq(M), NEW lo \in 1 .. Len(s), NEW hi \in lo .. Len(s)
    PROVE  /\ SubSeq(s, 1, lo - 1) \o mid \o SubSeq(s, hi + 1, Len(s)) \in Seq(M)
           /\ Spliced(SubSeq(s, 1, lo - 1) \o mid \o SubSeq(s, hi + 1, Len(s)), s, mid, lo, hi)
<1> DEFINE a == SubSeq(s, 1, lo - 1)
           b == SubSeq(s, hi + 1, Len(s))
           n == Len(s)
           m == Len(mid)
<1>1. n \in Nat /\ m \in Nat /\ lo \in Nat /\ hi \in Nat /\ 1 =< lo /\ lo =< hi /\ hi =< n
  OBVIOUS
<1>2. a \in Seq(M) /\ Len(a) = lo - 1 /\ \A j \in 1 .. lo - 1 : a[j] = s[j]
  BY <1>1
<1>3. b \in Seq(M) /\ Len(b) = n - hi /\ \A j \in 1 .. n - hi : b[j] = s[j + hi]
  BY <1>1
<1> HIDE DEF a, b
<1>4. /\ a \o mid \in Seq(M) /\ Len(a \o mid) = lo - 1 + m
      /\ \A j \in 1 .. lo - 1 + m : (a \o mid)[j] = IF j < lo THEN s[j] ELSE mid[j - lo + 1]
  <2>1. a \o mid \in Seq(M) /\ Len(a \o mid) = Len(a) + m
    BY <1>2, ConcatProperties
  <2>2. ASSUME NEW j \in 1 .. lo - 1 + m, j < lo PROVE (a \o mid)[j] = s[j]
    BY <1>1, <1>2, <2>2
  <2>3. ASSUME NEW j \in 1 .. lo - 1 + m, ~ (j < lo) PROVE (a \o mid)[j] = mid[j - lo + 1]
    <3>1. j > Len(a) /\ j - Len(a) = j - lo + 1 /\ j \in 1 .. Len(a) + m
      BY <1>1, <1>2, <2>3
    <3> QED
      BY <1>2, <3>1, ConcatProperties
  <2> QED
    BY <1>2, <2>1, <2>2, <2>3
<1> DEFINE c == a \o mid
<1> HIDE DEF c
<1>5. c \in Seq(M) /\ Len(c) = lo - 1 + m
      /\ \A j \in 1 .. lo - 1 + m : c[j] = IF j < lo THEN s[j] ELSE mid[j - lo + 1]
  BY <1>4 DEF c
<1>6. c \o b \in Seq(M) /\ Len(c \o b) = n - (hi - lo + 1) + m
  <2>1. c \o b \in Seq(M) /\ Len(c \o b) = Len(c) + Len(b)
    BY <1>3, <1>5, ConcatProperties
  <2> QED
    BY <1>1, <1>3, <1>5, <2>1
<1>7. ASSUME NEW j \in 1 .. n - (hi - lo + 1) + m, j < lo + m PROVE (c \o b)[j] = c[j]
  <2>1. j \in 1 .. Len(c) /\ j =< Len(c)
    BY <1>1, <1>5, <1>7
  <2> QED
    BY <1>3, <1>5, <2>1, ConcatProperties
<1>8. ASSUME NEW j \in 1 .. n - (hi - lo + 1) + m, ~ (j < lo + m)
      PROVE  (c \o b)[j] = s[j - m + (hi - lo + 1)]
  <2>1. j > Len(c) /\ j - Len(c) \in 1 .. n - hi /\ j \in 1 .. Len(c) + Len(b)
        /\ (j - Len(c)) + hi = j - m + (hi - lo + 1)
    BY <1>1, <1>3, <1>5, <1>8
  <2>2. (c \o b)[j] = b[j - Len(c)]
    BY <1>3, <1>5, <2>1, ConcatProperties
  <2>3. b[j - Len(c)] = s[(j - Len(c)) + hi]
    BY <1>3, <2>1
  <2> QED
    BY <2>1, <2>2, <2>3
<1>9. ASSUME NEW j \in 1 .. n - (hi - lo + 1) + m
      PROVE  (c \o b)[j] = IF j < lo THEN s[j]
                           ELSE IF j < lo + m THEN mid[j - lo + 1]
                           ELSE s[j - m + (hi - lo + 1)]
  <2>1. CASE j < lo + m
    <3>1. j \in 1 .. lo - 1 + m
      BY <1>1, <2>1
    <3> QED
      BY <1>1, <1>5, <1>7, <2>1, <3>1
  <2>2. CASE ~ (j < lo + m)
    <3>1. ~ (j < lo)
      BY <1>1, <2>2
    <3> QED
      BY <1>8, <2>2, <3>1
  <2> QED
    BY <2>1, <2>2
<1> QED
  BY <1>6, <1>9 DEF a, b, c, Spliced

LEMMA SpanFacts ==
    ASSUME NEW list, NEW lo \in Nat, NEW d \in 0 .. 2, NEW tl \in Nat, Chain(list, lo, d, tl)
    PROVE  Spans(list, lo, d, tl)
<1> USE DEF Chain
<1>1. list[lo].addr =< list[lo + d].addr
  <2>1. lo \in lo .. lo + d /\ list[lo].addr \in Nat /\ list[lo].pages \in Nat
    OBVIOUS
  <2>2. CASE d = 0
    BY <2>1, <2>2
  <2>3. CASE d = 1
    BY <2>1, <2>3
  <2>4. CASE d = 2
    <3>1. lo + 1 \in lo .. lo + d /\ list[lo + 1].pages \in Nat
      BY <2>4
    <3>2. list[lo + 1].addr = list[lo].addr + list[lo].pages
      BY <2>1, <2>4
    <3>3. list[lo + 2].addr = list[lo + 1].addr + list[lo + 1].pages
      BY <3>1, <2>4
    <3> QED
      BY <2>1, <2>4, <3>1, <3>2, <3>3
  <2> QED
    BY <2>2, <2>3, <2>4
<1>2. lo \in lo .. lo + d /\ lo + d \in lo .. lo + d
  OBVIOUS
<1> QED
  BY <1>1, <1>2 DEF Spans, Span

LEMMA BlockTypes ==
    ASSUME NEW b \in Block
    PROVE  b.addr \in Nat /\ b.pages \in Nat /\ b.id \in Nat /\ b.refs \in Nat
BY ShmAssumption DEF Block

LEMMA BlockFacts ==
    ASSUME NEW list \in Seq(Block), NEW i \in 1 .. Len(list)
    PROVE  /\ list[i] \in Block /\ list[i].addr \in Nat /\ list[i].pages \in Nat
           /\ list[i].id \in Nat /\ list[i].refs \in Nat
<1>1. list[i] \in Block
  BY ElementOfSeq
<1>2. PAGES \in Nat /\ IDS \in Nat
  BY ShmAssumption
<1> QED
  BY <1>1, <1>2 DEF Block

(* The blocks lo to lo + d become one.                                      *)
LEMMA MergeGood ==
    ASSUME NEW list \in Seq(Block), NEW cnt \in Nat, NEW tl, Good(list, cnt, tl),
           NEW lo \in 1 .. Len(list), NEW d \in 0 .. 2, lo + d <= Len(list),
           NEW m \in Block, m.addr = list[lo].addr, m.id = list[lo].id,
           m.addr + m.pages = list[lo + d].addr + list[lo + d].pages,
           NEW new \in Seq(Block), Merged(new, list, lo, d, m)
    PROVE  Good(new, cnt, tl)
<1> USE DEF Merged
<1> DEFINE n == Len(list)
<1>1. list \in Seq(Block) /\ n \in Nat /\ lo \in Nat /\ d \in Nat /\ 1 =< lo /\ lo + d =< n
      /\ Len(new) = n - d
  BY DEF Good
<1> HIDE DEF n
<1>2. \A j \in 1 .. n : /\ list[j].addr + list[j].pages <= tl /\ list[j].id < cnt
                        /\ j = 1 => list[j].addr = 0
                        /\ j < n => list[j + 1].addr = list[j].addr + list[j].pages
                        /\ j = n => tl = list[j].addr + list[j].pages
  BY DEF Good, n
<1>3. \A j, k \in 1 .. n : list[j].id = list[k].id => j = k
  BY DEF Good, n
<1>4. lo + d \in 1 .. n /\ lo \in 1 .. n
  BY <1>1
<1>5. ASSUME NEW j \in 1 .. Len(new)
      PROVE  /\ new[j].addr + new[j].pages <= tl /\ new[j].id < cnt
             /\ j = 1 => new[j].addr = 0
             /\ j < Len(new) => new[j + 1].addr = new[j].addr + new[j].pages
             /\ j = Len(new) => tl = new[j].addr + new[j].pages
  <2>1. CASE j < lo - 1
    <3>1. j \in 1 .. n /\ new[j] = list[j] /\ j + 1 \in 1 .. Len(new) /\ j + 1 < lo /\ j < n
          /\ j < Len(new) /\ new[j + 1] = list[j + 1]
      BY <1>1, <2>1
    <3> QED
      BY <1>2, <3>1
  <2>2. CASE j = lo - 1
    <3>1. j \in 1 .. n /\ new[j] = list[j] /\ j + 1 \in 1 .. Len(new) /\ j + 1 = lo /\ j < n
          /\ j < Len(new) /\ new[j + 1] = m
      BY <1>1, <2>2
    <3> QED
      BY <1>2, <3>1
  <2>3. CASE j = lo
    <3>1. new[j] = m /\ (j < Len(new) => new[j + 1] = list[lo + d + 1] /\ lo + d < n)
      <4>1. j < Len(new) => j + 1 \in 1 .. Len(new) /\ ~(j + 1 < lo) /\ j + 1 # lo
                            /\ j + 1 + d = lo + d + 1 /\ lo + d < n
        BY <1>1, <2>3
      <4> QED
        BY <1>1, <2>3, <4>1
    <3>2. j = Len(new) => lo + d = n
      BY <1>1, <2>3
    <3>3. m.addr + m.pages <= tl
      BY <1>2, <1>4
    <3>4. m.id < cnt /\ (lo = 1 => m.addr = 0)
      BY <1>2, <1>4
    <3>5. j < Len(new) => list[lo + d + 1].addr = m.addr + m.pages
      BY <1>2, <1>4, <3>1
    <3>6. j = Len(new) => tl = m.addr + m.pages
      BY <1>2, <1>4, <3>2
    <3> QED
      BY <2>3, <3>1, <3>3, <3>4, <3>5, <3>6
  <2>4. CASE j > lo
    <3>1. j + d \in 1 .. n /\ j \in Nat /\ ~(j < lo) /\ j # lo /\ j # 1
      BY <1>1, <2>4
    <3>2. new[j] = list[j + d]
      BY <3>1
    <3>3. CASE j < Len(new)
      <4>1. j + 1 \in 1 .. Len(new) /\ ~(j + 1 < lo) /\ j + 1 # lo
        BY <1>1, <2>4, <3>3
      <4>2. j + 1 + d = (j + d) + 1 /\ j + d < n /\ j # Len(new)
        BY <1>1, <3>1, <3>3
      <4>3. new[j + 1] = list[(j + d) + 1]
        BY <4>1, <4>2
      <4> QED
        BY <1>2, <3>1, <3>2, <4>2, <4>3
    <3>4. CASE j = Len(new)
      <4>1. j + d = n /\ ~(j < Len(new))
        BY <1>1, <3>4
      <4> QED
        BY <1>2, <3>1, <3>2, <3>4, <4>1
    <3> QED
      BY <1>1, <3>3, <3>4
  <2> QED
    BY <1>1, <2>1, <2>2, <2>3, <2>4
<1>6. ASSUME NEW j \in 1 .. Len(new)
      PROVE  \E k \in 1 .. n : /\ new[j].id = list[k].id
                               /\ k = IF j =< lo THEN j ELSE j + d
  <2>1. CASE j =< lo
    BY <1>1, <2>1
  <2>2. CASE ~ (j =< lo)
    <3>1. j + d \in 1 .. n /\ ~(j < lo) /\ j # lo
      BY <1>1, <2>2
    <3> QED
      BY <2>2, <3>1
  <2> QED
    BY <2>1, <2>2
<1>7. ASSUME NEW j \in 1 .. Len(new), NEW k \in 1 .. Len(new), new[j].id = new[k].id PROVE j = k
  <2>1. PICK x \in 1 .. n : new[j].id = list[x].id /\ x = IF j =< lo THEN j ELSE j + d
    BY <1>6
  <2>2. PICK y \in 1 .. n : new[k].id = list[y].id /\ y = IF k =< lo THEN k ELSE k + d
    BY <1>6
  <2>3. x = y
    BY <1>3, <1>7, <2>1, <2>2
  <2> QED
    BY <1>1, <2>1, <2>2, <2>3
<1>8. tl \in 0 .. PAGES /\ new # <<>>
  BY <1>1 DEF Good
<1> QED
  BY <1>5, <1>7, <1>8 DEF Good

(* free_item: the others stay as they are, and what they were merged into   *)
(* is free and nobody's.                                                   *)
LEMMA FreeFacts ==
    ASSUME NEW list \in Seq(Block), NEW cnt \in Nat, NEW tl, Good(list, cnt, tl), NEW i \in 1 .. Len(list),
           list[i].refs = 0, \A j \in 1 .. Len(list) : ~list[j].used => list[j].refs = 0
    PROVE  /\ Good(Free(list, i), cnt, tl)
           /\ Freed(Free(list, i), list, i)
<1> DEFINE lo0 == IF i > 1 /\ ~list[i - 1].used THEN i - 1 ELSE i
           hi0 == IF i < Len(list) /\ ~list[i + 1].used THEN i + 1 ELSE i
           n  == Len(list)
<1>1. /\ list \in Seq(Block) /\ tl \in Nat /\ n \in Nat /\ PAGES \in Nat /\ i \in Nat
      /\ lo0 \in 1 .. n /\ hi0 \in 1 .. n /\ lo0 \in {i - 1, i} /\ hi0 \in {i, i + 1}
      /\ lo0 # i => ~list[lo0].used
      /\ hi0 # i => ~list[hi0].used
      /\ tl =< PAGES
  BY ShmAssumption DEF Good
<1> HIDE DEF lo0, hi0, n
<1>a. PICK lo \in 1 .. n : lo = lo0
  BY <1>1
<1>b. PICK d \in 0 .. 2 : lo + d = hi0
  BY <1>1, <1>a
<1>2. /\ d \in 0 .. 2 /\ lo \in Nat /\ d \in Nat /\ lo + d \in 1 .. n /\ lo + d =< n /\ 1 =< lo
      /\ lo = i \/ (lo = i - 1 /\ ~list[lo].used)
      /\ lo + d = i \/ (lo + d = i + 1 /\ ~list[lo + d].used)
  BY <1>1, <1>a, <1>b
<1> DEFINE size == Span(list, lo, d)
           m == [list[lo] EXCEPT !.pages = size, !.used = FALSE]
           new == SubSeq(list, 1, lo - 1) \o <<m>> \o SubSeq(list, lo + d + 1, Len(list))
<1>3. Free(list, i) = new
  BY <1>a, <1>b DEF Free, Span, lo0, hi0, n
<1>4. \A j \in 1 .. n : /\ list[j].addr \in Nat /\ list[j].pages \in Nat
                        /\ list[j].addr + list[j].pages <= tl
                        /\ j < n => list[j + 1].addr = list[j].addr + list[j].pages
  BY BlockFacts DEF Good, n
<1>5. \A j \in 1 .. n : list[j] \in Block
  BY BlockFacts DEF Good, n
<1> HIDE DEF m, new, size
<1>6. size \in Nat /\ list[lo].addr + size = list[lo + d].addr + list[lo + d].pages /\ size =< tl
  <2>1. \A j \in lo .. lo + d : j \in 1 .. n /\ (j < lo + d => j < n)
    BY <1>1, <1>2
  <2>2. Chain(list, lo, d, tl)
    BY <1>4, <2>1 DEF Chain
  <2>3. lo \in Nat /\ d \in 0 .. 2 /\ tl \in Nat
    BY <1>1, <1>2
  <2>4. Spans(list, lo, d, tl)
    BY <2>2, <2>3, SpanFacts, Zenon
  <2>5. size \in 0 .. tl /\ list[lo].addr + size = list[lo + d].addr + list[lo + d].pages
    BY <2>4, Zenon DEF Spans, size
  <2> QED
    BY <2>3, <2>5
<1>7. /\ m \in Block /\ m.addr = list[lo].addr /\ m.pages = size /\ m.id = list[lo].id /\ ~m.used
      /\ m.refs = 0
  <2>1. list[lo] \in Block /\ list[lo].refs = 0
    BY <1>2, <1>5 DEF n
  <2>2. size \in 0 .. PAGES
    BY <1>1, <1>6
  <2> QED
    BY <2>1, <2>2 DEF Block, m
<1>8. new \in Seq(Block) /\ Merged(new, list, lo, d, m)
  <2> DEFINE mid == <<m>>
  <2>1. mid \in Seq(Block) /\ Len(mid) = 1 /\ mid[1] = m
    BY <1>7
  <2>2. new = SubSeq(list, 1, lo - 1) \o mid \o SubSeq(list, lo + d + 1, Len(list))
    BY DEF new
  <2> HIDE DEF mid
  <2>3. lo \in 1 .. Len(list) /\ lo + d \in lo .. Len(list)
    BY <1>2 DEF n
  <2>0. new \in Seq(Block) /\ Spliced(new, list, mid, lo, lo + d)
    BY <1>1, <2>1, <2>2, <2>3, SpliceFacts, Zenon
  <2>4. /\ Len(new) = n - (lo + d - lo + 1) + Len(mid)
        /\ \A j \in 1 .. Len(new) :
              new[j] = IF j < lo THEN list[j]
                       ELSE IF j < lo + Len(mid) THEN mid[j - lo + 1]
                       ELSE list[j - Len(mid) + (lo + d - lo + 1)]
    BY <2>0 DEF Spliced, n
  <2>5. Len(new) = n - d
    BY <1>1, <1>2, <2>1, <2>4
  <2>6. ASSUME NEW j \in 1 .. Len(new)
        PROVE  new[j] = IF j < lo THEN list[j] ELSE IF j = lo THEN m ELSE list[j + d]
    <3>1. CASE j < lo
      BY <2>4, <3>1
    <3>2. CASE j = lo
      <4>1. j < lo + 1 /\ ~(j < lo) /\ j - lo + 1 = 1
        BY <1>2, <3>2
      <4> QED
        BY <2>1, <2>4, <3>2, <4>1
    <3>3. CASE j > lo
      <4>1. j \in Nat /\ lo \in Nat /\ d \in Nat
        BY <1>2, <2>5, <1>1
      <4>2. ~(j < lo + 1) /\ ~(j < lo) /\ j - 1 + (lo + d - lo + 1) = j + d /\ j # lo
        BY <3>3, <4>1
      <4> QED
        BY <2>1, <2>4, <4>2
    <3> QED
      BY <1>2, <3>1, <3>2, <3>3
  <2> QED
    BY <2>0, <2>5, <2>6 DEF Merged, n
<1>9. Good(new, cnt, tl)
  <2>1. /\ m \in Block /\ m.addr = list[lo].addr /\ m.id = list[lo].id
        /\ m.addr + m.pages = list[lo + d].addr + list[lo + d].pages
    BY <1>6, <1>7
  <2>2. lo \in 1 .. Len(list) /\ lo + d <= Len(list)
    BY <1>2 DEF n
  <2>3. new \in Seq(Block) /\ Merged(new, list, lo, d, m)
    BY <1>8
  <2>4. Good(list, cnt, tl) /\ cnt \in Nat /\ d \in 0 .. 2
    BY <1>2
  <2> QED
    BY <2>1, <2>2, <2>3, <2>4, MergeGood, Zenon
<1>m. /\ Len(new) = n - d
      /\ \A j \in 1 .. Len(new) : new[j] = IF j < lo THEN list[j]
                                           ELSE IF j = lo THEN m ELSE list[j + d]
  BY <1>8 DEF Merged, n
<1>10. ASSUME NEW j \in 1 .. n, j # i, list[j].used PROVE \E k \in 1 .. Len(new) : new[k] = list[j]
  <2>1. CASE j < lo
    <3>1. j \in 1 .. Len(new)
      BY <1>1, <1>2, <1>m, <2>1
    <3> QED
      BY <1>m, <2>1, <3>1
  <2>2. CASE j > lo + d
    <3>1. j - d \in 1 .. Len(new) /\ ~(j - d < lo) /\ j - d # lo /\ (j - d) + d = j
      BY <1>1, <1>2, <1>m, <2>2
    <3> QED
      BY <1>m, <3>1
  <2>3. j < lo \/ j > lo + d
    <3>1. j # lo /\ j # lo + d /\ j # i
      BY <1>2, <1>10
    <3>2. j \in Nat /\ i \in Nat /\ lo >= i - 1 /\ lo =< i /\ lo + d =< i + 1 /\ lo + d >= i
      BY <1>1, <1>2
    <3> QED
      BY <1>2, <3>1, <3>2
  <2> QED
    BY <2>1, <2>2, <2>3
<1>11. ASSUME NEW k \in 1 .. Len(new)
       PROVE  \/ \E j \in 1 .. n : j # i /\ new[k] = list[j]
              \/ /\ ~new[k].used /\ new[k].refs = 0
                 /\ \E j \in 1 .. n : new[k].id = list[j].id /\ (j = i \/ ~list[j].used)
  <2>1. CASE k < lo
    <3>1. k \in 1 .. n /\ k # i
      BY <1>1, <1>2, <2>1
    <3> QED
      BY <1>m, <2>1, <3>1
  <2>2. CASE k = lo
    BY <1>2, <1>7, <1>m, <2>2
  <2>3. CASE k > lo
    <3>1. k + d \in 1 .. n /\ k + d # i /\ ~(k < lo) /\ k # lo
      BY <1>1, <1>2, <1>m, <2>3
    <3> QED
      BY <1>m, <3>1
  <2> QED
    BY <1>2, <2>1, <2>2, <2>3
<1> QED
  <2>1. Freed(new, list, i)
    BY <1>10, <1>11 DEF n, Freed
  <2> QED
    BY <1>3, <1>9, <2>1, Zenon

(* The block i is split into b and c.                                       *)
LEMMA SplitGood ==
    ASSUME NEW list \in Seq(Block), NEW cnt \in Nat, NEW tl, Good(list, cnt, tl),
           NEW i \in 1 .. Len(list), NEW b \in Block, NEW c \in Block,
           b.addr = list[i].addr, b.id = list[i].id, c.id = cnt, c.addr = b.addr + b.pages,
           c.addr + c.pages = list[i].addr + list[i].pages,
           NEW new \in Seq(Block), Inserted(new, list, i, b, c)
    PROVE  Good(new, cnt + 1, tl)
<1> DEFINE n == Len(list)
<1>1. n \in Nat /\ i \in Nat /\ i \in 1 .. n /\ 1 =< i /\ i =< n /\ Len(new) = n + 1
  BY DEF Inserted
<1>0. \A j \in 1 .. n + 1 : new[j] = IF j < i THEN list[j]
                                     ELSE IF j = i THEN b
                                     ELSE IF j = i + 1 THEN c ELSE list[j - 1]
  BY <1>1 DEF Inserted
<1> HIDE DEF n
<1>2. \A j \in 1 .. n : /\ list[j].addr + list[j].pages <= tl /\ list[j].id < cnt
                        /\ j = 1 => list[j].addr = 0
                        /\ j < n => list[j + 1].addr = list[j].addr + list[j].pages
                        /\ j = n => tl = list[j].addr + list[j].pages
  BY DEF Good, n
<1>3. \A j, k \in 1 .. n : list[j].id = list[k].id => j = k
  BY DEF Good, n
<1>4. /\ \A j \in 1 .. n : list[j].id \in Nat
      /\ b.addr \in Nat /\ b.pages \in Nat /\ c.addr \in Nat /\ c.pages \in Nat
      /\ list[i].addr \in Nat /\ list[i].pages \in Nat /\ tl \in Nat
  <2>1. \A j \in 1 .. n : list[j].id \in Nat
    BY BlockFacts DEF n
  <2>2. list[i].addr \in Nat /\ list[i].pages \in Nat
    BY BlockFacts
  <2>3. PAGES \in Nat /\ tl \in Nat
    BY ShmAssumption DEF Good
  <2>4. b.addr \in Nat /\ b.pages \in Nat /\ c.addr \in Nat /\ c.pages \in Nat
    BY BlockTypes
  <2> QED
    BY <2>1, <2>2, <2>3, <2>4
<1>5. ASSUME NEW j \in 1 .. n + 1
      PROVE  /\ new[j].addr + new[j].pages <= tl /\ new[j].id < cnt + 1
             /\ j = 1 => new[j].addr = 0
             /\ j < n + 1 => new[j + 1].addr = new[j].addr + new[j].pages
             /\ j = n + 1 => tl = new[j].addr + new[j].pages
  <2>1. CASE j < i - 1
    <3>1. j \in 1 .. n /\ new[j] = list[j] /\ j + 1 \in 1 .. n + 1 /\ j + 1 < i /\ j < n /\ j # n + 1
          /\ new[j + 1] = list[j + 1]
      BY <1>0, <1>1, <2>1
    <3>2. list[j].id < cnt + 1
      BY <1>2, <1>4, <3>1
    <3> QED
      BY <1>2, <3>1, <3>2
  <2>2. CASE j = i - 1
    <3>1. j \in 1 .. n /\ new[j] = list[j] /\ j + 1 \in 1 .. n + 1 /\ j + 1 = i /\ j < n /\ j # n + 1
          /\ new[j + 1] = b
      BY <1>0, <1>1, <2>2
    <3>2. list[j].id < cnt + 1
      BY <1>2, <1>4, <3>1
    <3> QED
      BY <1>2, <3>1, <3>2
  <2>3. CASE j = i
    <3>1. new[j] = b /\ j + 1 \in 1 .. n + 1 /\ new[j + 1] = c /\ j # n + 1
      BY <1>0, <1>1, <2>3
    <3>2. b.addr + b.pages <= tl
      BY <1>1, <1>2, <1>4
    <3>3. b.id < cnt + 1 /\ (i = 1 => b.addr = 0)
      BY <1>1, <1>2, <1>4
    <3> QED
      BY <2>3, <3>1, <3>2, <3>3
  <2>4. CASE j = i + 1
    <3>1. new[j] = c /\ j # 1 /\ (j < n + 1 => i < n) /\ (j = n + 1 => i = n)
      BY <1>0, <1>1, <2>4
    <3>2. j < n + 1 => new[j + 1] = list[i + 1]
      <4>1. j < n + 1 => /\ j + 1 \in 1 .. n + 1 /\ ~(j + 1 < i) /\ j + 1 # i /\ j + 1 # i + 1
                         /\ j + 1 - 1 = i + 1
        BY <1>1, <2>4
      <4> QED
        BY <1>0, <4>1
    <3>3. c.addr + c.pages <= tl /\ c.id < cnt + 1
      BY <1>1, <1>2
    <3>4. /\ j < n + 1 => list[i + 1].addr = c.addr + c.pages
          /\ j = n + 1 => tl = c.addr + c.pages
      <4>1. j < n + 1 => list[i + 1].addr = list[i].addr + list[i].pages
        BY <1>1, <1>2, <3>1
      <4>2. j = n + 1 => tl = list[i].addr + list[i].pages
        BY <1>1, <1>2, <3>1
      <4>3. c.addr + c.pages = list[i].addr + list[i].pages
        OBVIOUS
      <4> QED
        BY <4>1, <4>2, <4>3, Zenon
    <3> QED
      BY <3>1, <3>2, <3>3, <3>4
  <2>5. CASE j > i + 1
    <3>1. j - 1 \in 1 .. n /\ ~(j < i) /\ j # i /\ j # i + 1 /\ j # 1
      BY <1>1, <2>5
    <3>2. new[j] = list[j - 1]
      BY <1>0, <3>1
    <3>3. list[j - 1].id < cnt + 1
      <4>1. \A x \in 1 .. n : list[x].id \in Nat /\ list[x].id < cnt
        BY <1>2, <1>4
      <4>2. list[j - 1].id \in Nat /\ list[j - 1].id < cnt
        BY <3>1, <4>1, Zenon
      <4> QED
        BY <4>2
    <3>4. CASE j < n + 1
      <4>1. /\ j + 1 \in 1 .. n + 1 /\ ~(j + 1 < i) /\ j + 1 # i /\ j + 1 # i + 1
            /\ j + 1 - 1 = (j - 1) + 1 /\ j - 1 < n /\ j # n + 1
        BY <1>1, <2>5, <3>4
      <4>2. new[j + 1] = list[(j - 1) + 1]
        BY <1>0, <4>1
      <4> QED
        BY <1>2, <3>1, <3>2, <3>3, <4>1, <4>2
    <3>5. CASE j = n + 1
      <4>1. j - 1 = n /\ ~(j < n + 1)
        BY <1>1, <3>5
      <4> QED
        BY <1>2, <3>1, <3>2, <3>3, <3>5, <4>1
    <3> QED
      BY <1>1, <3>4, <3>5
  <2> QED
    BY <1>1, <2>1, <2>2, <2>3, <2>4, <2>5
<1>6. ASSUME NEW j \in 1 .. n + 1, j # i + 1
      PROVE  \E k \in 1 .. n : /\ new[j].id = list[k].id
                               /\ k = IF j =< i THEN j ELSE j - 1
  <2>1. CASE j =< i
    BY <1>0, <1>1, <2>1
  <2>2. CASE ~ (j =< i)
    <3>1. j - 1 \in 1 .. n /\ ~(j < i) /\ j # i
      BY <1>1, <2>2, <1>6
    <3> QED
      BY <1>0, <1>6, <2>2, <3>1
  <2> QED
    BY <2>1, <2>2
<1>7. i + 1 \in 1 .. n + 1 /\ new[i + 1].id = cnt
  BY <1>0, <1>1
<1>8. ASSUME NEW j \in 1 .. n + 1, NEW k \in 1 .. n + 1, new[j].id = new[k].id PROVE j = k
  <2>1. CASE j # i + 1 /\ k # i + 1
    <3>1. PICK x \in 1 .. n : new[j].id = list[x].id /\ x = IF j =< i THEN j ELSE j - 1
      BY <1>6, <2>1
    <3>2. PICK y \in 1 .. n : new[k].id = list[y].id /\ y = IF k =< i THEN k ELSE k - 1
      BY <1>6, <2>1
    <3>3. x = y
      BY <1>3, <1>8, <3>1, <3>2
    <3> QED
      BY <1>1, <2>1, <3>1, <3>2, <3>3
  <2>2. ASSUME NEW x \in 1 .. n + 1, x # i + 1 PROVE new[x].id # cnt
    <3>1. PICK y \in 1 .. n : new[x].id = list[y].id
      BY <1>6, <2>2
    <3>2. list[y].id < cnt /\ list[y].id \in Nat
      BY <1>1, <1>2, <1>4
    <3> QED
      BY <3>1, <3>2
  <2> QED
    BY <1>7, <1>8, <2>1, <2>2
<1>9. tl \in 0 .. PAGES /\ new # <<>>
  BY <1>1 DEF Good
<1> QED
  BY <1>1, <1>5, <1>8, <1>9 DEF Good

(* A block whose place in the list does not change.                         *)
LEMMA SetGood ==
    ASSUME NEW list \in Seq(Block), NEW cnt, NEW tl, Good(list, cnt, tl),
           NEW i \in 1 .. Len(list), NEW b \in Block,
           b.id = list[i].id, b.addr = list[i].addr, b.pages = list[i].pages
    PROVE  Good([list EXCEPT ![i] = b], cnt, tl)
<1> DEFINE new == [list EXCEPT ![i] = b]
<1>1. new \in Seq(Block) /\ Len(new) = Len(list) /\ Len(list) \in Nat
      /\ \A j \in 1 .. Len(list) : new[j] = IF j = i THEN b ELSE list[j]
  BY ExceptSeq
<1>2. \A j \in 1 .. Len(list) :
         new[j].id = list[j].id /\ new[j].addr = list[j].addr /\ new[j].pages = list[j].pages
  BY <1>1
<1>3. \A j \in 1 .. Len(list) : j < Len(list) => j + 1 \in 1 .. Len(list)
  BY <1>1
<1>4. new # <<>>
  BY <1>1
<1> HIDE DEF new
<1>5. Good(new, cnt, tl)
  BY <1>1, <1>2, <1>3, <1>4 DEF Good
<1> QED
  BY <1>5 DEF new

(* A block at the end of the range.                                         *)
LEMMA AppendGood ==
    ASSUME NEW list \in Seq(Block), NEW cnt \in Nat, NEW tl, Good(list, cnt, tl),
           NEW b \in Block, b.id = cnt, b.addr = tl, b.addr + b.pages \in 0 .. PAGES
    PROVE  Good(Append(list, b), cnt + 1, tl + b.pages)
<1> DEFINE new == Append(list, b)
           n == Len(list)
<1>1. new \in Seq(Block) /\ Len(new) = n + 1 /\ n \in Nat /\ new[n + 1] = b
      /\ \A j \in 1 .. n : new[j] = list[j]
  OBVIOUS
<1>2. \A j \in 1 .. n : /\ list[j].addr + list[j].pages <= tl /\ list[j].id < cnt
                        /\ j = 1 => list[j].addr = 0
                        /\ j < n => list[j + 1].addr = list[j].addr + list[j].pages
                        /\ j = n => tl = list[j].addr + list[j].pages
  BY DEF Good
<1>3. \A j, k \in 1 .. n : list[j].id = list[k].id => j = k
  BY DEF Good
<1>4. \A j \in 1 .. n : list[j].addr \in Nat /\ list[j].pages \in Nat /\ list[j].id \in Nat
  BY BlockFacts
<1>5. b.pages \in Nat /\ tl \in Nat /\ (n = 0 => tl = 0)
  BY BlockTypes, ShmAssumption DEF Good
<1> HIDE DEF new, n
<1>6. ASSUME NEW j \in 1 .. n + 1
      PROVE  /\ new[j].addr + new[j].pages <= tl + b.pages /\ new[j].id < cnt + 1
             /\ j = 1 => new[j].addr = 0
             /\ j < n + 1 => new[j + 1].addr = new[j].addr + new[j].pages
             /\ j = n + 1 => tl + b.pages = new[j].addr + new[j].pages
  <2>1. CASE j = n + 1
    BY <1>1, <1>5, <2>1
  <2>2. CASE j = n
    <3>1. j \in 1 .. n /\ j # n + 1 /\ new[j] = list[j] /\ new[j + 1] = b
      BY <1>1, <2>2
    <3>2. tl = list[j].addr + list[j].pages /\ list[j].id < cnt /\ (j = 1 => list[j].addr = 0)
      BY <1>2, <2>2, <3>1
    <3> QED
      BY <1>4, <1>5, <3>1, <3>2
  <2>3. CASE j < n
    <3>1. /\ j \in 1 .. n /\ j # n + 1 /\ j + 1 \in 1 .. n
          /\ new[j] = list[j] /\ new[j + 1] = list[j + 1]
      BY <1>1, <2>3
    <3>2. /\ list[j].addr + list[j].pages =< tl /\ list[j].id < cnt /\ (j = 1 => list[j].addr = 0)
          /\ list[j + 1].addr = list[j].addr + list[j].pages
      BY <1>2, <2>3, <3>1
    <3> QED
      BY <1>4, <1>5, <3>1, <3>2
  <2> QED
    BY <1>1, <2>1, <2>2, <2>3
<1>7. ASSUME NEW j \in 1 .. n + 1, NEW k \in 1 .. n + 1, new[j].id = new[k].id PROVE j = k
  <2>1. \A x \in 1 .. n : list[x].id # cnt
    BY <1>2, <1>4
  <2>2. \A x \in 1 .. n + 1 : x # n + 1 => x \in 1 .. n
    BY <1>1
  <2> QED
    BY <1>1, <1>3, <1>7, <2>1, <2>2
<1>8. tl + b.pages \in 0 .. PAGES /\ new # <<>>
  BY <1>1
<1>9. Good(new, cnt + 1, tl + b.pages)
  BY <1>1, <1>6, <1>7, <1>8 DEF Good
<1> QED
  BY <1>9 DEF new

-----------------------------------------------------------------------------
(* Blocks and their maps.                                                   *)

LEMMA MapsFinite ==
    ASSUME NEW sh, NEW id
    PROVE  IsFiniteSet(MapsIn(sh, id)) /\ Cardinality(MapsIn(sh, id)) \in Nat
<1>1. IsFiniteSet(Pids) /\ SHM_MAX \in Nat
  BY ShmAssumption
<1>2. IsFiniteSet(Places)
  BY <1>1, FS_Interval DEF Places
<1>3. IsFiniteSet(Pids \X Places)
  BY <1>1, <1>2, FS_Product
<1>4. MapsIn(sh, id) \subseteq Pids \X Places
  BY DEF MapsIn
<1> QED
  BY <1>3, <1>4, FS_Subset, FS_CardinalityType

LEMMA RenewKeeps ==
    ASSUME NEW list, NEW new, NEW sh, NEW mp,
           RefsIn(list, sh), IsolatedIn(list, sh, mp), Renewed(new, list, sh)
    PROVE  RefsIn(new, sh) /\ IsolatedIn(new, sh, mp)
<1>1. ASSUME NEW k \in 1 .. Len(new)
      PROVE  IF new[k].used THEN new[k].refs = Cardinality(MapsIn(sh, new[k].id))
                            ELSE new[k].refs = 0 /\ MapsIn(sh, new[k].id) = {}
  <2>1. CASE \E j \in 1 .. Len(list) : new[k] = list[j]
    <3>1. PICK j \in 1 .. Len(list) : new[k] = list[j]
      BY <2>1
    <3> QED
      BY <3>1 DEF RefsIn
  <2>2. CASE new[k].refs = 0 /\ MapsIn(sh, new[k].id) = {}
    BY <2>2, FS_EmptySet
  <2> QED
    BY <2>1, <2>2 DEF Renewed
<1>2. ASSUME NEW p \in Pids, NEW s \in Places, NEW i \in 1 .. Len(list),
             list[i].used, list[i].id = sh[p][s]
      PROVE  \E k \in 1 .. Len(new) : new[k] = list[i]
  <2>1. <<p, s>> \in MapsIn(sh, list[i].id)
    BY <1>2 DEF MapsIn
  <2> QED
    BY <1>2, <2>1 DEF Renewed
<1>3. ASSUME NEW p \in Pids, NEW s \in Places, sh[p][s] # 0
      PROVE  \E k \in 1 .. Len(new) : new[k].used /\ new[k].id = sh[p][s]
  <2>1. PICK i \in 1 .. Len(list) : list[i].used /\ list[i].id = sh[p][s]
    BY <1>3 DEF RefsIn
  <2> QED
    BY <1>2, <2>1, Zenon
<1>4. ASSUME NEW p \in Pids, NEW page \in mp[p]
      PROVE  \E k \in 1 .. Len(new), s \in Places :
                new[k].used /\ new[k].id = sh[p][s] /\ page \in Pages(new[k])
  <2>1. PICK i \in 1 .. Len(list), s \in Places :
           list[i].used /\ list[i].id = sh[p][s] /\ page \in Pages(list[i])
    BY DEF IsolatedIn
  <2> QED
    BY <1>2, <2>1, Zenon
<1> QED
  BY <1>1, <1>3, <1>4 DEF RefsIn, IsolatedIn

-----------------------------------------------------------------------------
(* The steps.                                                               *)

Cuts(addr, pages, n) ==
    /\ addr + n \in 0 .. PAGES /\ pages - n \in 0 .. PAGES
    /\ (addr + n) + (pages - n) = addr + pages

LEMMA CutFacts ==
    ASSUME NEW addr \in Nat, NEW pages \in Nat, NEW n \in Nat, pages > n, addr + pages <= PAGES
    PROVE  Cuts(addr, pages, n)
BY ShmAssumption DEF Cuts

(* A new id is nobody's, and neither is a free block's.                     *)
LEMMA FreshMaps ==
    ASSUME IInv
    PROVE  /\ MapsIn(shms, count) = {}
           /\ \A j \in 1 .. Len(blocks) :
                 ~blocks[j].used => blocks[j].refs = 0 /\ MapsIn(shms, blocks[j].id) = {}
<1>1. ASSUME NEW p \in Pids, NEW s \in Places, shms[p][s] = count PROVE FALSE
  <2>1. count \in Nat /\ count # 0
    BY ShmAssumption DEF IInv, TypeOK
  <2>2. PICK i \in 1 .. Len(blocks) : blocks[i].used /\ blocks[i].id = shms[p][s]
    BY <1>1, <2>1 DEF IInv, RefsIn
  <2>3. blocks[i].id < count
    BY DEF IInv, Good
  <2> QED
    BY <1>1, <2>1, <2>2, <2>3
<1>2. MapsIn(shms, count) = {}
  BY <1>1 DEF MapsIn
<1>3. ASSUME NEW j \in 1 .. Len(blocks), ~blocks[j].used
      PROVE  blocks[j].refs = 0 /\ MapsIn(shms, blocks[j].id) = {}
  BY <1>3 DEF IInv, RefsIn
<1> QED
  BY <1>2, <1>3

LEMMA ReuseKeeps ==
    ASSUME IInv, NEW p \in Pids, NEW n \in SIZES, NEW public \in BOOLEAN,
           count <= IDS, Reuse(p, n, public)
    PROVE  Good(blocks', count', tail') /\ count' \in 1 .. IDS + 2 /\ Renewed(blocks', blocks, shms)
<1>1. /\ blocks \in Seq(Block) /\ count \in 1 .. IDS + 2 /\ tail \in 0 .. PAGES
      /\ Good(blocks, count, tail) /\ IDS \in Nat /\ PAGES \in Nat /\ n \in Nat /\ n # 0
  BY ShmAssumption DEF IInv, TypeOK
<1>2. count \in Nat /\ count \in 1 .. IDS + 1 /\ count + 1 \in 1 .. IDS + 2
  BY <1>1
<1>3. PICK i \in 1 .. Len(blocks) :
         /\ First(i, {j \in 1 .. Len(blocks) : ~blocks[j].used /\ blocks[j].pages >= n})
         /\ \/ /\ blocks[i].pages > n
               /\ blocks' = Split(i, [[blocks[i] EXCEPT !.used = TRUE, !.owner = p, !.public = public]
                                        EXCEPT !.pages = n])
               /\ count' = count + 1
            \/ /\ blocks' = [blocks EXCEPT ![i] = [blocks[i] EXCEPT !.used = TRUE, !.owner = p,
                                                                   !.public = public]]
               /\ UNCHANGED count
         /\ tail' = IF blocks[i].addr = tail THEN tail + n ELSE tail
  BY DEF Reuse
<1>4. /\ blocks[i] \in Block /\ ~blocks[i].used /\ blocks[i].pages >= n
      /\ blocks[i].refs = 0 /\ MapsIn(shms, blocks[i].id) = {}
  BY <1>1, <1>3, ElementOfSeq, FreshMaps DEF First
<1>5. tail' = tail
  <2>1. blocks[i].addr + blocks[i].pages =< tail
    BY <1>1 DEF Good
  <2>2. blocks[i].addr # tail
    BY <1>1, <1>4, <2>1, BlockTypes
  <2> QED
    BY <1>3, <2>2
<1>6. CASE /\ blocks' = [blocks EXCEPT ![i] = [blocks[i] EXCEPT !.used = TRUE, !.owner = p,
                                                              !.public = public]]
           /\ UNCHANGED count
  <2> DEFINE b == [blocks[i] EXCEPT !.used = TRUE, !.owner = p, !.public = public]
  <2>1. /\ b \in Block /\ b.id = blocks[i].id /\ b.addr = blocks[i].addr
        /\ b.pages = blocks[i].pages /\ b.refs = 0
    BY <1>4 DEF Block
  <2>2. blocks' = [blocks EXCEPT ![i] = b] /\ count' = count
    BY <1>6
  <2> HIDE DEF b
  <2>3. Good(blocks', count', tail')
    BY <1>1, <1>5, <2>1, <2>2, SetGood
  <2>4. Len(blocks') = Len(blocks) /\ Len(blocks) \in Nat
        /\ \A j \in 1 .. Len(blocks) : blocks'[j] = IF j = i THEN b ELSE blocks[j]
    BY <1>1, <2>1, <2>2, ExceptSeq
  <2>5. Renewed(blocks', blocks, shms)
    BY <1>4, <2>1, <2>4 DEF Renewed
  <2> QED
    BY <1>1, <2>2, <2>3, <2>5
<1>7. CASE /\ blocks[i].pages > n
           /\ blocks' = Split(i, [[blocks[i] EXCEPT !.used = TRUE, !.owner = p, !.public = public]
                                    EXCEPT !.pages = n])
           /\ count' = count + 1
  <2> DEFINE b == [[blocks[i] EXCEPT !.used = TRUE, !.owner = p, !.public = public] EXCEPT !.pages = n]
             c == [b EXCEPT !.id = count, !.addr = @ + b.pages, !.pages = blocks[i].pages - b.pages,
                            !.used = FALSE, !.refs = 0, !.public = FALSE, !.owner = NULL]
             mid == <<b, c>>
  <2>0. blocks' = SubSeq(blocks, 1, i - 1) \o mid \o SubSeq(blocks, i + 1, Len(blocks))
    BY <1>7 DEF Split
  <2>1. blocks[i].addr \in Nat /\ blocks[i].pages \in Nat /\ blocks[i].addr + blocks[i].pages =< PAGES
    <3>1. blocks[i].addr + blocks[i].pages =< tail
      BY <1>1 DEF Good
    <3> QED
      BY <1>1, <1>4, <3>1, BlockTypes
  <2>2. n \in 0 .. PAGES
    BY <1>1, <1>4, <2>1
  <2>3. /\ b \in Block /\ b.id = blocks[i].id /\ b.addr = blocks[i].addr
        /\ b.pages = n /\ b.refs = 0
    BY <1>4, <2>2 DEF Block
  <2> HIDE DEF b
  <2>4. blocks[i].addr + n \in 0 .. PAGES /\ blocks[i].pages - n \in 0 .. PAGES
        /\ (blocks[i].addr + n) + (blocks[i].pages - n) = blocks[i].addr + blocks[i].pages
    <3>1. blocks[i].pages > n /\ n \in Nat
      BY <1>1, <1>7
    <3>2. Cuts(blocks[i].addr, blocks[i].pages, n)
      BY <2>1, <3>1, CutFacts, Zenon
    <3> QED
      BY <3>2, Zenon DEF Cuts
  <2>5. /\ c \in Block /\ c.id = count /\ c.addr = b.addr + b.pages /\ c.refs = 0
        /\ c.addr + c.pages = blocks[i].addr + blocks[i].pages
    <3>1. count \in 1 .. IDS + 1 /\ NULL \in Pids \cup {NULL} /\ 0 \in Nat
      BY <1>2
    <3>2. c \in Block
      BY <2>3, <2>4, <3>1 DEF Block
    <3>3. /\ c.id = count /\ c.refs = 0 /\ c.addr = blocks[i].addr + n
          /\ c.pages = blocks[i].pages - n
      BY <2>3 DEF Block
    <3> QED
      BY <2>3, <2>4, <3>2, <3>3
  <2> HIDE DEF c
  <2>6. mid \in Seq(Block) /\ Len(mid) = 2 /\ mid[1] = b /\ mid[2] = c
    BY <2>3, <2>5
  <2> HIDE DEF mid
  <2>7. i \in 1 .. Len(blocks) /\ i \in i .. Len(blocks)
    BY <1>1
  <2>8. blocks' \in Seq(Block) /\ Spliced(blocks', blocks, mid, i, i)
    BY <1>1, <2>0, <2>6, <2>7, SpliceFacts, Zenon
  <2>9. Inserted(blocks', blocks, i, b, c)
    <3>1. Len(blocks') = Len(blocks) + 1
      BY <1>1, <2>6, <2>8 DEF Spliced
    <3>2. ASSUME NEW j \in 1 .. Len(blocks')
          PROVE  blocks'[j] = IF j < i THEN blocks[j]
                              ELSE IF j = i THEN b ELSE IF j = i + 1 THEN c ELSE blocks[j - 1]
      <4>0. j \in Nat /\ i \in Nat
        BY <1>1, <3>1
      <4>1. blocks'[j] = IF j < i THEN blocks[j] ELSE IF j < i + 2 THEN mid[j - i + 1]
                         ELSE blocks[j - 2 + (i - i + 1)]
        BY <2>6, <2>8 DEF Spliced
      <4>2. CASE j < i
        BY <4>1, <4>2
      <4>3. CASE j = i
        <5>1. ~(j < i) /\ j < i + 2 /\ j - i + 1 = 1
          BY <4>0, <4>3
        <5> QED
          BY <2>6, <4>1, <4>3, <5>1
      <4>4. CASE j = i + 1
        <5>1. ~(j < i) /\ j # i /\ j < i + 2 /\ j - i + 1 = 2
          BY <4>0, <4>4
        <5> QED
          BY <2>6, <4>1, <4>4, <5>1
      <4>5. CASE j > i + 1
        <5>1. ~(j < i) /\ j # i /\ j # i + 1 /\ ~(j < i + 2) /\ j - 2 + (i - i + 1) = j - 1
          BY <4>0, <4>5
        <5> QED
          BY <4>1, <5>1
      <4> QED
        BY <4>0, <4>2, <4>3, <4>4, <4>5
    <3> QED
      BY <3>1, <3>2 DEF Inserted
  <2>10. Good(blocks', count + 1, tail)
    BY <1>1, <1>2, <2>3, <2>5, <2>7, <2>8, <2>9, SplitGood, Zenon
  <2>11. Renewed(blocks', blocks, shms)
    <3>1. ASSUME NEW j \in 1 .. Len(blocks), j # i
          PROVE  \E k \in 1 .. Len(blocks') : blocks'[k] = blocks[j]
      <4>1. CASE j < i
        <5>1. j \in 1 .. Len(blocks')
          BY <1>1, <2>9 DEF Inserted
        <5> QED
          BY <2>9, <4>1, <5>1 DEF Inserted
      <4>2. CASE j > i
        <5>1. j + 1 \in 1 .. Len(blocks') /\ ~(j + 1 < i) /\ j + 1 # i /\ j + 1 # i + 1 /\ j + 1 - 1 = j
          BY <1>1, <2>9, <4>2 DEF Inserted
        <5>2. blocks'[j + 1] = blocks[j + 1 - 1]
          BY <2>9, <5>1 DEF Inserted
        <5> QED
          BY <5>1, <5>2
      <4>3. j \in Nat /\ i \in Nat
        BY <1>1
      <4> QED
        BY <3>1, <4>1, <4>2, <4>3
    <3>2. ASSUME NEW k \in 1 .. Len(blocks')
          PROVE  \/ \E j \in 1 .. Len(blocks) : blocks'[k] = blocks[j]
                 \/ blocks'[k].refs = 0 /\ MapsIn(shms, blocks'[k].id) = {}
      <4>1. CASE k < i
        <5>1. k \in 1 .. Len(blocks)
          BY <1>1, <2>9, <4>1 DEF Inserted
        <5> QED
          BY <2>9, <4>1, <5>1 DEF Inserted
      <4>2. CASE k = i
        <5>1. blocks'[k] = b
          BY <1>1, <2>9, <4>2 DEF Inserted
        <5>2. b.refs = 0 /\ MapsIn(shms, b.id) = {}
          BY <1>4, <2>3
        <5> QED
          BY <5>1, <5>2
      <4>3. CASE k = i + 1
        <5>1. ~(k < i) /\ k # i
          BY <1>1, <4>3
        <5>2. blocks'[k] = c
          BY <2>9, <4>3, <5>1 DEF Inserted
        <5> QED
          BY <2>5, <5>2, FreshMaps
      <4>4. CASE k > i + 1
        <5>1. k - 1 \in 1 .. Len(blocks) /\ ~(k < i) /\ k # i /\ k # i + 1
          BY <1>1, <2>9, <4>4 DEF Inserted
        <5> QED
          BY <2>9, <5>1 DEF Inserted
      <4>0. k \in Nat /\ i \in Nat
        BY <1>1, <2>9 DEF Inserted
      <4> QED
        BY <4>0, <4>1, <4>2, <4>3, <4>4
    <3> QED
      BY <1>4, <3>1, <3>2 DEF Renewed
  <2> QED
    BY <1>2, <1>5, <1>7, <2>10, <2>11
<1> QED
  BY <1>3, <1>6, <1>7

LEMMA ExpandKeeps ==
    ASSUME IInv, NEW p \in Pids, NEW n \in SIZES, NEW public \in BOOLEAN,
           count <= IDS, Expand(p, n, public)
    PROVE  Good(blocks', count', tail') /\ count' \in 1 .. IDS + 2 /\ Renewed(blocks', blocks, shms)
<1>1. /\ blocks \in Seq(Block) /\ count \in 1 .. IDS + 1 /\ count \in Nat /\ tail \in 0 .. PAGES
      /\ Good(blocks, count, tail) /\ IDS \in Nat /\ PAGES \in Nat /\ n \in Nat
      /\ count' = count + 1 /\ count + 1 \in 1 .. IDS + 2
  BY ShmAssumption DEF IInv, TypeOK, Expand
<1>2. PICK b \in Block : /\ blocks' = Append(blocks, b) /\ tail' = tail + b.pages
                         /\ b.id = count /\ b.addr = tail /\ b.refs = 0
                         /\ b.addr + b.pages \in 0 .. PAGES
  <2>1. CASE /\ tail + n <= PAGES
             /\ blocks' = Append(blocks, [id |-> count, addr |-> tail, pages |-> n, used |-> TRUE,
                                          public |-> public, owner |-> p, refs |-> 0])
             /\ tail' = tail + n
    <3> DEFINE b == [id |-> count, addr |-> tail, pages |-> n, used |-> TRUE,
                     public |-> public, owner |-> p, refs |-> 0]
    <3>1. n \in 0 .. PAGES /\ tail + n \in 0 .. PAGES /\ 0 \in Nat
      BY <1>1, <2>1
    <3>2. b \in Block
      BY <1>1, <3>1 DEF Block
    <3>3. blocks' = Append(blocks, b) /\ tail' = tail + b.pages
      BY <2>1
    <3>4. b.id = count /\ b.addr = tail /\ b.refs = 0 /\ b.addr + b.pages \in 0 .. PAGES
      BY <3>1
    <3> QED
      BY <3>2, <3>3, <3>4
  <2>2. CASE /\ blocks' = Append(blocks, [id |-> count, addr |-> tail, pages |-> 0, used |-> FALSE,
                                          public |-> FALSE, owner |-> NULL, refs |-> 0])
             /\ tail' = tail
    <3> DEFINE b == [id |-> count, addr |-> tail, pages |-> 0, used |-> FALSE,
                     public |-> FALSE, owner |-> NULL, refs |-> 0]
    <3>1. 0 \in 0 .. PAGES /\ tail + 0 = tail /\ 0 \in Nat
      BY <1>1
    <3>2. b \in Block
      BY <1>1, <3>1 DEF Block
    <3>3. blocks' = Append(blocks, b) /\ tail' = tail
      BY <2>2
    <3>4. b.id = count /\ b.addr = tail /\ b.refs = 0 /\ b.addr + b.pages = tail /\ b.pages = 0
      BY <3>1
    <3> HIDE DEF b
    <3>5. tail' = tail + b.pages /\ b.addr + b.pages \in 0 .. PAGES
      BY <1>1, <3>1, <3>3, <3>4
    <3> QED
      BY <3>2, <3>3, <3>4, <3>5
  <2> QED
    BY <2>1, <2>2 DEF Expand
<1>3. Good(blocks', count + 1, tail')
  BY <1>1, <1>2, AppendGood
<1>4. Renewed(blocks', blocks, shms)
  <2>1. /\ Len(blocks') = Len(blocks) + 1 /\ Len(blocks) \in Nat /\ blocks'[Len(blocks) + 1] = b
        /\ \A j \in 1 .. Len(blocks) : blocks'[j] = blocks[j]
    BY <1>1, <1>2
  <2>2. b.refs = 0 /\ MapsIn(shms, b.id) = {}
    BY <1>2, FreshMaps
  <2>3. \A j \in 1 .. Len(blocks') : j \in 1 .. Len(blocks) \/ j = Len(blocks) + 1
    BY <2>1
  <2>4. \A j \in 1 .. Len(blocks) : j \in 1 .. Len(blocks')
    BY <2>1
  <2> QED
    BY <2>1, <2>2, <2>3, <2>4 DEF Renewed
<1> QED
  BY <1>1, <1>3, <1>4

LEMMA AllocKeeps ==
    ASSUME IInv, NEW p \in Pids, NEW n \in SIZES, NEW public \in BOOLEAN, Alloc(p, n, public)
    PROVE  IInv'
<1>1. count <= IDS /\ (Reuse(p, n, public) \/ Expand(p, n, public)) /\ UNCHANGED <<shms, mapped, procs>>
  BY DEF Alloc
<1>2. Good(blocks', count', tail') /\ count' \in 1 .. IDS + 2 /\ Renewed(blocks', blocks, shms)
  BY <1>1, ReuseKeeps, ExpandKeeps
<1>3. RefsIn(blocks', shms) /\ IsolatedIn(blocks', shms, mapped)
  BY <1>2, RenewKeeps DEF IInv
<1>4. TypeOK'
  BY <1>1, <1>2 DEF IInv, TypeOK, Good, procs
<1> QED
  BY <1>1, <1>2, <1>3, <1>4 DEF IInv

(* One more map of the block i.                                             *)
LEMMA MapKeeps ==
    ASSUME IInv, NEW p \in Pids, NEW id \in 1 .. IDS + 1, Map(p, id)
    PROVE  IInv'
<1>1. /\ blocks \in Seq(Block) /\ Good(blocks, count, tail)
      /\ shms \in [Pids -> [Places -> 0 .. IDS + 1]] /\ mapped \in [Pids -> SUBSET (0 .. PAGES - 1)]
      /\ count \in Nat /\ id # 0
  BY ShmAssumption DEF IInv, TypeOK
<1>2. PICK i \in 1 .. Len(blocks), s \in Places :
         /\ Item(i, id)
         /\ First(s, {t \in Places : shms[p][t] = 0})
         /\ shms' = [shms EXCEPT ![p][s] = id]
         /\ mapped' = [mapped EXCEPT ![p] = @ \cup Pages(blocks[i])]
         /\ blocks' = [blocks EXCEPT ![i].refs = @ + 1]
  BY DEF Map
<1>3. count' = count /\ tail' = tail /\ father' = father /\ alive' = alive /\ exiting' = exiting
  BY DEF Map, procs
<1>4. shms[p][s] = 0 /\ blocks[i].used /\ blocks[i].id = id /\ blocks[i] \in Block
  BY <1>1, <1>2, ElementOfSeq DEF First, Item
<1> DEFINE b == [blocks[i] EXCEPT !.refs = @ + 1]
<1>5. /\ b \in Block /\ b.id = id /\ b.addr = blocks[i].addr /\ b.pages = blocks[i].pages
      /\ b.refs = blocks[i].refs + 1 /\ b.used
  BY <1>4 DEF Block
<1>6. blocks' = [blocks EXCEPT ![i] = b]
  BY <1>2
<1> HIDE DEF b
<1>7. Good(blocks', count, tail)
  BY <1>1, <1>4, <1>5, <1>6, SetGood
<1>8. Len(blocks') = Len(blocks) /\ \A j \in 1 .. Len(blocks) : blocks'[j] = IF j = i THEN b ELSE blocks[j]
  BY <1>1, <1>5, <1>6, ExceptSeq
<1>9. /\ shms' \in [Pids -> [Places -> 0 .. IDS + 1]]
      /\ \A q \in Pids, t \in Places :
            shms'[q][t] = IF q = p /\ t = s THEN id ELSE shms[q][t]
  <2>1. id \in 0 .. IDS + 1
    BY ShmAssumption
  <2> QED
    BY <1>1, <1>2, <2>1
<1>10. /\ MapsIn(shms', id) = MapsIn(shms, id) \cup {<<p, s>>}
       /\ <<p, s>> \notin MapsIn(shms, id)
       /\ \A x \in Nat : x # 0 /\ x # id => MapsIn(shms', x) = MapsIn(shms, x)
  <2>1. \A x : \A y \in Pids \X Places : y \in MapsIn(shms, x) <=> shms[y[1]][y[2]] = x
    BY DEF MapsIn
  <2>2. \A x : \A y \in Pids \X Places : y \in MapsIn(shms', x) <=> shms'[y[1]][y[2]] = x
    BY DEF MapsIn
  <2>3. \A x : MapsIn(shms, x) \subseteq Pids \X Places /\ MapsIn(shms', x) \subseteq Pids \X Places
    BY DEF MapsIn
  <2>4. \A y \in Pids \X Places : y[1] \in Pids /\ y[2] \in Places /\ (y[1] = p /\ y[2] = s <=> y = <<p, s>>)
    OBVIOUS
  <2>5. <<p, s>> \in Pids \X Places /\ shms[<<p, s>>[1]][<<p, s>>[2]] = 0
    BY <1>4
  <2>6. \A y \in Pids \X Places : shms'[y[1]][y[2]] = IF y = <<p, s>> THEN id ELSE shms[y[1]][y[2]]
    BY <1>9, <2>4
  <2>7. <<p, s>> \notin MapsIn(shms, id)
    BY <1>1, <2>1, <2>5
  <2>8. ASSUME NEW y PROVE y \in MapsIn(shms', id) <=> y \in MapsIn(shms, id) \cup {<<p, s>>}
    BY <2>1, <2>2, <2>3, <2>5, <2>6
  <2>9. ASSUME NEW x \in Nat, x # 0, x # id, NEW y PROVE y \in MapsIn(shms', x) <=> y \in MapsIn(shms, x)
    BY <2>1, <2>2, <2>3, <2>5, <2>6, <2>9
  <2> QED
    BY <2>7, <2>8, <2>9
<1>11. \A j \in 1 .. Len(blocks) : j # i => blocks[j].id # id /\ blocks[j].id \in Nat /\ blocks[j].id # 0
  <2>1. \A j \in 1 .. Len(blocks) : blocks[j] \in Block
    BY <1>1, ElementOfSeq
  <2>2. \A j \in 1 .. Len(blocks) : blocks[j].id \in Nat /\ blocks[j].id # 0
    BY <2>1, ShmAssumption DEF Block
  <2> QED
    BY <1>1, <1>4, <2>2 DEF Good
<1>12. RefsIn(blocks', shms')
  <2>1. ASSUME NEW j \in 1 .. Len(blocks')
        PROVE  IF blocks'[j].used THEN blocks'[j].refs = Cardinality(MapsIn(shms', blocks'[j].id))
                                  ELSE blocks'[j].refs = 0 /\ MapsIn(shms', blocks'[j].id) = {}
    <3>1. CASE j = i
      <4>1. Cardinality(MapsIn(shms, id) \cup {<<p, s>>}) = Cardinality(MapsIn(shms, id)) + 1
        BY <1>10, MapsFinite, FS_AddElement
      <4>2. blocks[i].refs = Cardinality(MapsIn(shms, id))
        BY <1>4 DEF IInv, RefsIn
      <4>3. blocks'[j] = b
        BY <1>8, <3>1
      <4> QED
        BY <1>5, <1>10, <4>1, <4>2, <4>3, Zenon
    <3>2. CASE j # i
      <4>1. blocks'[j] = blocks[j] /\ j \in 1 .. Len(blocks)
        BY <1>8, <3>2
      <4>2. MapsIn(shms', blocks[j].id) = MapsIn(shms, blocks[j].id)
        BY <1>10, <1>11, <3>2, <4>1
      <4>3. IF blocks[j].used THEN blocks[j].refs = Cardinality(MapsIn(shms, blocks[j].id))
                              ELSE blocks[j].refs = 0 /\ MapsIn(shms, blocks[j].id) = {}
        BY <4>1 DEF IInv, RefsIn
      <4> QED
        BY <4>1, <4>2, <4>3
    <3> QED
      BY <3>1, <3>2
  <2>2. ASSUME NEW q \in Pids, NEW t \in Places, shms'[q][t] # 0
        PROVE  \E j \in 1 .. Len(blocks') : blocks'[j].used /\ blocks'[j].id = shms'[q][t]
    <3>1. CASE q = p /\ t = s
      <4>1. i \in 1 .. Len(blocks') /\ blocks'[i].used /\ blocks'[i].id = id
        BY <1>5, <1>8
      <4>2. shms'[q][t] = id
        BY <1>9, <3>1
      <4> QED
        BY <4>1, <4>2
    <3>2. CASE ~(q = p /\ t = s)
      <4>1. shms'[q][t] = shms[q][t]
        BY <1>9, <3>2
      <4>2. PICK j \in 1 .. Len(blocks) : blocks[j].used /\ blocks[j].id = shms[q][t]
        BY <2>2, <4>1 DEF IInv, RefsIn
      <4>3. blocks'[j].used /\ blocks'[j].id = blocks[j].id
        BY <1>4, <1>5, <1>8, <4>2
      <4> QED
        BY <1>8, <4>1, <4>2, <4>3
    <3> QED
      BY <3>1, <3>2
  <2> QED
    BY <2>1, <2>2 DEF RefsIn
<1>13. \A j \in 1 .. Len(blocks) : Pages(blocks'[j]) = Pages(blocks[j])
  BY <1>5, <1>8 DEF Pages
<1>14. IsolatedIn(blocks', shms', mapped')
  <2>1. ASSUME NEW q \in Pids, NEW page \in mapped'[q]
        PROVE  \E j \in 1 .. Len(blocks'), t \in Places :
                  blocks'[j].used /\ blocks'[j].id = shms'[q][t] /\ page \in Pages(blocks'[j])
    <3>1. CASE q = p /\ page \in Pages(blocks[i])
      <4>1. /\ i \in 1 .. Len(blocks') /\ blocks'[i].used /\ blocks'[i].id = id
            /\ page \in Pages(blocks'[i])
        BY <1>5, <1>8, <1>13, <3>1
      <4>2. s \in Places /\ shms'[q][s] = id
        BY <1>9, <3>1
      <4> QED
        BY <4>1, <4>2
    <3>2. CASE page \in mapped[q]
      <4>1. PICK j \in 1 .. Len(blocks), t \in Places :
               blocks[j].used /\ blocks[j].id = shms[q][t] /\ page \in Pages(blocks[j])
        BY <3>2 DEF IInv, IsolatedIn
      <4>2. blocks'[j].used /\ blocks'[j].id = blocks[j].id /\ page \in Pages(blocks'[j])
        BY <1>4, <1>5, <1>8, <1>13, <4>1
      <4>3. blocks[j].id # 0
        BY <1>1, <1>4, <1>11
      <4>4. shms'[q][t] = shms[q][t]
        BY <1>4, <1>9, <4>1, <4>3
      <4> QED
        BY <1>8, <4>1, <4>2, <4>4
    <3> QED
      BY <1>1, <1>2, <3>1, <3>2
  <2> QED
    BY <2>1 DEF IsolatedIn
<1>15. mapped' \in [Pids -> SUBSET (0 .. PAGES - 1)]
  <2>1. blocks[i].addr + blocks[i].pages =< tail /\ tail \in 0 .. PAGES
    BY <1>1 DEF Good
  <2>2. Pages(blocks[i]) \subseteq 0 .. PAGES - 1
    BY <1>4, <2>1, BlockTypes, ShmAssumption DEF Pages
  <2> QED
    BY <1>1, <1>2, <2>2
<1>16. TypeOK'
  BY <1>3, <1>7, <1>9, <1>15 DEF IInv, TypeOK, Good
<1> QED
  BY <1>3, <1>7, <1>12, <1>14, <1>16 DEF IInv

(* free_item of a block that nobody has mapped.                             *)
LEMMA FreeKeeps ==
    ASSUME NEW list \in Seq(Block), NEW cnt \in Nat, NEW tl, Good(list, cnt, tl), NEW sh, NEW mp,
           RefsIn(list, sh), IsolatedIn(list, sh, mp),
           NEW i \in 1 .. Len(list), list[i].refs = 0, MapsIn(sh, list[i].id) = {}
    PROVE  /\ Good(Free(list, i), cnt, tl)
           /\ RefsIn(Free(list, i), sh) /\ IsolatedIn(Free(list, i), sh, mp)
<1>1. ASSUME NEW j \in 1 .. Len(list), ~list[j].used
      PROVE  list[j].refs = 0 /\ MapsIn(sh, list[j].id) = {}
  BY <1>1 DEF RefsIn
<1>2. Good(Free(list, i), cnt, tl) /\ Freed(Free(list, i), list, i)
  <2>1. \A j \in 1 .. Len(list) : ~list[j].used => list[j].refs = 0
    BY <1>1
  <2> QED
    BY <2>1, FreeFacts, Zenon
<1> DEFINE new == Free(list, i)
<1> HIDE DEF new
<1>3. Freed(new, list, i)
  BY <1>2 DEF new
<1>4. Renewed(new, list, sh)
  <2>1. ASSUME NEW j \in 1 .. Len(list), list[j].used, MapsIn(sh, list[j].id) # {}
        PROVE  \E k \in 1 .. Len(new) : new[k] = list[j]
    BY <1>3, <2>1 DEF Freed
  <2>2. ASSUME NEW k \in 1 .. Len(new)
        PROVE  \/ \E j \in 1 .. Len(list) : new[k] = list[j]
               \/ new[k].refs = 0 /\ MapsIn(sh, new[k].id) = {}
    BY <1>1, <1>3 DEF Freed
  <2> QED
    BY <2>1, <2>2 DEF Renewed
<1>5. RefsIn(new, sh) /\ IsolatedIn(new, sh, mp)
  BY <1>4, RenewKeeps
<1> QED
  BY <1>2, <1>5 DEF new

(* One map less of the block i, which is freed with the last.               *)
LEMMA UnmapKeeps ==
    ASSUME IInv, NEW p \in Pids, NEW id, id # 0, Unmap(p, id), UNCHANGED procs
    PROVE  IInv'
<1>1. /\ blocks \in Seq(Block) /\ Good(blocks, count, tail)
      /\ shms \in [Pids -> [Places -> 0 .. IDS + 1]] /\ mapped \in [Pids -> SUBSET (0 .. PAGES - 1)]
      /\ count \in Nat
  BY ShmAssumption DEF IInv, TypeOK
<1>2. PICK i \in 1 .. Len(blocks), s \in Places :
         /\ Item(i, id)
         /\ First(s, {t \in Places : shms[p][t] = id})
         /\ shms' = [shms EXCEPT ![p][s] = 0]
         /\ mapped' = [mapped EXCEPT ![p] = @ \ Pages(blocks[i])]
         /\ blocks' = IF [blocks EXCEPT ![i].refs = @ - 1][i].refs <= 0
                      THEN Free([blocks EXCEPT ![i].refs = @ - 1], i)
                      ELSE [blocks EXCEPT ![i].refs = @ - 1]
         /\ UNCHANGED <<count, tail>>
  BY DEF Unmap
<1>3. count' = count /\ tail' = tail /\ father' = father /\ alive' = alive /\ exiting' = exiting
  BY <1>2 DEF procs
<1>4. shms[p][s] = id /\ blocks[i].used /\ blocks[i].id = id /\ blocks[i] \in Block
  BY <1>1, <1>2, ElementOfSeq DEF First, Item
<1>5. /\ shms' \in [Pids -> [Places -> 0 .. IDS + 1]]
      /\ \A q \in Pids, t \in Places :
            shms'[q][t] = IF q = p /\ t = s THEN 0 ELSE shms[q][t]
  <2>1. 0 \in 0 .. IDS + 1
    BY ShmAssumption
  <2> QED
    BY <1>1, <1>2, <2>1
<1>6. /\ MapsIn(shms', id) = MapsIn(shms, id) \ {<<p, s>>}
      /\ <<p, s>> \in MapsIn(shms, id)
      /\ \A x : x # 0 /\ x # id => MapsIn(shms', x) = MapsIn(shms, x)
  <2>1. \A x : \A y \in Pids \X Places : y \in MapsIn(shms, x) <=> shms[y[1]][y[2]] = x
    BY DEF MapsIn
  <2>2. \A x : \A y \in Pids \X Places : y \in MapsIn(shms', x) <=> shms'[y[1]][y[2]] = x
    BY DEF MapsIn
  <2>3. \A x : MapsIn(shms, x) \subseteq Pids \X Places /\ MapsIn(shms', x) \subseteq Pids \X Places
    BY DEF MapsIn
  <2>4. \A y \in Pids \X Places : y[1] \in Pids /\ y[2] \in Places /\ (y[1] = p /\ y[2] = s <=> y = <<p, s>>)
    OBVIOUS
  <2>5. <<p, s>> \in Pids \X Places /\ shms[<<p, s>>[1]][<<p, s>>[2]] = id
    BY <1>4
  <2>6. \A y \in Pids \X Places : shms'[y[1]][y[2]] = IF y = <<p, s>> THEN 0 ELSE shms[y[1]][y[2]]
    BY <1>5, <2>4
  <2>7. <<p, s>> \in MapsIn(shms, id)
    BY <2>1, <2>5
  <2>8. ASSUME NEW y PROVE y \in MapsIn(shms', id) <=> y \in MapsIn(shms, id) \ {<<p, s>>}
    BY <2>1, <2>2, <2>3, <2>5, <2>6
  <2>9. ASSUME NEW x, x # 0, x # id, NEW y PROVE y \in MapsIn(shms', x) <=> y \in MapsIn(shms, x)
    BY <2>1, <2>2, <2>3, <2>5, <2>6, <2>9
  <2>10. MapsIn(shms', id) = MapsIn(shms, id) \ {<<p, s>>}
    BY <2>8
  <2>11. ASSUME NEW x, x # 0, x # id PROVE MapsIn(shms', x) = MapsIn(shms, x)
    <3>1. ASSUME NEW y PROVE y \in MapsIn(shms', x) <=> y \in MapsIn(shms, x)
      BY <2>9, <2>11
    <3> QED
      BY <3>1
  <2> QED
    BY <2>7, <2>10, <2>11
<1>7. blocks[i].refs \in Nat /\ blocks[i].refs - 1 \in Nat
      /\ blocks[i].refs - 1 = Cardinality(MapsIn(shms', id))
  <2>1. blocks[i].refs = Cardinality(MapsIn(shms, id))
    BY <1>4 DEF IInv, RefsIn
  <2>2. Cardinality(MapsIn(shms', id)) = Cardinality(MapsIn(shms, id)) - 1
    BY <1>6, MapsFinite, FS_RemoveElement
  <2>3. Cardinality(MapsIn(shms, id)) \in Nat /\ Cardinality(MapsIn(shms', id)) \in Nat
    BY MapsFinite
  <2> QED
    BY <2>1, <2>2, <2>3, Zenon
<1> DEFINE b == [blocks[i] EXCEPT !.refs = @ - 1]
           less == [blocks EXCEPT ![i] = b]
<1>8. /\ b \in Block /\ b.id = id /\ b.addr = blocks[i].addr /\ b.pages = blocks[i].pages
      /\ b.refs = Cardinality(MapsIn(shms', id)) /\ b.used
  BY <1>4, <1>7 DEF Block
<1>9. blocks' = IF less[i].refs <= 0 THEN Free(less, i) ELSE less
  BY <1>2
<1> HIDE DEF b
<1>10. Len(less) = Len(blocks) /\ less \in Seq(Block)
       /\ \A j \in 1 .. Len(blocks) : less[j] = IF j = i THEN b ELSE blocks[j]
  BY <1>1, <1>8, ExceptSeq
<1>11. Good(less, count, tail)
  BY <1>1, <1>4, <1>8, SetGood
<1> HIDE DEF less
<1>12. \A j \in 1 .. Len(blocks) : /\ j # i => blocks[j].id # id
                                  /\ blocks[j].id # 0
  <2>1. \A j \in 1 .. Len(blocks) : blocks[j] \in Block
    BY <1>1, ElementOfSeq
  <2>2. \A j \in 1 .. Len(blocks) : blocks[j].id # 0
    BY <2>1, ShmAssumption DEF Block
  <2> QED
    BY <1>1, <1>4, <2>2 DEF Good
<1>13. RefsIn(less, shms')
  <2>1. ASSUME NEW j \in 1 .. Len(less)
        PROVE  IF less[j].used THEN less[j].refs = Cardinality(MapsIn(shms', less[j].id))
                               ELSE less[j].refs = 0 /\ MapsIn(shms', less[j].id) = {}
    <3>1. CASE j = i
      BY <1>8, <1>10, <3>1
    <3>2. CASE j # i
      <4>1. less[j] = blocks[j] /\ j \in 1 .. Len(blocks)
        BY <1>10, <3>2
      <4>2. MapsIn(shms', blocks[j].id) = MapsIn(shms, blocks[j].id)
        BY <1>6, <1>12, <3>2, <4>1
      <4>3. IF blocks[j].used THEN blocks[j].refs = Cardinality(MapsIn(shms, blocks[j].id))
                              ELSE blocks[j].refs = 0 /\ MapsIn(shms, blocks[j].id) = {}
        BY <4>1 DEF IInv, RefsIn
      <4> QED
        BY <4>1, <4>2, <4>3
    <3> QED
      BY <3>1, <3>2
  <2>2. ASSUME NEW q \in Pids, NEW t \in Places, shms'[q][t] # 0
        PROVE  \E j \in 1 .. Len(less) : less[j].used /\ less[j].id = shms'[q][t]
    <3>1. shms'[q][t] = shms[q][t]
      BY <1>5, <2>2
    <3>2. PICK j \in 1 .. Len(blocks) : blocks[j].used /\ blocks[j].id = shms[q][t]
      BY <2>2, <3>1 DEF IInv, RefsIn
    <3>3. less[j].used /\ less[j].id = blocks[j].id
      BY <1>4, <1>8, <1>10, <3>2
    <3> QED
      BY <1>10, <3>1, <3>2, <3>3
  <2> QED
    BY <2>1, <2>2 DEF RefsIn
<1>14. IsolatedIn(less, shms', mapped')
  <2>1. ASSUME NEW q \in Pids, NEW page \in mapped'[q]
        PROVE  \E j \in 1 .. Len(less), t \in Places :
                  less[j].used /\ less[j].id = shms'[q][t] /\ page \in Pages(less[j])
    <3>1. page \in mapped[q] /\ (q = p => page \notin Pages(blocks[i]))
      BY <1>1, <1>2
    <3>2. PICK j \in 1 .. Len(blocks), t \in Places :
             blocks[j].used /\ blocks[j].id = shms[q][t] /\ page \in Pages(blocks[j])
      BY <3>1 DEF IInv, IsolatedIn
    <3>3. less[j].used /\ less[j].id = blocks[j].id /\ Pages(less[j]) = Pages(blocks[j])
      BY <1>4, <1>8, <1>10, <3>2 DEF Pages
    <3>4. ~(q = p /\ t = s)
      BY <1>4, <1>12, <3>1, <3>2
    <3>5. shms'[q][t] = shms[q][t]
      BY <1>5, <3>4
    <3> QED
      BY <1>10, <3>2, <3>3, <3>5
  <2> QED
    BY <2>1 DEF IsolatedIn
<1>15. Good(blocks', count, tail) /\ RefsIn(blocks', shms') /\ IsolatedIn(blocks', shms', mapped')
  <2>1. less[i] = b /\ i \in 1 .. Len(less)
    BY <1>10
  <2>2. CASE less[i].refs <= 0
    <3>1. b.refs = 0 /\ MapsIn(shms', id) = {}
      <4>1. b.refs \in Nat /\ b.refs =< 0
        BY <1>7, <1>8, <2>1, <2>2
      <4>2. b.refs = 0
        BY <4>1
      <4> QED
        BY <1>8, <4>2, MapsFinite, FS_EmptySet
    <3>2. less[i].refs = 0 /\ MapsIn(shms', less[i].id) = {}
      BY <1>8, <2>1, <3>1
    <3>3. blocks' = Free(less, i)
      BY <1>9, <2>2
    <3> QED
      BY <1>1, <1>10, <1>11, <1>13, <1>14, <2>1, <3>2, <3>3, FreeKeeps, Zenon
  <2>3. CASE ~(less[i].refs <= 0)
    BY <1>9, <1>11, <1>13, <1>14, <2>3
  <2> QED
    BY <2>2, <2>3
<1>16. mapped' \in [Pids -> SUBSET (0 .. PAGES - 1)]
  BY <1>1, <1>2
<1>17. TypeOK'
  BY <1>3, <1>5, <1>15, <1>16 DEF IInv, TypeOK, Good
<1> QED
  BY <1>3, <1>15, <1>17 DEF IInv

(* The end of an exit: proc_unmap_shms has left nothing mapped.             *)
LEMMA ExitKeeps ==
    ASSUME IInv, ExitDone
    PROVE  IInv'
<1>1. /\ blocks \in Seq(Block) /\ exiting \in Pids /\ Good(blocks, count, tail)
      /\ shms \in [Pids -> [Places -> 0 .. IDS + 1]] /\ mapped \in [Pids -> SUBSET (0 .. PAGES - 1)]
      /\ 0 \in Pids
  BY ShmAssumption DEF IInv, TypeOK, ExitDone
<1>2. /\ shms' = [shms EXCEPT ![exiting] = [s \in Places |-> 0]]
      /\ mapped' = [mapped EXCEPT ![exiting] = {}]
      /\ blocks' = blocks /\ count' = count /\ tail' = tail
  BY DEF ExitDone, memory
<1>3. ASSUME NEW s \in Places PROVE shms[exiting][s] = 0
  <2>1. ASSUME shms[exiting][s] # 0 PROVE FALSE
    <3>1. PICK i \in 1 .. Len(blocks) : blocks[i].used /\ blocks[i].id = shms[exiting][s]
      BY <1>1, <2>1 DEF IInv, RefsIn
    <3>2. shms[exiting][s] \in Held
      BY <2>1 DEF Held
    <3> QED
      BY <3>1, <3>2 DEF ExitDone, Item
  <2> QED
    BY <2>1
<1>4. shms' = shms
  <2>1. shms[exiting] = [s \in Places |-> 0]
    BY <1>1, <1>3
  <2> QED
    BY <1>1, <1>2, <2>1
<1>5. IsolatedIn(blocks', shms', mapped')
  <2>1. ASSUME NEW q \in Pids, NEW page \in mapped'[q] PROVE page \in mapped[q]
    BY <1>1, <1>2
  <2>2. IsolatedIn(blocks, shms, mapped)
    BY DEF IInv
  <2> QED
    BY <1>2, <1>4, <2>1, <2>2 DEF IsolatedIn
<1>6. TypeOK'
  BY <1>1, <1>2, <1>4 DEF IInv, TypeOK, ExitDone
<1> QED
  BY <1>2, <1>4, <1>5, <1>6 DEF IInv

LEMMA Inductive == IInv /\ [Next]_vars => IInv'
<1> SUFFICES ASSUME IInv, [Next]_vars PROVE IInv'
  OBVIOUS
<1>1. ASSUME NEW p \in Pids, NEW n \in SIZES, NEW public \in BOOLEAN, Alloc(p, n, public) PROVE IInv'
  BY <1>1, AllocKeeps
<1>2. ASSUME NEW p \in Pids, NEW id \in 1 .. IDS + 1, Map(p, id) PROVE IInv'
  BY <1>2, MapKeeps
<1>3. ASSUME NEW p \in Pids, NEW id \in 1 .. IDS + 1, UnmapCall(p, id) PROVE IInv'
  BY <1>3, UnmapKeeps, ShmAssumption DEF UnmapCall
<1>4. ASSUME NEW p \in Pids, NEW c \in Pids, Fork(p, c) PROVE IInv'
  <2>1. TypeOK'
    BY <1>4 DEF Fork, memory, IInv, TypeOK
  <2> QED
    BY <1>4, <2>1 DEF Fork, memory, IInv
<1>5. ASSUME NEW p \in Pids, Detach(p) PROVE IInv'
  <2>1. TypeOK'
    BY <1>5, ShmAssumption DEF Detach, memory, IInv, TypeOK
  <2> QED
    BY <1>5, <2>1 DEF Detach, memory, IInv
<1>6. ASSUME NEW p \in Pids, Exit(p) PROVE IInv'
  <2>1. TypeOK'
    BY <1>6 DEF Exit, memory, IInv, TypeOK
  <2> QED
    BY <1>6, <2>1 DEF Exit, memory, IInv
<1>7. ASSUME ExitUnmap PROVE IInv'
  <2>1. exiting \in Pids
    BY <1>7 DEF IInv, TypeOK, ExitUnmap
  <2>2. PICK s \in Places : shms[exiting][s] # 0 /\ Unmap(exiting, shms[exiting][s]) /\ UNCHANGED procs
    BY <1>7 DEF ExitUnmap, First
  <2> QED
    BY <2>1, <2>2, UnmapKeeps
<1>8. CASE ExitDone
  BY <1>8, ExitKeeps
<1>9. CASE UNCHANGED vars
  BY <1>9 DEF vars, memory, procs, IInv, TypeOK
<1> QED
  BY <1>1, <1>2, <1>3, <1>4, <1>5, <1>6, <1>7, <1>8, <1>9 DEF Next

LEMMA Initially == Init => IInv
<1> SUFFICES ASSUME Init PROVE IInv
  OBVIOUS
<1>1. TypeOK
  BY ShmAssumption DEF Init, TypeOK
<1>2. Good(blocks, count, tail)
  BY ShmAssumption DEF Init, Good
<1>3. RefsIn(blocks, shms) /\ IsolatedIn(blocks, shms, mapped)
  BY DEF Init, RefsIn, IsolatedIn
<1> QED
  BY <1>1, <1>2, <1>3 DEF IInv

LEMMA Implies == IInv => Tiled /\ RefsOK /\ Isolated
<1> SUFFICES ASSUME IInv PROVE Tiled /\ RefsOK /\ Isolated
  OBVIOUS
<1>1. Tiled
  <2>1. blocks \in Seq(Block) /\ Len(blocks) \in Nat /\ TypeOK
    BY DEF IInv, TypeOK
  <2>2. ASSUME NEW i \in 1 .. Len(blocks)
        PROVE  blocks[i].addr = IF i = 1 THEN 0 ELSE blocks[i - 1].addr + blocks[i - 1].pages
    <3>1. CASE i = 1
      BY <3>1 DEF IInv, Good
    <3>2. CASE i # 1
      <4>1. i - 1 \in 1 .. Len(blocks) /\ i - 1 < Len(blocks) /\ (i - 1) + 1 = i
        BY <2>1, <3>2
      <4>2. blocks[(i - 1) + 1].addr = blocks[i - 1].addr + blocks[i - 1].pages
        BY <4>1 DEF IInv, Good
      <4> QED
        BY <3>2, <4>1, <4>2
    <3> QED
      BY <3>1, <3>2
  <2>3. tail = IF blocks = <<>> THEN 0 ELSE blocks[Len(blocks)].addr + blocks[Len(blocks)].pages
    <3>1. blocks # <<>> => Len(blocks) \in 1 .. Len(blocks)
      BY <2>1
    <3> QED
      BY <3>1 DEF IInv, Good
  <2>4. \A i, j \in 1 .. Len(blocks) : blocks[i].id = blocks[j].id => i = j
    BY DEF IInv, Good
  <2> QED
    BY <2>1, <2>2, <2>3, <2>4 DEF Tiled
<1>2. RefsOK
  <2>1. \A id : Maps(id) = MapsIn(shms, id)
    BY DEF Maps, MapsIn
  <2>2. \A i \in 1 .. Len(blocks) :
           IF blocks[i].used THEN blocks[i].refs = Cardinality(Maps(blocks[i].id))
                             ELSE blocks[i].refs = 0 /\ Maps(blocks[i].id) = {}
    <3>1. RefsIn(blocks, shms)
      BY DEF IInv
    <3> TAKE i \in 1 .. Len(blocks)
    <3>2. Maps(blocks[i].id) = MapsIn(shms, blocks[i].id)
      BY <2>1
    <3>3. IF blocks[i].used THEN blocks[i].refs = Cardinality(MapsIn(shms, blocks[i].id))
                            ELSE blocks[i].refs = 0 /\ MapsIn(shms, blocks[i].id) = {}
      BY <3>1 DEF RefsIn
    <3> QED
      BY <3>2, <3>3
  <2>3. \A p \in Pids, s \in Places :
           shms[p][s] # 0 => \E i \in 1 .. Len(blocks) : Item(i, shms[p][s])
    BY DEF IInv, RefsIn, Item
  <2> QED
    BY <2>2, <2>3 DEF RefsOK
<1>3. Isolated
  BY DEF IInv, IsolatedIn, Isolated, Item
<1> QED
  BY <1>1, <1>2, <1>3

LEMMA Invariant == Spec => []IInv
BY Initially, Inductive, PTL DEF Spec

(* The blocks of shared memory tile the range from its base to shmem_tail   *)
(* through every split, merge and expansion, and through expansions that    *)
(* get no page at all (shm_alloc, free_item).  One that fails after its     *)
(* first page leaves the kernel's heap undefined and is not in Shm.        *)
THEOREM ListIsTiled == Spec => []Tiled
BY Invariant, Implies, PTL

(* refs is the number of times a block is mapped, and a mapped block is in  *)
(* the list (shm_proc_map, shm_proc_unmap, proc_unmap_shms).                *)
THEOREM CountsAreRight == Spec => []RefsOK
BY Invariant, Implies, PTL

(* No process can reach the pages of a block that it has not mapped.        *)
THEOREM PagesAreOwn == Spec => []Isolated
BY Invariant, Implies, PTL
=============================================================================
