----------------------------- MODULE PipeProofs -----------------------------
(***************************************************************************)
(* For any number of processes and descriptors, any size of the buffer and *)
(* of the calls: the count of a pipe agrees with the descriptors, the      *)
(* bytes come out as they went in, nobody is left asleep, and an end is     *)
(* reported only to a process that has the pipe to itself.                 *)
(***************************************************************************)
EXTENDS Pipe, FiniteSetTheorems, SequenceTheorems, TLAPS

(* The calls that write have room under the bound BYTES.                   *)
Room == sent + BUFFER_SIZE * Cardinality(Writers) <= BYTES

IInv == RefsOK /\ InOrder /\ NoLostWakeup /\ Room

-----------------------------------------------------------------------------
(* Counting descriptors and writers.                                       *)

LEMMA FilesFinite ==
    ASSUME NEW S \in SUBSET (Procs \X Fds)
    PROVE  IsFiniteSet(S) /\ Cardinality(S) \in Nat
<1>1. IsFiniteSet(Procs \X Fds)
  BY FS_Product, PipeAssumption
<1> QED
  BY <1>1, FS_Subset, FS_CardinalityType

LEMMA WritersFinite ==
    ASSUME NEW S \in SUBSET Procs
    PROVE  IsFiniteSet(S) /\ Cardinality(S) \in Nat
BY FS_Subset, FS_CardinalityType, PipeAssumption

(* Closing some files takes as many off the count.                         *)
LEMMA CloseCount ==
    ASSUME NEW S \in SUBSET (Procs \X Fds), NEW T \in SUBSET S
    PROVE  /\ Cardinality(S \ T) = Cardinality(S) - Cardinality(T)
           /\ Cardinality(S \ T) > 0 <=> S \ T # {}
<1>1. IsFiniteSet(S) /\ S \cap T = T
  BY FilesFinite
<1>2. Cardinality(S \ T) = Cardinality(S) - Cardinality(T)
  BY <1>1, FS_Difference
<1>3. IsFiniteSet(S \ T) /\ Cardinality(S \ T) \in Nat
  BY FilesFinite
<1> QED
  BY <1>2, <1>3, FS_EmptySet

(* A clone of a process's files is as many again.                          *)
LEMMA CloneCount ==
    ASSUME NEW S \in SUBSET (Procs \X Fds), NEW p \in Procs, NEW q \in Procs,
           \A f \in S : f[1] # q
    PROVE  LET mine == {f \in S : f[1] = p}
               his  == {<<q, f[2]>> : f \in mine}
           IN  Cardinality(S \cup his) = Cardinality(S) + Cardinality(mine)
<1> DEFINE mine == {f \in S : f[1] = p}
           his  == {<<q, f[2]>> : f \in mine}
           F    == [f \in mine |-> <<q, f[2]>>]
<1>1. mine \in SUBSET (Procs \X Fds) /\ his \in SUBSET (Procs \X Fds)
  OBVIOUS
<1>2. F \in Bijection(mine, his)
  <2>1. F \in [mine -> his] /\ \A h \in his : \E f \in mine : F[f] = h
    OBVIOUS
  <2>2. \A f, g \in mine : F[f] = F[g] => f = g
    OBVIOUS
  <2> QED
    BY <2>1, <2>2 DEF Bijection, Injection, Surjection, IsInjective
<1>3. Cardinality(his) = Cardinality(mine)
  BY <1>1, <1>2, FilesFinite, FS_Bijection DEF ExistsBijection
<1>4. S \cap his = {}
  OBVIOUS
<1> HIDE DEF mine, his
<1>5. Cardinality(S \cup his) = Cardinality(S) + Cardinality(his) - Cardinality(S \cap his)
  BY <1>1, FilesFinite, FS_Union
<1>6. Cardinality(S \cap his) = 0 /\ Cardinality(S) \in Nat /\ Cardinality(his) \in Nat
  BY <1>1, <1>4, FS_EmptySet, FilesFinite
<1>7. Cardinality(S \cup his) = Cardinality(S) + Cardinality(mine)
  BY <1>3, <1>5, <1>6
<1> QED
  BY <1>7 DEF mine, his

-----------------------------------------------------------------------------
(* The bytes.                                                              *)

LEMMA InOrderBytes ==
    ASSUME TypeOK, InOrder
    PROVE  /\ Len(received) + Len(buffer) = sent
           /\ \A i \in 1 .. Len(received) : received[i] = i
           /\ \A i \in 1 .. Len(buffer) : buffer[i] = Len(received) + i
<1>1. Len(received) \in Nat /\ Len(buffer) \in Nat /\ sent \in Nat
  BY DEF TypeOK
<1>2. Len(received \o buffer) = Len(received) + Len(buffer)
      /\ \A i \in 1 .. Len(received) + Len(buffer) :
            (received \o buffer)[i] = IF i <= Len(received) THEN received[i]
                                      ELSE buffer[i - Len(received)]
  BY ConcatProperties DEF TypeOK
<1>3. Len(received \o buffer) = sent
  BY <1>1 DEF InOrder
<1>4. \A i \in 1 .. sent : (received \o buffer)[i] = i
  BY DEF InOrder
<1>5. \A i \in 1 .. Len(buffer) : buffer[i] = Len(received) + i
  <2> SUFFICES ASSUME NEW i \in 1 .. Len(buffer) PROVE buffer[i] = Len(received) + i
    OBVIOUS
  <2>1. Len(received) + i \in 1 .. sent /\ ~(Len(received) + i <= Len(received))
        /\ Len(received) + i - Len(received) = i
    BY <1>1, <1>2, <1>3
  <2> QED
    BY <2>1, <1>2, <1>3, <1>4
<1> QED
  BY <1>1, <1>2, <1>3, <1>4, <1>5

(* The converse, for the state after a step.                               *)
LEMMA BytesInOrder ==
    ASSUME NEW r, NEW b, NEW n \in Nat, r \in Seq(Nat), b \in Seq(Nat),
           Len(r) + Len(b) = n,
           \A i \in 1 .. Len(r) : r[i] = i,
           \A i \in 1 .. Len(b) : b[i] = Len(r) + i
    PROVE  r \o b = [i \in 1 .. n |-> i]
<1> DEFINE s == r \o b
           t == [i \in 1 .. n |-> i]
<1>1. /\ s \in Seq(Nat) /\ Len(s) = n
      /\ \A i \in 1 .. n : s[i] = IF i <= Len(r) THEN r[i] ELSE b[i - Len(r)]
  BY ConcatProperties
<1>2. t \in Seq(Nat) /\ Len(t) = n /\ \A i \in 1 .. n : t[i] = i
  OBVIOUS
<1>3. \A i \in 1 .. n : s[i] = t[i]
  <2> SUFFICES ASSUME NEW i \in 1 .. n PROVE s[i] = i
    BY <1>2
  <2>1. CASE i <= Len(r)
    BY <1>1, <2>1
  <2>2. CASE ~(i <= Len(r))
    <3>1. i - Len(r) \in 1 .. Len(b) /\ Len(r) + (i - Len(r)) = i
      BY <2>2
    <3> QED
      BY <3>1, <2>2, <1>1
  <2> QED
    BY <2>1, <2>2
<1> HIDE DEF s, t
<1>4. s = t
  BY <1>1, <1>2, <1>3, SeqEqual
<1> QED
  BY <1>4 DEF s, t

-----------------------------------------------------------------------------
(* The calls.                                                              *)

LEMMA CallFacts ==
    ASSUME NEW c \in Calls
    PROVE  c # NoCall /\ c.op \in {"read", "write"} /\ c.size \in SIZES
BY DEF Calls, NoCall

LEMMA WriterFacts ==
    ASSUME TypeOK
    PROVE  IsFiniteSet(Writers) /\ Cardinality(Writers) \in Nat
BY WritersFinite DEF Writers

(* A call that comes back leaves the room it had to the others.             *)
LEMMA FewerWriters ==
    ASSUME TypeOK, NEW p \in Procs, call' = [call EXCEPT ![p] = NoCall]
    PROVE  /\ Writers' = Writers \ {p}
           /\ Cardinality(Writers') \in Nat
           /\ p \in Writers => Cardinality(Writers) = Cardinality(Writers') + 1
           /\ p \notin Writers => Cardinality(Writers) = Cardinality(Writers')
<1>1. Writers' = Writers \ {p}
  BY DEF Writers, TypeOK, NoCall
<1>2. IsFiniteSet(Writers) /\ Cardinality(Writers) \in Nat
  BY WriterFacts
<1>3. /\ IsFiniteSet(Writers \ {p})
      /\ Cardinality(Writers \ {p}) =
            IF p \in Writers THEN Cardinality(Writers) - 1 ELSE Cardinality(Writers)
  BY <1>2, FS_RemoveElement
<1>4. Cardinality(Writers \ {p}) \in Nat
  BY <1>3, FS_CardinalityType
<1> QED
  BY <1>1, <1>2, <1>3, <1>4

LEMMA RoomReturn ==
    ASSUME TypeOK, Room, NEW p \in Procs, call' = [call EXCEPT ![p] = NoCall],
           \/ sent' = sent
           \/ p \in Writers /\ sent' \in sent .. sent + BUFFER_SIZE
    PROVE  Room' /\ sent' \in 0 .. BYTES
<1> DEFINE c == Cardinality(Writers)
           d == Cardinality(Writers')
<1>1. c \in Nat /\ d \in Nat
  BY WriterFacts, FewerWriters
<1>2. sent + BUFFER_SIZE * c <= BYTES
  BY DEF Room
<1>3. (p \in Writers => c = d + 1) /\ (p \notin Writers => c = d)
  BY FewerWriters
<1> HIDE DEF c, d
<1>4. sent \in Nat /\ BUFFER_SIZE \in Nat /\ BYTES \in Nat
  BY PipeAssumption DEF TypeOK
<1>5. BUFFER_SIZE * (d + 1) = BUFFER_SIZE * d + BUFFER_SIZE
      /\ BUFFER_SIZE * d \in Nat
  BY <1>1, <1>4
<1>6. sent' + BUFFER_SIZE * d <= BYTES /\ sent' \in Nat
  BY <1>1, <1>2, <1>3, <1>4, <1>5
<1>7. sent' \in 0 .. BYTES
  BY <1>4, <1>5, <1>6
<1> QED
  BY <1>6, <1>7 DEF Room, d

-----------------------------------------------------------------------------
(* IInv holds at the start and after each action.                          *)

LEMMA InitIInv == Init => IInv
<1> SUFFICES ASSUME Init PROVE IInv
  OBVIOUS
<1>1. TypeOK /\ InOrder /\ NoLostWakeup
  <2>1. TypeOK
    <3>1. buffer \in Seq(1 .. BYTES) /\ Len(buffer) <= BUFFER_SIZE
      BY PipeAssumption DEF Init
    <3>2. received \in Seq(1 .. BYTES) /\ sent \in 0 .. BYTES
      BY PipeAssumption DEF Init
    <3>3. call \in [Procs -> Calls \cup {NoCall}]
      BY DEF Init
    <3>4. open \subseteq Procs \X Fds /\ refs \in Nat /\ blocked \subseteq Procs /\ ended \subseteq Procs
      BY DEF Init
    <3>5. live \in BOOLEAN
      BY DEF Init
    <3> QED
      BY <3>1, <3>2, <3>3, <3>4, <3>5 DEF TypeOK
  <2>2. InOrder
    BY BytesInOrder DEF Init, InOrder
  <2> QED
    BY <2>1, <2>2 DEF Init, NoLostWakeup
<1>2. RefsOK
  BY <1>1, FS_EmptySet DEF Init, RefsOK
<1>3. Writers = {}
  BY DEF Init, Writers, NoCall
<1>4. Room
  BY <1>3, FS_EmptySet, PipeAssumption DEF Init, Room
<1> QED
  BY <1>1, <1>2, <1>4 DEF IInv

LEMMA OpenIInv ==
    ASSUME IInv, NEW p \in Procs, NEW f \in Fds, NEW g \in Fds, Open(p, f, g)
    PROVE  IInv'
<1>1. open = {} /\ refs = 0 /\ blocked = {} /\ Writers = {}
      /\ \A q \in Procs : call[q] = NoCall
  <2>1. open = {} /\ \A q \in Procs : call[q] = NoCall
    BY DEF Open, IInv, RefsOK, FilesOf
  <2>2. refs = 0
    BY <2>1, FS_EmptySet DEF IInv, RefsOK
  <2> QED
    BY <2>1, <2>2 DEF IInv, RefsOK, NoLostWakeup, TypeOK, Writers, NoCall
<1>2. TypeOK' /\ InOrder' /\ NoLostWakeup'
  <2>1. TypeOK'
    BY <1>1, PipeAssumption DEF Open, IInv, RefsOK, TypeOK
  <2>2. InOrder'
    BY BytesInOrder DEF Open, InOrder
  <2> QED
    BY <1>1, <2>1, <2>2 DEF Open, NoLostWakeup
<1>3. Cardinality({<<p, f>>, <<p, g>>}) = 2
  <2> DEFINE S == {<<p, f>>}
  <2>1. IsFiniteSet(S) /\ Cardinality(S) = 1
    BY FS_Singleton
  <2>2. <<p, g>> \notin S
    BY DEF Open
  <2>4. {<<p, f>>, <<p, g>>} = S \cup {<<p, g>>}
    OBVIOUS
  <2> HIDE DEF S
  <2>3. Cardinality(S \cup {<<p, g>>}) = Cardinality(S) + 1
    BY <2>1, <2>2, FS_AddElement
  <2> QED
    BY <2>1, <2>3, <2>4
<1>4. RefsOK'
  BY <1>1, <1>2, <1>3 DEF Open, RefsOK
<1>5. Writers' = {}
  BY <1>1 DEF Open, Writers, NoCall
<1>6. Room'
  BY <1>5, FS_EmptySet, PipeAssumption DEF Open, Room
<1> QED
  BY <1>2, <1>4, <1>6 DEF IInv

(* vfs_close: the processes that had only files in S are in no call.        *)
LEMMA ReleaseRefs ==
    ASSUME IInv, NEW S \in SUBSET open, Release(S)
    PROVE  /\ open' \subseteq Procs \X Fds /\ refs' \in Nat /\ live' \in BOOLEAN
           /\ refs' = Cardinality(open') /\ (live' <=> open' # {})
           /\ blocked' = {}
<1>1. open \in SUBSET (Procs \X Fds) /\ refs = Cardinality(open)
  BY DEF IInv, RefsOK, TypeOK
<1>2. open' = open \ S /\ refs' = refs - Cardinality(S) /\ live' = (refs' > 0)
      /\ blocked' = {}
  BY DEF Release
<1>3. refs' = Cardinality(open') /\ (refs' > 0 <=> open' # {})
  BY <1>1, <1>2, CloseCount
<1>4. Cardinality(open') \in Nat
  BY <1>1, <1>2, FilesFinite
<1>5. live' \in BOOLEAN
  BY <1>2
<1>6. live' <=> open' # {}
  BY <1>2, <1>3
<1> QED
  BY <1>1, <1>2, <1>3, <1>4, <1>5, <1>6

LEMMA CloseIInv ==
    ASSUME IInv, NEW p \in Procs, NEW f \in Fds, Close(p, f)
    PROVE  IInv'
<1>1. Release({<<p, f>>}) /\ {<<p, f>>} \in SUBSET open /\ call[p] = NoCall
      /\ UNCHANGED <<buffer, sent, received, call, ended>>
  BY DEF Close, data
<1>2. /\ open' \subseteq Procs \X Fds /\ refs' \in Nat /\ live' \in BOOLEAN
      /\ refs' = Cardinality(open') /\ (live' <=> open' # {})
      /\ blocked' = {}
  BY <1>1, ReleaseRefs
<1>3. TypeOK' /\ InOrder' /\ NoLostWakeup' /\ Room'
  BY <1>1, <1>2 DEF IInv, RefsOK, TypeOK, InOrder, NoLostWakeup, Room, Writers
<1>4. \A q \in Procs : call'[q] # NoCall => FilesOf(q)' # {}
  BY <1>1 DEF IInv, RefsOK, Release, FilesOf
<1> QED
  BY <1>2, <1>3, <1>4 DEF IInv, RefsOK

LEMMA ExitIInv ==
    ASSUME IInv, NEW p \in Procs, Exit(p)
    PROVE  IInv'
<1>1. Release(FilesOf(p)) /\ FilesOf(p) \in SUBSET open
      /\ call' = [call EXCEPT ![p] = NoCall] /\ ended' = ended \ {p}
      /\ UNCHANGED <<buffer, sent, received>>
  BY DEF Exit, data, FilesOf
<1>2. /\ open' \subseteq Procs \X Fds /\ refs' \in Nat /\ live' \in BOOLEAN
      /\ refs' = Cardinality(open') /\ (live' <=> open' # {})
      /\ blocked' = {}
  BY <1>1, ReleaseRefs
<1>3. TypeOK' /\ InOrder' /\ NoLostWakeup'
  BY <1>1, <1>2 DEF IInv, RefsOK, TypeOK, InOrder, NoLostWakeup
<1>4. Room'
  BY <1>1, RoomReturn DEF IInv, RefsOK
<1>5. \A q \in Procs : call'[q] # NoCall => FilesOf(q)' # {}
  BY <1>1 DEF IInv, RefsOK, TypeOK, Release, FilesOf
<1> QED
  BY <1>2, <1>3, <1>4, <1>5 DEF IInv, RefsOK

LEMMA DupIInv ==
    ASSUME IInv, NEW p \in Procs, NEW f \in Fds, NEW g \in Fds, Dup(p, f, g)
    PROVE  IInv'
<1>1. /\ open \in SUBSET (Procs \X Fds) /\ refs = Cardinality(open) /\ refs \in Nat
      /\ live /\ <<p, f>> \in open
      /\ open' = open \cup {<<p, g>>}
      /\ UNCHANGED <<live, buffer, sent, received, call, ended>>
  BY DEF Dup, data, IInv, RefsOK, TypeOK
<1>2. refs' = Cardinality(open') /\ refs' \in Nat /\ refs' >= refs
  <2>1. CASE <<p, g>> \in open
    BY <1>1, <2>1 DEF Dup
  <2>2. CASE <<p, g>> \notin open
    <3>1. IsFiniteSet(open)
      BY <1>1, FilesFinite
    <3>2. Cardinality(open \cup {<<p, g>>}) = Cardinality(open) + 1
      BY <2>2, <3>1, FS_AddElement
    <3> QED
      BY <1>1, <2>2, <3>2 DEF Dup
  <2> QED
    BY <2>1, <2>2
<1>3. blocked' \subseteq blocked
  BY DEF Dup
<1>4. TypeOK' /\ InOrder' /\ NoLostWakeup' /\ Room'
  <2>1. TypeOK'
    BY <1>1, <1>2, <1>3 DEF IInv, RefsOK, TypeOK
  <2>2. InOrder' /\ Room'
    BY <1>1 DEF IInv, InOrder, Room, Writers
  <2>3. NoLostWakeup'
    BY <1>1, <1>2, <1>3 DEF IInv, NoLostWakeup
  <2> QED
    BY <2>1, <2>2, <2>3
<1>5. \A q \in Procs : call'[q] # NoCall => FilesOf(q)' # {}
  BY <1>1 DEF IInv, RefsOK, FilesOf
<1>6. live' <=> open' # {}
  BY <1>1
<1> QED
  BY <1>2, <1>4, <1>5, <1>6 DEF IInv, RefsOK

LEMMA ForkIInv ==
    ASSUME IInv, NEW p \in Procs, NEW q \in Procs, Fork(p, q)
    PROVE  IInv'
<1>1. /\ open \in SUBSET (Procs \X Fds) /\ refs = Cardinality(open) /\ refs \in Nat
      /\ open # {} /\ live /\ \A f \in open : f[1] # q
      /\ open' = open \cup {<<q, f[2]>> : f \in FilesOf(p)}
      /\ refs' = refs + Cardinality(FilesOf(p))
      /\ UNCHANGED <<live, buffer, sent, received, call, blocked, ended>>
  <2>1. /\ open \in SUBSET (Procs \X Fds) /\ refs = Cardinality(open) /\ refs \in Nat
        /\ live <=> open # {}
    BY DEF IInv, RefsOK, TypeOK
  <2>2. open # {} /\ \A f \in open : f[1] # q
    BY DEF Fork, FilesOf
  <2>3. /\ open' = open \cup {<<q, f[2]>> : f \in FilesOf(p)}
        /\ refs' = refs + Cardinality(FilesOf(p))
        /\ UNCHANGED <<live, buffer, sent, received, call, blocked, ended>>
    BY DEF Fork, data
  <2> QED
    BY <2>1, <2>2, <2>3
<1>2. refs' = Cardinality(open')
  BY <1>1, CloneCount DEF FilesOf
<1>3. refs' \in Nat /\ refs' >= refs /\ open' \subseteq Procs \X Fds
  <2>1. Cardinality(FilesOf(p)) \in Nat
    BY <1>1, FilesFinite DEF FilesOf
  <2>2. open' \subseteq Procs \X Fds
    BY <1>1 DEF FilesOf
  <2> QED
    BY <1>1, <2>1, <2>2
<1>4. TypeOK' /\ InOrder' /\ NoLostWakeup' /\ Room'
  BY <1>1, <1>3 DEF IInv, RefsOK, TypeOK, InOrder, NoLostWakeup, Room, Writers
<1>5. \A r \in Procs : call'[r] # NoCall => FilesOf(r)' # {}
  BY <1>1 DEF IInv, RefsOK, FilesOf
<1>6. live' <=> open' # {}
  BY <1>1
<1> QED
  BY <1>2, <1>4, <1>5, <1>6 DEF IInv, RefsOK

LEMMA BeginIInv ==
    ASSUME IInv, NEW p \in Procs, NEW c \in Calls, Begin(p, c)
    PROVE  IInv'
<1>1. /\ call[p] = NoCall /\ FilesOf(p) # {} /\ call' = [call EXCEPT ![p] = c]
      /\ ended' = ended \ {p}
      /\ UNCHANGED <<open, refs, live, buffer, sent, received, blocked>>
  BY DEF Begin, files, data
<1>2. TypeOK' /\ InOrder'
  BY <1>1 DEF IInv, RefsOK, TypeOK, InOrder
<1>3. NoLostWakeup'
  BY <1>1, CallFacts DEF IInv, RefsOK, TypeOK, NoLostWakeup
<1>4. RefsOK'
  BY <1>1, <1>2 DEF IInv, RefsOK, TypeOK, FilesOf
<1>5. Room'
  <2>1. CASE c.op = "write"
    <3>1. Writers' = Writers \cup {p} /\ p \notin Writers
      <4>1. call[p].op # "write"
        BY <1>1 DEF NoCall
      <4>2. \A q \in Procs : call'[q] = IF q = p THEN c ELSE call[q]
        BY <1>1 DEF IInv, RefsOK, TypeOK
      <4> QED
        BY <2>1, <4>1, <4>2 DEF Writers
    <3>2. IsFiniteSet(Writers) /\ Cardinality(Writers) \in Nat
      BY WriterFacts DEF IInv, RefsOK
    <3>3. Cardinality(Writers \cup {p}) = Cardinality(Writers) + 1
      BY <3>1, <3>2, FS_AddElement
    <3>4. Cardinality(Writers') = 1 + Cardinality(Writers)
      BY <3>1, <3>2, <3>3
    <3> QED
      BY <1>1, <2>1, <3>4 DEF Begin, Room
  <2>2. CASE c.op # "write"
    <3>1. Writers' = Writers
      BY <1>1, <2>2 DEF Writers, NoCall, IInv, RefsOK, TypeOK
    <3> QED
      BY <1>1, <3>1 DEF IInv, Room
  <2> QED
    BY <2>1, <2>2
<1> QED
  BY <1>3, <1>4, <1>2, <1>5 DEF IInv

(* What comes back from a call, with the bytes it has moved.                *)
LEMMA ReturnIInv ==
    ASSUME IInv, NEW p \in Procs, NEW end \in BOOLEAN, Return(p, end),
           UNCHANGED files, blocked' = {},
           buffer' \in Seq(1 .. sent') /\ Len(buffer') <= BUFFER_SIZE,
           received' \in Seq(1 .. sent'), InOrder',
           \/ sent' = sent
           \/ p \in Writers /\ sent' \in sent .. sent + BUFFER_SIZE
    PROVE  IInv'
<1>1. call' = [call EXCEPT ![p] = NoCall] /\ ended' \subseteq Procs
  BY DEF Return, IInv, RefsOK, TypeOK
<1>2. Room' /\ sent' \in 0 .. BYTES
  BY <1>1, RoomReturn DEF IInv, RefsOK
<1>3. buffer' \in Seq(1 .. BYTES) /\ received' \in Seq(1 .. BYTES)
  <2>1. 1 .. sent' \subseteq 1 .. BYTES
    BY <1>2, PipeAssumption
  <2> QED
    BY <2>1, SeqMonotonic
<1>4. TypeOK'
  BY <1>1, <1>2, <1>3 DEF files, IInv, RefsOK, TypeOK
<1>5. NoLostWakeup'
  BY DEF NoLostWakeup
<1>6. RefsOK'
  BY <1>1, <1>4 DEF files, IInv, RefsOK, TypeOK, FilesOf
<1> QED
  BY <1>2, <1>5, <1>6 DEF IInv

LEMMA SeqOf ==
    ASSUME NEW S, NEW T, NEW s \in Seq(S), \A i \in 1 .. Len(s) : s[i] \in T
    PROVE  s \in Seq(T)
<1>1. s \in [1 .. Len(s) -> T] /\ Len(s) \in Nat
  BY LenProperties
<1> QED
  BY <1>1, SeqDef

(* The bytes that are about are among those that were sent.                 *)
LEMMA BytesSent ==
    ASSUME TypeOK, InOrder
    PROVE  buffer \in Seq(1 .. sent) /\ received \in Seq(1 .. sent)
<1>1. Len(received) \in Nat /\ Len(buffer) \in Nat /\ sent \in Nat
  BY DEF TypeOK
<1>2. \A i \in 1 .. Len(received) : received[i] \in 1 .. sent
  BY <1>1, InOrderBytes
<1>3. \A i \in 1 .. Len(buffer) : buffer[i] \in 1 .. sent
  BY <1>1, InOrderBytes
<1>4. buffer \in Seq(1 .. BYTES) /\ received \in Seq(1 .. BYTES)
  BY DEF TypeOK
<1> QED
  BY <1>2, <1>3, <1>4, SeqOf

LEMMA WriteIInv ==
    ASSUME IInv, NEW p \in Procs, Write(p)
    PROVE  IInv'
<1> DEFINE n == Smaller(call[p].size, BUFFER_SIZE)
<1>1. /\ p \in Writers /\ buffer = <<>>
      /\ buffer' = [i \in 1 .. n |-> sent + i] /\ sent' = sent + n
      /\ blocked' = {} /\ Return(p, FALSE) /\ UNCHANGED files /\ received' = received
  BY DEF Write, Turn, Writers
<1>2. n \in Nat /\ n <= BUFFER_SIZE /\ BUFFER_SIZE \in Nat /\ sent \in Nat
  <2>1. call[p] \in Calls
    BY DEF Write, Turn, IInv, RefsOK, TypeOK
  <2>2. call[p].size \in Nat
    BY <2>1, CallFacts, PipeAssumption
  <2> QED
    BY <2>2, PipeAssumption DEF Smaller, IInv, RefsOK, TypeOK
<1> HIDE DEF n
<1>3. Len(received) = sent /\ \A i \in 1 .. Len(received) : received[i] = i
  BY <1>1, <1>2, InOrderBytes DEF IInv, RefsOK, TypeOK
<1>4. received \in Seq(1 .. sent)
  BY BytesSent DEF IInv, RefsOK
<1>5. buffer' \in Seq(1 .. sent') /\ Len(buffer') = n
      /\ \A i \in 1 .. n : buffer'[i] = sent + i
  BY <1>1, <1>2
<1>6. received' \in Seq(1 .. sent')
  <2>1. 1 .. sent \subseteq 1 .. sent'
    BY <1>1, <1>2
  <2> QED
    BY <1>1, <1>4, <2>1, SeqMonotonic
<1>7. InOrder'
  <2>1. buffer' \in Seq(Nat) /\ received' \in Seq(Nat)
    BY <1>5, <1>6, <1>1, <1>2, SeqMonotonic
  <2>2. Len(received') + Len(buffer') = sent' /\ sent' \in Nat
    BY <1>1, <1>2, <1>3, <1>5
  <2> QED
    BY <1>1, <1>3, <1>5, <2>1, <2>2, BytesInOrder DEF InOrder
<1>8. Len(buffer') <= BUFFER_SIZE /\ sent' \in sent .. sent + BUFFER_SIZE
  BY <1>1, <1>2, <1>5
<1> QED
  BY <1>1, <1>5, <1>6, <1>7, <1>8, ReturnIInv

(* What is taken from the front of a sequence, and the rest of it.          *)
LEMMA CutSeq ==
    ASSUME NEW S, NEW s \in Seq(S), NEW n \in 0 .. Len(s)
    PROVE  SubSeq(s, 1, n) \o SubSeq(s, n + 1, Len(s)) = s
<1>1. Len(s) \in Nat
  BY LenProperties
<1> DEFINE m == 1
           k == Len(s)
<1>2. m \in 1 .. Len(s) + 1 /\ n \in m - 1 .. Len(s) /\ k \in n .. Len(s)
  BY <1>1
<1> HIDE DEF m, k
<1>3. SubSeq(s, m, n) \o SubSeq(s, n + 1, k) = SubSeq(s, m, k)
  BY <1>2, ConcatAdjacentSubSeq
<1> USE DEF m, k
<1>4. SubSeq(s, 1, Len(s)) = s
  BY SubSeqFull
<1> QED
  BY <1>3, <1>4

LEMMA MoveSeq ==
    ASSUME NEW S, NEW r \in Seq(S), NEW s \in Seq(S), NEW n \in 0 .. Len(s)
    PROVE  (r \o SubSeq(s, 1, n)) \o SubSeq(s, n + 1, Len(s)) = r \o s
<1> DEFINE t == SubSeq(s, 1, n)
           u == SubSeq(s, n + 1, Len(s))
<1>1. Len(s) \in Nat /\ n \in Nat
  BY LenProperties
<1>2. t \in Seq(S) /\ u \in Seq(S)
  BY <1>1, SubSeqProperties, ElementOfSeq
<1>3. t \o u = s
  BY CutSeq
<1> HIDE DEF t, u
<1>4. (r \o t) \o u = r \o (t \o u)
  BY <1>2, ConcatAssociative
<1> QED
  BY <1>3, <1>4 DEF t, u

LEMMA ReadIInv ==
    ASSUME IInv, NEW p \in Procs, Read(p)
    PROVE  IInv'
<1> DEFINE n == Smaller(call[p].size, Len(buffer))
           r == received \o SubSeq(buffer, 1, n)
           b == SubSeq(buffer, n + 1, Len(buffer))
<1>1. /\ received' = r /\ buffer' = b /\ sent' = sent
      /\ blocked' = {} /\ Return(p, FALSE) /\ UNCHANGED files
  BY DEF Read
<1>2. n \in 0 .. Len(buffer) /\ Len(buffer) \in Nat /\ sent \in Nat
      /\ Len(buffer) <= BUFFER_SIZE /\ BUFFER_SIZE \in Nat
  <2>1. call[p] \in Calls
    BY DEF Read, Turn, IInv, RefsOK, TypeOK
  <2>2. call[p].size \in Nat
    BY <2>1, CallFacts, PipeAssumption
  <2> QED
    BY <2>2, PipeAssumption DEF Smaller, IInv, RefsOK, TypeOK
<1> HIDE DEF n
<1>3. buffer \in Seq(1 .. sent) /\ received \in Seq(1 .. sent)
  BY BytesSent DEF IInv, RefsOK
<1>4. /\ SubSeq(buffer, 1, n) \in Seq(1 .. sent) /\ Len(SubSeq(buffer, 1, n)) = n
      /\ \A i \in 1 .. n : SubSeq(buffer, 1, n)[i] = buffer[i]
  BY <1>2, <1>3, SubSeqProperties
<1>5. /\ b \in Seq(1 .. sent) /\ Len(b) = Len(buffer) - n
      /\ \A i \in 1 .. Len(buffer) - n : b[i] = buffer[n + i]
  BY <1>2, <1>3, SubSeqProperties
<1>6. /\ r \in Seq(1 .. sent) /\ Len(r) = Len(received) + n
      /\ \A i \in 1 .. Len(r) : r[i] = IF i <= Len(received) THEN received[i]
                                      ELSE SubSeq(buffer, 1, n)[i - Len(received)]
  BY <1>3, <1>4, ConcatProperties
<1>8. r \o b = received \o buffer
  BY <1>2, <1>3, MoveSeq
<1>9. InOrder'
  BY <1>1, <1>8 DEF IInv, InOrder
<1> HIDE DEF r, b
<1>10. buffer' \in Seq(1 .. sent') /\ received' \in Seq(1 .. sent')
       /\ Len(buffer') <= BUFFER_SIZE
  BY <1>1, <1>2, <1>5, <1>6
<1> QED
  BY <1>1, <1>9, <1>10, ReturnIInv

LEMMA EndIInv ==
    ASSUME IInv, NEW p \in Procs, End(p)
    PROVE  IInv'
<1>1. blocked' = {} /\ Return(p, TRUE) /\ UNCHANGED <<files, data>>
  BY DEF End
<1>2. buffer \in Seq(1 .. sent) /\ received \in Seq(1 .. sent) /\ Len(buffer) <= BUFFER_SIZE
  BY BytesSent DEF IInv, RefsOK, TypeOK
<1>3. InOrder'
  BY <1>1 DEF data, IInv, InOrder
<1> QED
  BY <1>1, <1>2, <1>3, ReturnIInv DEF data

LEMMA RetryIInv ==
    ASSUME IInv, NEW p \in Procs, Retry(p)
    PROVE  IInv'
<1>1. CASE call[p].block
  <2>1. blocked' = {p} /\ UNCHANGED <<open, refs, live, buffer, sent, received, call, ended>>
        /\ Stuck(p) /\ refs >= 2
    BY <1>1 DEF Retry, files, data
  <2>2. NoLostWakeup'
    BY <1>1, <2>1 DEF NoLostWakeup, Stuck, Turn
  <2> QED
    BY <2>1, <2>2 DEF IInv, RefsOK, TypeOK, InOrder, Room, Writers, FilesOf
<1>2. CASE ~call[p].block
  <2>1. blocked' = {} /\ Return(p, FALSE) /\ UNCHANGED <<files, data>>
    BY <1>2 DEF Retry
  <2>2. buffer \in Seq(1 .. sent) /\ received \in Seq(1 .. sent)
        /\ Len(buffer) <= BUFFER_SIZE
    BY BytesSent DEF IInv, RefsOK, TypeOK
  <2>3. InOrder'
    BY <2>1 DEF data, IInv, InOrder
  <2> QED
    BY <2>1, <2>2, <2>3, ReturnIInv DEF data
<1> QED
  BY <1>1, <1>2

LEMMA Inductive == Spec => []IInv
<1>1. IInv /\ [Next]_vars => IInv'
  <2> SUFFICES ASSUME IInv, [Next]_vars PROVE IInv'
    OBVIOUS
  <2>1. ASSUME NEW p \in Procs, Kernel(p) PROVE IInv'
    BY <2>1, WriteIInv, ReadIInv, EndIInv, RetryIInv DEF Kernel
  <2>2. CASE UNCHANGED vars
    BY <2>2 DEF vars, files, data, IInv, RefsOK, TypeOK, InOrder, NoLostWakeup, Room,
       Writers, FilesOf
  <2> QED
    BY <2>1, <2>2, OpenIInv, DupIInv, CloseIInv, ForkIInv, ExitIInv, BeginIInv DEF Next
<1> QED
  BY <1>1, InitIInv, PTL DEF Spec

(* The count of a pipe's node is the number of descriptors on it, whatever  *)
(* is cloned by kfork, duplicated, closed or left to proc_exit, and node and *)
(* buffer are there as long as somebody has one.                           *)
THEOREM CountIsRight == Spec => []RefsOK
<1>1. IInv => RefsOK
  BY DEF IInv
<1> QED
  BY <1>1, Inductive, PTL

(* What the readers get, one after the other, is what the writers put in:   *)
(* nothing is lost, repeated or out of order, for buffers and calls of any  *)
(* size and any number of readers and writers.                             *)
THEOREM BytesKept == Spec => []InOrder
<1>1. IInv => InOrder
  BY DEF IInv
<1> QED
  BY <1>1, Inductive, PTL

(* Nobody is blocked on a pipe that he could read from or write to, or that *)
(* he has to himself.                                                      *)
THEOREM WakeupsKept == Spec => []NoLostWakeup
<1>1. IInv => NoLostWakeup
  BY DEF IInv
<1> QED
  BY <1>1, Inductive, PTL

(* A process that is alone with a pipe is the only one on it.               *)
LEMMA AloneFacts ==
    ASSUME IInv, NEW p \in Procs, FilesOf(p) # {}, refs < 2
    PROVE  open = FilesOf(p)
<1>1. open \in SUBSET (Procs \X Fds) /\ refs = Cardinality(open) /\ refs \in Nat
  BY DEF IInv, RefsOK, TypeOK
<1>2. FilesOf(p) \in SUBSET open /\ FilesOf(p) \in SUBSET (Procs \X Fds)
  BY <1>1 DEF FilesOf
<1>3. IsFiniteSet(open) /\ IsFiniteSet(FilesOf(p)) /\ Cardinality(FilesOf(p)) \in Nat
  BY <1>1, <1>2, FilesFinite
<1>4. Cardinality(FilesOf(p)) # 0
  BY <1>3, FS_EmptySet
<1>5. Cardinality(FilesOf(p)) <= Cardinality(open)
  BY <1>2, <1>3, FS_Subset
<1>6. Cardinality(FilesOf(p)) = Cardinality(open)
  BY <1>1, <1>3, <1>4, <1>5
<1> QED
  BY <1>2, <1>3, <1>6, FS_Subset

LEMMA EndAlone ==
    ASSUME IInv, NEW p \in Procs, End(p)
    PROVE  open = FilesOf(p) /\ (call[p].op = "read" => Len(received) = sent)
<1>1. Stuck(p) /\ refs < 2 /\ call[p] # NoCall
  BY DEF End, Stuck, Turn
<1>2. open = FilesOf(p)
  BY <1>1, AloneFacts DEF IInv, RefsOK
<1>3. ASSUME call[p].op = "read" PROVE Len(received) = sent
  <2>1. buffer = <<>>
    BY <1>1, <1>3 DEF Stuck, Turn
  <2>2. Len(received) + Len(buffer) = sent /\ Len(received) \in Nat
    BY InOrderBytes DEF IInv, RefsOK, TypeOK
  <2> QED
    BY <2>1, <2>2
<1> QED
  BY <1>2, <1>3

(* sys_pipe_read and sys_pipe_write tell a program that a pipe has ended    *)
(* only when no other process has it open, and a reader only when it has    *)
(* had every byte.                                                         *)
THEOREM EndIsReal == Spec => EndOnlyAlone
<1> DEFINE A == \A p \in ended' \ ended :
                   /\ open = FilesOf(p)
                   /\ call[p].op = "read" => Len(received) = sent
<1>1. IInv /\ [Next]_vars => [A]_vars
  <2> SUFFICES ASSUME IInv, Next PROVE A
    OBVIOUS
  <2>1. ASSUME NEW p \in Procs, End(p) PROVE A
    <3>1. \A q \in ended' \ ended : q = p
      BY <2>1 DEF End, Return
    <3> QED
      BY <2>1, <3>1, EndAlone
  <2>2. ASSUME ended' \subseteq ended PROVE A
    BY <2>2
  <2>3. ASSUME NEW p \in Procs, Kernel(p), ~End(p) PROVE ended' \subseteq ended
    BY <2>3 DEF Kernel, Write, Read, Retry, Return
  <2>4. ASSUME NEW p \in Procs, NEW f \in Fds, NEW g \in Fds,
               Open(p, f, g) \/ Dup(p, f, g) \/ Close(p, f)
        PROVE  ended' \subseteq ended
    BY <2>4 DEF Open, Dup, Close
  <2>5. ASSUME NEW p \in Procs, NEW q \in Procs, Fork(p, q) PROVE ended' \subseteq ended
    BY <2>5 DEF Fork
  <2>6. ASSUME NEW p \in Procs, NEW c \in Calls, Begin(p, c) PROVE ended' \subseteq ended
    BY <2>6 DEF Begin
  <2>7. ASSUME NEW p \in Procs, Exit(p) PROVE ended' \subseteq ended
    BY <2>7 DEF Exit
  <2> HIDE DEF A
  <2> QED
    BY <2>1, <2>2, <2>3, <2>4, <2>5, <2>6, <2>7 DEF Next
<1> QED
  BY <1>1, Inductive, PTL DEF Spec, EndOnlyAlone
=============================================================================
