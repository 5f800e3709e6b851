----------------------------- MODULE LockProofs -----------------------------
(***************************************************************************)
(* For any number of processes, threads, locks and words: a lock is had by *)
(* one thread at a time and no wake-up is lost, whoever ends when, and the *)
(* words and retries of Lock come to nothing more than Mutex allows.       *)
(***************************************************************************)
EXTENDS Lock, TLAPS

IInv == LocksOK /\ NoLostWakeup

LEMMA NullFacts == NULL \notin Ids /\ NULL \notin Words /\ NULL \notin Threads
BY LockAssumption DEF NULL

LEMMA LeaderFacts ==
    ASSUME NEW t \in Threads
    PROVE  /\ Leader[t] \in Spaces
           /\ t \in Team(Leader[t])
           /\ \A s \in Spaces : t \in Team(s) <=> Leader[t] = s
BY LockAssumption DEF Spaces, Team

(* A word that is in nobody's table is not the word of a lock.             *)
LEMMA WordFacts ==
    ASSUME NEW w, w \notin InUse, NEW s \in Spaces, NEW i \in Ids
    PROVE  locks[s][i] # w
BY DEF InUse

-----------------------------------------------------------------------------
(* IInv holds at the start and after each action.                          *)

LEMMA InitIInv == Init => IInv
BY NullFacts, LeaderFacts
   DEF Init, IInv, LocksOK, TypeOK, NoLostWakeup, Lock, Team

LEMMA NewIInv ==
    ASSUME IInv, NEW t \in Threads, NEW i \in Ids, NEW w \in Words, New(t, i, w)
    PROVE  IInv'
BY NullFacts, LeaderFacts, WordFacts
   DEF New, Runs, IInv, LocksOK, TypeOK, NoLostWakeup, Lock, Team

LEMMA FreeIInv ==
    ASSUME IInv, NEW t \in Threads, NEW i \in Ids, Free(t, i)
    PROVE  IInv'
BY NullFacts, LeaderFacts
   DEF Free, Runs, IInv, LocksOK, TypeOK, NoLostWakeup, Lock, Team

LEMMA EnterIInv ==
    ASSUME IInv, NEW t \in Threads, NEW i \in Ids, Enter(t, i)
    PROVE  IInv'
BY NullFacts, LeaderFacts
   DEF Enter, Runs, IInv, LocksOK, TypeOK, NoLostWakeup, Lock, Team

LEMMA GrantIInv ==
    ASSUME IInv, NEW t \in Threads, NEW i \in Ids, t \in alive, event[t] = NULL,
           wait[t] = i, Grant(t, i)
    PROVE  IInv'
BY NullFacts, LeaderFacts
   DEF Grant, IInv, LocksOK, TypeOK, NoLostWakeup, Lock, Team

LEMMA RefuseIInv ==
    ASSUME IInv, NEW t \in Threads, NEW i \in Ids, t \in alive, event[t] = NULL,
           wait[t] = i, Refuse(t, i)
    PROVE  IInv'
BY NullFacts, LeaderFacts
   DEF Refuse, IInv, LocksOK, TypeOK, NoLostWakeup, Lock, Team

LEMMA UnlockIInv ==
    ASSUME IInv, NEW t \in Threads, NEW i \in Ids, Unlock(t, i)
    PROVE  IInv'
BY NullFacts, LeaderFacts
   DEF Unlock, Runs, Wake, IInv, LocksOK, TypeOK, NoLostWakeup, Lock, Team

LEMMA StartIInv ==
    ASSUME IInv, NEW t \in Threads, Start(t)
    PROVE  IInv'
BY NullFacts, LeaderFacts
   DEF Start, IInv, LocksOK, TypeOK, NoLostWakeup, Lock, Team

LEMMA EndIInv ==
    ASSUME IInv, NEW t \in Threads, End(t)
    PROVE  IInv'
BY NullFacts, LeaderFacts
   DEF End, Forget, IInv, LocksOK, TypeOK, NoLostWakeup, Lock, Team, Spaces

LEMMA ExitIInv ==
    ASSUME IInv, NEW s \in Threads, Exit(s)
    PROVE  IInv'
<1>1. s \in Spaces /\ s \in alive /\ s \in Team(s)
  BY LeaderFacts DEF Exit, Spaces
<1>2. /\ alive' = alive \ Team(s) /\ UNCHANGED value
      /\ \A u \in Threads :
            IF Leader[u] = s
            THEN wait'[u] = NULL /\ event'[u] = NULL /\ holds'[u] = {} /\ u \notin alive'
            ELSE /\ wait'[u] = wait[u] /\ event'[u] = event[u] /\ holds'[u] = holds[u]
                 /\ u \in alive' <=> u \in alive
      /\ \A r \in Spaces, i \in Ids :
            locks'[r][i] = IF r = s THEN NULL ELSE locks[r][i]
  BY <1>1 DEF Exit, Forget, Team, IInv, LocksOK, TypeOK
<1>3. TypeOK'
  BY DEF Exit, Forget, IInv, LocksOK, TypeOK
<1>4. \A u \in Threads, i \in Ids : Leader[u] # s => Lock(u, i)' = Lock(u, i)
  BY <1>2, LeaderFacts DEF Lock
<1>5. \A u \in Threads : holds[u] \subseteq Ids
  BY DEF IInv, LocksOK, TypeOK
<1>6. LocksOK'
  <2>1. \A r, q \in Spaces, i, j \in Ids :
           locks'[r][i] = locks'[q][j] /\ locks'[r][i] # NULL => r = q /\ i = j
    BY <1>2 DEF IInv, LocksOK
  <2>2. ASSUME NEW u \in Threads, NEW i \in holds'[u]
        PROVE  /\ u \in alive' /\ locks'[Leader[u]][i] # NULL
               /\ value'[locks'[Leader[u]][i]] = 1
               /\ \A v \in Team(Leader[u]) : i \in holds'[v] => v = u
    <3>1. Leader[u] # s /\ holds'[u] = holds[u] /\ i \in Ids
      BY <2>2, <1>2, <1>5
    <3>2. \A v \in Team(Leader[u]) : holds'[v] = holds[v]
      BY <3>1, <1>2 DEF Team
    <3> QED
      BY <2>2, <3>1, <3>2, <1>2, LeaderFacts DEF IInv, LocksOK, Lock
  <2>3. ASSUME NEW u \in Threads, wait'[u] # NULL
        PROVE  u \in alive' /\ locks'[Leader[u]][wait'[u]] # NULL
    <3>1. Leader[u] # s /\ wait'[u] = wait[u] /\ wait[u] \in Ids
      BY <2>3, <1>2 DEF IInv, LocksOK, TypeOK
    <3> QED
      BY <2>3, <3>1, <1>2, LeaderFacts DEF IInv, LocksOK, Lock
  <2>4. \A u \in alive' : Leader[u] \in alive'
    BY <1>1, <1>2, LockAssumption DEF IInv, LocksOK, TypeOK, Team
  <2>5. \A r \in Spaces \ alive', i \in Ids : locks'[r][i] = NULL
    BY <1>1, <1>2, LockAssumption DEF IInv, LocksOK, Spaces, Team
  <2> QED
    BY <1>3, <2>1, <2>2, <2>3, <2>4, <2>5 DEF LocksOK, Lock
<1>7. NoLostWakeup'
  BY <1>2, <1>3, <1>4, NullFacts, LeaderFacts
     DEF IInv, LocksOK, NoLostWakeup, TypeOK
<1> QED
  BY <1>6, <1>7 DEF IInv

LEMMA Inductive == Spec => []IInv
<1>1. IInv /\ [Next]_vars => IInv'
  <2> SUFFICES ASSUME IInv, [Next]_vars PROVE IInv'
    OBVIOUS
  <2>1. ASSUME NEW t \in Threads, Try(t) PROVE IInv'
    BY <2>1, GrantIInv, RefuseIInv DEF Try
  <2>2. CASE UNCHANGED vars
    BY <2>2 DEF vars, IInv, LocksOK, TypeOK, NoLostWakeup, Lock
  <2> QED
    BY <2>1, <2>2, NewIInv, FreeIInv, EnterIInv, UnlockIInv, StartIInv, EndIInv,
       ExitIInv DEF Next
<1> QED
  BY <1>1, InitIInv, PTL DEF Spec

(* A lock that a thread came back from proc_lock with is its own until it   *)
(* calls proc_unlock or ends, its word is nobody else's, and a lock that a  *)
(* thread is in proc_lock for is there.                                    *)
THEOREM LocksSafe == Spec => []LocksOK
<1>1. IInv => LocksOK
  BY DEF IInv
<1> QED
  BY <1>1, Inductive, PTL

(* Whoever is blocked on a lock word is blocked on a word that is set: the  *)
(* unlock that clears it, and wakes him, is still to come.                 *)
THEOREM WakeupsKept == Spec => []NoLostWakeup
<1>1. IInv => NoLostWakeup
  BY DEF IInv
<1> QED
  BY <1>1, Inductive, PTL

-----------------------------------------------------------------------------
(* The refinement: who is inside which lock, and which locks are gone.      *)

(* Who is inside is alone, and the word of his lock is set.                 *)
LEMMA HeldFacts ==
    ASSUME IInv, NEW s \in Spaces, NEW i \in Ids, NEW t \in Held(<<s, i>>)
    PROVE  t \in Threads /\ Held(<<s, i>>) = {t} /\ Taken(<<s, i>>)
BY NullFacts, LeaderFacts
   DEF Held, Taken, IInv, LocksOK, TypeOK, Lock, Team

(* A step that leaves every lock as it was is no step of Mutex.             *)
LEMMA Stutter ==
    ASSUME \A s \in Spaces, i \in Ids :
              /\ Held(<<s, i>>)' = Held(<<s, i>>)
              /\ Taken(<<s, i>>)' <=> Taken(<<s, i>>)
    PROVE  UNCHANGED <<Inside, Gone>>
<1>1. \A l \in All : Held(l)' = Held(l) /\ (Taken(l)' <=> Taken(l))
  BY DEF All
<1> QED
  BY <1>1 DEF Inside, Gone

(* A free lock is taken, and is nobody's before.                            *)
LEMMA GrantMaps ==
    ASSUME IInv, NEW t \in Threads, NEW i \in Ids, t \in alive, wait[t] = i,
           Grant(t, i)
    PROVE  M!Next
<1> DEFINE k == <<Leader[t], i>>
<1>1. k \in All /\ Leader[t] \in Spaces
  BY LeaderFacts DEF All
<1>2. Held(k) = {} /\ ~Taken(k)
  BY <1>1, HeldFacts DEF Grant, Taken, Lock
<1>3. \A s \in Spaces, j \in Ids :
         Held(<<s, j>>)' = IF <<s, j>> = k THEN {t} ELSE Held(<<s, j>>)
  BY <1>2, LeaderFacts DEF Grant, Held, IInv, LocksOK, TypeOK
<1>4. \A s \in Spaces, j \in Ids :
         Taken(<<s, j>>)' <=> (<<s, j>> = k \/ Taken(<<s, j>>))
  BY <1>1, NullFacts, LeaderFacts DEF Grant, Taken, Lock, IInv, LocksOK, TypeOK
<1> HIDE DEF k
<1>5. M!Acquire(k, t)
  <2>1. \A l \in All : /\ Held(l)' = IF l = k THEN {t} ELSE Held(l)
                       /\ Taken(l)' <=> (l = k \/ Taken(l))
    BY <1>3, <1>4 DEF All
  <2>2. Inside' = [Inside EXCEPT ![k] = {t}]
    BY <1>1, <2>1 DEF Inside
  <2>3. Inside[k] = {} /\ k \notin Gone
    BY <1>1, <1>2 DEF Inside, Gone
  <2>4. \A l \in All : l \in Gone' <=> l \in Gone
    BY <1>2, <2>1 DEF Gone
  <2>5. Gone' = Gone
    BY <2>4 DEF Gone
  <2> QED
    BY <1>1, <2>2, <2>3, <2>5 DEF M!Acquire
<1> QED
  BY <1>1, <1>5 DEF M!Next

(* The one inside lets go: the lock is neither taken nor gone after it.     *)
LEMMA UnlockMaps ==
    ASSUME IInv, NEW t \in Threads, NEW i \in Ids, Unlock(t, i)
    PROVE  M!Next
<1> DEFINE k == <<Leader[t], i>>
<1>1. k \in All /\ Leader[t] \in Spaces
  BY LeaderFacts DEF All
<1>2. Held(k) = {t} /\ Taken(k)
  <2>1. t \in Held(k)
    BY DEF Unlock, Runs, Held, IInv, LocksOK, TypeOK
  <2> QED
    BY <1>1, <2>1, HeldFacts
<1>3. \A s \in Spaces, j \in Ids :
         Held(<<s, j>>)' = IF <<s, j>> = k THEN {} ELSE Held(<<s, j>>)
  <2>1. \A u \in alive, j \in Ids :
           j \in holds'[u] <=> j \in holds[u] /\ <<u, j>> # <<t, i>>
    BY DEF Unlock, IInv, LocksOK, TypeOK
  <2>2. UNCHANGED alive
    BY DEF Unlock
  <2> QED
    BY <1>2, <2>1, <2>2 DEF Held
<1>4. \A s \in Spaces, j \in Ids :
         Taken(<<s, j>>)' <=> <<s, j>> # k /\ Taken(<<s, j>>)
  BY <1>1, NullFacts, LeaderFacts
     DEF Unlock, Runs, Taken, Lock, IInv, LocksOK, TypeOK
<1> HIDE DEF k
<1>5. M!Release(k, t)
  <2>1. \A l \in All : Held(l)' = IF l = k THEN {} ELSE Held(l)
    BY <1>3 DEF All
  <2>2. \A l \in All : Taken(l)' <=> l # k /\ Taken(l)
    BY <1>4 DEF All
  <2>3. Inside' = [Inside EXCEPT ![k] = {}] /\ Inside[k] = {t}
    BY <1>1, <1>2, <2>1 DEF Inside
  <2>4. \A l \in All : l \in Gone' <=> l \in Gone
    BY <1>2, <2>1, <2>2 DEF Gone
  <2>5. Gone' = Gone
    BY <2>4 DEF Gone
  <2> QED
    BY <2>3, <2>5 DEF M!Release
<1> QED
  BY <1>1, <1>5 DEF M!Next

(* Only a lock that nobody has is given back: it was gone, or just free.    *)
LEMMA FreeMaps ==
    ASSUME IInv, NEW t \in Threads, NEW i \in Ids, Free(t, i)
    PROVE  M!Next \/ UNCHANGED <<Inside, Gone>>
<1> DEFINE k == <<Leader[t], i>>
<1>1. k \in All /\ Leader[t] \in Spaces
  BY LeaderFacts DEF All
<1>2. Held(k) = {}
  BY DEF Free, Held, Team, IInv, LocksOK, TypeOK
<1>3. \A s \in Spaces, j \in Ids : Held(<<s, j>>)' = Held(<<s, j>>)
  BY DEF Free, Held
<1>4. \A s \in Spaces, j \in Ids :
         Taken(<<s, j>>)' <=> <<s, j>> # k /\ Taken(<<s, j>>)
  BY <1>1, NullFacts DEF Free, Taken, Lock, IInv, LocksOK, TypeOK
<1> HIDE DEF k
<1>5. \A l \in All : Held(l)' = Held(l)
  BY <1>3 DEF All
<1>6. \A l \in All : Taken(l)' <=> l # k /\ Taken(l)
  BY <1>4 DEF All
<1>7. Inside' = Inside
  BY <1>5 DEF Inside
<1>8. \A l \in All : l \in Gone' <=> l \in Gone \ {k}
  BY <1>5, <1>6 DEF Gone
<1>9. Gone' = Gone \ {k}
  BY <1>8 DEF Gone
<1>10. CASE k \in Gone
  BY <1>1, <1>7, <1>9, <1>10 DEF M!Next, M!Renew
<1>11. CASE k \notin Gone
  BY <1>7, <1>9, <1>11
<1> QED
  BY <1>10, <1>11

(* A new lock is free, and nobody is inside.                                *)
LEMMA NewMaps ==
    ASSUME IInv, NEW t \in Threads, NEW i \in Ids, NEW w \in Words, New(t, i, w)
    PROVE  UNCHANGED <<Inside, Gone>>
<1>1. \A s \in Spaces, j \in Ids : Held(<<s, j>>)' = Held(<<s, j>>)
  BY DEF New, Held
<1>2. \A s \in Spaces, j \in Ids : Taken(<<s, j>>)' <=> Taken(<<s, j>>)
  BY NullFacts, LeaderFacts, WordFacts
     DEF New, Taken, Lock, IInv, LocksOK, TypeOK
<1> QED
  BY <1>1, <1>2, Stutter

LEMMA WaitMaps ==
    ASSUME UNCHANGED <<alive, locks, value, holds>>
    PROVE  UNCHANGED <<Inside, Gone>>
<1>1. \A s \in Spaces, j \in Ids :
         /\ Held(<<s, j>>)' = Held(<<s, j>>)
         /\ Taken(<<s, j>>)' <=> Taken(<<s, j>>)
  BY DEF Held, Taken
<1> QED
  BY <1>1, Stutter

(* A thread begins with no lock.                                            *)
LEMMA StartMaps ==
    ASSUME IInv, NEW t \in Threads, Start(t)
    PROVE  UNCHANGED <<Inside, Gone>>
<1>1. holds[t] = {}
  BY DEF Start, IInv, LocksOK, TypeOK
<1>2. \A s \in Spaces, j \in Ids :
         /\ Held(<<s, j>>)' = Held(<<s, j>>)
         /\ Taken(<<s, j>>)' <=> Taken(<<s, j>>)
  BY <1>1 DEF Start, Held, Taken
<1> QED
  BY <1>2, Stutter

(* What a thread was inside of when it ended is gone, and nothing else.     *)
LEMMA EndMaps ==
    ASSUME IInv, NEW t \in Threads, End(t)
    PROVE  M!Next
<1>1. \A s \in Spaces, j \in Ids :
         /\ Held(<<s, j>>)' = Held(<<s, j>>) \ {t}
         /\ Taken(<<s, j>>)' <=> Taken(<<s, j>>)
         /\ t \in Held(<<s, j>>) => Held(<<s, j>>) = {t} /\ Taken(<<s, j>>)
  <2>1. UNCHANGED <<locks, value>> /\ alive' = alive \ {t}
        /\ \A u \in alive' : holds'[u] = holds[u]
    BY DEF End, Forget, IInv, LocksOK, TypeOK
  <2> QED
    BY <2>1, HeldFacts DEF Held, Taken
<1>2. \A l \in All : /\ Held(l)' = Held(l) \ {t}
                     /\ Taken(l)' <=> Taken(l)
                     /\ t \in Held(l) => Held(l) = {t} /\ Taken(l)
  BY <1>1 DEF All
<1>3. Inside' = [l \in All |-> Inside[l] \ {t}]
  BY <1>2 DEF Inside
<1>4. \A l \in All : l \in Gone' <=> l \in Gone \/ t \in Inside[l]
  BY <1>2 DEF Gone, Inside
<1>5. Gone' = Gone \cup {l \in All : t \in Inside[l]}
  BY <1>4 DEF Gone
<1> QED
  BY <1>3, <1>5 DEF M!Next, M!Die

(* A process takes all its locks with it, and no lock of another one.       *)
LEMMA ExitMaps ==
    ASSUME IInv, NEW s \in Threads, Exit(s)
    PROVE  M!Next
<1> DEFINE S == {s} \X Ids
<1>1. s \in Spaces /\ S \subseteq All
  BY DEF Exit, All
<1>2. /\ alive' = alive \ Team(s) /\ UNCHANGED value
      /\ \A u \in alive' : holds'[u] = holds[u]
      /\ \A r \in Spaces, j \in Ids :
            locks'[r][j] = IF r = s THEN NULL ELSE locks[r][j]
  BY <1>1 DEF Exit, Forget, Team, IInv, LocksOK, TypeOK
<1>3. \A r \in Spaces, j \in Ids :
         /\ Held(<<r, j>>)' = IF r = s THEN {} ELSE Held(<<r, j>>)
         /\ Taken(<<r, j>>)' <=> r # s /\ Taken(<<r, j>>)
  BY <1>2 DEF Held, Taken, Team, IInv, LocksOK, TypeOK
<1>4. \A l \in All : /\ Held(l)' = IF l \in S THEN {} ELSE Held(l)
                     /\ Taken(l)' <=> l \notin S /\ Taken(l)
  BY <1>3 DEF All
<1>5. S \in {{r} \X Ids : r \in Spaces}
  BY <1>1
<1> HIDE DEF S
<1>6. Inside' = [l \in All |-> IF l \in S THEN {} ELSE Inside[l]]
  BY <1>4 DEF Inside
<1>7. \A l \in All : l \in Gone' <=> l \in Gone \ S
  BY <1>4 DEF Gone
<1>8. Gone' = Gone \ S
  BY <1>7 DEF Gone
<1> QED
  BY <1>5, <1>6, <1>8 DEF M!Next, M!Quit

(* The lock words, the loop in proc_lock and the wake-ups of sys_unlock     *)
(* give the threads of every process a lock, as Mutex says it, and what is *)
(* lost with a thread that ends is what it was inside of.                  *)
THEOREM LocksAreMutexes == Spec => ImplementsMutex
<1>1. Init => M!Init
  <2> SUFFICES ASSUME Init PROVE M!Init
    OBVIOUS
  <2>1. \A l \in All : Held(l) = {} /\ ~Taken(l)
    BY DEF Init, Held, Taken, All
  <2> QED
    BY <2>1 DEF M!Init, Inside, Gone
<1>2. IInv /\ [Next]_vars => [M!Next]_<<Inside, Gone>>
  <2> SUFFICES ASSUME IInv, [Next]_vars
               PROVE  M!Next \/ UNCHANGED <<Inside, Gone>>
    OBVIOUS
  <2>1. ASSUME NEW t \in Threads, Try(t) PROVE M!Next \/ UNCHANGED <<Inside, Gone>>
    BY <2>1, GrantMaps, WaitMaps DEF Try, Refuse
  <2>2. ASSUME NEW t \in Threads, NEW i \in Ids, Enter(t, i)
        PROVE  UNCHANGED <<Inside, Gone>>
    BY <2>2, WaitMaps DEF Enter
  <2>3. CASE UNCHANGED vars
    BY <2>3, WaitMaps DEF vars
  <2> QED
    BY <2>1, <2>2, <2>3, NewMaps, FreeMaps, UnlockMaps, StartMaps, EndMaps, ExitMaps
       DEF Next
<1> QED
  BY <1>1, <1>2, Inductive, PTL DEF Spec, ImplementsMutex, M!Spec
=============================================================================
