-------------------------------- MODULE Lock --------------------------------
(***************************************************************************)
(* Locks between the threads of a process: a table of words per space       *)
(* (sys_lock_new, sys_lock_free, sys_lock and sys_unlock of svc.c), the     *)
(* retry loop of proc_lock in libs/sys/src/proclock.c, and what the end of *)
(* a thread and of a process does to them.  A system call is one step; a   *)
(* thread that was blocked makes the same call again when it is woken.     *)
(***************************************************************************)
EXTENDS Integers, FiniteSets

CONSTANTS
    Threads,    \* processes and their threads
    Leader,     \* the process each of them runs in the space of
    Ids,        \* places in a space's table of locks (0 .. LOCK_MAX - 1)
    Words       \* addresses that kmalloc gives for a lock

NULL == -1

ASSUME LockAssumption ==
    /\ Leader \in [Threads -> Threads]
    /\ \A t \in Threads : Leader[Leader[t]] = Leader[t]
    /\ Ids \subseteq Nat
    /\ NULL \notin Words /\ NULL \notin Threads

Spaces == {t \in Threads : Leader[t] = t}
Team(s) == {t \in Threads : Leader[t] = s}

VARIABLES
    alive,      \* the threads that exist
    locks,      \* proc_space_t.locks: the word under each id
    value,      \* what is in the words
    wait,       \* the id a thread is in proc_lock for
    event,      \* proc_t.block_event of a thread blocked on a word
    holds       \* the ids a thread has come back from proc_lock with

vars == <<alive, locks, value, wait, event, holds>>

InUse == {locks[s][i] : s \in Spaces, i \in Ids}
Lock(t, i) == locks[Leader[t]][i]

Init ==
    /\ alive = {}
    /\ locks = [s \in Spaces |-> [i \in Ids |-> NULL]]
    /\ value = [w \in Words |-> 0]
    /\ wait = [t \in Threads |-> NULL]
    /\ event = [t \in Threads |-> NULL]
    /\ holds = [t \in Threads |-> {}]

-----------------------------------------------------------------------------
(* A thread that is in its program, not in proc_lock.                      *)
Runs(t) == t \in alive /\ wait[t] = NULL

(* sys_lock_new: the first free place, and a word from kmalloc.            *)
New(t, i, w) ==
    /\ Runs(t)
    /\ Lock(t, i) = NULL /\ \A j \in Ids : j < i => Lock(t, j) # NULL
    /\ w \notin InUse
    /\ locks' = [locks EXCEPT ![Leader[t]][i] = w]
    /\ value' = [value EXCEPT ![w] = 0]
    /\ UNCHANGED <<alive, wait, event, holds>>

(* sys_lock_free, by a program that has no other use of the lock left.      *)
Free(t, i) ==
    /\ Runs(t)
    /\ Lock(t, i) # NULL
    /\ \A u \in Team(Leader[t]) : wait[u] # i /\ i \notin holds[u]
    /\ locks' = [locks EXCEPT ![Leader[t]][i] = NULL]
    /\ UNCHANGED <<alive, value, wait, event, holds>>

(* proc_lock is called.                                                    *)
Enter(t, i) ==
    /\ Runs(t)
    /\ Lock(t, i) # NULL
    /\ wait' = [wait EXCEPT ![t] = i]
    /\ UNCHANGED <<alive, locks, value, event, holds>>

(* Mutation of Grant: the word is set without a look at it.                *)
Grant_Blind(t, i) ==
    /\ value' = [value EXCEPT ![Lock(t, i)] = 1]
    /\ wait' = [wait EXCEPT ![t] = NULL]
    /\ holds' = [holds EXCEPT ![t] = @ \cup {i}]
    /\ UNCHANGED <<alive, locks, event>>

(* sys_lock: the word is 0 and the caller has the lock ...                 *)
Grant(t, i) ==
    /\ value[Lock(t, i)] = 0
    /\ value' = [value EXCEPT ![Lock(t, i)] = 1]
    /\ wait' = [wait EXCEPT ![t] = NULL]
    /\ holds' = [holds EXCEPT ![t] = @ \cup {i}]
    /\ UNCHANGED <<alive, locks, event>>

(* ... or he is blocked on the word.                                       *)
Refuse(t, i) ==
    /\ value[Lock(t, i)] # 0
    /\ event' = [event EXCEPT ![t] = Lock(t, i)]
    /\ UNCHANGED <<alive, locks, value, wait, holds>>

(* One turn of the loop in proc_lock.                                      *)
Try(t) ==
    /\ t \in alive /\ event[t] = NULL
    /\ \E i \in Ids : wait[t] = i /\ (Grant(t, i) \/ Refuse(t, i))

(* Mutation of Wake: one of those who are blocked is woken.                *)
Wake_First(w) ==
    event' = [t \in Threads |->
                IF event[t] = w /\ t = CHOOSE u \in Threads : event[u] = w
                THEN NULL ELSE event[t]]

(* proc_wakeup: everybody who is blocked on the word.                      *)
Wake(w) == event' = [t \in Threads |-> IF event[t] = w THEN NULL ELSE event[t]]

(* sys_unlock, by the thread that has the lock.                            *)
Unlock(t, i) ==
    /\ Runs(t)
    /\ i \in holds[t]
    /\ value' = [value EXCEPT ![Lock(t, i)] = 0]
    /\ Wake(Lock(t, i))
    /\ holds' = [holds EXCEPT ![t] = @ \ {i}]
    /\ UNCHANGED <<alive, locks, wait>>

-----------------------------------------------------------------------------
(* proc_create: a new process, or a thread of one that is there.           *)
Start(t) ==
    /\ t \notin alive
    /\ Leader[t] \in alive \cup {t}
    /\ alive' = alive \cup {t}
    /\ UNCHANGED <<locks, value, wait, event, holds>>

(* What the threads in T were doing is forgotten with their slots.          *)
Forget(T) ==
    /\ alive' = alive \ T
    /\ wait' = [t \in Threads |-> IF t \in T THEN NULL ELSE wait[t]]
    /\ event' = [t \in Threads |-> IF t \in T THEN NULL ELSE event[t]]
    /\ holds' = [t \in Threads |-> IF t \in T THEN {} ELSE holds[t]]

(* Mutation of End: the locks of the space are freed with a thread.        *)
End_FreesLocks(t) ==
    /\ t \in alive \ Spaces
    /\ Forget({t})
    /\ locks' = [locks EXCEPT ![Leader[t]] = [i \in Ids |-> NULL]]
    /\ UNCHANGED value

(* A thread ends, wherever it is: the words of its space stay as they are. *)
End(t) ==
    /\ t \in alive \ Spaces
    /\ Forget({t})
    /\ UNCHANGED <<locks, value>>

(* A process ends: proc_exit ends its threads before it frees the locks.    *)
Exit(s) ==
    /\ s \in alive \cap Spaces
    /\ Forget(Team(s))
    /\ locks' = [locks EXCEPT ![s] = [i \in Ids |-> NULL]]
    /\ UNCHANGED value

Next ==
    \/ \E t \in Threads, i \in Ids :
          \/ \E w \in Words : New(t, i, w)
          \/ Free(t, i) \/ Enter(t, i) \/ Unlock(t, i)
    \/ \E t \in Threads : Try(t) \/ Start(t) \/ End(t) \/ Exit(t)

Spec == Init /\ [][Next]_vars

(* A thread that is not blocked gets to run (Proc!ReadyRuns).              *)
FairSpec == Spec /\ \A t \in Threads : WF_vars(Try(t))

-----------------------------------------------------------------------------
TypeOK ==
    /\ alive \subseteq Threads
    /\ locks \in [Spaces -> [Ids -> Words \cup {NULL}]]
    /\ value \in [Words -> {0, 1}]
    /\ wait \in [Threads -> Ids \cup {NULL}]
    /\ event \in [Threads -> Words \cup {NULL}]
    /\ holds \in [Threads -> SUBSET Ids]

(* No two locks share a word; a lock that a thread has, or is waiting for,  *)
(* is there; one that a thread has is set, and no other thread has it.     *)
(* (kmalloc'd words and their reuse, the ends of threads and processes.)   *)
LocksOK ==
    /\ TypeOK
    /\ \A s, r \in Spaces, i, j \in Ids :
          locks[s][i] = locks[r][j] /\ locks[s][i] # NULL => s = r /\ i = j
    /\ \A t \in Threads : \A i \in holds[t] :
          /\ t \in alive
          /\ Lock(t, i) # NULL /\ value[Lock(t, i)] = 1
          /\ \A u \in Team(Leader[t]) : i \in holds[u] => u = t
    /\ \A t \in Threads : wait[t] # NULL => t \in alive /\ Lock(t, wait[t]) # NULL
    /\ \A t \in alive : Leader[t] \in alive
    /\ \A s \in Spaces \ alive, i \in Ids : locks[s][i] = NULL

(* A blocked thread waits for a lock that is taken, of its own process: the *)
(* unlock that would have woken it has not happened.                       *)
NoLostWakeup ==
    \A t \in Threads : event[t] # NULL =>
        wait[t] # NULL /\ event[t] = Lock(t, wait[t]) /\ value[event[t]] = 1

Held(l) == {t \in alive : Leader[t] = l[1] /\ l[2] \in holds[t]}
Taken(l) == locks[l[1]][l[2]] # NULL /\ value[locks[l[1]][l[2]]] = 1

All == Spaces \X Ids
Inside == [l \in All |-> Held(l)]
Gone == {l \in All : Taken(l) /\ Held(l) = {}}

M == INSTANCE Mutex WITH
        Locks <- All, Groups <- {{s} \X Ids : s \in Spaces},
        inside <- Inside, gone <- Gone

(* The words, retries and wake-ups come to nothing more than Mutex.         *)
ImplementsMutex == M!Spec

(* Nobody sleeps in front of a lock that is free: it is taken, by him or by *)
(* another one, as long as he waits for it.                                *)
FreeLockTaken ==
    \A t \in Threads, i \in Ids :
        wait[t] = i /\ ~Taken(<<Leader[t], i>>)
            ~> wait[t] # i \/ Taken(<<Leader[t], i>>)
=============================================================================
