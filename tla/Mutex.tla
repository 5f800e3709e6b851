------------------------------- MODULE Mutex --------------------------------
(***************************************************************************)
(* What proc_lock and proc_unlock promise the threads of a process: one at  *)
(* a time is inside a lock, and only the one inside lets the next one in.  *)
(* A lock whose thread ends inside it is gone until it is freed, or its    *)
(* process ends.                                                           *)
(***************************************************************************)
CONSTANTS
    Threads,
    Locks,
    Groups      \* the sets of locks that end together, with their process

VARIABLES
    inside,     \* the threads that are inside each lock
    gone        \* the locks whose thread ended inside

Init ==
    /\ inside = [l \in Locks |-> {}]
    /\ gone = {}

Acquire(l, t) ==
    /\ inside[l] = {} /\ l \notin gone
    /\ inside' = [inside EXCEPT ![l] = {t}]
    /\ UNCHANGED gone

Release(l, t) ==
    /\ inside[l] = {t}
    /\ inside' = [inside EXCEPT ![l] = {}]
    /\ UNCHANGED gone

(* A thread ends: whatever it is inside is gone.                           *)
Die(t) ==
    /\ inside' = [l \in Locks |-> inside[l] \ {t}]
    /\ gone' = gone \cup {l \in Locks : t \in inside[l]}

(* A lock that is gone is given back, and made anew.                       *)
Renew(l) ==
    /\ l \in gone
    /\ gone' = gone \ {l}
    /\ UNCHANGED inside

(* A process ends, with all its locks.                                     *)
Quit(S) ==
    /\ inside' = [l \in Locks |-> IF l \in S THEN {} ELSE inside[l]]
    /\ gone' = gone \ S

Next ==
    \/ \E l \in Locks, t \in Threads : Acquire(l, t) \/ Release(l, t)
    \/ \E l \in Locks : Renew(l)
    \/ \E t \in Threads : Die(t)
    \/ \E S \in Groups : Quit(S)

Spec == Init /\ [][Next]_<<inside, gone>>
=============================================================================
