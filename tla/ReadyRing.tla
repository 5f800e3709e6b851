----------------------------- MODULE ReadyRing -----------------------------
(***************************************************************************)
(* The ready list of kernel/kernel/proc.c: the READY proc_t records, linked *)
(* by their next and prev fields into a circle that _ready_proc points     *)
(* into.  A ring is a record of the three pieces: the next and the prev    *)
(* field of every slot of _proc_table, and the pointer _ready_proc (head). *)
(* Pure operators; module Proc applies them, ProcProofs proves them.       *)
(***************************************************************************)
EXTENDS Integers

CONSTANT Pids           \* the indices of _proc_table, 0 .. PROC_MAX-1

ASSUME PidsAssumption == Pids \subseteq Nat /\ 0 \in Pids

NULL == -1              \* a NULL proc_t*, and father_pid == -1

Links == [Pids -> Pids \cup {NULL}]

Rings == [next : Links, prev : Links, head : Pids \cup {NULL}]

EmptyRing == [next |-> [p \in Pids |-> NULL],
              prev |-> [p \in Pids |-> NULL],
              head |-> NULL]

(* proc_ready, its list part: p goes right behind _ready_proc, or becomes   *)
(* the only member of an empty ring (where the code also stores through the *)
(* next of p, which is nobody).                                            *)
Link(r, p) ==
    LET h == IF r.head = NULL THEN p ELSE r.head
        n == IF r.head = NULL THEN p ELSE r.next[r.head]
    IN  [next |-> [r.next EXCEPT ![p] = n, ![h] = p],
         prev |-> [r.prev EXCEPT ![p] = h, ![n] = p],
         head |-> h]

(* Mutation of Unlink: _ready_proc keeps its value.                         *)
Unlink_HeadStays(r, p) ==
    [next |-> [q \in Pids |-> IF q = p THEN NULL
                              ELSE IF q = r.prev[p] THEN r.next[p] ELSE r.next[q]],
     prev |-> [q \in Pids |-> IF q = p THEN NULL
                              ELSE IF q = r.next[p] THEN r.prev[p] ELSE r.prev[q]],
     head |-> IF r.next[p] = p THEN NULL ELSE r.head]

(* proc_unready, its list part: p's neighbours are joined, and _ready_proc  *)
(* moves to p's successor, whatever it pointed to before.                  *)
Unlink(r, p) ==
    [next |-> [q \in Pids |-> IF q = p THEN NULL
                              ELSE IF q = r.prev[p] THEN r.next[p] ELSE r.next[q]],
     prev |-> [q \in Pids |-> IF q = p THEN NULL
                              ELSE IF q = r.next[p] THEN r.prev[p] ELSE r.prev[q]],
     head |-> IF r.next[p] = p THEN NULL ELSE r.next[p]]

-----------------------------------------------------------------------------
(* T is left by no next pointer. *)
Closed(r, T) == \A p \in T : r.next[p] \in T

(***************************************************************************)
(* r is one circle through exactly the members of S: the pointers of       *)
(* members stay inside and undo each other, a slot outside is not linked,  *)
(* head points to a member as long as there is one, and no part of S but   *)
(* the whole of it is closed under next (so there are not two circles, one *)
(* of which the scheduler would never visit).                              *)
(***************************************************************************)
RingOf(r, S) ==
    /\ r \in Rings
    /\ \A p \in Pids \ S : r.next[p] = NULL /\ r.prev[p] = NULL
    /\ \A p \in S : /\ r.next[p] \in S /\ r.prev[r.next[p]] = p
                    /\ r.prev[p] \in S /\ r.next[r.prev[p]] = p
    /\ IF S = {} THEN r.head = NULL ELSE r.head \in S
    /\ \A T \in SUBSET S : T # {} /\ Closed(r, T) => T = S
=============================================================================
