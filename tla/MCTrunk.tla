------------------------------- MODULE MCTrunk ------------------------------
(* The heap of a process through a fork, for TLC.                           *)
EXTENDS Trunk

VARIABLE forked

(* proc_init_space and proc_clone: the child has the parent's memory, the   *)
(* headers and what the program holds with it, and a malloc_t without any.  *)
Fork ==
    /\ ~forked /\ forked' = TRUE
    /\ heap' = [heap EXCEPT !.head = NULL, !.tail = NULL]
    /\ UNCHANGED asked

ForkNext == Fork \/ (Next /\ UNCHANGED forked)

ForkSpec == Init /\ forked = FALSE /\ [][ForkNext]_<<vars, forked>>
=============================================================================
