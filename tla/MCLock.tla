------------------------------- MODULE MCLock -------------------------------
(* The instance of Lock for TLC: a process with two more threads, and one   *)
(* that may be given the words the first one frees.                        *)
EXTENDS Lock

MCThreads == 1 .. 4
MCLeader == <<1, 1, 1, 4>>
=============================================================================
