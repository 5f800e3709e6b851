------------------------------- MODULE MCProc -------------------------------
(* Instances of Proc for TLC: PROC_MAX slots of the process table.         *)
EXTENDS Proc

CONSTANT PROC_MAX

MCPids == 0 .. PROC_MAX - 1

(* For the temporal properties: exits and kills among processes that sleep, *)
(* wait for each other and enter critical zones.                            *)
LiveNext ==
    \/ Fork("PROC") \/ Exit \/ CriticalEnter
    \/ \E p \in Pids : Kill(p) \/ WaitPid(p)
    \/ \E n \in 1 .. SLEEP_MAX : Usleep(n)
    \/ Timer
    \/ Kernel

LiveSpec == Init /\ [][LiveNext]_vars /\ Fairness
=============================================================================
