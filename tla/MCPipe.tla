------------------------------- MODULE MCPipe -------------------------------
(* The instance of Pipe for TLC.  A call that blocks has woken everybody    *)
(* else, so two processes are one that waits and one that acts; the third   *)
(* descriptor of each stands for the files other processes would have.      *)
EXTENDS Pipe

CONSTANTS p1, p2

MCProcs == {p1, p2}
=============================================================================
