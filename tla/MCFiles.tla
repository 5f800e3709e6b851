------------------------------ MODULE MCFiles -------------------------------
(* The instance of Files for TLC: a program that stays, a slot for its       *)
(* children, two descriptors besides those of stdio, two nodes.             *)
EXTENDS Files
MCFds == {3, 4}
=============================================================================
