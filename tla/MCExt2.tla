------------------------------- MODULE MCExt2 -------------------------------
(* The instance of Ext2 for TLC: a card with two empty files, a third name,  *)
(* and up to two blocks for each file.                                      *)
EXTENDS Ext2

CONSTANTS f, g

MCInodes == {11, 12, 17}
MCBlocks == 1 .. 3
MCImage == <<[name |-> f, ino |-> 11], [name |-> g, ino |-> 17]>>
=============================================================================
