-------------------------------- MODULE MCIpc -------------------------------
(* Instances of Ipc for TLC: two clients of a server, which is itself a     *)
(* client of another (as xserverd is of xwm, a mounted file system of sdd). *)
EXTENDS Ipc

MCProcs == 1 .. 4
MCUses == {<<1, 3>>, <<2, 3>>, <<3, 4>>}
=============================================================================
