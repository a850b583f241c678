---------------------------- MODULE MCIpcServer ----------------------------
(* Four clients, of whom three get a slot.                                 *)
EXTENDS IpcServer

CONSTANTS c1, c2, c3, c4, a1, s1
=============================================================================
