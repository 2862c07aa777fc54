------------------------------- MODULE MCSistema -------------------------------
(* Kernel and CPU with two or three consoles. *)
EXTENDS Sistema, TLC
=============================================================================
