------------------------------ MODULE MCRiaProxy ------------------------------
(* RiaProxy for TLC: a device, and two ifdhandlers of which one tries to open *)
(* it while the other has it or has just left it.                             *)
EXTENDS RiaProxy
=============================================================================
