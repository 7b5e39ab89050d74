---------------------------- MODULE MCSupervisor ----------------------------
(* dev with up to three changes of files, and worker with up to two signals,  *)
(* over an application that may fail.                                         *)
EXTENDS Supervisor

MCModes     == {"dev", "worker"}
MCExitCodes == {0, 3}
=============================================================================
