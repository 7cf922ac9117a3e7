--------------------------- MODULE MCMaintenance ---------------------------
(***************************************************************************)
(* Maintenance for TLC.  The configuration gives the constants; nothing    *)
(* needs a definition.                                                     *)
(***************************************************************************)
EXTENDS Maintenance
=============================================================================
