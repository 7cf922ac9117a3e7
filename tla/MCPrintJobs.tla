---------------------------- MODULE MCPrintJobs ----------------------------
(***************************************************************************)
(* PrintJobs for TLC: two workers with a printer are enough to overlap a   *)
(* claim with a call and a result with a claim; a third one has the        *)
(* default settings, without a printer.  The configuration gives the       *)
(* constants; nothing needs a definition.                                  *)
(***************************************************************************)
EXTENDS PrintJobs
=============================================================================
