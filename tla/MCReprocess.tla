---------------------------- MODULE MCReprocess ----------------------------
(* An instance of Reprocess for TLC. *)
EXTENDS Reprocess

CONSTANTS message, import
=============================================================================
