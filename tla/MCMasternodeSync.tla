-------------------------- MODULE MCMasternodeSync --------------------------
(***************************************************************************)
(* Instances of MasternodeSync for TLC: one peer that can answer and one   *)
(* that is too old.                                                        *)
(***************************************************************************)
EXTENDS MasternodeSync, TLC

CONSTANTS new, old
=============================================================================
