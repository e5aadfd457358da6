--------------------------- MODULE MCInfinityNode ---------------------------
(***************************************************************************)
(* Instances of InfinityNode for TLC: one tier, one owner, and votes on    *)
(* one question.                                                           *)
(***************************************************************************)
EXTENDS InfinityNode

CONSTANTS b1, b2, b3

OneTier == <<10>>
MCTier == [b \in Burns |-> 10]
MCOwner == [o \in Burns \cup Metas |-> "owner"]
MCQuestion == [v \in Ballots |-> "question"]
=============================================================================
