----------------------------- MODULE MCPayments -----------------------------
(* An instance of Payments for TLC. *)
EXTENDS Payments

CONSTANTS m1, m2, m3, p1, p2, p3

TwoTiers == <<1, 5>>
MCSinType == [m \in {m1, m2, m3} |-> IF m = m3 THEN 5 ELSE 1]
MCGetHash == [p \in {p1, p2, p3} |-> IF p = p1 THEN 1 ELSE IF p = p2 THEN 2 ELSE 3]
Vote(m, h, p) == [vinMasternode |-> m, nBlockHeight |-> h, payee |-> p]

\* Two masternodes of the first tier disagree about the block at height 3, and the node's own
\* has changed its mind; the third is alone in the second tier.
MCVotes ==
  {Vote(m1, 3, p1), Vote(m1, 3, p2), Vote(m2, 3, p2), Vote(m3, 3, p3)}
MCRanked == [h \in 0 .. 9 |-> {m1, m2, m3}]
=============================================================================
