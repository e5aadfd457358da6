---------------------------- MODULE MCInstantSend ----------------------------
(* Instances of InstantSend for TLC; each .cfg picks its own definitions.     *)
EXTENDS InstantSend, TLC

CONSTANTS t1, t2, a, b, m1, m2, m3

Ballot(T, O, M) == [tx : T, outpoint : O, mn : M]

AllSporks == {{SPORK_2, SPORK_3}}
SomeSporks == {{SPORK_2, SPORK_3}, {SPORK_2}, {SPORK_3}}

(* Two transactions compete for one outpoint.                                 *)
SharedVin == t1 :> <<a>> @@ t2 :> <<a>>

(* Everyone is in the quorum.                                                 *)
FullQuorum == [L \in SUBSET Masternodes |-> [o \in Outpoints |-> L]]

QuorumVotes == Ballot({t1}, {a}, {m2}) \cup Ballot({t2}, {a}, {m2, m3})

(* One transaction spends two outpoints with different quorums of one, the    *)
(* other competes for the second.                                             *)
TwoInputsVin == t1 :> <<a, b>> @@ t2 :> <<b>>

SplitQuorum ==
    [L \in SUBSET Masternodes |->
        [o \in Outpoints |-> L \cap (IF o = a THEN {m2} ELSE {m1})]]

(* The vote for t2 names an outpoint that t2 does not spend.                  *)
SplitVotes == Ballot({t1, t2}, {a}, {m2})

(* A quorum of one, the first masternode of the list.                         *)
FirstOnly ==
    [L \in SUBSET Masternodes |->
        [o \in Outpoints |-> IF m1 \in L THEN {m1} ELSE L \cap {m2}]]

FirstVotes == Ballot({t1, t2}, {a}, {m1})
NoVotes == {}
BothVotes == Ballot({t1}, {a}, {m1}) \cup Ballot({t2}, {a}, {m2})
====
