------------------------------ MODULE Payments ------------------------------
(***************************************************************************)
(* The votes for the masternodes that a future block pays                  *)
(* (masternode-payments.cpp), in one node.  Three threads work on them:    *)
(* the message thread takes votes from peers, the scheduler thread adds    *)
(* the node's own vote when the tip moves, and the maintenance thread      *)
(* removes old ones.  A miner fills the coinbase from the votes, and       *)
(* ConnectBlock later compares it with the votes of that moment.           *)
(*                                                                         *)
(* The masternode list, the ranks and the queue for payment are external:  *)
(* a masternode may enter and leave the list at any time, and votes only   *)
(* for payees of its own tier.  An output is a payee, paid the amount of   *)
(* its tier.                                                               *)
(***************************************************************************)
EXTENDS Integers, Sequences, FiniteSets, Functions

CONSTANTS
  Masternodes,
  Me,                \* the node's own masternode
  Tiers,             \* the masternode types, as a sequence
  SinType,           \* the type of a masternode
  Votes,             \* votes: vinMasternode, nBlockHeight, payee
  GetHash,           \* GetHash[payee]: a number, breaks ties
  Ranked,            \* Ranked[h]: the masternodes that vote for the block at h
  SIGNATURES_REQUIRED,
  AHEAD,             \* how far ahead of the tip a masternode votes
  WINDOW,            \* how far ahead of the tip a vote is taken
  DEPTH,             \* how far below the block is the one that ranks the voters
  LIMIT,             \* GetStorageLimit
  InitHeight, MaxHeight,
  MaxFaults,         \* bound on restarts, disconnected blocks and changes of the list
  BURN,              \* the script of the burn address
  None

ASSUME PaymentsAssumption ==
  /\ \A v \in Votes : /\ v.vinMasternode \in Masternodes
                      /\ v.nBlockHeight \in Nat
                      /\ v.payee \in DOMAIN GetHash
  /\ \A v, w \in Votes : v.payee = w.payee =>
       SinType[v.vinMasternode] = SinType[w.vinMasternode]
  /\ \A p, q \in DOMAIN GetHash : GetHash[p] = GetHash[q] => p = q
  /\ BURN \notin DOMAIN GetHash
  /\ \A p \in DOMAIN GetHash : GetHash[p] \in Int
  /\ Tiers \in Seq(Range(Tiers))
  /\ \A mn \in Masternodes : SinType[mn] \in Range(Tiers)
  /\ Me \in Masternodes
  /\ LIMIT \in Nat
  /\ MaxHeight \in Nat
  /\ InitHeight \in 0 .. MaxHeight

VARIABLES
  mapMasternodePaymentVotes,   \* vote -> whether it is verified
  mapMasternodeBlocks,         \* height -> vecPayees
  mapMasternodesLastVote,      \* masternode -> the height it voted for last, 0 if none
  nCachedBlockHeight,
  tip,                         \* chainActive.Height()
  mapMasternodes,              \* the masternodes that mnodeman knows
  listSynced,                  \* IsMasternodeListSynced
  handler,                     \* the vote the message thread is at
  scheduler,                   \* the vote the scheduler thread is at
  coinbase,                    \* the last block template: height and outputs
  disk,                        \* mnpayments.dat
  faults

maps == <<mapMasternodePaymentVotes, mapMasternodeBlocks>>
node == <<mapMasternodes, listSynced>>
vars == <<maps, mapMasternodesLastVote, nCachedBlockHeight, tip, node, handler, scheduler,
          coinbase, disk, faults>>

Empty == [x \in {} |-> 0]
Idle == [step |-> "idle", vote |-> None]
Put(f, k, v) == [x \in DOMAIN f \cup {k} |-> IF x = k THEN v ELSE f[x]]
Without(f, S) == [x \in DOMAIN f \ S |-> f[x]]

Heights == {v.nBlockHeight : v \in Votes}
Types == Range(Tiers)
Payees == [scriptPubKey : DOMAIN GetHash, qsteestype : Types, vecVoteHashes : Seq(Votes)]

TypeOK ==
  /\ DOMAIN mapMasternodePaymentVotes \subseteq Votes
  /\ \A v \in DOMAIN mapMasternodePaymentVotes : mapMasternodePaymentVotes[v] \in BOOLEAN
  /\ DOMAIN mapMasternodeBlocks \subseteq Heights
  /\ \A h \in DOMAIN mapMasternodeBlocks : mapMasternodeBlocks[h] \in Seq(Payees)
  /\ mapMasternodesLastVote \in [Masternodes -> Heights \cup {0}]
  /\ nCachedBlockHeight \in 0 .. MaxHeight
  /\ tip \in 0 .. MaxHeight
  /\ mapMasternodes \subseteq Masternodes
  /\ listSynced \in BOOLEAN
  /\ handler.step \in {"idle", "seen", "checked"} /\ handler.vote \in Votes \cup {None}
  /\ scheduler \in Votes \cup {None}

-----------------------------------------------------------------------------
(* CMasternodeBlockPayees. *)

\* AddPayee: a vote for a payee that has votes joins them; the first vote for a payee gives
\* it the type of the voter, if the voter is in the list.
AddPayee(vec, v) ==
  LET known == {i \in DOMAIN vec : vec[i].scriptPubKey = v.payee}
  IN IF known # {}
     THEN LET i == CHOOSE i \in known : \A j \in known : i <= j
          IN [vec EXCEPT ![i].vecVoteHashes = Append(@, v)]
     ELSE IF v.vinMasternode \notin mapMasternodes THEN vec
     ELSE Append(vec, [scriptPubKey |-> v.payee,
                       qsteestype |-> SinType[v.vinMasternode],
                       vecVoteHashes |-> <<v>>])

GetVoteCount(payee) == Len(payee.vecVoteHashes)

\* Mutant: of two payees with as many votes the later one is taken.
BetterLast(qsteestype, best, payee) ==
  IF payee.qsteestype = qsteestype /\ GetVoteCount(payee) >= best.nVotes
  THEN [nVotes |-> GetVoteCount(payee), payee |-> payee.scriptPubKey]
  ELSE best

\* One turn of the loop of GetBestPayee.
Better(qsteestype, best, payee) ==
  IF /\ payee.qsteestype = qsteestype
     /\ \/ GetVoteCount(payee) > best.nVotes
        \/ /\ GetVoteCount(payee) = best.nVotes
           /\ GetHash[payee.scriptPubKey] > GetHash[best.payee]
  THEN [nVotes |-> GetVoteCount(payee), payee |-> payee.scriptPubKey]
  ELSE best

\* The payee that a block pays, None if there is no vote for one of this type.
GetBestPayee(vec, qsteestype) ==
  LET best[i \in 0 .. Len(vec)] ==
        IF i = 0 THEN [nVotes |-> -1, payee |-> None]
        ELSE Better(qsteestype, best[i - 1], vec[i])
  IN best[Len(vec)].payee

\* Mutant: every payee of the block must have enough votes.
IsTransactionValidSigned(h, outs) ==
  h \in DOMAIN mapMasternodeBlocks =>
    LET vec == mapMasternodeBlocks[h]
        paid == {i \in DOMAIN outs : outs[i] = BURN \/
                   \E j \in DOMAIN vec : /\ vec[j].scriptPubKey = outs[i]
                                         /\ GetVoteCount(vec[j]) >= SIGNATURES_REQUIRED}
    IN \/ \A j \in DOMAIN vec : GetVoteCount(vec[j]) < SIGNATURES_REQUIRED
       \/ Cardinality(paid) = Len(Tiers)

\* IsTransactionValid: as many of the outputs as there are types must go to the burn address
\* or to a payee with votes, once a payee has enough votes.
IsTransactionValid(h, outs) ==
  h \in DOMAIN mapMasternodeBlocks =>
    LET vec == mapMasternodeBlocks[h]
        paid == {i \in DOMAIN outs : outs[i] = BURN \/
                   \E j \in DOMAIN vec : vec[j].scriptPubKey = outs[i]}
    IN \/ \A j \in DOMAIN vec : GetVoteCount(vec[j]) < SIGNATURES_REQUIRED
       \/ Cardinality(paid) = Len(Tiers)

\* FillBlockPayments: an output for each type, to the burn address when NetworkDiagnostic
\* finds no payee.
Outputs(h) ==
  LET pay(qsteestype) ==
        IF h \in DOMAIN mapMasternodeBlocks
        THEN GetBestPayee(mapMasternodeBlocks[h], qsteestype) ELSE None
  IN [i \in DOMAIN Tiers |-> IF pay(Tiers[i]) = None THEN BURN ELSE pay(Tiers[i])]

FillBlockPayments ==
  /\ coinbase' = [nBlockHeight |-> tip + 1, vout |-> Outputs(tip + 1)]
  /\ UNCHANGED <<maps, mapMasternodesLastVote, nCachedBlockHeight, tip, node, handler,
                 scheduler, disk, faults>>

-----------------------------------------------------------------------------
(* CMasternodePayments. *)

HasVerifiedPaymentVote(v) ==
  v \in DOMAIN mapMasternodePaymentVotes /\ mapMasternodePaymentVotes[v]

\* Mutant: a vote that is verified already is added again.
AddPaymentVoteAgain(v) ==
  LET h == v.nBlockHeight
      vec == IF h \in DOMAIN mapMasternodeBlocks THEN mapMasternodeBlocks[h] ELSE <<>>
  IN IF h - DEPTH > tip THEN UNCHANGED maps
     ELSE /\ mapMasternodePaymentVotes' = Put(mapMasternodePaymentVotes, v, TRUE)
          /\ mapMasternodeBlocks' = Put(mapMasternodeBlocks, h, AddPayee(vec, v))

\* AddPaymentVote, under cs_main.  The block that ranks the voters must be there.
AddPaymentVote(v) ==
  LET h == v.nBlockHeight
      vec == IF h \in DOMAIN mapMasternodeBlocks THEN mapMasternodeBlocks[h] ELSE <<>>
  IN IF h - DEPTH > tip \/ HasVerifiedPaymentVote(v) THEN UNCHANGED maps
     ELSE /\ mapMasternodePaymentVotes' = Put(mapMasternodePaymentVotes, v, TRUE)
          /\ mapMasternodeBlocks' = Put(mapMasternodeBlocks, h, AddPayee(vec, v))

\* A vote arrives (ProcessMessage).  It is stored, not verified, before anything else: the
\* same vote is not looked at again.
ReceiveVote(v) ==
  /\ handler = Idle
  /\ listSynced
  /\ v \notin DOMAIN mapMasternodePaymentVotes
  /\ mapMasternodePaymentVotes' = Put(mapMasternodePaymentVotes, v, FALSE)
  /\ handler' = [step |-> "seen", vote |-> v]
  /\ UNCHANGED <<mapMasternodeBlocks, mapMasternodesLastVote, nCachedBlockHeight, tip, node,
                 scheduler, coinbase, disk, faults>>

\* The range of heights, and IsValid: the voter is in the list and ranks high enough, by the
\* block that ranks the voters.
Acceptable(v) ==
  /\ v.nBlockHeight >= nCachedBlockHeight - LIMIT
  /\ v.nBlockHeight <= nCachedBlockHeight + WINDOW
  /\ v.nBlockHeight - DEPTH <= tip
  /\ v.vinMasternode \in mapMasternodes \cap Ranked[v.nBlockHeight]

CanVote(v) == mapMasternodesLastVote[v.vinMasternode] # v.nBlockHeight

\* The checks of ProcessMessage.  CanVote remembers the height before CheckSignature, which
\* the vote fails if the masternode has another key now; a vote for a past block passes all
\* the same.
CheckVote(sameKey) ==
  LET v == handler.vote
      tried == Acceptable(v) /\ CanVote(v)
      passed == tried /\ (sameKey \/ v.nBlockHeight <= nCachedBlockHeight)
  IN /\ handler.step = "seen"
     /\ mapMasternodesLastVote' =
          IF tried THEN [mapMasternodesLastVote EXCEPT ![v.vinMasternode] = v.nBlockHeight]
          ELSE mapMasternodesLastVote
     /\ handler' = IF passed THEN [handler EXCEPT !.step = "checked"] ELSE Idle
     /\ UNCHANGED <<maps, nCachedBlockHeight, tip, node, scheduler, coinbase, disk, faults>>

AddReceivedVote ==
  /\ handler.step = "checked"
  /\ AddPaymentVote(handler.vote)
  /\ handler' = Idle
  /\ UNCHANGED <<mapMasternodesLastVote, nCachedBlockHeight, tip, node, scheduler, coinbase,
                 disk, faults>>

\* The votes ProcessBlock may sign for the block at h.
OwnVotes(h) ==
  {v \in Votes : /\ listSynced
                 /\ v.vinMasternode = Me
                 /\ v.nBlockHeight = h
                 /\ Me \in mapMasternodes \cap Ranked[h]}

\* Mutant: the height of the next block is cached.
UpdatedBlockTipNext ==
  /\ scheduler = None
  /\ nCachedBlockHeight # tip
  /\ nCachedBlockHeight' = tip + 1
  /\ LET own == OwnVotes(tip + AHEAD)
     IN scheduler' \in IF own = {} THEN {None} ELSE own
  /\ UNCHANGED <<maps, mapMasternodesLastVote, tip, node, handler, coinbase, disk, faults>>

\* UpdatedBlockTip, and ProcessBlock up to Sign.  Who is next in the queue is external.
UpdatedBlockTip ==
  /\ scheduler = None
  /\ nCachedBlockHeight # tip
  /\ nCachedBlockHeight' = tip
  /\ LET own == OwnVotes(tip + AHEAD)
     IN scheduler' \in IF own = {} THEN {None} ELSE own
  /\ UNCHANGED <<maps, mapMasternodesLastVote, tip, node, handler, coinbase, disk, faults>>

\* The end of ProcessBlock.  CanVote is not asked.
AddOwnVote ==
  /\ scheduler # None
  /\ AddPaymentVote(scheduler)
  /\ scheduler' = None
  /\ UNCHANGED <<mapMasternodesLastVote, nCachedBlockHeight, tip, node, handler, coinbase,
                 disk, faults>>

Old(v) == nCachedBlockHeight - v.nBlockHeight > LIMIT

\* Mutant: votes that are not verified stay.
CheckAndRemoveVerified ==
  LET old == {v \in DOMAIN mapMasternodePaymentVotes : Old(v) /\ mapMasternodePaymentVotes[v]}
  IN /\ old # {}
     /\ mapMasternodePaymentVotes' = Without(mapMasternodePaymentVotes, old)
     /\ mapMasternodeBlocks' = Without(mapMasternodeBlocks, {v.nBlockHeight : v \in old})
     /\ UNCHANGED <<mapMasternodesLastVote, nCachedBlockHeight, tip, node, handler,
                    scheduler, coinbase, disk, faults>>

\* CheckAndRemove: with an old vote goes all of its block.
CheckAndRemove ==
  LET old == {v \in DOMAIN mapMasternodePaymentVotes : Old(v)}
  IN /\ old # {}
     /\ mapMasternodePaymentVotes' = Without(mapMasternodePaymentVotes, old)
     /\ mapMasternodeBlocks' = Without(mapMasternodeBlocks, {v.nBlockHeight : v \in old})
     /\ UNCHANGED <<mapMasternodesLastVote, nCachedBlockHeight, tip, node, handler,
                    scheduler, coinbase, disk, faults>>

-----------------------------------------------------------------------------
(* The chain, the list and the process (external). *)

\* A template on another tip is of no use.
ConnectBlock ==
  /\ tip < MaxHeight
  /\ tip' = tip + 1
  /\ coinbase' = None
  /\ UNCHANGED <<maps, mapMasternodesLastVote, nCachedBlockHeight, node, handler, scheduler,
                 disk, faults>>

DisconnectBlock ==
  /\ faults < MaxFaults
  /\ faults' = faults + 1
  /\ tip > 0
  /\ tip' = tip - 1
  /\ coinbase' = None
  /\ UNCHANGED <<maps, mapMasternodesLastVote, nCachedBlockHeight, node, handler, scheduler,
                 disk>>

MasternodeListChange(mn) ==
  /\ faults < MaxFaults
  /\ faults' = faults + 1
  /\ mapMasternodes' = IF mn \in mapMasternodes THEN mapMasternodes \ {mn}
                       ELSE mapMasternodes \cup {mn}
  /\ UNCHANGED <<maps, mapMasternodesLastVote, nCachedBlockHeight, tip, listSynced, handler,
                 scheduler, coinbase, disk>>

ListSynced ==
  /\ ~ listSynced
  /\ listSynced' = TRUE
  /\ UNCHANGED <<maps, mapMasternodesLastVote, nCachedBlockHeight, tip, mapMasternodes,
                 handler, scheduler, coinbase, disk, faults>>

\* The node stops, clean or not, and starts with the maps of the last clean stop.  They are not
\* loaded if it knows no masternode.
Restart(clean) ==
  /\ faults < MaxFaults
  /\ faults' = faults + 1
  /\ clean => handler = Idle /\ scheduler = None
  /\ disk' = IF clean
             THEN [votes |-> mapMasternodePaymentVotes, blocks |-> mapMasternodeBlocks]
             ELSE disk
  /\ mapMasternodePaymentVotes' = IF mapMasternodes = {} THEN Empty ELSE disk'.votes
  /\ mapMasternodeBlocks' = IF mapMasternodes = {} THEN Empty ELSE disk'.blocks
  /\ mapMasternodesLastVote' = [mn \in Masternodes |-> 0]
  /\ nCachedBlockHeight' = tip
  /\ listSynced' = FALSE
  /\ handler' = Idle
  /\ scheduler' = None
  /\ coinbase' = None
  /\ UNCHANGED <<tip, mapMasternodes>>

-----------------------------------------------------------------------------
(* Specification. *)

Init ==
  /\ mapMasternodePaymentVotes = Empty
  /\ mapMasternodeBlocks = Empty
  /\ mapMasternodesLastVote = [mn \in Masternodes |-> 0]
  /\ nCachedBlockHeight = InitHeight
  /\ tip = InitHeight
  /\ mapMasternodes = Masternodes
  /\ listSynced = TRUE
  /\ handler = Idle
  /\ scheduler = None
  /\ coinbase = None
  /\ disk = [votes |-> Empty, blocks |-> Empty]
  /\ faults = 0

Next ==
  \/ \E v \in Votes : ReceiveVote(v)
  \/ \E sameKey \in BOOLEAN : CheckVote(sameKey)
  \/ AddReceivedVote
  \/ UpdatedBlockTip
  \/ AddOwnVote
  \/ CheckAndRemove
  \/ FillBlockPayments
  \/ ConnectBlock
  \/ DisconnectBlock
  \/ \E mn \in Masternodes : MasternodeListChange(mn)
  \/ ListSynced
  \/ \E clean \in BOOLEAN : Restart(clean)

\* The maintenance thread comes round.
Fairness == WF_vars(CheckAndRemove)

Spec == Init /\ [][Next]_vars /\ Fairness

-----------------------------------------------------------------------------
(* Properties. *)

\* The votes a payee has got for the block at h.
Counted(h) ==
  UNION {Range(mapMasternodeBlocks[h][i].vecVoteHashes) : i \in DOMAIN mapMasternodeBlocks[h]}

\* What vecPayees counts and the verified votes are the same: every counted hash is a verified
\* vote for that payee and that block, counted once, so that Sync and getdata can serve it.
CountsAreVotes ==
  \A h \in DOMAIN mapMasternodeBlocks : \A i \in DOMAIN mapMasternodeBlocks[h] :
    LET payee == mapMasternodeBlocks[h][i]
    IN /\ IsInjective(payee.vecVoteHashes)
       /\ \A v \in Range(payee.vecVoteHashes) :
            /\ HasVerifiedPaymentVote(v)
            /\ v.nBlockHeight = h
            /\ v.payee = payee.scriptPubKey

\* The payee with the most votes among votes, the larger hash in a tie.
Plurality(votes) ==
  LET count(p) == Cardinality({v \in votes : v.payee = p})
      payees == {v.payee : v \in votes}
  IN IF votes = {} THEN None
     ELSE CHOOSE p \in payees : \A q \in payees \ {p} :
            \/ count(p) > count(q)
            \/ count(p) = count(q) /\ GetHash[p] > GetHash[q]

\* Whatever the order in which votes came, and whoever entered or left the list in between,
\* GetBestPayee is the plurality of the votes counted: nodes that have counted the same votes
\* pay the same masternodes.
BestPayeeIsPlurality ==
  \A h \in DOMAIN mapMasternodeBlocks : \A t \in Types :
    GetBestPayee(mapMasternodeBlocks[h], t) =
      Plurality({v \in Counted(h) : SinType[v.vinMasternode] = t})

\* A block filled from the votes stays one that ConnectBlock accepts: votes that come after,
\* and old votes that go, do not make the miner's own node reject it.
TemplateStaysValid ==
  coinbase # None => IsTransactionValid(coinbase.nBlockHeight, coinbase.vout)

\* Votes that are too old, the ones that were never verified included, do not stay.
OldVotesGo == []<>(\A v \in DOMAIN mapMasternodePaymentVotes : ~ Old(v))
=============================================================================
