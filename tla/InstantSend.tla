------------------------------- MODULE InstantSend -------------------------------
(*********************************************************************************)
(* One node's CInstantSend (instantx.cpp, instantx.h) together with the parts of *)
(* the node it shares state with: the handlers of TX, TXLOCKREQUEST and          *)
(* TXLOCKVOTE messages, the mempool's and the block checks' use of the locks,    *)
(* the wallet and RPC entry points, and the maintenance thread.                  *)
(*                                                                               *)
(* Handlers run under cs_main and cs_instantsend, so each one is one action.     *)
(* Inside a handler the code calls one method after another; each method is an   *)
(* operator from the object's state s (a record of the class's maps) to its next *)
(* state, and an action applies them in the order of the code.                   *)
(*********************************************************************************)
EXTENDS Integers, Sequences, FiniteSets

CONSTANTS
    Txs,                  \* transactions that may be sent as lock requests
    Outpoints,            \* confirmed outputs they spend, all old enough to be locked
    vin,                  \* vin[tx]: the sequence of outpoints that tx spends
    Eligible,             \* transactions whose finality, value and fee pass IsValid
    Masternodes,          \* masternode collateral outpoints
    Me,                   \* activeMasternode.outpoint, or NoMasternode when ~fMasterNode
    NoMasternode,
    TopRanked,            \* TopRanked[L][o]: masternodes of the list L whose rank for
                          \* the outpoint o is at most SIGNATURES_TOTAL
    NetVotes,             \* the votes of other masternodes that the network may deliver
    SIGNATURES_REQUIRED,
    SIGNATURES_TOTAL,
    LOCK_TIMEOUT,         \* INSTANTSEND_LOCK_TIMEOUT_SECONDS
    FAILED_TIMEOUT,       \* INSTANTSEND_FAILED_TIMEOUT_SECONDS
    nInstantSendKeepLock,
    InitHeight,           \* chain height when the node starts
    MaxHeight,            \* bound on the chain height
    LocalTxs,             \* transactions sent by this node's own wallet and RPC
    SporkSets,            \* the sets of active sporks that occur
    SyncStates            \* the values of IsMasternodeListSynced that occur

SPORK_2 == "SPORK_2_INSTANTSEND_ENABLED"
SPORK_3 == "SPORK_3_INSTANTSEND_BLOCK_FILTERING"

(* A vote is identified by what CTxLockVote::GetHash hashes.                     *)
Vote == [tx : Txs, outpoint : Outpoints, mn : Masternodes]

Inputs(tx) == {vin[tx][i] : i \in DOMAIN vin[tx]}

ASSUME TxAssumption ==
    /\ vin \in [Txs -> Seq(Outpoints)]
    /\ \A tx \in Txs : vin[tx] # << >>
    /\ Eligible \subseteq Txs
    /\ LocalTxs \subseteq Txs

ASSUME MasternodeAssumption ==
    /\ NoMasternode \notin Masternodes
    /\ Me \in Masternodes \cup {NoMasternode}
    /\ NetVotes \subseteq Vote
    /\ \A v \in NetVotes : v.mn # Me

(* What GetMasternodeRank promises about any list and outpoint.                  *)
ASSUME RankAssumption ==
    \A L \in SUBSET Masternodes, o \in Outpoints :
        /\ TopRanked[L][o] \subseteq L
        /\ IsFiniteSet(TopRanked[L][o])
        /\ Cardinality(TopRanked[L][o]) <= SIGNATURES_TOTAL

(* Two quorums for one outpoint intersect; the timeouts are ordered as           *)
(* instantx.h:41-43 demands.                                                     *)
ASSUME ParameterAssumption ==
    /\ SIGNATURES_REQUIRED \in Nat \ {0}
    /\ SIGNATURES_TOTAL \in Nat
    /\ SIGNATURES_TOTAL < 2 * SIGNATURES_REQUIRED
    /\ LOCK_TIMEOUT \in Nat
    /\ FAILED_TIMEOUT \in Nat
    /\ LOCK_TIMEOUT < FAILED_TIMEOUT
    /\ nInstantSendKeepLock \in Nat
    /\ InitHeight \in Nat
    /\ MaxHeight \in Nat
    /\ SporkSets \subseteq SUBSET {SPORK_2, SPORK_3}
    /\ SyncStates \subseteq BOOLEAN

VARIABLES
    instantsend,   \* the CInstantSend object, see IsInstantSend
    mempool,       \* the transactions in the mempool
    height,        \* chainActive.Height()
    minedAt,       \* height of the block that holds a transaction, -1 if none
    checkedBlocks, \* blocks between CheckBlock and ConnectTip, as sets of transactions
    mnList,        \* DOMAIN mnodeman.mapMasternodes
    listSynced,    \* masternodeSync.IsMasternodeListSynced()
    sporks,        \* the active ones of SPORK_2 and SPORK_3
    relayed        \* the votes that this node has signed and sent, for ever

vars == <<instantsend, mempool, height, minedAt, checkedBlocks, mnList, listSynced,
          sporks, relayed>>
env  == <<minedAt, height, checkedBlocks, mnList, listSynced, sporks>>

(*********************************************************************************)
(* Types.  A time stamp nTimeCreated is kept as an age that saturates one above  *)
(* the timeout that the code compares GetTime() - nTimeCreated with.  A map is a *)
(* function whose DOMAIN is the set of its keys.                                 *)
(*********************************************************************************)
Age == 0 .. FAILED_TIMEOUT + 1
ConfirmedHeight == Nat \cup {-1}

COutPointLock == [mapMasternodeVotes : SUBSET Masternodes, fAttacked : BOOLEAN]

CTxLockVote == [age : Age, nConfirmedHeight : ConfirmedHeight]

IsMap(m, Keys, Values) == DOMAIN m \subseteq Keys /\ m \in [DOMAIN m -> Values]

(* txLockRequest is null in the empty candidate that a vote creates before its   *)
(* request is known.                                                             *)
IsCandidate(c) ==
    /\ c = [txLockRequest |-> c.txLockRequest, mapOutPointLocks |-> c.mapOutPointLocks,
            nConfirmedHeight |-> c.nConfirmedHeight, age |-> c.age]
    /\ c.txLockRequest \in {"null", "known"}
    /\ IsMap(c.mapOutPointLocks, Outpoints, COutPointLock)
    /\ c.nConfirmedHeight \in ConfirmedHeight
    /\ c.age \in Age

Put(m, k, x) == [j \in DOMAIN m \cup {k} |-> IF j = k THEN x ELSE m[j]]
Erase(m, S) == [j \in DOMAIN m \ S |-> m[j]]
Empty == [j \in {} |-> {}]

(*********************************************************************************)
(* The environment as the handlers read it.                                      *)
(*********************************************************************************)
Mined == {tx \in Txs : minedAt[tx] # -1}
UTXO == Outpoints \ UNION {Inputs(tx) : tx \in Mined}

(* mempool.mapNextTx: the transactions of pool that spend o.                     *)
Spenders(pool, o) == {tx \in pool : o \in Inputs(tx)}

(* CTxLockRequest::IsValid.                                                      *)
RequestIsValid(tx) == tx \in Eligible /\ Inputs(tx) \subseteq UTXO

(* CTxLockVote::IsValid.  It does not ask whether the outpoint is an input of tx.*)
VoteIsValid(v) ==
    /\ v.mn \in mnList
    /\ v.outpoint \in UTXO
    /\ listSynced
    /\ v.mn \in TopRanked[mnList][v.outpoint]

(*********************************************************************************)
(* Queries of CInstantSend, CTxLockCandidate and CTxLockVote.                    *)
(*********************************************************************************)
Candidates(s) == DOMAIN s.mapTxLockCandidates
Locks(s, tx) == s.mapTxLockCandidates[tx].mapOutPointLocks

HasMasternodeVoted(s, tx, o, mn) ==
    /\ tx \in Candidates(s)
    /\ o \in DOMAIN Locks(s, tx)
    /\ mn \in Locks(s, tx)[o].mapMasternodeVotes

(* Mutant: an attacked outpoint counts as ready.                                 *)
IsReadyAttacked(lock) == Cardinality(lock.mapMasternodeVotes) >= SIGNATURES_REQUIRED

IsReady(lock) ==
    /\ ~lock.fAttacked
    /\ Cardinality(lock.mapMasternodeVotes) >= SIGNATURES_REQUIRED

IsAllOutPointsReady(s, tx) ==
    /\ DOMAIN Locks(s, tx) # {}
    /\ \A o \in DOMAIN Locks(s, tx) : IsReady(Locks(s, tx)[o])

LockedBy(s, o, tx) ==
    o \in DOMAIN s.mapLockedOutpoints /\ s.mapLockedOutpoints[o] = tx

LockedByAnother(s, o, tx) ==
    o \in DOMAIN s.mapLockedOutpoints /\ s.mapLockedOutpoints[o] # tx

IsLockedInstantSendTransaction(s, tx) ==
    /\ SPORK_3 \in sporks
    /\ tx \in Candidates(s)
    /\ DOMAIN Locks(s, tx) # {}
    /\ \A o \in DOMAIN Locks(s, tx) : LockedBy(s, o, tx)

IsTimedOut(x) == x.age > LOCK_TIMEOUT

(* Mutant: what is not in a block is compared with height -1.                    *)
IsExpiredUnconfirmed(s, x) == s.nCachedBlockHeight - x.nConfirmedHeight > nInstantSendKeepLock

IsExpired(s, x) ==
    /\ x.nConfirmedHeight # -1
    /\ s.nCachedBlockHeight - x.nConfirmedHeight > nInstantSendKeepLock

(* Mutant: the votes that completed a lock fail, the others stay.                *)
IsFailedLocked(s, v) ==
    /\ s.mapTxLockVotes[v].age > FAILED_TIMEOUT
    /\ IsLockedInstantSendTransaction(s, v.tx)

IsFailed(s, v) ==
    /\ s.mapTxLockVotes[v].age > FAILED_TIMEOUT
    /\ ~IsLockedInstantSendTransaction(s, v.tx)

(* HasTxLockRequest: true of an empty candidate too.                             *)
HasTxLockRequest(s, tx) == tx \in Candidates(s)

AlreadyHave(s, tx) == tx \in s.mapLockRequestAccepted \cup s.mapLockRequestRejected

(*********************************************************************************)
(* Methods of CInstantSend, from state to state.                                 *)
(*********************************************************************************)
Candidate(request, S, h, age) ==
    [txLockRequest |-> request,
     mapOutPointLocks |-> [o \in S |-> [mapMasternodeVotes |-> {}, fAttacked |-> FALSE]],
     nConfirmedHeight |-> h,
     age |-> age]

NewCandidate(request, S) == Candidate(request, S, -1, 0)

PutCandidate(s, tx, c) ==
    [s EXCEPT !.mapTxLockCandidates = Put(s.mapTxLockCandidates, tx, c)]

HasEmptyCandidate(s, tx) ==
    tx \in Candidates(s) /\ s.mapTxLockCandidates[tx].txLockRequest = "null"

(* The request is stored in a timed out empty candidate too, but without its     *)
(* outpoint locks: from then on it counts as seen and can never be locked.       *)
CreateTxLockCandidate(s, tx) ==
    LET c == s.mapTxLockCandidates[tx]
        S == IF IsTimedOut(c) THEN {} ELSE Inputs(tx)
    IN  IF ~RequestIsValid(tx)
          THEN s
          ELSE IF tx \notin Candidates(s)
                 THEN PutCandidate(s, tx, NewCandidate("known", Inputs(tx)))
                 ELSE IF HasEmptyCandidate(s, tx)
                        THEN PutCandidate(s, tx, Candidate("known", S, c.nConfirmedHeight, c.age))
                        ELSE s

(* What CreateTxLockCandidate, and so ProcessTxLockRequest, returns.             *)
CreateSucceeds(s, tx) ==
    /\ RequestIsValid(tx)
    /\ ~(HasEmptyCandidate(s, tx) /\ IsTimedOut(s.mapTxLockCandidates[tx]))

CreateEmptyTxLockCandidate(s, tx) ==
    IF tx \in Candidates(s) THEN s ELSE PutCandidate(s, tx, NewCandidate("null", {}))

(* Mutant: a timed out orphan vote stays in the orphan map.                      *)
CheckAndRemoveVotesOnly(s) ==
    LET orphans == {v \in DOMAIN s.mapTxLockVotesOrphan :
                        IsTimedOut(s.mapTxLockVotesOrphan[v])}
        s1 == [s EXCEPT !.mapTxLockVotes = Erase(@, orphans)]
        failed == {v \in DOMAIN s1.mapTxLockVotes : IsFailed(s1, v)}
    IN  IF listSynced THEN [s1 EXCEPT !.mapTxLockVotes = Erase(@, failed)] ELSE s

(* Removing an expired candidate releases its outpoints whoever holds them.      *)
CheckAndRemove(s) ==
    LET expired == {tx \in Candidates(s) : IsExpired(s, s.mapTxLockCandidates[tx])}
        (* An empty candidate hashes an empty transaction, not its key.          *)
        requests == {tx \in expired : s.mapTxLockCandidates[tx].txLockRequest = "known"}
        outpoints == UNION {DOMAIN Locks(s, tx) : tx \in expired}
        orphans == {v \in DOMAIN s.mapTxLockVotesOrphan :
                        IsTimedOut(s.mapTxLockVotesOrphan[v])}
        old == {v \in DOMAIN s.mapTxLockVotes : IsExpired(s, s.mapTxLockVotes[v])}
        s1 == [nCachedBlockHeight |-> s.nCachedBlockHeight,
               mapLockRequestAccepted |-> s.mapLockRequestAccepted \ requests,
               mapLockRequestRejected |-> s.mapLockRequestRejected \ requests,
               mapTxLockVotes |-> Erase(s.mapTxLockVotes, old \cup orphans),
               mapTxLockVotesOrphan |-> Erase(s.mapTxLockVotesOrphan, orphans),
               mapTxLockCandidates |-> Erase(s.mapTxLockCandidates, expired),
               mapVotedOutpoints |-> Erase(s.mapVotedOutpoints, outpoints),
               mapLockedOutpoints |-> Erase(s.mapLockedOutpoints, outpoints)]
        failed == {v \in DOMAIN s1.mapTxLockVotes : IsFailed(s1, v)}
    IN  IF listSynced
          THEN [s1 EXCEPT !.mapTxLockVotes = Erase(@, failed)]
          ELSE s

RejectLockRequest(s, tx) == [s EXCEPT !.mapLockRequestRejected = @ \cup {tx}]
AcceptLockRequest(s, tx) == [s EXCEPT !.mapLockRequestAccepted = @ \cup {tx}]

(* Mutants: the hash of the outpoint is stored for the hash of the transaction,  *)
(* or the loop ends after one input.                                             *)
LockTransactionInputsHash(s, tx) ==
    [s EXCEPT !.mapLockedOutpoints = [o \in DOMAIN @ \cup DOMAIN Locks(s, tx) |->
        IF o \in DOMAIN @ THEN @[o] ELSE o]]
LockTransactionInputsOne(s, tx) ==
    LET one == {CHOOSE o \in DOMAIN Locks(s, tx) : TRUE}
    IN  [s EXCEPT !.mapLockedOutpoints = [o \in DOMAIN @ \cup one |->
            IF o \in DOMAIN @ THEN @[o] ELSE tx]]

(* insert keeps an entry that is already there.                                  *)
LockTransactionInputs(s, tx) ==
    LET L == s.mapLockedOutpoints
    IN  [s EXCEPT !.mapLockedOutpoints =
            [o \in DOMAIN L \cup DOMAIN Locks(s, tx) |->
                IF o \in DOMAIN L THEN L[o] ELSE tx]]

(* Mutants: the requests are not rejected again after the clean-up, or only the  *)
(* new transaction is marked.                                                    *)
DropBothForget(s, tx, other) ==
    LET Mark(t, h) == [t EXCEPT !.mapTxLockCandidates[h].nConfirmedHeight = 0]
    IN  CheckAndRemove(Mark(Mark(s, tx), other))
DropBothOne(s, tx, other) ==
    RejectLockRequest(RejectLockRequest(CheckAndRemove(
        [s EXCEPT !.mapTxLockCandidates[tx].nConfirmedHeight = 0]), tx), other)

(* The two transactions of a conflict are marked as confirmed in block 0, hence  *)
(* expired, and cleaned up.                                                      *)
DropBoth(s, tx, other) ==
    LET Mark(t, h) == [t EXCEPT !.mapTxLockCandidates[h].nConfirmedHeight = 0]
    IN  RejectLockRequest(
            RejectLockRequest(CheckAndRemove(Mark(Mark(s, tx), other)), tx), other)

(* Mutant: the mempool is not searched.                                          *)
ConflictsLocksOnly(s, tx, pool) == {i \in DOMAIN vin[tx] : LockedByAnother(s, vin[tx][i], tx)}

(* The inputs that stop ResolveConflicts, by their positions in vin; the loop    *)
(* acts on the first.                                                            *)
Conflicts(s, tx, pool) ==
    {i \in DOMAIN vin[tx] : \/ LockedByAnother(s, vin[tx][i], tx)
                            \/ Spenders(pool, vin[tx][i]) \ {tx} # {}}

FirstConflict(s, tx, pool) ==
    {i \in Conflicts(s, tx, pool) : \A j \in Conflicts(s, tx, pool) : i <= j}

(* The transactions whose completed locks stop tx at its first conflict.         *)
CompletedRivals(s, tx, pool) ==
    {s.mapLockedOutpoints[vin[tx][i]] :
        i \in {j \in FirstConflict(s, tx, pool) : LockedByAnother(s, vin[tx][j], tx)}}

(* TryToFinalizeLockCandidate with ResolveConflicts and LockTransactionInputs.   *)
TryToFinalizeLockCandidate(s, tx, pool) ==
    IF \/ SPORK_2 \notin sporks
       \/ ~IsAllOutPointsReady(s, tx)
       \/ IsLockedInstantSendTransaction(s, tx)
      THEN s
      ELSE IF Conflicts(s, tx, pool) = {}
        THEN IF tx \in Mined \/ Inputs(tx) \subseteq UTXO
               THEN LockTransactionInputs(s, tx)
               ELSE s
        ELSE IF CompletedRivals(s, tx, pool) \cap Candidates(s) = {}
               THEN s
               ELSE DropBoth(s, tx, CHOOSE t \in CompletedRivals(s, tx, pool) : TRUE)

ProcessTxLockRequest(s, tx, pool) ==
    IF CreateSucceeds(s, tx)
      THEN TryToFinalizeLockCandidate(CreateTxLockCandidate(s, tx), tx, pool)
      ELSE CreateTxLockCandidate(s, tx)

VotedFor(s, o) == IF o \in DOMAIN s.mapVotedOutpoints THEN s.mapVotedOutpoints[o] ELSE {}
(* Mutant: the transactions voted for before are forgotten.                      *)
MarkVotedLast(s, S, tx) ==
    [s EXCEPT !.mapVotedOutpoints =
        [o \in DOMAIN @ \cup S |-> IF o \in S THEN {tx} ELSE @[o]]]

MarkVoted(s, S, tx) ==
    [s EXCEPT !.mapVotedOutpoints =
        [o \in DOMAIN @ \cup S |-> IF o \in S THEN VotedFor(s, o) \cup {tx} ELSE @[o]]]

(* CTxLockCandidate::AddVote, for the outpoints of S.                            *)
AddVotes(c, S, mn) ==
    LET WithVote(lock) == [lock EXCEPT !.mapMasternodeVotes = @ \cup {mn}]
    IN  [c EXCEPT !.mapOutPointLocks =
            [o \in DOMAIN c.mapOutPointLocks |->
                IF o \in S THEN WithVote(c.mapOutPointLocks[o]) ELSE c.mapOutPointLocks[o]]]

CastVotes(s, tx, S, mn) ==
    PutCandidate(s, tx, AddVotes(s.mapTxLockCandidates[tx], S, mn))

(* Insertion into mapTxLockVotes.                                                *)
NewVote == [age |-> 0, nConfirmedHeight |-> -1]
RecordVotes(s, V) ==
    [s EXCEPT !.mapTxLockVotes =
        [v \in DOMAIN @ \cup V |-> IF v \in DOMAIN @ THEN @[v] ELSE NewVote]]

(* Mutant: what was voted for before is not looked up.                           *)
MyOutpointsAgain(s, tx) ==
    {o \in DOMAIN Locks(s, tx) :
        /\ SPORK_2 \in sporks
        /\ tx \in s.mapLockRequestAccepted
        /\ o \in UTXO
        /\ listSynced
        /\ Me \in TopRanked[mnList][o]}

(* Vote(CTxLockCandidate): the outpoints of tx this masternode votes for now, and*)
(* the state with these votes.  It never votes for one outpoint twice.  The loop *)
(* ends at an outpoint that is not in the UTXO set; the mempool has just found   *)
(* all of them there.                                                            *)
MyOutpoints(s, tx) ==
    {o \in DOMAIN Locks(s, tx) :
        /\ SPORK_2 \in sporks
        /\ tx \in s.mapLockRequestAccepted
        /\ o \in UTXO
        /\ listSynced
        /\ Me \in TopRanked[mnList][o]
        /\ \A h \in VotedFor(s, o) : ~HasMasternodeVoted(s, h, o, Me)}

MyVotes(s, tx) ==
    IF tx \in Candidates(s)
      THEN {[tx |-> tx, outpoint |-> o, mn |-> Me] : o \in MyOutpoints(s, tx)}
      ELSE {}

AddMyVotes(s, tx) ==
    LET mine == MyOutpoints(s, tx)
    IN  IF Me = NoMasternode
          THEN s
          ELSE RecordVotes(CastVotes(MarkVoted(s, mine, tx), tx, mine, Me), MyVotes(s, tx))

VoteFor(s, tx, pool) ==
    IF tx \in Candidates(s)
      THEN TryToFinalizeLockCandidate(AddMyVotes(s, tx), tx, pool)
      ELSE s

MarkOutpointAsAttacked(c, o) ==
    IF o \in DOMAIN c.mapOutPointLocks
      THEN [c EXCEPT !.mapOutPointLocks[o].fAttacked = TRUE]
      ELSE c

MarkAttacked(s, o, S) ==
    LET C == s.mapTxLockCandidates
    IN  [s EXCEPT !.mapTxLockCandidates =
            [tx \in DOMAIN C |-> IF tx \in S THEN MarkOutpointAsAttacked(C[tx], o) ELSE C[tx]]]

IsEnoughOrphanVotesForTx(s, tx) ==
    \A o \in Inputs(tx) :
        Cardinality({v \in DOMAIN s.mapTxLockVotesOrphan : v.tx = tx /\ v.outpoint = o})
            >= SIGNATURES_REQUIRED

(* The first half of ProcessTxLockVote: the request of the vote is not known.    *)
(* mapMasternodeOrphanVotes only decides the value returned, which is ignored.   *)
StoreOrphanVote(s, v, pool) ==
    LET s1 == CreateEmptyTxLockCandidate(s, v.tx)
        s2 == [s1 EXCEPT !.mapTxLockVotesOrphan = Put(@, v, NewVote)]
    IN  IF v \in DOMAIN s.mapTxLockVotesOrphan
          THEN s
          ELSE IF AlreadyHave(s, v.tx) /\ IsEnoughOrphanVotesForTx(s2, v.tx)
                 THEN ProcessTxLockRequest(s2, v.tx, pool)
                 ELSE s2

(* Votes of the same masternode for another transaction with the same outpoint.  *)
Rivals(s, v) ==
    {tx \in VotedFor(s, v.outpoint) \ {v.tx} : HasMasternodeVoted(s, tx, v.outpoint, v.mn)}

(* Mutant: rivals are not marked as attacked.                                    *)
CountVoteUnmarked(s, v, pool) ==
    LET s2 == MarkVoted(s, {v.outpoint}, v.tx)
    IN  IF v.outpoint \in DOMAIN Locks(s2, v.tx)
          THEN TryToFinalizeLockCandidate(
                   CastVotes(s2, v.tx, {v.outpoint}, v.mn), v.tx, pool)
          ELSE s2

(* The second half: the vote is counted, unless its candidate does not take it,  *)
(* but in either case it leaves its mark in mapVotedOutpoints.                   *)
CountVote(s, v, pool) ==
    LET rivals == Rivals(s, v)
        s1 == IF rivals = {} THEN s ELSE MarkAttacked(s, v.outpoint, rivals \cup {v.tx})
        s2 == MarkVoted(s1, {v.outpoint}, v.tx)
    IN  IF /\ v.outpoint \in DOMAIN Locks(s2, v.tx)
           /\ ~HasMasternodeVoted(s2, v.tx, v.outpoint, v.mn)
          THEN TryToFinalizeLockCandidate(
                   CastVotes(s2, v.tx, {v.outpoint}, v.mn), v.tx, pool)
          ELSE s2

ProcessTxLockVote(s, v, pool) ==
    IF ~VoteIsValid(v)
      THEN s
      ELSE IF v.tx \notin Candidates(s) \/ HasEmptyCandidate(s, v.tx)
             THEN StoreOrphanVote(s, v, pool)
             ELSE IF IsTimedOut(s.mapTxLockCandidates[v.tx])
                    THEN s
                    ELSE CountVote(s, v, pool)

(*********************************************************************************)
(* The mempool.  Policy may refuse any transaction (fees, sizes, opted out of    *)
(* replacement), so an action that calls AcceptToMemoryPool may see it fail even *)
(* where MempoolAccepts holds.                                                   *)
(*********************************************************************************)
PoolConflicts(tx, pool) == UNION {Spenders(pool, o) : o \in Inputs(tx)} \ {tx}

MempoolAccepts(s, tx, pool) ==
    /\ tx \notin pool
    /\ HasTxLockRequest(s, tx) => RequestIsValid(tx)
    /\ \A o \in Inputs(tx) : ~LockedByAnother(s, o, tx)
    /\ PoolConflicts(tx, pool) # {} =>
          \A t \in PoolConflicts(tx, pool) \cup {tx} : ~HasTxLockRequest(s, t)
    /\ Inputs(tx) \subseteq UTXO

AddToMempool(tx, pool) == (pool \ PoolConflicts(tx, pool)) \cup {tx}

(*********************************************************************************)
(* The handlers.                                                                 *)
(*********************************************************************************)

(* TXLOCKREQUEST.  A request that fails is dropped; one already accepted or      *)
(* rejected only has its candidate looked at again; otherwise the mempool decides*)
ReceiveTxLockRequest(tx) ==
    /\ LET s1 == ProcessTxLockRequest(instantsend, tx, mempool)
           s2 == AcceptLockRequest(s1, tx)
           pool == AddToMempool(tx, mempool)
           new == CreateSucceeds(instantsend, tx) /\ ~AlreadyHave(s1, tx)
       IN  \/ /\ ~new
              /\ instantsend' = s1
              /\ UNCHANGED <<mempool, relayed>>
           \/ /\ new
              /\ MempoolAccepts(s1, tx, mempool)
              /\ instantsend' = VoteFor(s2, tx, pool)
              /\ mempool' = pool
              /\ relayed' = relayed \cup MyVotes(s2, tx)
           \/ /\ new
              /\ instantsend' = RejectLockRequest(s1, tx)
              /\ UNCHANGED <<mempool, relayed>>
    /\ UNCHANGED env

(* TX.  A masternode tries to lock every transaction it receives.                *)
ReceiveTx(tx) ==
    /\ LET auto == Me # NoMasternode
           s1 == IF auto THEN ProcessTxLockRequest(instantsend, tx, mempool) ELSE instantsend
           s2 == AcceptLockRequest(s1, tx)
           pool == AddToMempool(tx, mempool)
           lock == auto /\ CreateSucceeds(instantsend, tx)
       IN  \/ /\ MempoolAccepts(s1, tx, mempool)
              /\ instantsend' = IF lock THEN VoteFor(s2, tx, pool) ELSE s1
              /\ mempool' = pool
              /\ relayed' = IF lock THEN relayed \cup MyVotes(s2, tx) ELSE relayed
           \/ /\ instantsend' = s1
              /\ UNCHANGED <<mempool, relayed>>
    /\ UNCHANGED env

(* TXLOCKVOTE.  A vote seen before is dropped; the node's own votes come back    *)
(* from the network.  When another thread holds cs_wallet, ProcessTxLockVote     *)
(* returns at once, and the vote stays recorded.                                 *)
ReceiveTxLockVote(v) ==
    /\ v \in NetVotes \cup relayed
    /\ SPORK_2 \in sporks
    /\ listSynced
    /\ v \notin DOMAIN instantsend.mapTxLockVotes
    /\ LET recorded == RecordVotes(instantsend, {v})
       IN  \/ instantsend' = ProcessTxLockVote(recorded, v, mempool)
           \/ instantsend' = recorded
    /\ UNCHANGED <<mempool, relayed>>
    /\ UNCHANGED env

(* CWalletTx::RelayWalletTransaction with TXLOCKREQUEST: the mempool first, then *)
(* the request.  The wallet does not call Vote.                                  *)
RelayWalletTransaction(tx) ==
    /\ tx \in LocalTxs \ Mined
    /\ tx \in mempool \/ MempoolAccepts(instantsend, tx, mempool)
    /\ mempool' = IF tx \in mempool THEN mempool ELSE AddToMempool(tx, mempool)
    /\ LET s1 == ProcessTxLockRequest(instantsend, tx, mempool')
       IN  instantsend' = IF CreateSucceeds(instantsend, tx)
                            THEN AcceptLockRequest(s1, tx)
                            ELSE RejectLockRequest(s1, tx)
    /\ UNCHANGED relayed
    /\ UNCHANGED env

(* sendrawtransaction: with its instantsend argument the request comes first,    *)
(* then the mempool.                                                             *)
SendRawTransaction(tx) ==
    /\ tx \in LocalTxs \ (mempool \cup Mined)
    /\ LET s1 == ProcessTxLockRequest(instantsend, tx, mempool)
       IN  \/ /\ instantsend' = s1
              /\ \/ UNCHANGED mempool
                 \/ /\ CreateSucceeds(instantsend, tx)
                    /\ MempoolAccepts(s1, tx, mempool)
                    /\ mempool' = AddToMempool(tx, mempool)
           \/ /\ MempoolAccepts(instantsend, tx, mempool)
              /\ mempool' = AddToMempool(tx, mempool)
              /\ UNCHANGED instantsend
    /\ UNCHANGED relayed
    /\ UNCHANGED env

(* CTxMemPool::Expire spares locked transactions, TrimToSize does not.           *)
ExpireFromMempool(tx) ==
    /\ tx \in mempool
    /\ ~IsLockedInstantSendTransaction(instantsend, tx)
    /\ mempool' = mempool \ {tx}
    /\ UNCHANGED <<instantsend, relayed>>
    /\ UNCHANGED env

TrimToSize(tx) ==
    /\ tx \in mempool
    /\ mempool' = mempool \ {tx}
    /\ UNCHANGED <<instantsend, relayed>>
    /\ UNCHANGED env

(* ProcessNewBlock: CheckBlock, without cs_main, compares the block with the     *)
(* completed locks; ActivateBestChain connects it later, and does not check a    *)
(* block again whose fChecked is set.  A block read back from disk is checked    *)
(* again by ConnectBlock.                                                        *)
PassesBlockFilter(block) ==
    SPORK_3 \in sporks =>
        \A tx \in block : \A o \in Inputs(tx) : ~LockedByAnother(instantsend, o, tx)

CheckBlock(block) ==
    /\ height < MaxHeight
    /\ block \notin checkedBlocks
    /\ \A tx \in block, t \in block : tx # t => Inputs(tx) \cap Inputs(t) = {}
    /\ PassesBlockFilter(block)
    /\ checkedBlocks' = checkedBlocks \cup {block}
    /\ UNCHANGED <<instantsend, mempool, height, minedAt, mnList, listSynced, sporks, relayed>>

ConnectTip(block) ==
    /\ block \in checkedBlocks
    /\ height < MaxHeight
    /\ checkedBlocks' = checkedBlocks \ {block}
    /\ \/ /\ \A tx \in block : tx \notin Mined /\ Inputs(tx) \subseteq UTXO
          /\ height' = height + 1
          /\ minedAt' = [tx \in Txs |-> IF tx \in block THEN height + 1 ELSE minedAt[tx]]
          /\ mempool' = {tx \in mempool \ block :
                            \A t \in block : Inputs(tx) \cap Inputs(t) = {}}
       \/ /\ \/ \E tx \in block : tx \in Mined \/ ~(Inputs(tx) \subseteq UTXO)
             \/ ~PassesBlockFilter(block)
          /\ UNCHANGED <<height, minedAt, mempool>>
    /\ UNCHANGED <<instantsend, mnList, listSynced, sporks, relayed>>

(* The scheduler thread delivers UpdatedBlockTip after cs_main was released, for *)
(* the tips at which ActivateBestChain pauses.                                   *)
UpdatedBlockTip ==
    /\ \E h \in instantsend.nCachedBlockHeight + 1 .. height :
          instantsend' = [instantsend EXCEPT !.nCachedBlockHeight = h]
    /\ UNCHANGED <<mempool, relayed>>
    /\ UNCHANGED env

(* One iteration of the maintenance thread's clean-up.                           *)
Maintenance ==
    /\ instantsend' = CheckAndRemove(instantsend)
    /\ UNCHANGED <<mempool, relayed>>
    /\ UNCHANGED env

(* A second passes.                                                              *)
Older(m, limit) ==
    [k \in DOMAIN m |-> [m[k] EXCEPT !.age = IF @ > limit THEN @ ELSE @ + 1]]

Tick ==
    /\ instantsend' =
           [instantsend EXCEPT !.mapTxLockCandidates = Older(@, LOCK_TIMEOUT),
                               !.mapTxLockVotes = Older(@, FAILED_TIMEOUT),
                               !.mapTxLockVotesOrphan = Older(@, LOCK_TIMEOUT)]
    /\ UNCHANGED <<mempool, relayed>>
    /\ UNCHANGED env

(*********************************************************************************)
(* What happens around the object.                                               *)
(*********************************************************************************)
SporkUpdate ==
    /\ sporks' \in SporkSets \ {sporks}
    /\ UNCHANGED <<instantsend, mempool, height, minedAt, checkedBlocks, mnList, listSynced, relayed>>

(* masternodeSync loses its state after the node slept, and regains it.          *)
MasternodeSyncChange ==
    /\ listSynced' \in SyncStates \ {listSynced}
    /\ UNCHANGED <<instantsend, mempool, height, minedAt, checkedBlocks, mnList, sporks, relayed>>

MasternodeListChange ==
    /\ mnList' \in (SUBSET Masternodes) \ {mnList}
    /\ UNCHANGED <<instantsend, mempool, height, minedAt, checkedBlocks, listSynced, sporks, relayed>>

NewInstantSend(h) ==
    [nCachedBlockHeight |-> h,
     mapLockRequestAccepted |-> {},
     mapLockRequestRejected |-> {},
     mapTxLockVotes |-> Empty,
     mapTxLockVotesOrphan |-> Empty,
     mapTxLockCandidates |-> Empty,
     mapVotedOutpoints |-> Empty,
     mapLockedOutpoints |-> Empty]

(* Nothing of CInstantSend is written to disk.  The mempool is, but only by an   *)
(* orderly shutdown.                                                             *)
Restart ==
    /\ instantsend' = NewInstantSend(height)
    /\ mempool' \in {mempool, {}}
    /\ checkedBlocks' = {}
    /\ UNCHANGED <<height, minedAt, mnList, listSynced, sporks, relayed>>

Init ==
    /\ instantsend = NewInstantSend(InitHeight)
    /\ mempool = {}
    /\ height = InitHeight
    /\ minedAt = [tx \in Txs |-> -1]
    /\ checkedBlocks = {}
    /\ mnList = Masternodes
    /\ listSynced = TRUE
    /\ sporks = {SPORK_2, SPORK_3}
    /\ relayed = {}

(* The network, the users and the threads of a node, while the masternode list   *)
(* stays as it is.                                                               *)
Handlers ==
    \/ \E tx \in Txs :
          \/ ReceiveTxLockRequest(tx)
          \/ ReceiveTx(tx)
          \/ RelayWalletTransaction(tx)
          \/ SendRawTransaction(tx)
          \/ ExpireFromMempool(tx)
          \/ TrimToSize(tx)
    \/ \E v \in Vote : ReceiveTxLockVote(v)
    \/ Maintenance
    \/ Tick

Blocks ==
    \/ \E block \in SUBSET Txs : CheckBlock(block) \/ ConnectTip(block)
    \/ UpdatedBlockTip

Next == Handlers \/ Blocks \/ SporkUpdate \/ MasternodeSyncChange

Spec == Init /\ [][Next]_vars

(* The masternode list may change as well, and with it the quorums.  The         *)
(* maintenance thread and the clock keep running; nothing is assumed of peers,   *)
(* users and miners.                                                             *)
SpecList ==
    /\ Init
    /\ [][Next \/ MasternodeListChange]_vars
    /\ WF_vars(Maintenance)
    /\ WF_vars(Tick)

(* The node may stop and start again.                                            *)
SpecRestart == Init /\ [][Next \/ Restart]_vars

--------------------------------------------------------------------------------
(*********************************************************************************)
(* Invariants.                                                                   *)
(*********************************************************************************)
HasFields(s) ==
    s = [nCachedBlockHeight |-> s.nCachedBlockHeight,
         mapLockRequestAccepted |-> s.mapLockRequestAccepted,
         mapLockRequestRejected |-> s.mapLockRequestRejected,
         mapTxLockVotes |-> s.mapTxLockVotes,
         mapTxLockVotesOrphan |-> s.mapTxLockVotesOrphan,
         mapTxLockCandidates |-> s.mapTxLockCandidates,
         mapVotedOutpoints |-> s.mapVotedOutpoints,
         mapLockedOutpoints |-> s.mapLockedOutpoints]

IsInstantSend(s) ==
    /\ HasFields(s)
    /\ s.nCachedBlockHeight \in Nat
    /\ s.mapLockRequestAccepted \subseteq Txs
    /\ s.mapLockRequestRejected \subseteq Txs
    /\ IsMap(s.mapTxLockVotes, Vote, CTxLockVote)
    /\ IsMap(s.mapTxLockVotesOrphan, Vote, CTxLockVote)
    /\ s.mapTxLockCandidates = [tx \in Candidates(s) |-> s.mapTxLockCandidates[tx]]
    /\ Candidates(s) \subseteq Txs
    /\ \A tx \in Candidates(s) : IsCandidate(s.mapTxLockCandidates[tx])
    /\ IsMap(s.mapVotedOutpoints, Outpoints, SUBSET Txs)
    /\ IsMap(s.mapLockedOutpoints, Outpoints, Txs)

(* Every map of CInstantSend has keys and entries of its declared types, and so  *)
(* has the state around it.                                                      *)
TypeOK ==
    /\ IsInstantSend(instantsend)
    /\ mempool \subseteq Txs
    /\ height \in Nat
    /\ minedAt \in [Txs -> ConfirmedHeight]
    /\ checkedBlocks \subseteq SUBSET Txs
    /\ mnList \subseteq Masternodes
    /\ listSynced \in BOOLEAN
    /\ sporks \subseteq {SPORK_2, SPORK_3}
    /\ relayed \subseteq Vote

(* Two transactions that spend a common outpoint are never both ready to be      *)
(* locked: a masternode that votes for both spoils both (ProcessTxLockVote marks *)
(* the outpoint as attacked), and two quorums without a common voter do not fit  *)
(* into SIGNATURES_TOTAL.                                                        *)
ExclusiveQuorums ==
    \A t, u \in Candidates(instantsend) :
        /\ t # u
        /\ IsAllOutPointsReady(instantsend, t)
        /\ IsAllOutPointsReady(instantsend, u)
        => DOMAIN Locks(instantsend, t) \cap DOMAIN Locks(instantsend, u) = {}

(* A lock is all or nothing: the transaction that holds one outpoint in          *)
(* mapLockedOutpoints is a candidate and holds all of its inputs                 *)
(* (LockTransactionInputs, CheckAndRemove).                                      *)
Whole(s) ==
    \A o \in DOMAIN s.mapLockedOutpoints :
        LET tx == s.mapLockedOutpoints[o]
        IN  /\ tx \in Candidates(s)
            /\ o \in DOMAIN Locks(s, tx)
            /\ \A i \in Inputs(tx) : LockedBy(s, i, tx)

LocksAreWhole == Whole(instantsend)

(* The mempool never holds a transaction that spends an outpoint locked for      *)
(* another one: AcceptToMemoryPool looks at the locks and ResolveConflicts looks *)
(* at the mempool, whichever comes first.                                        *)
RespectsLocks(s, T) == \A tx \in T : \A o \in Inputs(tx) : ~LockedByAnother(s, o, tx)

MempoolRespectsLocks == RespectsLocks(instantsend, mempool)

(* The chain never spends a locked outpoint in another transaction               *)
(* (CheckBlock: "never accept block which conflicts with completed transaction   *)
(* lock").                                                                       *)
ChainRespectsLocks == RespectsLocks(instantsend, Mined)

(* A masternode never signs votes that give one outpoint to two transactions     *)
(* (Vote: "refuse to vote twice or to include the same outpoint in another tx"). *)
OwnVotesExclusive ==
    \A v, w \in relayed : v.outpoint = w.outpoint => v.tx = w.tx

(* Every transaction recorded in mapVotedOutpoints has a candidate: Vote         *)
(* dereferences the candidate it looks up without asking whether it was found.   *)
VotedKnown(s) ==
    \A o \in DOMAIN s.mapVotedOutpoints : s.mapVotedOutpoints[o] \subseteq Candidates(s)

VotedHaveCandidates == VotedKnown(instantsend)

(* An orphan vote is also in mapTxLockVotes and times out there no earlier, so   *)
(* that peers can fetch it and CheckAndRemove drops it from both maps at once.   *)
OrphansTracked(s) ==
    \A v \in DOMAIN s.mapTxLockVotesOrphan :
        /\ v \in DOMAIN s.mapTxLockVotes
        /\ \/ s.mapTxLockVotes[v].age <= s.mapTxLockVotesOrphan[v].age
           \/ IsTimedOut(s.mapTxLockVotesOrphan[v])

OrphansAreVotes == OrphansTracked(instantsend)

(*********************************************************************************)
(* The inductive invariant behind ExclusiveQuorums: which votes a candidate can  *)
(* hold, that no vote for a rival goes unnoticed, and that a completed lock keeps*)
(* the quorum that made it.                                                      *)
(*********************************************************************************)
LockVotes(s, tx, o) == Locks(s, tx)[o].mapMasternodeVotes

CandidatesSound(s) ==
    \A tx \in Candidates(s) :
        /\ DOMAIN Locks(s, tx) \in {{}, Inputs(tx)}
        /\ HasEmptyCandidate(s, tx) => DOMAIN Locks(s, tx) = {}
        /\ s.mapTxLockCandidates[tx].nConfirmedHeight = -1

Unconfirmed(s) ==
    \A v \in DOMAIN s.mapTxLockVotes : s.mapTxLockVotes[v].nConfirmedHeight = -1

VotesRecorded(s) ==
    \A tx \in Candidates(s) : \A o \in DOMAIN Locks(s, tx) :
        /\ LockVotes(s, tx, o) \subseteq TopRanked[Masternodes][o]
        /\ LockVotes(s, tx, o) # {} => tx \in VotedFor(s, o)

DoubleVotesMarked(s) ==
    \A t, u \in Candidates(s) : \A o \in DOMAIN Locks(s, t) \cap DOMAIN Locks(s, u) :
        t # u /\ LockVotes(s, t, o) \cap LockVotes(s, u, o) # {} =>
            Locks(s, t)[o].fAttacked /\ Locks(s, u)[o].fAttacked

LocksHaveQuorums(s) ==
    \A o \in DOMAIN s.mapLockedOutpoints :
        Cardinality(LockVotes(s, s.mapLockedOutpoints[o], o)) >= SIGNATURES_REQUIRED

Sound(s) ==
    /\ IsInstantSend(s)
    /\ CandidatesSound(s)
    /\ Unconfirmed(s)
    /\ VotesRecorded(s)
    /\ DoubleVotesMarked(s)
    /\ VotedKnown(s)
    /\ Whole(s)
    /\ LocksHaveQuorums(s)
    /\ OrphansTracked(s)

(* The votes this node has sent are in its candidates.                           *)
OwnVotesKept ==
    \A v \in relayed : v.mn = Me /\ HasMasternodeVoted(instantsend, v.tx, v.outpoint, Me)

(* While the quorums stay the same: every vote counted is in its quorum and      *)
(* recorded for its outpoint, no masternode's vote for a rival goes unmarked,    *)
(* nothing is ever expired, and the quorum that completed a lock is still there. *)
QuorumInvariant ==
    /\ TypeOK
    /\ mnList = Masternodes
    /\ Sound(instantsend)
    /\ OwnVotesKept
    /\ MempoolRespectsLocks

(*********************************************************************************)
(* Action properties.                                                            *)
(*********************************************************************************)

(* While the quorums stay the same, a completed lock is never taken back and     *)
(* never given to another transaction, whatever votes, requests and timeouts     *)
(* follow.                                                                       *)
LocksArePermanent ==
    [][\A o \in DOMAIN instantsend.mapLockedOutpoints :
          LockedBy(instantsend', o, instantsend.mapLockedOutpoints[o])]_vars

(* Whatever happens to the quorums, a transaction only loses an outpoint it has  *)
(* locked when its own candidate is dropped ("locked txes do not expire until    *)
(* mined and have sufficient confirmations", CTxMemPool::Expire).                *)
LocksGoWithCandidates ==
    [][\A o \in DOMAIN instantsend.mapLockedOutpoints :
          LET tx == instantsend.mapLockedOutpoints[o]
          IN  tx \in Candidates(instantsend') => LockedBy(instantsend', o, tx)]_vars

Attacked(s, tx) == tx \in Candidates(s) /\ \E o \in DOMAIN Locks(s, tx) : Locks(s, tx)[o].fAttacked
Holds(s, tx) == \E o \in DOMAIN s.mapLockedOutpoints : s.mapLockedOutpoints[o] = tx

(* A candidate with an attacked outpoint is never completed later ("none of them *)
(* should complete", ProcessTxLockVote).                                         *)
AttackedNeverCompletes ==
    [][\A tx \in Txs : Attacked(instantsend, tx) /\ ~Holds(instantsend, tx)
          => ~Holds(instantsend', tx)]_vars

(* A request that was accepted or rejected is remembered: a node does not ask for*)
(* it again ("AlreadyHave should still return true for both of them",            *)
(* ResolveConflicts).                                                            *)
AlreadyHaveIsStable ==
    [][\A tx \in Txs : AlreadyHave(instantsend, tx) => AlreadyHave(instantsend', tx)]_vars

(*********************************************************************************)
(* Liveness.                                                                     *)
(*********************************************************************************)

(* A vote does not stay in mapTxLockVotes for ever unless it helped to lock its  *)
(* transaction (CheckAndRemove and IsFailed).                                    *)
VotesReleased ==
    \A v \in Vote :
        []<>(\/ v \notin DOMAIN instantsend.mapTxLockVotes
             \/ IsLockedInstantSendTransaction(instantsend, v.tx))
====
