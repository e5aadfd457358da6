--------------------------- MODULE InstantSendProofs ---------------------------
(* Proofs about InstantSend.  While the masternode list does not change (Spec): *)
(* the quorum invariant and what follows from it.  The same for a node that     *)
(* restarts (SpecRestart), but for what it remembers of its own votes.  While   *)
(* the list changes (SpecList): requests stay known.                            *)
EXTENDS InstantSend, FiniteSetTheorems, TLAPS

(* A vote and an outpoint belong to the constant sets that bound them.          *)
LEMMA InputsAreOutpoints ==
    \A tx \in Txs : Inputs(tx) \subseteq Outpoints /\ Inputs(tx) # {}
  BY TxAssumption DEF Inputs

(* Two disjoint quorums do not fit into the masternodes that may vote on an     *)
(* outpoint (COutPointLock::SIGNATURES_REQUIRED and SIGNATURES_TOTAL).          *)
LEMMA QuorumsIntersect ==
    ASSUME NEW o \in Outpoints,
           NEW P, P \subseteq TopRanked[Masternodes][o],
           NEW Q, Q \subseteq TopRanked[Masternodes][o],
           Cardinality(P) >= SIGNATURES_REQUIRED,
           Cardinality(Q) >= SIGNATURES_REQUIRED
    PROVE  P \cap Q # {}
  <1> DEFINE R == TopRanked[Masternodes][o]
  <1>1. IsFiniteSet(R) /\ Cardinality(R) <= SIGNATURES_TOTAL
    BY RankAssumption
  <1>2. IsFiniteSet(P) /\ IsFiniteSet(Q) /\ IsFiniteSet(P \cup Q) /\ IsFiniteSet(P \cap Q)
    BY <1>1, FS_Subset, P \cup Q \subseteq R, P \cap Q \subseteq R
  <1>3. Cardinality(P \cup Q) <= Cardinality(R)
    BY <1>1, FS_Subset, P \cup Q \subseteq R
  <1>4. Cardinality(P \cup Q) = Cardinality(P) + Cardinality(Q) - Cardinality(P \cap Q)
    BY <1>2, FS_Union
  <1>5. P \cap Q = {} => Cardinality(P \cap Q) = 0
    BY FS_EmptySet
  <1>6. /\ Cardinality(P) \in Nat /\ Cardinality(Q) \in Nat /\ Cardinality(P \cup Q) \in Nat
        /\ Cardinality(R) \in Nat /\ Cardinality(P \cap Q) \in Nat
    BY <1>1, <1>2, FS_CardinalityType
  <1> QED
    BY <1>1, <1>3, <1>4, <1>5, <1>6, ParameterAssumption

(* A candidate that is ready finds none of its inputs locked for another        *)
(* transaction, so that ResolveConflicts never has to drop a completed lock.    *)
LEMMA ReadyIsUnrivalled ==
    ASSUME NEW s, Sound(s), NEW tx \in Candidates(s), IsAllOutPointsReady(s, tx)
    PROVE  /\ DOMAIN Locks(s, tx) = Inputs(tx)
           /\ \A o \in Inputs(tx) : ~LockedByAnother(s, o, tx)
  <1>1. DOMAIN Locks(s, tx) = Inputs(tx)
    BY DEF Sound, CandidatesSound, IsAllOutPointsReady
  <1>2. SUFFICES ASSUME NEW o \in Inputs(tx), LockedByAnother(s, o, tx)
                 PROVE  FALSE
    BY <1>1
  <1> DEFINE u == s.mapLockedOutpoints[o]
  <1>3. /\ u \in Candidates(s) /\ u # tx /\ o \in DOMAIN Locks(s, u)
        /\ Cardinality(LockVotes(s, u, o)) >= SIGNATURES_REQUIRED
    BY <1>2 DEF Sound, Whole, LocksHaveQuorums, LockedByAnother
  <1>4. /\ Cardinality(LockVotes(s, tx, o)) >= SIGNATURES_REQUIRED
        /\ ~Locks(s, tx)[o].fAttacked
    BY <1>1, <1>2 DEF IsAllOutPointsReady, IsReady, LockVotes
  <1>5. /\ LockVotes(s, tx, o) \subseteq TopRanked[Masternodes][o]
        /\ LockVotes(s, u, o) \subseteq TopRanked[Masternodes][o]
    BY <1>1, <1>2, <1>3 DEF Sound, VotesRecorded
  <1>6. o \in Outpoints
    BY <1>2, InputsAreOutpoints DEF Sound, IsInstantSend
  <1>7. LockVotes(s, tx, o) \cap LockVotes(s, u, o) # {}
    BY <1>3, <1>4, <1>5, <1>6, QuorumsIntersect
  <1> QED
    BY <1>1, <1>2, <1>3, <1>4, <1>7 DEF Sound, DoubleVotesMarked

--------------------------------------------------------------------------------
(* What no method does: clear the mark of an attacked outpoint, or give a lock  *)
(* to a candidate with such an outpoint.                                        *)
Spares(s, r) ==
    /\ \A tx \in Candidates(s) : Attacked(s, tx) => Attacked(r, tx)
    /\ \A o \in DOMAIN r.mapLockedOutpoints :
          \/ LockedBy(s, o, r.mapLockedOutpoints[o])
          \/ ~Attacked(s, r.mapLockedOutpoints[o])

(* What no method does: take a completed lock or a counted vote away.           *)
Grows(s, r) ==
    /\ Spares(s, r)
    /\ \A o \in DOMAIN s.mapLockedOutpoints : LockedBy(r, o, s.mapLockedOutpoints[o])
    /\ \A tx \in Txs, o \in Outpoints, mn \in Masternodes :
          HasMasternodeVoted(s, tx, o, mn) => HasMasternodeVoted(r, tx, o, mn)

(* Growing is transitive, for the sequences of methods that a handler calls.    *)
LEMMA GrowsTransitive ==
    ASSUME NEW s, NEW r, NEW q, Grows(s, r), Grows(r, q)
    PROVE  Grows(s, q)
  <1>1. Spares(s, q)
    <2>1. \A tx : Attacked(s, tx) => tx \in Candidates(s) /\ Attacked(r, tx)
      BY ZenonT(30) DEF Grows, Spares, Attacked
    <2>2. \A tx : Attacked(r, tx) => Attacked(q, tx)
      BY ZenonT(30) DEF Grows, Spares, Attacked
    <2>3. ASSUME NEW o \in DOMAIN q.mapLockedOutpoints, Attacked(s, q.mapLockedOutpoints[o])
          PROVE  LockedBy(s, o, q.mapLockedOutpoints[o])
      <3>1. LockedBy(r, o, q.mapLockedOutpoints[o])
        BY ZenonT(30), <2>1, <2>3 DEF Grows, Spares
      <3> QED
        BY ZenonT(30), <2>3, <3>1 DEF Grows, Spares, LockedBy
    <2> QED
      BY ZenonT(30), <2>1, <2>2, <2>3 DEF Spares
  <1> QED
    BY <1>1 DEF Grows, LockedBy

(* Marks and locks that stay as they are, or marks that are only added.         *)
LEMMA SparesSame ==
    ASSUME NEW s, NEW r, r.mapLockedOutpoints = s.mapLockedOutpoints,
           \A t \in Candidates(s) :
               /\ t \in Candidates(r)
               /\ \A o \in DOMAIN Locks(s, t) :
                     o \in DOMAIN Locks(r, t) /\ (Locks(s, t)[o].fAttacked => Locks(r, t)[o].fAttacked)
    PROVE  Spares(s, r)
  BY ZenonT(30) DEF Spares, Attacked, LockedBy

(* A sound state without a change; the stuttering case of the methods.          *)
LEMMA GrowsReflexive == ASSUME NEW s PROVE Grows(s, s)
  <1>1. Spares(s, s)
    BY SparesSame
  <1> QED
    BY <1>1 DEF Grows, LockedBy

(* The part of Sound that is about candidates and locks only.                   *)
LEMMA SameCandidatesSound ==
    ASSUME NEW s, Sound(s), NEW r,
           r.mapTxLockCandidates = s.mapTxLockCandidates,
           r.mapVotedOutpoints = s.mapVotedOutpoints,
           r.mapLockedOutpoints = s.mapLockedOutpoints
    PROVE  /\ CandidatesSound(r) /\ VotesRecorded(r) /\ DoubleVotesMarked(r)
           /\ VotedKnown(r) /\ Whole(r) /\ LocksHaveQuorums(r)
           /\ Grows(s, r)
  <1>1. /\ CandidatesSound(r) /\ VotesRecorded(r) /\ DoubleVotesMarked(r)
        /\ VotedKnown(r) /\ Whole(r) /\ LocksHaveQuorums(r)
    BY DEF Sound, CandidatesSound, VotesRecorded, DoubleVotesMarked, VotedKnown, Whole,
           LocksHaveQuorums, Candidates, Locks, LockVotes, VotedFor, HasEmptyCandidate, LockedBy
  <1>2. Grows(s, r)
    <2>1. Spares(s, r)
      BY SparesSame DEF Candidates, Locks
    <2> QED
      BY <2>1 DEF Grows, LockedBy, HasMasternodeVoted, Candidates, Locks
  <1> QED
    BY SMTT(30), <1>1, <1>2

(* TryToFinalizeLockCandidate either changes nothing or locks all inputs.       *)
LEMMA FinalizeCases ==
    ASSUME NEW s, Sound(s), NEW tx \in Candidates(s), NEW pool
    PROVE  \/ TryToFinalizeLockCandidate(s, tx, pool) = s
           \/ /\ TryToFinalizeLockCandidate(s, tx, pool) = LockTransactionInputs(s, tx)
              /\ IsAllOutPointsReady(s, tx)
              /\ Conflicts(s, tx, pool) = {}
  <1>1. CASE ~IsAllOutPointsReady(s, tx)
    BY <1>1 DEF TryToFinalizeLockCandidate
  <1>2. CASE IsAllOutPointsReady(s, tx)
    <2>1. \A i \in DOMAIN vin[tx] : ~LockedByAnother(s, vin[tx][i], tx)
      BY ZenonT(30), <1>2, ReadyIsUnrivalled DEF Inputs
    <2>2. CompletedRivals(s, tx, pool) = {}
      BY <2>1 DEF CompletedRivals, FirstConflict, Conflicts
    <2> QED
      BY <1>2, <2>2 DEF TryToFinalizeLockCandidate
  <1> QED
    BY <1>1, <1>2

(* Locking the inputs of a ready candidate keeps everything that was sound.     *)
LEMMA LockInputsSound ==
    ASSUME NEW s, Sound(s), NEW tx \in Candidates(s), IsAllOutPointsReady(s, tx)
    PROVE  LET r == LockTransactionInputs(s, tx)
           IN  Sound(r) /\ Grows(s, r)
  <1> DEFINE r == LockTransactionInputs(s, tx)
             L == s.mapLockedOutpoints
             M == r.mapLockedOutpoints
  <1>1. /\ DOMAIN Locks(s, tx) = Inputs(tx)
        /\ \A o \in Inputs(tx) : ~LockedByAnother(s, o, tx)
        /\ tx \in Txs
        /\ Inputs(tx) \subseteq Outpoints
    BY ZenonT(30), ReadyIsUnrivalled, InputsAreOutpoints DEF Sound, IsInstantSend
  <1>2. /\ HasFields(r)
        /\ M = [o \in DOMAIN L \cup Inputs(tx) |-> IF o \in DOMAIN L THEN L[o] ELSE tx]
        /\ r.nCachedBlockHeight = s.nCachedBlockHeight
        /\ r.mapLockRequestAccepted = s.mapLockRequestAccepted
        /\ r.mapLockRequestRejected = s.mapLockRequestRejected
        /\ r.mapTxLockVotes = s.mapTxLockVotes
        /\ r.mapTxLockVotesOrphan = s.mapTxLockVotesOrphan
        /\ r.mapTxLockCandidates = s.mapTxLockCandidates
        /\ r.mapVotedOutpoints = s.mapVotedOutpoints
    BY <1>1 DEF LockTransactionInputs, Sound, IsInstantSend, HasFields
  <1>3. DOMAIN M = DOMAIN L \cup Inputs(tx) /\ \A o \in DOMAIN M : M[o] = IF o \in Inputs(tx) THEN tx ELSE L[o]
    BY <1>1, <1>2 DEF LockedByAnother
  <1>4. IsInstantSend(r)
    BY SMTT(30), <1>1, <1>2, <1>3 DEF Sound, IsInstantSend, IsMap, Candidates
  <1>5. /\ CandidatesSound(r) /\ Unconfirmed(r) /\ VotesRecorded(r) /\ DoubleVotesMarked(r)
        /\ VotedKnown(r) /\ OrphansTracked(r)
    BY <1>2 DEF Sound, CandidatesSound, Unconfirmed, VotesRecorded, DoubleVotesMarked,
                VotedKnown, OrphansTracked, Candidates, Locks, LockVotes, VotedFor,
                HasEmptyCandidate
  <1>6. Whole(r)
    BY SMTT(30), <1>1, <1>2, <1>3 DEF Sound, Whole, Candidates, Locks, LockedBy, LockedByAnother
  <1>7. LocksHaveQuorums(r)
    BY <1>1, <1>2, <1>3 DEF Sound, LocksHaveQuorums, LockVotes, Locks, IsAllOutPointsReady, IsReady
  <1>8. ~Attacked(s, tx)
    BY ZenonT(30) DEF Attacked, IsAllOutPointsReady, IsReady
  <1>9. Spares(s, r)
    BY Zenon, <1>1, <1>2, <1>3, <1>8 DEF Spares, Attacked, LockedBy, Candidates, Locks
  <1>10. Grows(s, r)
    BY <1>1, <1>2, <1>3, <1>9 DEF Grows, LockedBy, HasMasternodeVoted, Candidates, Locks, LockedByAnother
  <1> QED
    BY <1>4, <1>5, <1>6, <1>7, <1>10 DEF Sound

(* TryToFinalizeLockCandidate keeps a sound state sound, takes nothing away, and*)
(* locks no outpoint that another transaction of the mempool spends.            *)
LEMMA FinalizeSound ==
    ASSUME NEW s, Sound(s), NEW tx \in Candidates(s), NEW pool, RespectsLocks(s, pool)
    PROVE  LET r == TryToFinalizeLockCandidate(s, tx, pool)
           IN  /\ Sound(r)
               /\ Grows(s, r)
               /\ RespectsLocks(r, pool)
  <1> DEFINE r == TryToFinalizeLockCandidate(s, tx, pool)
  <1>1. CASE r = s
    BY <1>1, GrowsReflexive
  <1>2. CASE r = LockTransactionInputs(s, tx) /\ IsAllOutPointsReady(s, tx) /\ Conflicts(s, tx, pool) = {}
    <2>1. Sound(r) /\ Grows(s, r)
      BY <1>2, LockInputsSound
    <2>2. ASSUME NEW t \in pool, NEW o \in Inputs(t), LockedByAnother(r, o, t)
          PROVE  FALSE
      <3>1. DOMAIN Locks(s, tx) = Inputs(tx)
        BY <1>2, ReadyIsUnrivalled
      <3>2. r.mapLockedOutpoints =
              [i \in DOMAIN s.mapLockedOutpoints \cup Inputs(tx) |->
                  IF i \in DOMAIN s.mapLockedOutpoints THEN s.mapLockedOutpoints[i] ELSE tx]
        BY <1>2, <3>1 DEF LockTransactionInputs, Sound, IsInstantSend, HasFields
      <3>3. ~LockedByAnother(s, o, t)
        BY <2>2 DEF RespectsLocks
      <3>4. o \in Inputs(tx) /\ t # tx
        BY <2>2, <3>2, <3>3 DEF LockedByAnother
      <3>5. PICK i \in DOMAIN vin[tx] : o = vin[tx][i]
        BY <3>4 DEF Inputs
      <3>6. i \in Conflicts(s, tx, pool)
        BY <2>2, <3>4, <3>5 DEF Conflicts, Spenders
      <3> QED
        BY <1>2, <3>6
    <2> QED
      BY <2>1, <2>2 DEF RespectsLocks
  <1> QED
    BY <1>1, <1>2, FinalizeCases

(* A candidate without votes may be put in place of none or of an empty one.    *)
LEMMA PutCandidateSound ==
    ASSUME NEW s, Sound(s), NEW tx \in Txs, NEW c, IsCandidate(c),
           tx \in Candidates(s) => HasEmptyCandidate(s, tx),
           DOMAIN c.mapOutPointLocks \in {{}, Inputs(tx)},
           c.txLockRequest = "known" \/ DOMAIN c.mapOutPointLocks = {},
           \A o \in DOMAIN c.mapOutPointLocks : c.mapOutPointLocks[o].mapMasternodeVotes = {},
           c.nConfirmedHeight = -1
    PROVE  LET r == PutCandidate(s, tx, c)
           IN  /\ Sound(r)
               /\ Grows(s, r)
               /\ tx \in Candidates(r)
               /\ r.mapLockedOutpoints = s.mapLockedOutpoints
               /\ r.mapTxLockVotes = s.mapTxLockVotes
               /\ r.mapTxLockVotesOrphan = s.mapTxLockVotesOrphan
  <1> DEFINE r == PutCandidate(s, tx, c)
             C == s.mapTxLockCandidates
             D == r.mapTxLockCandidates
  <1>1. /\ HasFields(r)
        /\ D = Put(C, tx, c)
        /\ r.nCachedBlockHeight = s.nCachedBlockHeight
        /\ r.mapLockRequestAccepted = s.mapLockRequestAccepted
        /\ r.mapLockRequestRejected = s.mapLockRequestRejected
        /\ r.mapTxLockVotes = s.mapTxLockVotes
        /\ r.mapTxLockVotesOrphan = s.mapTxLockVotesOrphan
        /\ r.mapVotedOutpoints = s.mapVotedOutpoints
        /\ r.mapLockedOutpoints = s.mapLockedOutpoints
    BY DEF PutCandidate, Sound, IsInstantSend, HasFields
  <1>2. /\ DOMAIN D = Candidates(s) \cup {tx}
        /\ D = [t \in Candidates(s) \cup {tx} |-> IF t = tx THEN c ELSE C[t]]
    BY <1>1 DEF Put, Candidates
  <1>3. /\ Candidates(r) = Candidates(s) \cup {tx}
        /\ Locks(r, tx) = c.mapOutPointLocks
        /\ \A t \in Candidates(s) : t # tx => Locks(r, t) = Locks(s, t) /\ D[t] = C[t]
        /\ D[tx] = c
    BY SMTT(30), <1>2 DEF Candidates, Locks
  <1>4. IsInstantSend(r)
    BY <1>1, <1>2, <1>3 DEF Sound, IsInstantSend, Candidates
  <1>5. tx \in Candidates(s) => DOMAIN Locks(s, tx) = {}
    BY DEF Sound, CandidatesSound
  <1>6. CandidatesSound(r) /\ Unconfirmed(r) /\ VotedKnown(r) /\ OrphansTracked(r)
    BY ZenonT(30), <1>1, <1>3 DEF Sound, CandidatesSound, Unconfirmed, VotedKnown, OrphansTracked, HasEmptyCandidate
  <1>7. VotesRecorded(r)
    BY <1>1, <1>3 DEF Sound, VotesRecorded, LockVotes, VotedFor
  <1>8. DoubleVotesMarked(r)
    BY <1>1, <1>3 DEF Sound, DoubleVotesMarked, LockVotes
  <1>9. \A o \in DOMAIN s.mapLockedOutpoints : s.mapLockedOutpoints[o] # tx
    BY SMTT(30), <1>5 DEF Sound, Whole
  <1>10. Whole(r)
    BY SMTT(30), <1>1, <1>3, <1>9 DEF Sound, Whole, LockedBy
  <1>11. LocksHaveQuorums(r)
    BY <1>1, <1>3, <1>9 DEF Sound, LocksHaveQuorums, LockVotes, Whole
  <1>12. Grows(s, r)
    <2>1. Spares(s, r)
      <3> HIDE DEF r
      <3>1. ASSUME NEW t \in Candidates(s)
            PROVE  /\ t \in Candidates(r)
                   /\ \A o \in DOMAIN Locks(s, t) :
                         /\ o \in DOMAIN Locks(r, t)
                         /\ Locks(s, t)[o].fAttacked => Locks(r, t)[o].fAttacked
        <4>1. CASE t = tx
          BY ZenonT(30), <1>3, <1>5, <4>1
        <4>2. CASE t # tx
          BY ZenonT(30), <1>3, <4>2
        <4> QED
          BY <4>1, <4>2
      <3> QED
        BY ZenonT(30), <1>1, <3>1, SparesSame
    <2> QED
      BY <1>1, <1>3, <1>5, <2>1 DEF Grows, LockedBy, HasMasternodeVoted
  <1> QED
    BY <1>1, <1>3, <1>4, <1>6, <1>7, <1>8, <1>10, <1>11, <1>12 DEF Sound

(* Storing a candidate as it is created, over none or an empty one.              *)
LEMMA PutNewSound ==
    ASSUME NEW s, Sound(s), NEW tx \in Txs, NEW q \in {"null", "known"},
           NEW S, S = {} \/ (S = Inputs(tx) /\ q = "known"), NEW age \in Age,
           tx \in Candidates(s) => HasEmptyCandidate(s, tx)
    PROVE  LET r == PutCandidate(s, tx, Candidate(q, S, -1, age))
           IN  /\ Sound(r)
               /\ Grows(s, r)
               /\ tx \in Candidates(r)
               /\ r.mapLockedOutpoints = s.mapLockedOutpoints
               /\ r.mapTxLockVotes = s.mapTxLockVotes
               /\ r.mapTxLockVotesOrphan = s.mapTxLockVotesOrphan
  <1> DEFINE c == Candidate(q, S, -1, age)
  <1>1. S \subseteq Outpoints
    BY InputsAreOutpoints
  <1>2. /\ IsCandidate(c) /\ c.txLockRequest = q /\ DOMAIN c.mapOutPointLocks = S
        /\ \A o \in S : c.mapOutPointLocks[o].mapMasternodeVotes = {}
        /\ c.nConfirmedHeight = -1
    <2> DEFINE E == [mapMasternodeVotes |-> {}, fAttacked |-> FALSE]
    <2>1. E \in COutPointLock
      BY DEF COutPointLock
    <2> QED
      BY <1>1, <2>1 DEF IsCandidate, IsMap, Candidate, ConfirmedHeight
  <1> HIDE DEF c
  <1>3. c.txLockRequest = "known" \/ DOMAIN c.mapOutPointLocks = {}
    BY <1>2
  <1>4. DOMAIN c.mapOutPointLocks \in {{}, Inputs(tx)}
    BY <1>2
  <1>5. \A o \in DOMAIN c.mapOutPointLocks : c.mapOutPointLocks[o].mapMasternodeVotes = {}
    BY <1>2
  <1>6. LET r == PutCandidate(s, tx, c)
        IN  /\ Sound(r)
            /\ Grows(s, r)
            /\ tx \in Candidates(r)
            /\ r.mapLockedOutpoints = s.mapLockedOutpoints
            /\ r.mapTxLockVotes = s.mapTxLockVotes
            /\ r.mapTxLockVotesOrphan = s.mapTxLockVotesOrphan
    BY ZenonT(30), <1>2, <1>3, <1>4, <1>5, PutCandidateSound
  <1> QED
    BY <1>6 DEF c

(* CreateTxLockCandidate leaves a candidate behind when it succeeds.            *)
LEMMA CreateSound ==
    ASSUME NEW s, Sound(s), NEW tx \in Txs
    PROVE  LET r == CreateTxLockCandidate(s, tx)
           IN  /\ Sound(r)
               /\ Grows(s, r)
               /\ CreateSucceeds(s, tx) => tx \in Candidates(r)
               /\ r.mapLockedOutpoints = s.mapLockedOutpoints
  <1> DEFINE r == CreateTxLockCandidate(s, tx)
             new == RequestIsValid(tx) /\ tx \notin Candidates(s)
             update == RequestIsValid(tx) /\ HasEmptyCandidate(s, tx)
  <1>1. CASE new
    <2>1. r = PutCandidate(s, tx, Candidate("known", Inputs(tx), -1, 0)) /\ 0 \in Age
      BY <1>1, ParameterAssumption DEF CreateTxLockCandidate, NewCandidate, Age
    <2> QED
      BY <1>1, <2>1, PutNewSound
  <1>2. CASE update
    <2> DEFINE S == IF IsTimedOut(s.mapTxLockCandidates[tx]) THEN {} ELSE Inputs(tx)
               age == s.mapTxLockCandidates[tx].age
    <2>1. /\ r = PutCandidate(s, tx, Candidate("known", S,
                                   s.mapTxLockCandidates[tx].nConfirmedHeight, age))
          /\ tx \in Candidates(s)
      BY <1>2 DEF CreateTxLockCandidate, HasEmptyCandidate
    <2>2. /\ s.mapTxLockCandidates[tx].nConfirmedHeight = -1
          /\ age \in Age
          /\ S = {} \/ S = Inputs(tx)
      BY ZenonT(30), <2>1 DEF Sound, IsInstantSend, CandidatesSound, IsCandidate
    <2> HIDE DEF S, age
    <2>3. r = PutCandidate(s, tx, Candidate("known", S, -1, age))
      BY <2>1, <2>2
    <2> QED
      BY <1>2, <2>1, <2>2, <2>3, PutNewSound
  <1>3. CASE ~new /\ ~update
    <2>1. r = s
      BY <1>3 DEF CreateTxLockCandidate
    <2> QED
      BY <1>3, <2>1, GrowsReflexive DEF CreateSucceeds
  <1> QED
    BY <1>1, <1>2, <1>3

(* ProcessTxLockRequest as a whole.                                             *)
LEMMA ProcessRequestSound ==
    ASSUME NEW s, Sound(s), NEW tx \in Txs, NEW pool, RespectsLocks(s, pool)
    PROVE  LET r == ProcessTxLockRequest(s, tx, pool)
           IN  Sound(r) /\ Grows(s, r) /\ RespectsLocks(r, pool)
  <1> DEFINE q == CreateTxLockCandidate(s, tx)
  <1>1. Sound(q) /\ Grows(s, q) /\ (CreateSucceeds(s, tx) => tx \in Candidates(q))
    BY CreateSound
  <1>2. RespectsLocks(q, pool)
    BY CreateSound DEF RespectsLocks, LockedByAnother
  <1> HIDE DEF q
  <1>3. CASE CreateSucceeds(s, tx)
    BY <1>1, <1>2, <1>3, FinalizeSound, GrowsTransitive DEF ProcessTxLockRequest, q
  <1>4. CASE ~CreateSucceeds(s, tx)
    BY <1>1, <1>2, <1>4 DEF ProcessTxLockRequest, q
  <1> QED
    BY <1>3, <1>4

(* Nothing is confirmed, so CheckAndRemove only drops timed out orphan votes and*)
(* the votes of failed locks.                                                   *)
LEMMA CheckAndRemoveSound ==
    ASSUME NEW s, Sound(s)
    PROVE  LET r == CheckAndRemove(s)
           IN  /\ Sound(r)
               /\ Grows(s, r)
               /\ r.mapLockedOutpoints = s.mapLockedOutpoints
  <1> DEFINE r == CheckAndRemove(s)
  <1>1. CASE ~listSynced
    BY <1>1, GrowsReflexive DEF CheckAndRemove
  <1>2. CASE listSynced
    <2> DEFINE expired == {tx \in Candidates(s) : IsExpired(s, s.mapTxLockCandidates[tx])}
               orphans == {v \in DOMAIN s.mapTxLockVotesOrphan :
                               IsTimedOut(s.mapTxLockVotesOrphan[v])}
               old == {v \in DOMAIN s.mapTxLockVotes : IsExpired(s, s.mapTxLockVotes[v])}
               requests == {tx \in expired : s.mapTxLockCandidates[tx].txLockRequest = "known"}
               outpoints == UNION {DOMAIN Locks(s, tx) : tx \in expired}
               s1 == [nCachedBlockHeight |-> s.nCachedBlockHeight,
                      mapLockRequestAccepted |-> s.mapLockRequestAccepted \ requests,
                      mapLockRequestRejected |-> s.mapLockRequestRejected \ requests,
                      mapTxLockVotes |-> Erase(s.mapTxLockVotes, old \cup orphans),
                      mapTxLockVotesOrphan |-> Erase(s.mapTxLockVotesOrphan, orphans),
                      mapTxLockCandidates |-> Erase(s.mapTxLockCandidates, expired),
                      mapVotedOutpoints |-> Erase(s.mapVotedOutpoints, outpoints),
                      mapLockedOutpoints |-> Erase(s.mapLockedOutpoints, outpoints)]
               failed == {v \in DOMAIN s1.mapTxLockVotes : IsFailed(s1, v)}
    <2>1. r = [s1 EXCEPT !.mapTxLockVotes = Erase(@, failed)]
      BY <1>2 DEF CheckAndRemove
    <2>2. expired = {} /\ old = {}
      BY DEF Sound, CandidatesSound, Unconfirmed, IsExpired
    <2>3. outpoints = {} /\ requests = {}
      BY <2>2
    <2>4. /\ HasFields(r)
          /\ r.nCachedBlockHeight = s.nCachedBlockHeight
          /\ r.mapLockRequestAccepted = s.mapLockRequestAccepted \ requests
          /\ r.mapLockRequestRejected = s.mapLockRequestRejected \ requests
          /\ r.mapTxLockVotes = Erase(Erase(s.mapTxLockVotes, old \cup orphans), failed)
          /\ r.mapTxLockVotesOrphan = Erase(s.mapTxLockVotesOrphan, orphans)
          /\ r.mapTxLockCandidates = Erase(s.mapTxLockCandidates, expired)
          /\ r.mapVotedOutpoints = Erase(s.mapVotedOutpoints, outpoints)
          /\ r.mapLockedOutpoints = Erase(s.mapLockedOutpoints, outpoints)
      <3> HIDE DEF expired, orphans, old, requests, outpoints, failed
      <3> QED
        BY <2>1 DEF HasFields
    <2>5. /\ r.mapLockRequestAccepted = s.mapLockRequestAccepted
          /\ r.mapLockRequestRejected = s.mapLockRequestRejected
          /\ r.mapTxLockCandidates = s.mapTxLockCandidates
          /\ r.mapVotedOutpoints = s.mapVotedOutpoints
          /\ r.mapLockedOutpoints = s.mapLockedOutpoints
      <3> HIDE DEF expired, orphans, old, requests, outpoints, failed
      <3> QED
        BY SMTT(30), <2>2, <2>3, <2>4 DEF Erase, Sound, IsInstantSend, IsMap, Candidates
    <2>6. /\ s1.mapTxLockVotes = Erase(s.mapTxLockVotes, orphans)
          /\ DOMAIN s1.mapTxLockVotes = DOMAIN s.mapTxLockVotes \ orphans
          /\ \A v \in DOMAIN s1.mapTxLockVotes : s1.mapTxLockVotes[v] = s.mapTxLockVotes[v]
      BY ZenonT(30), <2>2 DEF Erase
    <2>7. /\ r.mapTxLockVotes = [v \in (DOMAIN s.mapTxLockVotes \ orphans) \ failed |-> s.mapTxLockVotes[v]]
          /\ r.mapTxLockVotesOrphan =
                 [v \in DOMAIN s.mapTxLockVotesOrphan \ orphans |-> s.mapTxLockVotesOrphan[v]]
      <3> HIDE DEF expired, orphans, old, requests, outpoints, failed
      <3> QED
        BY ZenonT(30), <2>2, <2>4 DEF Erase
    <2>8. \A v \in failed : v \in DOMAIN s.mapTxLockVotes /\ s.mapTxLockVotes[v].age > FAILED_TIMEOUT
      BY ZenonT(30), <2>6 DEF IsFailed
    <2>9. IsInstantSend(r)
      <3> HIDE DEF expired, orphans, old, requests, outpoints, failed, s1, r
      <3>1. IsMap(r.mapTxLockVotes, Vote, CTxLockVote)
        BY <2>7 DEF Sound, IsInstantSend, IsMap
      <3>2. IsMap(r.mapTxLockVotesOrphan, Vote, CTxLockVote)
        BY <2>7 DEF Sound, IsInstantSend, IsMap
      <3> QED
        BY ZenonT(30), <2>4, <2>5, <3>1, <3>2 DEF Sound, IsInstantSend, Candidates
    <2>10. OrphansTracked(r)
      <3>1. \A v \in DOMAIN r.mapTxLockVotesOrphan :
              /\ v \in DOMAIN s.mapTxLockVotesOrphan
              /\ r.mapTxLockVotesOrphan[v] = s.mapTxLockVotesOrphan[v]
              /\ ~IsTimedOut(s.mapTxLockVotesOrphan[v])
              /\ v \notin orphans
        BY ZenonT(30), <2>7
      <3> HIDE DEF expired, orphans, old, requests, outpoints, failed, s1, r
      <3>2. \A v \in DOMAIN r.mapTxLockVotesOrphan :
              /\ v \in DOMAIN s.mapTxLockVotes
              /\ s.mapTxLockVotes[v].age <= s.mapTxLockVotesOrphan[v].age
              /\ s.mapTxLockVotesOrphan[v].age <= LOCK_TIMEOUT
              /\ s.mapTxLockVotesOrphan[v].age \in Int
              /\ s.mapTxLockVotes[v].age \in Int
        BY SMTT(30), <3>1, ParameterAssumption
           DEF Sound, OrphansTracked, IsTimedOut, IsInstantSend, IsMap, CTxLockVote, Age
      <3>3. LOCK_TIMEOUT \in Int /\ FAILED_TIMEOUT \in Int /\ LOCK_TIMEOUT < FAILED_TIMEOUT
        BY ParameterAssumption
      <3>4. ASSUME NEW v \in DOMAIN r.mapTxLockVotesOrphan
            PROVE  v \notin failed
        <4> DEFINE x == s.mapTxLockVotes[v].age
        <4>1. x \in Int /\ x <= LOCK_TIMEOUT
          BY <3>2, <3>3
        <4>2. v \in failed => x > FAILED_TIMEOUT
          BY <2>8
        <4> HIDE DEF x
        <4> QED
          BY <3>3, <4>1, <4>2
      <3> QED
        BY <2>7, <3>1, <3>2, <3>4 DEF OrphansTracked
    <2> HIDE DEF expired, orphans, old, requests, outpoints, failed, s1, r
    <2>11. Unconfirmed(r)
      BY <2>7 DEF Sound, Unconfirmed
    <2> QED
      BY <2>5, <2>9, <2>10, <2>11, SameCandidatesSound DEF Sound, r
  <1> QED
    BY <1>1, <1>2

(* Recording that votes were cast for some outpoints of tx.                     *)
LEMMA MarkVotedSound ==
    ASSUME NEW s, Sound(s), NEW tx \in Candidates(s), NEW S \in SUBSET Outpoints
    PROVE  LET r == MarkVoted(s, S, tx)
           IN  /\ Sound(r)
               /\ r.mapTxLockCandidates = s.mapTxLockCandidates
               /\ r.mapLockedOutpoints = s.mapLockedOutpoints
               /\ r.mapTxLockVotes = s.mapTxLockVotes
               /\ r.mapTxLockVotesOrphan = s.mapTxLockVotesOrphan
               /\ \A o \in S : tx \in VotedFor(r, o)
  <1> DEFINE r == MarkVoted(s, S, tx)
             W == s.mapVotedOutpoints
  <1>1. /\ HasFields(r)
        /\ r.mapVotedOutpoints =
               [o \in DOMAIN W \cup S |-> IF o \in S THEN VotedFor(s, o) \cup {tx} ELSE W[o]]
        /\ r.nCachedBlockHeight = s.nCachedBlockHeight
        /\ r.mapLockRequestAccepted = s.mapLockRequestAccepted
        /\ r.mapLockRequestRejected = s.mapLockRequestRejected
        /\ r.mapTxLockCandidates = s.mapTxLockCandidates
        /\ r.mapTxLockVotes = s.mapTxLockVotes
        /\ r.mapTxLockVotesOrphan = s.mapTxLockVotesOrphan
        /\ r.mapLockedOutpoints = s.mapLockedOutpoints
    <2> DEFINE F == [o \in DOMAIN W \cup S |->
                        IF o \in S THEN VotedFor(s, o) \cup {tx} ELSE W[o]]
    <2>1. r = [s EXCEPT !.mapVotedOutpoints = F]
      BY DEF MarkVoted
    <2> HIDE DEF F, r
    <2>2. /\ HasFields(r)
          /\ r.mapVotedOutpoints = F
          /\ r.nCachedBlockHeight = s.nCachedBlockHeight
          /\ r.mapLockRequestAccepted = s.mapLockRequestAccepted
          /\ r.mapLockRequestRejected = s.mapLockRequestRejected
          /\ r.mapTxLockCandidates = s.mapTxLockCandidates
          /\ r.mapTxLockVotes = s.mapTxLockVotes
          /\ r.mapTxLockVotesOrphan = s.mapTxLockVotesOrphan
          /\ r.mapLockedOutpoints = s.mapLockedOutpoints
      BY <2>1 DEF Sound, IsInstantSend, HasFields
    <2> QED
      BY <2>2 DEF F
  <1> HIDE DEF r
  <1>2. Candidates(s) \subseteq Txs /\ \A o \in Outpoints : VotedFor(s, o) \subseteq Candidates(s)
    BY DEF Sound, IsInstantSend, VotedKnown, VotedFor
  <1>3. \A o \in DOMAIN r.mapVotedOutpoints :
            /\ o \in Outpoints
            /\ VotedFor(s, o) \subseteq r.mapVotedOutpoints[o]
            /\ r.mapVotedOutpoints[o] \subseteq Candidates(s)
            /\ o \in S => tx \in r.mapVotedOutpoints[o]
    BY SMTT(30), <1>1, <1>2 DEF Sound, IsInstantSend, IsMap, VotedFor
  <1>4. \A o \in DOMAIN W : o \in DOMAIN r.mapVotedOutpoints
    BY <1>1
  <1>5. IsMap(r.mapVotedOutpoints, Outpoints, SUBSET Txs)
    BY ZenonT(30), <1>1, <1>2, <1>3 DEF IsMap
  <1>6. IsInstantSend(r)
    BY ZenonT(30), <1>1, <1>5 DEF Sound, IsInstantSend, Candidates
  <1>7. VotesRecorded(r) /\ VotedKnown(r)
    <2>1. \A o : VotedFor(s, o) \subseteq VotedFor(r, o)
      BY <1>3, <1>4 DEF VotedFor
    <2>2. Candidates(r) = Candidates(s) /\ \A t : Locks(r, t) = Locks(s, t)
      BY <1>1 DEF Candidates, Locks
    <2>3. VotesRecorded(r)
      BY <2>1, <2>2 DEF Sound, VotesRecorded, LockVotes
    <2>4. VotedKnown(r)
      BY <1>3, <2>2 DEF VotedKnown
    <2> QED
      BY <2>3, <2>4
  <1>8. /\ CandidatesSound(r) /\ Unconfirmed(r) /\ DoubleVotesMarked(r)
        /\ Whole(r) /\ LocksHaveQuorums(r) /\ OrphansTracked(r)
    <2>1. CandidatesSound(r) /\ Unconfirmed(r)
      BY ZenonT(30), <1>1 DEF Sound, CandidatesSound, Unconfirmed, Candidates, Locks,
                              HasEmptyCandidate
    <2>2. DoubleVotesMarked(r)
      BY ZenonT(30), <1>1 DEF Sound, DoubleVotesMarked, Candidates, Locks, LockVotes
    <2>3. Whole(r)
      <3>1. Candidates(r) = Candidates(s) /\ \A t : Locks(r, t) = Locks(s, t)
        BY ZenonT(30), <1>1 DEF Candidates, Locks
      <3>2. \A o, t : LockedBy(s, o, t) => LockedBy(r, o, t)
        BY ZenonT(30), <1>1 DEF LockedBy
      <3>3. /\ Whole(s)
            /\ DOMAIN r.mapLockedOutpoints = DOMAIN s.mapLockedOutpoints
            /\ \A o : r.mapLockedOutpoints[o] = s.mapLockedOutpoints[o]
        BY ZenonT(30), <1>1 DEF Sound
      <3> SUFFICES ASSUME NEW o \in DOMAIN s.mapLockedOutpoints
                   PROVE  /\ s.mapLockedOutpoints[o] \in Candidates(r)
                          /\ o \in DOMAIN Locks(r, s.mapLockedOutpoints[o])
                          /\ \A i \in Inputs(s.mapLockedOutpoints[o]) :
                                LockedBy(r, i, s.mapLockedOutpoints[o])
        BY ZenonT(30), <3>3 DEF Whole
      <3> QED
        BY ZenonT(30), <3>1, <3>2, <3>3 DEF Whole
    <2>4. LocksHaveQuorums(r)
      BY ZenonT(30), <1>1 DEF Sound, LocksHaveQuorums, Candidates, Locks, LockVotes, LockedBy
    <2>5. OrphansTracked(r)
      BY ZenonT(30), <1>1 DEF Sound, OrphansTracked
    <2> QED
      BY <2>1, <2>2, <2>3, <2>4, <2>5
  <1>9. \A o \in S : tx \in VotedFor(r, o)
    BY <1>1, <1>3 DEF VotedFor
  <1> QED
    BY ZenonT(30), <1>1, <1>6, <1>7, <1>8, <1>9 DEF Sound, r

(* Voting for, or attacking, outpoints of a candidate leaves the rest of it.    *)
LEMMA AddVotesType ==
    ASSUME NEW c, IsCandidate(c), NEW S, NEW mn \in Masternodes
    PROVE  LET d == AddVotes(c, S, mn)
           IN  /\ IsCandidate(d)
               /\ d.txLockRequest = c.txLockRequest
               /\ d.nConfirmedHeight = c.nConfirmedHeight
               /\ DOMAIN d.mapOutPointLocks = DOMAIN c.mapOutPointLocks
               /\ \A o \in DOMAIN c.mapOutPointLocks :
                      /\ d.mapOutPointLocks[o].fAttacked = c.mapOutPointLocks[o].fAttacked
                      /\ o \in S => d.mapOutPointLocks[o].mapMasternodeVotes =
                                        c.mapOutPointLocks[o].mapMasternodeVotes \cup {mn}
                      /\ o \notin S => d.mapOutPointLocks[o].mapMasternodeVotes =
                                           c.mapOutPointLocks[o].mapMasternodeVotes
  <1> DEFINE d == AddVotes(c, S, mn)
             L == c.mapOutPointLocks
             W(lock) == [lock EXCEPT !.mapMasternodeVotes = @ \cup {mn}]
             M == [o \in DOMAIN L |-> IF o \in S THEN W(L[o]) ELSE L[o]]
  <1>1. /\ L = [o \in DOMAIN L |-> L[o]]
        /\ DOMAIN L \subseteq Outpoints
        /\ \A o \in DOMAIN L : L[o] \in COutPointLock
    BY DEF IsCandidate, IsMap
  <1>2. \A lock \in COutPointLock : /\ W(lock) \in COutPointLock
                                    /\ W(lock).fAttacked = lock.fAttacked
                                    /\ W(lock).mapMasternodeVotes = lock.mapMasternodeVotes \cup {mn}
    BY DEF COutPointLock
  <1> HIDE DEF W
  <1>3. /\ M \in [DOMAIN L -> COutPointLock]
        /\ DOMAIN M = DOMAIN L
        /\ \A o \in DOMAIN L :
               /\ M[o].fAttacked = L[o].fAttacked
               /\ o \in S => M[o].mapMasternodeVotes = L[o].mapMasternodeVotes \cup {mn}
               /\ o \notin S => M[o].mapMasternodeVotes = L[o].mapMasternodeVotes
    BY <1>1, <1>2
  <1>4. d = [c EXCEPT !.mapOutPointLocks = M]
    BY DEF AddVotes, W
  <1> HIDE DEF M, d
  <1>5. d = [txLockRequest |-> c.txLockRequest, mapOutPointLocks |-> M,
             nConfirmedHeight |-> c.nConfirmedHeight, age |-> c.age]
    BY <1>4 DEF IsCandidate
  <1>6. IsCandidate(d)
    BY <1>1, <1>3, <1>5 DEF IsCandidate, IsMap
  <1> QED
    BY <1>3, <1>5, <1>6 DEF d

(* Marking an outpoint as attacked leaves every candidate well formed.            *)
LEMMA MarkAttackedType ==
    ASSUME NEW c, IsCandidate(c), NEW o
    PROVE  LET d == MarkOutpointAsAttacked(c, o)
           IN  /\ IsCandidate(d)
               /\ d.txLockRequest = c.txLockRequest
               /\ d.nConfirmedHeight = c.nConfirmedHeight
               /\ DOMAIN d.mapOutPointLocks = DOMAIN c.mapOutPointLocks
               /\ \A i \in DOMAIN c.mapOutPointLocks :
                      /\ d.mapOutPointLocks[i].mapMasternodeVotes = c.mapOutPointLocks[i].mapMasternodeVotes
                      /\ c.mapOutPointLocks[i].fAttacked => d.mapOutPointLocks[i].fAttacked
                      /\ i = o => d.mapOutPointLocks[i].fAttacked
  <1> DEFINE d == MarkOutpointAsAttacked(c, o)
             L == c.mapOutPointLocks
             M == [L EXCEPT ![o].fAttacked = TRUE]
  <1>1. /\ L = [i \in DOMAIN L |-> L[i]]
        /\ DOMAIN L \subseteq Outpoints
        /\ \A i \in DOMAIN L : L[i] \in COutPointLock
    BY DEF IsCandidate, IsMap
  <1>2. CASE o \notin DOMAIN L
    BY <1>1, <1>2 DEF MarkOutpointAsAttacked, COutPointLock
  <1>3. CASE o \in DOMAIN L
    <2>1. /\ M \in [DOMAIN L -> COutPointLock]
          /\ DOMAIN M = DOMAIN L
          /\ \A i \in DOMAIN L :
               /\ M[i].mapMasternodeVotes = L[i].mapMasternodeVotes
               /\ L[i].fAttacked => M[i].fAttacked
               /\ i = o => M[i].fAttacked
      BY ZenonT(30), <1>1, <1>3 DEF COutPointLock
    <2>2. d = [c EXCEPT !.mapOutPointLocks = M]
      BY <1>3 DEF MarkOutpointAsAttacked
    <2> HIDE DEF M, d
    <2>3. d = [txLockRequest |-> c.txLockRequest, mapOutPointLocks |-> M,
               nConfirmedHeight |-> c.nConfirmedHeight, age |-> c.age]
      BY <2>2 DEF IsCandidate
    <2>4. IsCandidate(d)
      BY <1>1, <2>1, <2>3 DEF IsCandidate, IsMap
    <2> QED
      BY <2>1, <2>3, <2>4 DEF d
  <1> QED
    BY <1>2, <1>3

(* The same candidates with more votes or more attacks: what remains to be shown*)
(* is that the votes are recorded and the double votes are marked.              *)
LEMMA MoreVotesSound ==
    ASSUME NEW s, Sound(s), NEW r, HasFields(r),
           r.nCachedBlockHeight = s.nCachedBlockHeight,
           r.mapLockRequestAccepted = s.mapLockRequestAccepted,
           r.mapLockRequestRejected = s.mapLockRequestRejected,
           r.mapTxLockVotes = s.mapTxLockVotes,
           r.mapTxLockVotesOrphan = s.mapTxLockVotesOrphan,
           r.mapVotedOutpoints = s.mapVotedOutpoints,
           r.mapLockedOutpoints = s.mapLockedOutpoints,
           r.mapTxLockCandidates = [t \in Candidates(s) |-> r.mapTxLockCandidates[t]],
           \A t \in Candidates(s) :
               /\ IsCandidate(r.mapTxLockCandidates[t])
               /\ r.mapTxLockCandidates[t].txLockRequest = s.mapTxLockCandidates[t].txLockRequest
               /\ r.mapTxLockCandidates[t].nConfirmedHeight = s.mapTxLockCandidates[t].nConfirmedHeight
               /\ DOMAIN Locks(r, t) = DOMAIN Locks(s, t)
               /\ \A o \in DOMAIN Locks(s, t) : LockVotes(s, t, o) \subseteq LockVotes(r, t, o)
               /\ \A o \in DOMAIN Locks(s, t) : Locks(s, t)[o].fAttacked => Locks(r, t)[o].fAttacked,
           VotesRecorded(r),
           DoubleVotesMarked(r)
    PROVE  Sound(r) /\ Grows(s, r) /\ Candidates(r) = Candidates(s)
  <1>1. Candidates(r) = Candidates(s) /\ Candidates(s) \subseteq Txs
    BY ZenonT(30) DEF Candidates, Sound, IsInstantSend
  <1>2. IsInstantSend(r)
    BY <1>1 DEF Sound, IsInstantSend
  <1>3. CandidatesSound(r)
    BY ZenonT(30), <1>1 DEF Sound, CandidatesSound, HasEmptyCandidate
  <1>4. Unconfirmed(r) /\ VotedKnown(r) /\ OrphansTracked(r)
    BY ZenonT(30), <1>1 DEF Sound, Unconfirmed, VotedKnown, OrphansTracked
  <1>5. Whole(r)
    BY SMTT(30), <1>1 DEF Sound, Whole, LockedBy
  <1>6. LocksHaveQuorums(r)
    <2> SUFFICES ASSUME NEW o \in DOMAIN s.mapLockedOutpoints
                 PROVE  Cardinality(LockVotes(r, s.mapLockedOutpoints[o], o)) >= SIGNATURES_REQUIRED
      BY ZenonT(30) DEF LocksHaveQuorums
    <2> DEFINE t == s.mapLockedOutpoints[o]
               P == LockVotes(s, t, o)
               Q == LockVotes(r, t, o)
    <2>1. t \in Candidates(s) /\ o \in DOMAIN Locks(s, t) /\ o \in Outpoints
      BY ZenonT(30) DEF Sound, Whole, IsInstantSend, IsMap
    <2>2. P \subseteq Q /\ Q \subseteq TopRanked[Masternodes][o]
      BY ZenonT(30), <1>1, <2>1 DEF VotesRecorded
    <2>3. IsFiniteSet(TopRanked[Masternodes][o])
      BY ZenonT(30), <2>1, RankAssumption
    <2>4. IsFiniteSet(Q)
      BY ZenonT(30), <2>2, <2>3, FS_Subset
    <2>5. IsFiniteSet(P) /\ Cardinality(P) <= Cardinality(Q)
      BY ZenonT(30), <2>2, <2>4, FS_Subset
    <2>6. Cardinality(P) \in Nat /\ Cardinality(Q) \in Nat
      BY ZenonT(30), <2>4, <2>5, FS_CardinalityType
    <2>7. Cardinality(P) >= SIGNATURES_REQUIRED
      BY ZenonT(30) DEF Sound, LocksHaveQuorums
    <2> QED
      BY SMTT(30), <2>5, <2>6, <2>7, ParameterAssumption
  <1>7. Grows(s, r)
    <2>1. Spares(s, r)
      BY ZenonT(30), <1>1, SparesSame
    <2> QED
      BY ZenonT(30), <1>1, <2>1 DEF Grows, LockedBy, HasMasternodeVoted, LockVotes
  <1> QED
    BY ZenonT(30), <1>1, <1>2, <1>3, <1>4, <1>5, <1>6, <1>7 DEF Sound

(* MarkOutpointAsAttacked on a set of candidates.                               *)
LEMMA MarkAttackedSound ==
    ASSUME NEW s, Sound(s), NEW o, NEW S
    PROVE  LET r == MarkAttacked(s, o, S)
           IN  /\ Sound(r) /\ Grows(s, r)
               /\ Candidates(r) = Candidates(s)
               /\ r.mapTxLockVotes = s.mapTxLockVotes
               /\ r.mapTxLockVotesOrphan = s.mapTxLockVotesOrphan
               /\ r.mapVotedOutpoints = s.mapVotedOutpoints
               /\ r.mapLockedOutpoints = s.mapLockedOutpoints
               /\ \A t \in Candidates(s) :
                     /\ DOMAIN Locks(r, t) = DOMAIN Locks(s, t)
                     /\ \A i \in DOMAIN Locks(s, t) : LockVotes(r, t, i) = LockVotes(s, t, i)
                     /\ t \in S /\ o \in DOMAIN Locks(s, t) => Locks(r, t)[o].fAttacked
  <1> DEFINE r == MarkAttacked(s, o, S)
             C == s.mapTxLockCandidates
             D == [tx \in DOMAIN C |-> IF tx \in S THEN MarkOutpointAsAttacked(C[tx], o) ELSE C[tx]]
  <1>1. r = [s EXCEPT !.mapTxLockCandidates = D]
    BY DEF MarkAttacked
  <1>2. \A t \in Candidates(s) :
            /\ IsCandidate(D[t])
            /\ D[t].txLockRequest = C[t].txLockRequest
            /\ D[t].nConfirmedHeight = C[t].nConfirmedHeight
            /\ DOMAIN D[t].mapOutPointLocks = DOMAIN C[t].mapOutPointLocks
            /\ \A i \in DOMAIN C[t].mapOutPointLocks :
                   /\ D[t].mapOutPointLocks[i].mapMasternodeVotes = C[t].mapOutPointLocks[i].mapMasternodeVotes
                   /\ C[t].mapOutPointLocks[i].fAttacked => D[t].mapOutPointLocks[i].fAttacked
                   /\ t \in S /\ i = o => D[t].mapOutPointLocks[i].fAttacked
    <2> SUFFICES ASSUME NEW t \in Candidates(s)
                 PROVE  /\ IsCandidate(D[t])
                        /\ D[t].txLockRequest = C[t].txLockRequest
                        /\ D[t].nConfirmedHeight = C[t].nConfirmedHeight
                        /\ DOMAIN D[t].mapOutPointLocks = DOMAIN C[t].mapOutPointLocks
                        /\ \A i \in DOMAIN C[t].mapOutPointLocks :
                               /\ D[t].mapOutPointLocks[i].mapMasternodeVotes
                                      = C[t].mapOutPointLocks[i].mapMasternodeVotes
                               /\ C[t].mapOutPointLocks[i].fAttacked => D[t].mapOutPointLocks[i].fAttacked
                               /\ t \in S /\ i = o => D[t].mapOutPointLocks[i].fAttacked
      BY ZenonT(30)
    <2>1. IsCandidate(C[t])
      BY DEF Sound, IsInstantSend
    <2>2. CASE t \in S
      <3>1. D[t] = MarkOutpointAsAttacked(C[t], o)
        BY <2>2 DEF Candidates
      <3> HIDE DEF D, C
      <3> QED
        BY SMTT(30), <2>1, <3>1, MarkAttackedType
    <2>3. CASE t \notin S
      BY ZenonT(30), <2>1, <2>3 DEF Candidates
    <2> QED
      BY ZenonT(30), <2>2, <2>3
  <1>3. D = [t \in Candidates(s) |-> D[t]]
    BY DEF Candidates
  <1> HIDE DEF D, r
  <1>4. /\ HasFields(r)
        /\ r.mapTxLockCandidates = D
        /\ r.nCachedBlockHeight = s.nCachedBlockHeight
        /\ r.mapLockRequestAccepted = s.mapLockRequestAccepted
        /\ r.mapLockRequestRejected = s.mapLockRequestRejected
        /\ r.mapTxLockVotes = s.mapTxLockVotes
        /\ r.mapTxLockVotesOrphan = s.mapTxLockVotesOrphan
        /\ r.mapVotedOutpoints = s.mapVotedOutpoints
        /\ r.mapLockedOutpoints = s.mapLockedOutpoints
    BY <1>1 DEF Sound, IsInstantSend, HasFields
  <1>5. Candidates(r) = Candidates(s)
    BY <1>3, <1>4 DEF Candidates
  <1>6. \A t \in Candidates(s) :
            /\ DOMAIN Locks(r, t) = DOMAIN Locks(s, t)
            /\ \A i \in DOMAIN Locks(s, t) :
                  /\ LockVotes(r, t, i) = LockVotes(s, t, i)
                  /\ Locks(s, t)[i].fAttacked => Locks(r, t)[i].fAttacked
                  /\ t \in S /\ i = o => Locks(r, t)[i].fAttacked
    BY ZenonT(30), <1>2, <1>4 DEF Locks, LockVotes
  <1>7. VotesRecorded(r)
    BY SMTT(30), <1>4, <1>5, <1>6 DEF Sound, VotesRecorded, VotedFor
  <1>8. DoubleVotesMarked(r)
    BY <1>5, <1>6 DEF Sound, DoubleVotesMarked
  <1>9. Sound(r) /\ Grows(s, r)
    BY ZenonT(30), <1>2, <1>3, <1>4, <1>6, <1>7, <1>8, MoreVotesSound
  <1> QED
    BY ZenonT(30), <1>4, <1>5, <1>6, <1>9 DEF r

(* Counting the vote of mn for outpoints of tx is sound when mn may vote on them*)
(* and every rival it voted for is marked.                                      *)
LEMMA CastVotesSound ==
    ASSUME NEW s, Sound(s), NEW tx \in Candidates(s), NEW mn \in Masternodes,
           NEW S \in SUBSET DOMAIN Locks(s, tx),
           \A o \in S : mn \in TopRanked[Masternodes][o] /\ tx \in VotedFor(s, o),
           \A o \in S : \A u \in Candidates(s) :
               u # tx /\ o \in DOMAIN Locks(s, u) /\ mn \in LockVotes(s, u, o)
                   => Locks(s, u)[o].fAttacked /\ Locks(s, tx)[o].fAttacked
    PROVE  LET r == CastVotes(s, tx, S, mn)
           IN  /\ Sound(r) /\ Grows(s, r)
               /\ Candidates(r) = Candidates(s)
               /\ r.mapTxLockVotes = s.mapTxLockVotes
               /\ r.mapTxLockVotesOrphan = s.mapTxLockVotesOrphan
               /\ r.mapLockedOutpoints = s.mapLockedOutpoints
               /\ \A o \in S : HasMasternodeVoted(r, tx, o, mn)
  <1> DEFINE r == CastVotes(s, tx, S, mn)
             C == s.mapTxLockCandidates
             d == AddVotes(C[tx], S, mn)
             D == [t \in Candidates(s) |-> IF t = tx THEN d ELSE C[t]]
  <1>1. r = [s EXCEPT !.mapTxLockCandidates = D]
    <2>1. Put(C, tx, d) = D
      BY ZenonT(30) DEF Put, Candidates
    <2> QED
      BY <2>1 DEF CastVotes, PutCandidate
  <1>2. \A t \in Candidates(s) : IsCandidate(C[t])
    BY DEF Sound, IsInstantSend
  <1>3. /\ IsCandidate(d)
        /\ d.txLockRequest = C[tx].txLockRequest
        /\ d.nConfirmedHeight = C[tx].nConfirmedHeight
        /\ DOMAIN d.mapOutPointLocks = DOMAIN Locks(s, tx)
        /\ \A o \in DOMAIN Locks(s, tx) :
              /\ d.mapOutPointLocks[o].fAttacked = Locks(s, tx)[o].fAttacked
              /\ o \in S => d.mapOutPointLocks[o].mapMasternodeVotes = LockVotes(s, tx, o) \cup {mn}
              /\ o \notin S => d.mapOutPointLocks[o].mapMasternodeVotes = LockVotes(s, tx, o)
    <2>1. /\ IsCandidate(d)
          /\ d.txLockRequest = C[tx].txLockRequest
          /\ d.nConfirmedHeight = C[tx].nConfirmedHeight
          /\ DOMAIN d.mapOutPointLocks = DOMAIN C[tx].mapOutPointLocks
          /\ \A o \in DOMAIN C[tx].mapOutPointLocks :
                /\ d.mapOutPointLocks[o].fAttacked = C[tx].mapOutPointLocks[o].fAttacked
                /\ o \in S => d.mapOutPointLocks[o].mapMasternodeVotes =
                                  C[tx].mapOutPointLocks[o].mapMasternodeVotes \cup {mn}
                /\ o \notin S => d.mapOutPointLocks[o].mapMasternodeVotes =
                                     C[tx].mapOutPointLocks[o].mapMasternodeVotes
      <3>1. IsCandidate(C[tx])
        BY ZenonT(30), <1>2
      <3>2. /\ IsCandidate(d)
            /\ d.txLockRequest = C[tx].txLockRequest
            /\ d.nConfirmedHeight = C[tx].nConfirmedHeight
            /\ DOMAIN d.mapOutPointLocks = DOMAIN C[tx].mapOutPointLocks
        BY SMTT(30), <3>1, AddVotesType
      <3>3. ASSUME NEW o \in DOMAIN C[tx].mapOutPointLocks
            PROVE  d.mapOutPointLocks[o].fAttacked = C[tx].mapOutPointLocks[o].fAttacked
        BY SMTT(30), <3>1, AddVotesType
      <3>4. ASSUME NEW o \in DOMAIN C[tx].mapOutPointLocks, o \in S
            PROVE  d.mapOutPointLocks[o].mapMasternodeVotes =
                       C[tx].mapOutPointLocks[o].mapMasternodeVotes \cup {mn}
        BY SMTT(30), <3>1, <3>4, AddVotesType
      <3>5. ASSUME NEW o \in DOMAIN C[tx].mapOutPointLocks, o \notin S
            PROVE  d.mapOutPointLocks[o].mapMasternodeVotes =
                       C[tx].mapOutPointLocks[o].mapMasternodeVotes
        BY SMTT(30), <3>1, <3>5, AddVotesType
      <3> HIDE DEF d
      <3> QED
        BY ZenonT(30), <3>2, <3>3, <3>4, <3>5
    <2> HIDE DEF d
    <2> QED
      BY ZenonT(30), <2>1 DEF Locks, LockVotes
  <1>4. /\ D[tx] = d /\ \A t \in Candidates(s) : t # tx => D[t] = C[t]
        /\ D = [t \in Candidates(s) |-> D[t]]
    BY ZenonT(30)
  <1> HIDE DEF D, r, d
  <1>5. /\ HasFields(r)
        /\ r.mapTxLockCandidates = D
        /\ r.nCachedBlockHeight = s.nCachedBlockHeight
        /\ r.mapLockRequestAccepted = s.mapLockRequestAccepted
        /\ r.mapLockRequestRejected = s.mapLockRequestRejected
        /\ r.mapTxLockVotes = s.mapTxLockVotes
        /\ r.mapTxLockVotesOrphan = s.mapTxLockVotesOrphan
        /\ r.mapVotedOutpoints = s.mapVotedOutpoints
        /\ r.mapLockedOutpoints = s.mapLockedOutpoints
    BY <1>1 DEF Sound, IsInstantSend, HasFields
  <1>6. Candidates(r) = Candidates(s)
    BY <1>4, <1>5 DEF Candidates
  <1>7. /\ \A t \in Candidates(s) : t # tx => Locks(r, t) = Locks(s, t)
        /\ DOMAIN Locks(r, tx) = DOMAIN Locks(s, tx)
        /\ \A o \in DOMAIN Locks(s, tx) :
              /\ Locks(r, tx)[o].fAttacked = Locks(s, tx)[o].fAttacked
              /\ o \in S => LockVotes(r, tx, o) = LockVotes(s, tx, o) \cup {mn}
              /\ o \notin S => LockVotes(r, tx, o) = LockVotes(s, tx, o)
    BY ZenonT(30), <1>3, <1>4, <1>5 DEF Locks, LockVotes
  <1>8. \A t \in Candidates(s) :
            /\ DOMAIN Locks(r, t) = DOMAIN Locks(s, t)
            /\ \A o \in DOMAIN Locks(s, t) :
                  /\ LockVotes(s, t, o) \subseteq LockVotes(r, t, o)
                  /\ LockVotes(r, t, o) \subseteq LockVotes(s, t, o) \cup {mn}
                  /\ t # tx \/ o \notin S => LockVotes(r, t, o) = LockVotes(s, t, o)
                  /\ Locks(s, t)[o].fAttacked => Locks(r, t)[o].fAttacked
    <2> TAKE t \in Candidates(s)
    <2>1. CASE t = tx
      BY ZenonT(30), <1>7, <2>1
    <2>2. CASE t # tx
      BY ZenonT(30), <1>7, <2>2 DEF LockVotes
    <2> QED
      BY ZenonT(30), <2>1, <2>2
  <1>9. VotesRecorded(r)
    <2> SUFFICES ASSUME NEW t \in Candidates(s), NEW o \in DOMAIN Locks(s, t)
                 PROVE  /\ LockVotes(r, t, o) \subseteq TopRanked[Masternodes][o]
                        /\ LockVotes(r, t, o) # {} => t \in VotedFor(r, o)
      BY ZenonT(30), <1>6, <1>8 DEF VotesRecorded
    <2>1. VotedFor(r, o) = VotedFor(s, o)
      BY ZenonT(30), <1>5 DEF VotedFor
    <2>2. /\ LockVotes(s, t, o) \subseteq TopRanked[Masternodes][o]
          /\ LockVotes(s, t, o) # {} => t \in VotedFor(s, o)
      BY ZenonT(30) DEF Sound, VotesRecorded
    <2>3. CASE t = tx /\ o \in S
      BY ZenonT(30), <1>8, <2>1, <2>2, <2>3
    <2>4. CASE t # tx \/ o \notin S
      BY ZenonT(30), <1>8, <2>1, <2>2, <2>4
    <2> QED
      BY <2>3, <2>4
  <1>10. DoubleVotesMarked(r)
    <2> SUFFICES ASSUME NEW t \in Candidates(s), NEW u \in Candidates(s), t # u,
                        NEW o \in DOMAIN Locks(s, t) \cap DOMAIN Locks(s, u),
                        NEW m \in LockVotes(r, t, o) \cap LockVotes(r, u, o)
                 PROVE  Locks(s, t)[o].fAttacked /\ Locks(s, u)[o].fAttacked
      BY ZenonT(30), <1>6, <1>8 DEF DoubleVotesMarked
    <2>1. CASE m \in LockVotes(s, t, o) /\ m \in LockVotes(s, u, o)
      BY ZenonT(30), <2>1 DEF Sound, DoubleVotesMarked
    <2>2. CASE m \notin LockVotes(s, t, o)
      BY ZenonT(30), <1>8, <2>2
    <2>3. CASE m \notin LockVotes(s, u, o)
      BY ZenonT(30), <1>8, <2>3
    <2> QED
      BY ZenonT(30), <2>1, <2>2, <2>3
  <1>11. Sound(r) /\ Grows(s, r)
    <2>1. \A t \in Candidates(s) :
              /\ IsCandidate(r.mapTxLockCandidates[t])
              /\ r.mapTxLockCandidates[t].txLockRequest = s.mapTxLockCandidates[t].txLockRequest
              /\ r.mapTxLockCandidates[t].nConfirmedHeight = s.mapTxLockCandidates[t].nConfirmedHeight
      BY <1>2, <1>3, <1>4, <1>5
    <2> QED
      BY ZenonT(30), <1>4, <1>5, <1>8, <1>9, <1>10, <2>1, MoreVotesSound
  <1>12. \A o \in S : HasMasternodeVoted(r, tx, o, mn)
    BY ZenonT(30), <1>6, <1>7 DEF HasMasternodeVoted, LockVotes
  <1> QED
    BY ZenonT(30), <1>5, <1>6, <1>11, <1>12 DEF r

(* Votes may be recorded for peers at any time.                                 *)
LEMMA RecordVotesSound ==
    ASSUME NEW s, Sound(s), NEW V \in SUBSET Vote
    PROVE  LET r == RecordVotes(s, V)
           IN  /\ Sound(r) /\ Grows(s, r)
               /\ r.mapLockedOutpoints = s.mapLockedOutpoints
               /\ r.mapTxLockCandidates = s.mapTxLockCandidates
               /\ \A v \in V \ DOMAIN s.mapTxLockVotes :
                     v \in DOMAIN r.mapTxLockVotes /\ r.mapTxLockVotes[v] = NewVote
  <1> DEFINE r == RecordVotes(s, V)
             W == s.mapTxLockVotes
             F == [v \in DOMAIN W \cup V |-> IF v \in DOMAIN W THEN W[v] ELSE NewVote]
  <1>1. r = [s EXCEPT !.mapTxLockVotes = F]
    BY DEF RecordVotes
  <1>2. NewVote \in CTxLockVote /\ NewVote.nConfirmedHeight = -1
    BY ParameterAssumption DEF NewVote, CTxLockVote, Age, ConfirmedHeight
  <1>3. /\ IsMap(F, Vote, CTxLockVote)
        /\ \A v \in DOMAIN F : F[v].nConfirmedHeight = -1
    BY ZenonT(30), <1>2 DEF Sound, IsInstantSend, IsMap, Unconfirmed
  <1>4. /\ \A v \in DOMAIN W : v \in DOMAIN F /\ F[v] = W[v]
        /\ \A v \in V \ DOMAIN W : v \in DOMAIN F /\ F[v] = NewVote
    OBVIOUS
  <1> HIDE DEF F, r
  <1>5. /\ HasFields(r)
        /\ r.mapTxLockVotes = F
        /\ r.nCachedBlockHeight = s.nCachedBlockHeight
        /\ r.mapLockRequestAccepted = s.mapLockRequestAccepted
        /\ r.mapLockRequestRejected = s.mapLockRequestRejected
        /\ r.mapTxLockVotesOrphan = s.mapTxLockVotesOrphan
        /\ r.mapTxLockCandidates = s.mapTxLockCandidates
        /\ r.mapVotedOutpoints = s.mapVotedOutpoints
        /\ r.mapLockedOutpoints = s.mapLockedOutpoints
    BY <1>1 DEF Sound, IsInstantSend, HasFields
  <1>6. IsInstantSend(r)
    BY ZenonT(30), <1>3, <1>5 DEF Sound, IsInstantSend, Candidates
  <1>7. Unconfirmed(r) /\ OrphansTracked(r)
    BY ZenonT(30), <1>3, <1>4, <1>5 DEF Sound, Unconfirmed, OrphansTracked
  <1> QED
    BY <1>4, <1>5, <1>6, <1>7, SameCandidatesSound DEF Sound, r

(* AcceptLockRequest and RejectLockRequest touch nothing else.                  *)
LEMMA AcceptSound ==
    ASSUME NEW s, Sound(s), NEW tx \in Txs,
           NEW r, r = AcceptLockRequest(s, tx) \/ r = RejectLockRequest(s, tx)
    PROVE  /\ Sound(r) /\ Grows(s, r)
           /\ r.mapLockedOutpoints = s.mapLockedOutpoints
           /\ r.mapTxLockCandidates = s.mapTxLockCandidates
           /\ r.mapVotedOutpoints = s.mapVotedOutpoints
  <1>1. /\ HasFields(r)
        /\ r.mapLockRequestAccepted \subseteq s.mapLockRequestAccepted \cup {tx}
        /\ r.mapLockRequestRejected \subseteq s.mapLockRequestRejected \cup {tx}
        /\ r.nCachedBlockHeight = s.nCachedBlockHeight
        /\ r.mapTxLockVotes = s.mapTxLockVotes
        /\ r.mapTxLockVotesOrphan = s.mapTxLockVotesOrphan
        /\ r.mapTxLockCandidates = s.mapTxLockCandidates
        /\ r.mapVotedOutpoints = s.mapVotedOutpoints
        /\ r.mapLockedOutpoints = s.mapLockedOutpoints
    BY DEF AcceptLockRequest, RejectLockRequest, Sound, IsInstantSend, HasFields
  <1>2. IsInstantSend(r)
    BY ZenonT(30), <1>1 DEF Sound, IsInstantSend, Candidates
  <1>3. Unconfirmed(r) /\ OrphansTracked(r)
    BY ZenonT(30), <1>1 DEF Sound, Unconfirmed, OrphansTracked
  <1> QED
    BY ZenonT(30), <1>1, <1>2, <1>3, SameCandidatesSound DEF Sound

(* What the mempool holds only matters through mapLockedOutpoints.              *)
LEMMA RespectsSame ==
    ASSUME NEW s, NEW r, NEW pool, RespectsLocks(s, pool),
           r.mapLockedOutpoints = s.mapLockedOutpoints
    PROVE  RespectsLocks(r, pool)
  BY DEF RespectsLocks, LockedByAnother

(* A masternode's own votes: it may vote on each of the outpoints and has voted *)
(* for none of them before.                                                     *)
LEMMA AddMyVotesSound ==
    ASSUME NEW s, Sound(s), NEW tx \in Candidates(s), mnList = Masternodes
    PROVE  LET r == AddMyVotes(s, tx)
           IN  /\ Sound(r) /\ Grows(s, r)
               /\ tx \in Candidates(r)
               /\ r.mapLockedOutpoints = s.mapLockedOutpoints
               /\ \A v \in MyVotes(s, tx) :
                     v \in Vote /\ v.mn = Me /\ HasMasternodeVoted(r, v.tx, v.outpoint, Me)
  <1> DEFINE r == AddMyVotes(s, tx)
             mine == MyOutpoints(s, tx)
             q == MarkVoted(s, mine, tx)
             p == CastVotes(q, tx, mine, Me)
  <1>1. /\ mine \subseteq DOMAIN Locks(s, tx)
        /\ \A o \in mine : /\ Me \in TopRanked[Masternodes][o]
                           /\ \A h \in VotedFor(s, o) : ~HasMasternodeVoted(s, h, o, Me)
    BY DEF MyOutpoints
  <1>2. tx \in Txs /\ DOMAIN Locks(s, tx) \subseteq Outpoints
    BY ZenonT(30) DEF Sound, IsInstantSend, IsCandidate, IsMap, Locks
  <1>3. MyVotes(s, tx) = {[tx |-> tx, outpoint |-> o, mn |-> Me] : o \in mine}
    BY DEF MyVotes
  <1>4. CASE Me = NoMasternode
    <2>1. mine = {}
      BY <1>1, <1>2, <1>4, RankAssumption, MasternodeAssumption
    <2>2. r = s
      BY <1>4 DEF AddMyVotes
    <2> HIDE DEF mine, r
    <2>3. MyVotes(s, tx) = {}
      BY <1>3, <2>1
    <2> QED
      BY <2>2, <2>3, GrowsReflexive DEF r
  <1>5. CASE Me # NoMasternode
    <2>1. Me \in Masternodes /\ mine \in SUBSET Outpoints
      BY <1>1, <1>2, <1>5, MasternodeAssumption
    <2>2. r = RecordVotes(p, MyVotes(s, tx))
      BY <1>5 DEF AddMyVotes
    <2> HIDE DEF mine, r
    <2>3. /\ Sound(q)
          /\ q.mapTxLockCandidates = s.mapTxLockCandidates
          /\ q.mapLockedOutpoints = s.mapLockedOutpoints
          /\ \A o \in mine : tx \in VotedFor(q, o)
      BY <2>1, MarkVotedSound
    <2> HIDE DEF q
    <2>4. Candidates(q) = Candidates(s) /\ \A t \in Candidates(s) : Locks(q, t) = Locks(s, t)
      BY <2>3 DEF Candidates, Locks
    <2>5. ASSUME NEW o \in mine, NEW u \in Candidates(q), o \in DOMAIN Locks(q, u),
                 Me \in LockVotes(q, u, o)
          PROVE  FALSE
      <3>1. u \in VotedFor(s, o) /\ HasMasternodeVoted(s, u, o, Me)
        BY <2>4, <2>5 DEF Sound, VotesRecorded, HasMasternodeVoted, LockVotes
      <3> QED
        BY SMTT(30), <1>1, <3>1
    <2>6. /\ Sound(p) /\ Grows(q, p)
          /\ Candidates(p) = Candidates(q)
          /\ p.mapLockedOutpoints = q.mapLockedOutpoints
          /\ \A o \in mine : HasMasternodeVoted(p, tx, o, Me)
      <3>1. mine \in SUBSET DOMAIN Locks(q, tx) /\ tx \in Candidates(q)
        BY ZenonT(30), <1>1, <2>4
      <3>2. \A o \in mine : Me \in TopRanked[Masternodes][o] /\ tx \in VotedFor(q, o)
        BY <1>1, <2>3
      <3>3. \A o \in mine : \A u \in Candidates(q) :
               u # tx /\ o \in DOMAIN Locks(q, u) /\ Me \in LockVotes(q, u, o)
                   => Locks(q, u)[o].fAttacked /\ Locks(q, tx)[o].fAttacked
        BY <2>5
      <3> QED
        BY ZenonT(30), <2>1, <2>3, <3>1, <3>2, <3>3, CastVotesSound
    <2> HIDE DEF p
    <2>7. MyVotes(s, tx) \in SUBSET Vote
      BY <1>2, <1>3, <2>1 DEF Vote
    <2>8. /\ Sound(r) /\ Grows(p, r)
          /\ r.mapLockedOutpoints = p.mapLockedOutpoints
          /\ r.mapTxLockCandidates = p.mapTxLockCandidates
      BY <2>2, <2>6, <2>7, RecordVotesSound
    <2>9. Grows(s, q)
      <3>1. Spares(s, q)
        BY ZenonT(30), <2>3, <2>4, SparesSame
      <3> QED
        BY <2>3, <2>4, <3>1 DEF Grows, LockedBy, HasMasternodeVoted
    <2>10. Grows(s, r)
      BY <2>6, <2>8, <2>9, GrowsTransitive
    <2>11. \A v \in MyVotes(s, tx) :
              v \in Vote /\ v.mn = Me /\ HasMasternodeVoted(r, v.tx, v.outpoint, Me)
      <3>1. \A o \in mine : HasMasternodeVoted(r, tx, o, Me)
        BY <2>6, <2>8 DEF HasMasternodeVoted, Candidates, Locks
      <3> QED
        BY <1>3, <2>7, <3>1
    <2>12. tx \in Candidates(r)
      BY <2>4, <2>6, <2>8 DEF Candidates
    <2> QED
      BY SMTT(30), <2>3, <2>6, <2>8, <2>10, <2>11, <2>12 DEF r
  <1> QED
    BY <1>4, <1>5

(* Vote followed by TryToFinalizeLockCandidate.                                 *)
LEMMA VoteForSound ==
    ASSUME NEW s, Sound(s), NEW tx, NEW pool, RespectsLocks(s, pool), mnList = Masternodes
    PROVE  LET r == VoteFor(s, tx, pool)
           IN  /\ Sound(r) /\ Grows(s, r) /\ RespectsLocks(r, pool)
               /\ \A v \in MyVotes(s, tx) :
                     v \in Vote /\ v.mn = Me /\ HasMasternodeVoted(r, v.tx, v.outpoint, Me)
  <1> DEFINE q == AddMyVotes(s, tx)
             r == VoteFor(s, tx, pool)
  <1>1. CASE tx \notin Candidates(s)
    BY ZenonT(30), <1>1, GrowsReflexive DEF VoteFor, MyVotes
  <1>2. CASE tx \in Candidates(s)
    <2>1. /\ Sound(q) /\ Grows(s, q) /\ tx \in Candidates(q)
          /\ q.mapLockedOutpoints = s.mapLockedOutpoints
          /\ \A v \in MyVotes(s, tx) :
                v \in Vote /\ v.mn = Me /\ HasMasternodeVoted(q, v.tx, v.outpoint, Me)
      BY <1>2, AddMyVotesSound
    <2>2. r = TryToFinalizeLockCandidate(q, tx, pool)
      BY <1>2 DEF VoteFor
    <2> HIDE DEF q, r
    <2>3. RespectsLocks(q, pool)
      BY <2>1, RespectsSame
    <2>4. Sound(r) /\ Grows(q, r) /\ RespectsLocks(r, pool)
      BY <2>1, <2>2, <2>3, FinalizeSound
    <2>5. Grows(s, r)
      BY <2>1, <2>4, GrowsTransitive
    <2>6. \A v \in MyVotes(s, tx) : HasMasternodeVoted(r, v.tx, v.outpoint, Me)
      <3>1. \A v \in MyVotes(s, tx) : v.tx \in Txs /\ v.outpoint \in Outpoints /\ Me \in Masternodes
        BY <2>1 DEF Vote
      <3> QED
        BY <2>1, <2>4, <3>1 DEF Grows
    <2> QED
      BY <2>1, <2>4, <2>5, <2>6 DEF r
  <1> QED
    BY <1>1, <1>2

(* A vote is counted: rivals of the same masternode are attacked first, and so  *)
(* is the candidate that gets the vote.                                         *)
LEMMA CountVoteSound ==
    ASSUME NEW s, Sound(s), NEW v \in Vote, VoteIsValid(v), v.tx \in Candidates(s),
           NEW pool, RespectsLocks(s, pool), mnList = Masternodes
    PROVE  LET r == CountVote(s, v, pool)
           IN  Sound(r) /\ Grows(s, r) /\ RespectsLocks(r, pool)
  <1> DEFINE tx == v.tx
             o == v.outpoint
             mn == v.mn
             R == Rivals(s, v)
             p == IF R = {} THEN s ELSE MarkAttacked(s, o, R \cup {tx})
             q == MarkVoted(p, {o}, tx)
             c == CastVotes(q, tx, {o}, mn)
             r == CountVote(s, v, pool)
  <1>1. /\ tx \in Txs /\ o \in Outpoints /\ mn \in Masternodes /\ {o} \in SUBSET Outpoints
        /\ mn \in TopRanked[Masternodes][o]
    BY DEF Vote, VoteIsValid
  <1>2. /\ Sound(p) /\ Grows(s, p)
        /\ Candidates(p) = Candidates(s)
        /\ p.mapLockedOutpoints = s.mapLockedOutpoints
        /\ \A t \in Candidates(s) :
              /\ DOMAIN Locks(p, t) = DOMAIN Locks(s, t)
              /\ \A i \in DOMAIN Locks(s, t) : LockVotes(p, t, i) = LockVotes(s, t, i)
              /\ R # {} /\ t \in R \cup {tx} /\ o \in DOMAIN Locks(s, t) => Locks(p, t)[o].fAttacked
    <2>1. CASE R = {}
      BY ZenonT(30), <2>1, GrowsReflexive
    <2>2. CASE R # {}
      <3>1. p = MarkAttacked(s, o, R \cup {tx})
        BY <2>2
      <3> HIDE DEF R, p, o, tx
      <3> QED
        BY <2>2, <3>1, MarkAttackedSound
    <2> QED
      BY ZenonT(30), <2>1, <2>2
  <1>3. r = IF o \in DOMAIN Locks(q, tx) /\ ~HasMasternodeVoted(q, tx, o, mn)
              THEN TryToFinalizeLockCandidate(c, tx, pool)
              ELSE q
    BY ZenonT(30) DEF CountVote
  <1>4. \A u \in Candidates(s) :
            u # tx /\ o \in DOMAIN Locks(s, u) /\ mn \in LockVotes(s, u, o) => u \in R
    BY ZenonT(30) DEF Sound, VotesRecorded, Rivals, HasMasternodeVoted, LockVotes
  <1> HIDE DEF R, p, r, tx, o, mn
  <1>5. /\ Sound(q)
        /\ q.mapTxLockCandidates = p.mapTxLockCandidates
        /\ q.mapLockedOutpoints = p.mapLockedOutpoints
        /\ tx \in VotedFor(q, o)
    <2>1. tx \in Candidates(p)
      BY <1>2 DEF tx
    <2> QED
      BY ZenonT(30), <1>1, <1>2, <2>1, MarkVotedSound
  <1> HIDE DEF q
  <1>6. Candidates(q) = Candidates(s) /\ \A t \in Candidates(s) : Locks(q, t) = Locks(p, t)
    BY <1>2, <1>5 DEF Candidates, Locks
  <1>7. Grows(p, q)
    <2>1. Spares(p, q)
      BY <1>5, SparesSame DEF Candidates, Locks
    <2> QED
      BY <1>5, <2>1 DEF Grows, LockedBy, HasMasternodeVoted, Candidates, Locks
  <1>8. Grows(s, q) /\ RespectsLocks(q, pool)
    BY <1>2, <1>5, <1>7, GrowsTransitive, RespectsSame
  <1>9. CASE ~(o \in DOMAIN Locks(q, tx) /\ ~HasMasternodeVoted(q, tx, o, mn))
    BY ZenonT(30), <1>3, <1>5, <1>8, <1>9 DEF r
  <1>10. CASE o \in DOMAIN Locks(q, tx) /\ ~HasMasternodeVoted(q, tx, o, mn)
    <2>1. tx \in Candidates(q) /\ {o} \in SUBSET DOMAIN Locks(q, tx)
      BY <1>6, <1>10 DEF tx
    <2>2. ASSUME NEW u \in Candidates(q), u # tx, o \in DOMAIN Locks(q, u), mn \in LockVotes(q, u, o)
          PROVE  Locks(q, u)[o].fAttacked /\ Locks(q, tx)[o].fAttacked
      <3>1. /\ u \in Candidates(s) /\ o \in DOMAIN Locks(s, u)
            /\ Locks(q, u) = Locks(p, u) /\ LockVotes(q, u, o) = LockVotes(p, u, o)
        BY ZenonT(30), <1>2, <1>6, <2>2 DEF LockVotes
      <3>2. mn \in LockVotes(s, u, o)
        BY <1>2, <2>2, <3>1
      <3>3. u \in R
        BY <1>4, <2>2, <3>1, <3>2
      <3>4. o \in DOMAIN Locks(s, tx) /\ tx \in Candidates(s)
        BY <1>2, <1>6, <2>1
      <3> QED
        BY <1>2, <1>6, <3>1, <3>3, <3>4
    <2>3. /\ Sound(c) /\ Grows(q, c)
          /\ Candidates(c) = Candidates(q)
          /\ c.mapLockedOutpoints = q.mapLockedOutpoints
      <3>1. \A i \in {o} : mn \in TopRanked[Masternodes][i] /\ tx \in VotedFor(q, i)
        BY ZenonT(30), <1>1, <1>5
      <3>2. \A i \in {o} : \A u \in Candidates(q) :
               u # tx /\ i \in DOMAIN Locks(q, u) /\ mn \in LockVotes(q, u, i)
                   => Locks(q, u)[i].fAttacked /\ Locks(q, tx)[i].fAttacked
        BY <2>2
      <3> QED
        BY ZenonT(30), <1>1, <1>5, <2>1, <3>1, <3>2, CastVotesSound
    <2> HIDE DEF c
    <2>4. RespectsLocks(c, pool)
      BY <1>8, <2>3, RespectsSame
    <2>5. r = TryToFinalizeLockCandidate(c, tx, pool)
      BY <1>3, <1>10
    <2>6. Sound(r) /\ Grows(c, r) /\ RespectsLocks(r, pool)
      BY <2>1, <2>3, <2>4, <2>5, FinalizeSound
    <2> QED
      BY <1>8, <2>3, <2>6, GrowsTransitive DEF r
  <1> QED
    BY <1>9, <1>10

(* CreateEmptyTxLockCandidate.                                                  *)
LEMMA CreateEmptySound ==
    ASSUME NEW s, Sound(s), NEW tx \in Txs
    PROVE  LET r == CreateEmptyTxLockCandidate(s, tx)
           IN  /\ Sound(r)
               /\ Grows(s, r)
               /\ r.mapLockedOutpoints = s.mapLockedOutpoints
               /\ r.mapTxLockVotes = s.mapTxLockVotes
  <1> DEFINE r == CreateEmptyTxLockCandidate(s, tx)
  <1>1. CASE tx \in Candidates(s)
    BY <1>1, GrowsReflexive DEF CreateEmptyTxLockCandidate
  <1>2. CASE tx \notin Candidates(s)
    <2>1. r = PutCandidate(s, tx, Candidate("null", {}, -1, 0)) /\ 0 \in Age
      BY <1>2, ParameterAssumption DEF CreateEmptyTxLockCandidate, NewCandidate, Age
    <2> QED
      BY <1>2, <2>1, PutNewSound
  <1> QED
    BY <1>1, <1>2

(* A vote just recorded is stored as an orphan.                                 *)
LEMMA StoreOrphanSound ==
    ASSUME NEW s, Sound(s), NEW v \in Vote, NEW pool, RespectsLocks(s, pool),
           v \in DOMAIN s.mapTxLockVotes, s.mapTxLockVotes[v] = NewVote
    PROVE  LET r == StoreOrphanVote(s, v, pool)
           IN  Sound(r) /\ Grows(s, r) /\ RespectsLocks(r, pool)
  <1> DEFINE q == CreateEmptyTxLockCandidate(s, v.tx)
             O == q.mapTxLockVotesOrphan
             F == Put(O, v, NewVote)
             p == [q EXCEPT !.mapTxLockVotesOrphan = F]
             r == StoreOrphanVote(s, v, pool)
  <1>1. v.tx \in Txs
    BY DEF Vote
  <1>2. /\ Sound(q) /\ Grows(s, q) /\ q.mapLockedOutpoints = s.mapLockedOutpoints
        /\ q.mapTxLockVotes = s.mapTxLockVotes
    BY <1>1, CreateEmptySound
  <1>3. \/ r = s
        \/ r = ProcessTxLockRequest(p, v.tx, pool)
        \/ r = p
    BY DEF StoreOrphanVote
  <1> HIDE DEF q, r
  <1>4. NewVote \in CTxLockVote /\ NewVote.age = 0
    BY ParameterAssumption DEF NewVote, CTxLockVote, Age, ConfirmedHeight
  <1>5. /\ DOMAIN F = DOMAIN O \cup {v}
        /\ F[v] = NewVote
        /\ \A w \in DOMAIN O : w # v => F[w] = O[w]
        /\ F = [w \in DOMAIN F |-> F[w]]
    BY DEF Put
  <1> HIDE DEF F
  <1>6. /\ HasFields(p)
        /\ p.mapTxLockVotesOrphan = F
        /\ p.nCachedBlockHeight = q.nCachedBlockHeight
        /\ p.mapLockRequestAccepted = q.mapLockRequestAccepted
        /\ p.mapLockRequestRejected = q.mapLockRequestRejected
        /\ p.mapTxLockVotes = q.mapTxLockVotes
        /\ p.mapTxLockCandidates = q.mapTxLockCandidates
        /\ p.mapVotedOutpoints = q.mapVotedOutpoints
        /\ p.mapLockedOutpoints = q.mapLockedOutpoints
    BY <1>2 DEF Sound, IsInstantSend, HasFields
  <1> HIDE DEF p
  <1>7. IsMap(F, Vote, CTxLockVote)
    BY <1>2, <1>4, <1>5 DEF Sound, IsInstantSend, IsMap
  <1>8. IsInstantSend(p)
    BY ZenonT(30), <1>2, <1>6, <1>7 DEF Sound, IsInstantSend, Candidates
  <1>9. OrphansTracked(p)
    BY <1>2, <1>4, <1>5, <1>6 DEF Sound, OrphansTracked
  <1>10. Unconfirmed(p)
    BY ZenonT(30), <1>2, <1>6 DEF Sound, Unconfirmed
  <1>11. Sound(p) /\ Grows(q, p)
    BY <1>2, <1>6, <1>8, <1>9, <1>10, SameCandidatesSound DEF Sound
  <1>12. Grows(s, p) /\ RespectsLocks(p, pool)
    BY <1>2, <1>6, <1>11, GrowsTransitive, RespectsSame
  <1>13. LET w == ProcessTxLockRequest(p, v.tx, pool)
         IN  Sound(w) /\ Grows(s, w) /\ RespectsLocks(w, pool)
    BY <1>1, <1>11, <1>12, ProcessRequestSound, GrowsTransitive
  <1> QED
    BY <1>3, <1>11, <1>12, <1>13, GrowsReflexive DEF r

(* ProcessTxLockVote, on a vote that ProcessMessage has just recorded.          *)
LEMMA ProcessVoteSound ==
    ASSUME NEW s, Sound(s), NEW v \in Vote, NEW pool, RespectsLocks(s, pool), mnList = Masternodes,
           v \in DOMAIN s.mapTxLockVotes, s.mapTxLockVotes[v] = NewVote
    PROVE  LET r == ProcessTxLockVote(s, v, pool)
           IN  Sound(r) /\ Grows(s, r) /\ RespectsLocks(r, pool)
  <1> DEFINE r == ProcessTxLockVote(s, v, pool)
  <1>1. \/ r = s
        \/ r = StoreOrphanVote(s, v, pool)
        \/ r = CountVote(s, v, pool) /\ VoteIsValid(v) /\ v.tx \in Candidates(s)
    BY ZenonT(30) DEF ProcessTxLockVote
  <1> HIDE DEF r
  <1>2. CASE r = s
    BY <1>2, GrowsReflexive DEF r
  <1>3. CASE r = StoreOrphanVote(s, v, pool)
    BY <1>3, StoreOrphanSound DEF r
  <1>4. CASE r = CountVote(s, v, pool) /\ VoteIsValid(v) /\ v.tx \in Candidates(s)
    BY <1>4, CountVoteSound DEF r
  <1> QED
    BY <1>1, <1>2, <1>3, <1>4

(* A second older, votes keep their type and their block.                       *)
LEMMA OlderVotes ==
    ASSUME NEW m, IsMap(m, Vote, CTxLockVote), NEW limit \in {LOCK_TIMEOUT, FAILED_TIMEOUT}
    PROVE  LET n == Older(m, limit)
           IN  /\ IsMap(n, Vote, CTxLockVote)
               /\ DOMAIN n = DOMAIN m
               /\ \A v \in DOMAIN m :
                     /\ n[v].nConfirmedHeight = m[v].nConfirmedHeight
                     /\ n[v].age = IF m[v].age > limit THEN m[v].age ELSE m[v].age + 1
  <1> DEFINE n == Older(m, limit)
             b(x) == IF x.age > limit THEN x.age ELSE x.age + 1
             e(x) == [x EXCEPT !.age = b(x)]
  <1>1. /\ DOMAIN n = DOMAIN m
        /\ n = [v \in DOMAIN m |-> e(m[v])]
    BY DEF Older
  <1>2. \A x \in CTxLockVote : b(x) \in Age
    BY ParameterAssumption DEF CTxLockVote, Age
  <1> HIDE DEF b, n
  <1>3. \A x \in CTxLockVote :
            /\ e(x) \in CTxLockVote
            /\ e(x).nConfirmedHeight = x.nConfirmedHeight
            /\ e(x).age = b(x)
    BY <1>2 DEF CTxLockVote
  <1> HIDE DEF e
  <1>4. \A v \in DOMAIN m : m[v] \in CTxLockVote /\ n[v] = e(m[v])
    BY <1>1 DEF IsMap
  <1>5. IsMap(n, Vote, CTxLockVote)
    BY <1>1, <1>3, <1>4 DEF IsMap
  <1>6. \A v \in DOMAIN m : /\ n[v].nConfirmedHeight = m[v].nConfirmedHeight
                            /\ n[v].age = b(m[v])
    BY <1>3, <1>4
  <1> QED
    BY <1>1, <1>5, <1>6 DEF n, b

(* The clock changes ages only; a vote that is also an orphan ages with it.     *)
LEMMA TickSound ==
    ASSUME NEW s, Sound(s),
           NEW r, r = [s EXCEPT !.mapTxLockCandidates = Older(@, LOCK_TIMEOUT),
                                !.mapTxLockVotes = Older(@, FAILED_TIMEOUT),
                                !.mapTxLockVotesOrphan = Older(@, LOCK_TIMEOUT)]
    PROVE  /\ Sound(r) /\ Grows(s, r)
           /\ r.mapLockedOutpoints = s.mapLockedOutpoints
  <1> DEFINE C == s.mapTxLockCandidates
             D == Older(C, LOCK_TIMEOUT)
             V == s.mapTxLockVotes
             W == Older(V, FAILED_TIMEOUT)
             O == s.mapTxLockVotesOrphan
             P == Older(O, LOCK_TIMEOUT)
  <1>1. /\ HasFields(r)
        /\ r.mapTxLockCandidates = D
        /\ r.mapTxLockVotes = W
        /\ r.mapTxLockVotesOrphan = P
        /\ r.nCachedBlockHeight = s.nCachedBlockHeight
        /\ r.mapLockRequestAccepted = s.mapLockRequestAccepted
        /\ r.mapLockRequestRejected = s.mapLockRequestRejected
        /\ r.mapVotedOutpoints = s.mapVotedOutpoints
        /\ r.mapLockedOutpoints = s.mapLockedOutpoints
    BY ZenonT(30) DEF Sound, IsInstantSend, HasFields
  <1>2. /\ DOMAIN D = DOMAIN C /\ D = [t \in DOMAIN D |-> D[t]]
        /\ \A t \in DOMAIN C : D[t] = [C[t] EXCEPT !.age = IF @ > LOCK_TIMEOUT THEN @ ELSE @ + 1]
    BY DEF Older
  <1>3. IsMap(V, Vote, CTxLockVote) /\ IsMap(O, Vote, CTxLockVote)
    BY DEF Sound, IsInstantSend
  <1>4. /\ DOMAIN W = DOMAIN V /\ IsMap(W, Vote, CTxLockVote)
        /\ DOMAIN P = DOMAIN O /\ IsMap(P, Vote, CTxLockVote)
    BY <1>3, OlderVotes
  <1>6. \A v \in DOMAIN V :
            /\ W[v].nConfirmedHeight = V[v].nConfirmedHeight
            /\ W[v].age = IF V[v].age > FAILED_TIMEOUT THEN V[v].age ELSE V[v].age + 1
    BY <1>3, OlderVotes
  <1>7. \A v \in DOMAIN O :
            P[v].age = IF O[v].age > LOCK_TIMEOUT THEN O[v].age ELSE O[v].age + 1
    BY <1>3, OlderVotes
  <1> HIDE DEF D, W, P
  <1>5. \A t \in Candidates(s) :
            /\ IsCandidate(D[t])
            /\ D[t].txLockRequest = C[t].txLockRequest
            /\ D[t].nConfirmedHeight = C[t].nConfirmedHeight
            /\ D[t].mapOutPointLocks = C[t].mapOutPointLocks
    <2> SUFFICES ASSUME NEW t \in Candidates(s)
                 PROVE  /\ IsCandidate(D[t])
                        /\ D[t].txLockRequest = C[t].txLockRequest
                        /\ D[t].nConfirmedHeight = C[t].nConfirmedHeight
                        /\ D[t].mapOutPointLocks = C[t].mapOutPointLocks
      OBVIOUS
    <2> DEFINE a == IF C[t].age > LOCK_TIMEOUT THEN C[t].age ELSE C[t].age + 1
    <2>1. IsCandidate(C[t])
      BY DEF Sound, IsInstantSend
    <2>2. a \in Age
      BY <2>1, ParameterAssumption DEF IsCandidate, Age
    <2>3. D[t] = [C[t] EXCEPT !.age = a]
      BY <1>2 DEF Candidates
    <2> HIDE DEF a
    <2>4. D[t] = [txLockRequest |-> C[t].txLockRequest, mapOutPointLocks |-> C[t].mapOutPointLocks,
                  nConfirmedHeight |-> C[t].nConfirmedHeight, age |-> a]
      BY <2>1, <2>3 DEF IsCandidate
    <2> QED
      BY <2>1, <2>2, <2>4 DEF IsCandidate
  <1>8. Candidates(r) = Candidates(s) /\ \A t \in Candidates(s) : Locks(r, t) = Locks(s, t)
    BY <1>1, <1>2, <1>5 DEF Candidates, Locks
  <1>10. IsInstantSend(r)
    BY <1>1, <1>2, <1>4, <1>5 DEF Sound, IsInstantSend, Candidates
  <1>11. OrphansTracked(r)
    <2> SUFFICES ASSUME NEW v \in DOMAIN O
                 PROVE  v \in DOMAIN V /\ (W[v].age <= P[v].age \/ P[v].age > LOCK_TIMEOUT)
      BY <1>1, <1>4 DEF OrphansTracked, IsTimedOut
    <2>1. v \in DOMAIN V /\ (V[v].age <= O[v].age \/ O[v].age > LOCK_TIMEOUT)
      BY DEF Sound, OrphansTracked, IsTimedOut
    <2>2. V[v].age \in Int /\ O[v].age \in Int
      BY <2>1 DEF Sound, IsInstantSend, IsMap, CTxLockVote, Age
    <2> QED
      BY <1>6, <1>7, <2>1, <2>2, ParameterAssumption
  <1>12. Unconfirmed(r)
    BY <1>1, <1>4, <1>6 DEF Sound, Unconfirmed
  <1>13. CandidatesSound(r)
    BY <1>1, <1>5, <1>8 DEF Sound, CandidatesSound, HasEmptyCandidate
  <1>14. VotesRecorded(r) /\ DoubleVotesMarked(r) /\ VotedKnown(r)
    BY <1>1, <1>8 DEF Sound, VotesRecorded, DoubleVotesMarked, VotedKnown, VotedFor, LockVotes
  <1>15. Whole(r) /\ LocksHaveQuorums(r)
    BY <1>1, <1>8 DEF Sound, Whole, LocksHaveQuorums, LockVotes, LockedBy
  <1>16. Grows(s, r)
    <2>1. Spares(s, r)
      BY ZenonT(30), <1>1, <1>8, SparesSame
    <2> QED
      BY <1>1, <1>8, <2>1 DEF Grows, LockedBy, HasMasternodeVoted
  <1> QED
    BY <1>1, <1>10, <1>11, <1>12, <1>13, <1>14, <1>15, <1>16 DEF Sound

(* A new block tip only moves the cached height.                                *)
LEMMA HeightSound ==
    ASSUME NEW s, Sound(s), NEW h \in Nat, NEW r, r = [s EXCEPT !.nCachedBlockHeight = h]
    PROVE  /\ Sound(r) /\ Grows(s, r)
           /\ r.mapLockedOutpoints = s.mapLockedOutpoints
  <1>1. /\ HasFields(r)
        /\ r.nCachedBlockHeight = h
        /\ r.mapLockRequestAccepted = s.mapLockRequestAccepted
        /\ r.mapLockRequestRejected = s.mapLockRequestRejected
        /\ r.mapTxLockVotes = s.mapTxLockVotes
        /\ r.mapTxLockVotesOrphan = s.mapTxLockVotesOrphan
        /\ r.mapTxLockCandidates = s.mapTxLockCandidates
        /\ r.mapVotedOutpoints = s.mapVotedOutpoints
        /\ r.mapLockedOutpoints = s.mapLockedOutpoints
    BY DEF Sound, IsInstantSend, HasFields
  <1>2. IsInstantSend(r)
    BY <1>1 DEF Sound, IsInstantSend, Candidates
  <1>3. Unconfirmed(r) /\ OrphansTracked(r)
    BY <1>1 DEF Sound, Unconfirmed, OrphansTracked
  <1> QED
    BY ZenonT(30), <1>1, <1>2, <1>3, SameCandidatesSound DEF Sound

--------------------------------------------------------------------------------
(* What the mempool accepts respects the locks, and keeps respecting them.      *)
LEMMA MempoolSound ==
    ASSUME NEW s, NEW tx \in Txs, NEW pool \in SUBSET Txs,
           RespectsLocks(s, pool), MempoolAccepts(s, tx, pool)
    PROVE  /\ RespectsLocks(s, AddToMempool(tx, pool))
           /\ AddToMempool(tx, pool) \in SUBSET Txs
  BY DEF RespectsLocks, MempoolAccepts, AddToMempool

(* QuorumInvariant without what the votes this node has sent have to do with    *)
(* the votes it has counted, which a node that starts again does not know.      *)
NodeInvariant ==
    /\ TypeOK
    /\ mnList = Masternodes
    /\ Sound(instantsend)
    /\ MempoolRespectsLocks

(* A step that keeps the votes this node has sent among the counted ones.       *)
VotesStay == OwnVotesKept => OwnVotesKept'

(* What a handler has to establish: the state of CInstantSend stays sound and   *)
(* grows, the mempool respects the locks, and new votes of this node are kept.  *)
LEMMA HandlerStep ==
    ASSUME NodeInvariant, UNCHANGED env,
           Sound(instantsend'), Grows(instantsend, instantsend'),
           RespectsLocks(instantsend', mempool'),
           mempool' \subseteq Txs,
           \A v \in relayed' \ relayed :
               v \in Vote /\ v.mn = Me /\ HasMasternodeVoted(instantsend', v.tx, v.outpoint, Me)
    PROVE  NodeInvariant' /\ VotesStay
  <1>1. TypeOK'
    BY DEF NodeInvariant, TypeOK, Sound, env
  <1>2. ASSUME OwnVotesKept
        PROVE  OwnVotesKept'
    <2>1. \A v \in relayed : /\ v.tx \in Txs /\ v.outpoint \in Outpoints /\ v.mn \in Masternodes
                             /\ v.mn = Me /\ HasMasternodeVoted(instantsend, v.tx, v.outpoint, Me)
      BY <1>2 DEF NodeInvariant, TypeOK, OwnVotesKept, Vote
    <2>2. \A v \in relayed : HasMasternodeVoted(instantsend', v.tx, v.outpoint, Me)
      BY <2>1 DEF Grows
    <2> QED
      BY <2>1, <2>2 DEF OwnVotesKept
  <1> QED
    BY <1>1, <1>2 DEF NodeInvariant, VotesStay, MempoolRespectsLocks, env

(* The requests and votes that arrive from peers and users.                     *)
LEMMA RequestStep ==
    ASSUME NodeInvariant, NEW tx \in Txs, ReceiveTxLockRequest(tx) \/ ReceiveTx(tx)
    PROVE  NodeInvariant' /\ VotesStay /\ Grows(instantsend, instantsend')
  <1> DEFINE s == ProcessTxLockRequest(instantsend, tx, mempool)
             a == AcceptLockRequest(s, tx)
             pool == AddToMempool(tx, mempool)
             V == MyVotes(a, tx)
             w == VoteFor(a, tx, pool)
  <1>0. /\ Sound(instantsend) /\ RespectsLocks(instantsend, mempool)
        /\ mempool \in SUBSET Txs /\ mnList = Masternodes
    BY DEF NodeInvariant, TypeOK, MempoolRespectsLocks
  <1>1. Sound(s) /\ Grows(instantsend, s) /\ RespectsLocks(s, mempool)
    BY <1>0, ProcessRequestSound
  <1>2. /\ UNCHANGED env
        /\ \/ /\ instantsend' \in {s, RejectLockRequest(s, tx), instantsend}
              /\ mempool' = mempool /\ relayed' = relayed
           \/ /\ instantsend' \in {s, instantsend}
              /\ MempoolAccepts(instantsend', tx, mempool)
              /\ mempool' = pool /\ relayed' = relayed
           \/ /\ instantsend' = w
              /\ MempoolAccepts(s, tx, mempool)
              /\ mempool' = pool /\ relayed' = relayed \cup V
    BY ZenonT(30) DEF ReceiveTxLockRequest, ReceiveTx
  <1> HIDE DEF s
  <1>3. CASE /\ instantsend' \in {s, RejectLockRequest(s, tx), instantsend}
             /\ mempool' = mempool /\ relayed' = relayed
    <2>1. Sound(instantsend') /\ Grows(instantsend, instantsend') /\ RespectsLocks(instantsend', mempool)
      <3>1. CASE instantsend' = s
        BY <1>1, <3>1
      <3>2. CASE instantsend' = RejectLockRequest(s, tx)
        BY <1>1, <3>2, AcceptSound, GrowsTransitive, RespectsSame
      <3>3. CASE instantsend' = instantsend
        BY <1>0, <3>3, GrowsReflexive
      <3> QED
        BY <1>3, <3>1, <3>2, <3>3
    <2> QED
      BY <1>0, <1>2, <1>3, <2>1, HandlerStep
  <1>4. CASE /\ instantsend' \in {s, instantsend}
             /\ MempoolAccepts(instantsend', tx, mempool)
             /\ mempool' = pool /\ relayed' = relayed
    <2>1. Sound(instantsend') /\ Grows(instantsend, instantsend') /\ RespectsLocks(instantsend', mempool)
      BY <1>0, <1>1, <1>4, GrowsReflexive
    <2>2. RespectsLocks(instantsend', mempool') /\ mempool' \subseteq Txs
      BY <1>0, <1>4, <2>1, MempoolSound
    <2> QED
      BY ZenonT(30), <1>2, <1>4, <2>1, <2>2, HandlerStep
  <1>5. CASE /\ instantsend' = w
             /\ MempoolAccepts(s, tx, mempool)
             /\ mempool' = pool /\ relayed' = relayed \cup V
    <2>1. RespectsLocks(s, pool) /\ pool \in SUBSET Txs
      BY <1>0, <1>1, <1>5, MempoolSound
    <2> HIDE DEF pool
    <2>2. Sound(a) /\ Grows(s, a) /\ RespectsLocks(a, pool)
      BY <1>1, <2>1, AcceptSound, RespectsSame
    <2> HIDE DEF a
    <2>3. /\ Sound(w) /\ Grows(a, w) /\ RespectsLocks(w, pool)
          /\ \A v \in V : v \in Vote /\ v.mn = Me /\ HasMasternodeVoted(w, v.tx, v.outpoint, Me)
      BY <1>0, <2>2, VoteForSound
    <2> HIDE DEF w, V
    <2>4. Grows(instantsend, w)
      BY <1>1, <2>2, <2>3, GrowsTransitive
    <2>5. \A v \in relayed' \ relayed : v \in V
      BY <1>5
    <2> QED
      BY <1>2, <1>5, <2>1, <2>3, <2>4, <2>5, HandlerStep
  <1> QED
    BY <1>2, <1>3, <1>4, <1>5

(* RelayWalletTransaction and sendrawtransaction preserve the invariant: what the *)
(* wallet adds to the mempool is checked against the locks, and the locks it      *)
(* completes are checked against the mempool.                                     *)
LEMMA LocalStep ==
    ASSUME NodeInvariant, NEW tx \in Txs, RelayWalletTransaction(tx) \/ SendRawTransaction(tx)
    PROVE  NodeInvariant' /\ VotesStay /\ Grows(instantsend, instantsend')
  <1>0. /\ Sound(instantsend) /\ RespectsLocks(instantsend, mempool) /\ mempool \in SUBSET Txs
    BY DEF NodeInvariant, TypeOK, MempoolRespectsLocks
  <1>1. CASE RelayWalletTransaction(tx)
    <2> DEFINE s == ProcessTxLockRequest(instantsend, tx, mempool')
    <2>1. /\ \/ mempool' = mempool
             \/ MempoolAccepts(instantsend, tx, mempool) /\ mempool' = AddToMempool(tx, mempool)
          /\ instantsend' = AcceptLockRequest(s, tx) \/ instantsend' = RejectLockRequest(s, tx)
          /\ relayed' = relayed /\ UNCHANGED env
      BY <1>1 DEF RelayWalletTransaction
    <2>2. RespectsLocks(instantsend, mempool') /\ mempool' \in SUBSET Txs
      BY <1>0, <2>1, MempoolSound
    <2>3. Sound(s) /\ Grows(instantsend, s) /\ RespectsLocks(s, mempool')
      BY <1>0, <2>2, ProcessRequestSound
    <2> HIDE DEF s
    <2>4. Sound(instantsend') /\ Grows(s, instantsend') /\ RespectsLocks(instantsend', mempool')
      BY <2>1, <2>3, AcceptSound, RespectsSame
    <2>5. Grows(instantsend, instantsend')
      BY <2>3, <2>4, GrowsTransitive
    <2> QED
      BY <2>1, <2>2, <2>4, <2>5, HandlerStep
  <1>2. CASE SendRawTransaction(tx)
    <2>1. /\ \/ instantsend' = ProcessTxLockRequest(instantsend, tx, mempool)
             \/ instantsend' = instantsend
          /\ \/ mempool' = mempool
             \/ MempoolAccepts(instantsend', tx, mempool) /\ mempool' = AddToMempool(tx, mempool)
          /\ relayed' = relayed /\ UNCHANGED env
      BY <1>2 DEF SendRawTransaction
    <2>2. Sound(instantsend') /\ Grows(instantsend, instantsend') /\ RespectsLocks(instantsend', mempool)
      BY <1>0, <2>1, ProcessRequestSound, GrowsReflexive
    <2>3. RespectsLocks(instantsend', mempool') /\ mempool' \in SUBSET Txs
      BY <1>0, <2>1, <2>2, MempoolSound
    <2> QED
      BY <2>1, <2>2, <2>3, HandlerStep
  <1> QED
    BY <1>1, <1>2

(* A TXLOCKVOTE preserves the invariant: the vote is recorded, then counted, kept *)
(* as an orphan, or left alone when the wallet's lock is busy.                    *)
LEMMA VoteStep ==
    ASSUME NodeInvariant, NEW v \in Vote, ReceiveTxLockVote(v)
    PROVE  NodeInvariant' /\ VotesStay /\ Grows(instantsend, instantsend')
  <1> DEFINE s == RecordVotes(instantsend, {v})
  <1>0. /\ Sound(instantsend) /\ RespectsLocks(instantsend, mempool)
        /\ mempool \in SUBSET Txs /\ mnList = Masternodes /\ {v} \in SUBSET Vote
    BY DEF NodeInvariant, TypeOK, MempoolRespectsLocks
  <1>1. /\ v \notin DOMAIN instantsend.mapTxLockVotes
        /\ instantsend' = ProcessTxLockVote(s, v, mempool) \/ instantsend' = s
        /\ mempool' = mempool /\ relayed' = relayed /\ UNCHANGED env
    BY DEF ReceiveTxLockVote
  <1>2. /\ Sound(s) /\ Grows(instantsend, s)
        /\ s.mapLockedOutpoints = instantsend.mapLockedOutpoints
        /\ v \in DOMAIN s.mapTxLockVotes /\ s.mapTxLockVotes[v] = NewVote
    BY <1>0, <1>1, RecordVotesSound
  <1> HIDE DEF s
  <1>3. RespectsLocks(s, mempool)
    BY <1>0, <1>2, RespectsSame
  <1>4. Sound(instantsend') /\ Grows(s, instantsend') /\ RespectsLocks(instantsend', mempool)
    BY <1>0, <1>1, <1>2, <1>3, ProcessVoteSound, GrowsReflexive
  <1>5. Grows(instantsend, instantsend')
    BY <1>2, <1>4, GrowsTransitive
  <1> QED
    BY <1>0, <1>1, <1>4, <1>5, HandlerStep

(* Every step keeps the invariant of a node, and takes no lock and no vote away.*)
LEMMA NodeStep ==
    ASSUME NodeInvariant, [Next]_vars
    PROVE  NodeInvariant' /\ VotesStay /\ Grows(instantsend, instantsend')
  <1>0. /\ TypeOK /\ Sound(instantsend) /\ RespectsLocks(instantsend, mempool)
        /\ mempool \in SUBSET Txs /\ mnList = Masternodes
    BY DEF NodeInvariant, TypeOK, MempoolRespectsLocks
  <1>1. ASSUME NEW tx \in Txs, ReceiveTxLockRequest(tx) \/ ReceiveTx(tx)
        PROVE  NodeInvariant' /\ VotesStay /\ Grows(instantsend, instantsend')
    BY <1>1, RequestStep
  <1>2. ASSUME NEW tx \in Txs, RelayWalletTransaction(tx) \/ SendRawTransaction(tx)
        PROVE  NodeInvariant' /\ VotesStay /\ Grows(instantsend, instantsend')
    BY <1>2, LocalStep
  <1>3. ASSUME NEW v \in Vote, ReceiveTxLockVote(v)
        PROVE  NodeInvariant' /\ VotesStay /\ Grows(instantsend, instantsend')
    BY <1>3, VoteStep
  <1>4. ASSUME NEW tx \in Txs, ExpireFromMempool(tx) \/ TrimToSize(tx)
        PROVE  NodeInvariant' /\ VotesStay /\ Grows(instantsend, instantsend')
    <2>1. /\ instantsend' = instantsend /\ relayed' = relayed /\ UNCHANGED env
          /\ mempool' = mempool \ {tx}
      BY <1>4 DEF ExpireFromMempool, TrimToSize
    <2>2. RespectsLocks(instantsend, mempool') /\ mempool' \subseteq Txs
      BY <1>0, <2>1 DEF RespectsLocks
    <2> QED
      BY <1>0, <2>1, <2>2, HandlerStep, GrowsReflexive
  <1>5. ASSUME Maintenance \/ Tick \/ UpdatedBlockTip
        PROVE  NodeInvariant' /\ VotesStay /\ Grows(instantsend, instantsend')
    <2>1. mempool' = mempool /\ relayed' = relayed /\ UNCHANGED env
      BY <1>5 DEF Maintenance, Tick, UpdatedBlockTip
    <2>2. /\ Sound(instantsend') /\ Grows(instantsend, instantsend')
          /\ instantsend'.mapLockedOutpoints = instantsend.mapLockedOutpoints
      <3>1. CASE Maintenance
        BY <1>0, <3>1, CheckAndRemoveSound DEF Maintenance
      <3>2. CASE Tick
        BY ZenonT(30), <1>0, <3>2, TickSound DEF Tick
      <3>3. CASE UpdatedBlockTip
        <4>1. PICK h \in Nat : instantsend' = [instantsend EXCEPT !.nCachedBlockHeight = h]
          BY <1>0, <3>3 DEF UpdatedBlockTip, TypeOK, IsInstantSend
        <4> QED
          BY <1>0, <4>1, HeightSound
      <3> QED
        BY <1>5, <3>1, <3>2, <3>3
    <2>3. RespectsLocks(instantsend', mempool)
      BY <1>0, <2>2, RespectsSame
    <2> QED
      BY <1>0, <2>1, <2>2, <2>3, HandlerStep
  <1>6. ASSUME NEW block \in SUBSET Txs, CheckBlock(block) \/ ConnectTip(block)
        PROVE  NodeInvariant' /\ VotesStay /\ Grows(instantsend, instantsend')
    <2>1. /\ instantsend' = instantsend /\ relayed' = relayed
          /\ mnList' = mnList /\ listSynced' = listSynced /\ sporks' = sporks
      BY <1>6 DEF CheckBlock, ConnectTip
    <2>2. /\ mempool' \subseteq mempool /\ checkedBlocks' \subseteq SUBSET Txs
          /\ height' \in Nat /\ minedAt' \in [Txs -> ConfirmedHeight]
      BY SMTT(30), <1>0, <1>6 DEF CheckBlock, ConnectTip, TypeOK, ConfirmedHeight
    <2>3. TypeOK'
      BY <1>0, <2>1, <2>2 DEF TypeOK
    <2>4. RespectsLocks(instantsend', mempool')
      BY <1>0, <2>1, <2>2 DEF RespectsLocks
    <2>5. VotesStay
      BY <2>1 DEF VotesStay, OwnVotesKept
    <2> QED
      BY <1>0, <2>1, <2>3, <2>4, <2>5, GrowsReflexive DEF NodeInvariant, MempoolRespectsLocks
  <1>7. ASSUME SporkUpdate \/ MasternodeSyncChange \/ UNCHANGED vars
        PROVE  NodeInvariant' /\ VotesStay /\ Grows(instantsend, instantsend')
    <2>1. /\ instantsend' = instantsend /\ relayed' = relayed /\ mempool' = mempool
          /\ mnList' = mnList /\ height' = height /\ minedAt' = minedAt
          /\ checkedBlocks' = checkedBlocks
      BY <1>7 DEF SporkUpdate, MasternodeSyncChange, vars
    <2>2. listSynced' \in BOOLEAN /\ sporks' \subseteq {SPORK_2, SPORK_3}
      BY ZenonT(30), <1>0, <1>7, ParameterAssumption DEF SporkUpdate, MasternodeSyncChange, vars, TypeOK
    <2>3. TypeOK'
      BY <1>0, <2>1, <2>2 DEF TypeOK
    <2>4. VotesStay
      BY <2>1 DEF VotesStay, OwnVotesKept
    <2> QED
      BY <1>0, <2>1, <2>3, <2>4, GrowsReflexive DEF NodeInvariant, MempoolRespectsLocks
  <1> QED
    BY <1>1, <1>2, <1>3, <1>4, <1>5, <1>6, <1>7 DEF Next, Handlers, Blocks

(* Every step keeps the invariant, and takes no lock and no vote away.          *)
LEMMA InductiveStep ==
    ASSUME QuorumInvariant, [Next]_vars
    PROVE  QuorumInvariant' /\ Grows(instantsend, instantsend')
  <1>1. NodeInvariant /\ OwnVotesKept
    BY DEF QuorumInvariant, NodeInvariant
  <1>2. NodeInvariant' /\ VotesStay /\ Grows(instantsend, instantsend')
    BY <1>1, NodeStep
  <1> QED
    BY <1>1, <1>2 DEF QuorumInvariant, NodeInvariant, VotesStay

(* A CInstantSend as it is constructed.                                         *)
LEMMA NewSound ==
    ASSUME NEW s, NEW h \in Nat, s = NewInstantSend(h)
    PROVE  Sound(s) /\ DOMAIN s.mapLockedOutpoints = {}
  <1>1. /\ HasFields(s)
        /\ s.nCachedBlockHeight = h
        /\ s.mapLockRequestAccepted = {}
        /\ s.mapLockRequestRejected = {}
        /\ s.mapTxLockVotes = Empty
        /\ s.mapTxLockVotesOrphan = Empty
        /\ s.mapTxLockCandidates = Empty
        /\ s.mapVotedOutpoints = Empty
        /\ s.mapLockedOutpoints = Empty
    BY ZenonT(30) DEF NewInstantSend, HasFields
  <1>2. DOMAIN Empty = {} /\ Empty = [j \in DOMAIN Empty |-> Empty[j]]
    BY DEF Empty
  <1>3. \A K, X : IsMap(Empty, K, X)
    BY <1>2 DEF IsMap
  <1>4. Candidates(s) = {}
    BY <1>1, <1>2 DEF Candidates
  <1>5. IsInstantSend(s)
    BY SMTT(30), <1>1, <1>2, <1>3, <1>4 DEF IsInstantSend
  <1> QED
    BY ZenonT(30), <1>1, <1>2, <1>4, <1>5
       DEF Sound, CandidatesSound, Unconfirmed, VotesRecorded, DoubleVotesMarked,
           VotedKnown, Whole, LocksHaveQuorums, OrphansTracked

(* A node starts with an empty CInstantSend.                                    *)
LEMMA InitialStates == Init => QuorumInvariant
  <1> SUFFICES ASSUME Init PROVE QuorumInvariant
    OBVIOUS
  <1>1. /\ instantsend = NewInstantSend(InitHeight)
        /\ mempool = {} /\ height = InitHeight /\ minedAt = [tx \in Txs |-> -1]
        /\ checkedBlocks = {} /\ mnList = Masternodes /\ listSynced = TRUE
        /\ sporks = {SPORK_2, SPORK_3} /\ relayed = {}
    BY DEF Init
  <1>2. InitHeight \in Nat
    BY ParameterAssumption
  <1>3. Sound(instantsend)
    BY <1>1, <1>2, NewSound
  <1>4. TypeOK
    BY <1>1, <1>3, ParameterAssumption DEF TypeOK, Sound, ConfirmedHeight
  <1>5. OwnVotesKept /\ MempoolRespectsLocks
    BY <1>1 DEF OwnVotesKept, MempoolRespectsLocks, RespectsLocks
  <1> QED
    BY <1>1, <1>3, <1>4, <1>5 DEF QuorumInvariant

(* The inductive invariant holds in every reachable state.                      *)
THEOREM Inductive == Spec => []QuorumInvariant
  <1>1. QuorumInvariant /\ [Next]_vars => QuorumInvariant'
    BY InductiveStep
  <1> QED
    BY <1>1, InitialStates, PTL DEF Spec

(* Every map of CInstantSend keeps the types it was declared with.              *)
THEOREM TypeCorrect == Spec => []TypeOK
  <1>1. QuorumInvariant => TypeOK
    BY DEF QuorumInvariant
  <1> QED
    BY <1>1, Inductive, PTL

(* Two quorums for one outpoint have a voter in common, which is marked.        *)
LEMMA ReadyAreExclusive == NodeInvariant => ExclusiveQuorums
  <1> SUFFICES ASSUME NodeInvariant,
                      NEW t \in Candidates(instantsend), NEW u \in Candidates(instantsend), t # u,
                      IsAllOutPointsReady(instantsend, t), IsAllOutPointsReady(instantsend, u),
                      NEW o \in DOMAIN Locks(instantsend, t) \cap DOMAIN Locks(instantsend, u)
               PROVE  FALSE
    BY DEF ExclusiveQuorums
  <1> DEFINE P == LockVotes(instantsend, t, o)
             Q == LockVotes(instantsend, u, o)
  <1>1. /\ ~Locks(instantsend, t)[o].fAttacked
        /\ Cardinality(P) >= SIGNATURES_REQUIRED /\ Cardinality(Q) >= SIGNATURES_REQUIRED
    BY DEF IsAllOutPointsReady, IsReady, LockVotes
  <1>2. /\ P \subseteq TopRanked[Masternodes][o] /\ Q \subseteq TopRanked[Masternodes][o]
    BY ZenonT(30) DEF NodeInvariant, Sound, VotesRecorded
  <1>3. o \in Outpoints
    BY ZenonT(30) DEF NodeInvariant, Sound, IsInstantSend, IsCandidate, IsMap, Locks
  <1>4. P \cap Q # {}
    BY ZenonT(30), <1>1, <1>2, <1>3, QuorumsIntersect
  <1> QED
    BY ZenonT(30), <1>1, <1>4 DEF NodeInvariant, Sound, DoubleVotesMarked

(* Two transactions that spend one outpoint are never both ready to be locked.  *)
THEOREM QuorumsAreExclusive == Spec => []ExclusiveQuorums
  <1>1. QuorumInvariant => NodeInvariant
    BY DEF QuorumInvariant, NodeInvariant
  <1> QED
    BY <1>1, ReadyAreExclusive, Inductive, PTL

(* A transaction that holds one locked outpoint holds all of its inputs.        *)
THEOREM LocksStayWhole == Spec => []LocksAreWhole
  <1>1. QuorumInvariant => LocksAreWhole
    BY DEF QuorumInvariant, Sound, LocksAreWhole
  <1> QED
    BY <1>1, Inductive, PTL

(* The mempool never spends an outpoint locked for another transaction.         *)
THEOREM MempoolStaysWithLocks == Spec => []MempoolRespectsLocks
  <1>1. QuorumInvariant => MempoolRespectsLocks
    BY DEF QuorumInvariant
  <1> QED
    BY <1>1, Inductive, PTL

(* What Vote looks up without a check is always there.                          *)
THEOREM VotedAreKnown == Spec => []VotedHaveCandidates
  <1>1. QuorumInvariant => VotedHaveCandidates
    BY DEF QuorumInvariant, Sound, VotedHaveCandidates
  <1> QED
    BY <1>1, Inductive, PTL

(* An orphan vote is always among the votes, and times out no later.            *)
THEOREM OrphansStayVotes == Spec => []OrphansAreVotes
  <1>1. QuorumInvariant => OrphansAreVotes
    BY DEF QuorumInvariant, Sound, OrphansAreVotes
  <1> QED
    BY <1>1, Inductive, PTL

(* A completed lock is never taken back while the quorums stay the same.        *)
THEOREM LocksStay == Spec => LocksArePermanent
  <1>1. QuorumInvariant /\ [Next]_vars =>
            [\A o \in DOMAIN instantsend.mapLockedOutpoints :
                LockedBy(instantsend', o, instantsend.mapLockedOutpoints[o])]_vars
    BY InductiveStep DEF Grows
  <1> QED
    BY <1>1, Inductive, PTL DEF Spec, LocksArePermanent

(* A transaction with an attacked outpoint that holds no lock never gets one:   *)
(* marks are not cleared while the candidate lives, no candidate is dropped     *)
(* while nothing is mined, and TryToFinalizeLockCandidate asks for outpoints    *)
(* that are all free of marks.                                                  *)
THEOREM AttackedStayIncomplete == Spec => AttackedNeverCompletes
  <1>1. QuorumInvariant /\ [Next]_vars =>
            [\A tx \in Txs : Attacked(instantsend, tx) /\ ~Holds(instantsend, tx)
                  => ~Holds(instantsend', tx)]_vars
    <2>1. ASSUME QuorumInvariant, Next, NEW tx \in Txs, Attacked(instantsend, tx),
                 ~Holds(instantsend, tx), Holds(instantsend', tx)
          PROVE  FALSE
      <3>1. Spares(instantsend, instantsend')
        BY <2>1, InductiveStep DEF Grows
      <3>2. PICK o \in DOMAIN instantsend'.mapLockedOutpoints : instantsend'.mapLockedOutpoints[o] = tx
        BY ZenonT(30), <2>1 DEF Holds
      <3>3. LockedBy(instantsend, o, tx)
        BY ZenonT(30), <2>1, <3>1, <3>2 DEF Spares
      <3> QED
        BY ZenonT(30), <2>1, <3>3 DEF Holds, LockedBy
    <2> QED
      BY <2>1
  <1> QED
    BY <1>1, Inductive, PTL DEF Spec, AttackedNeverCompletes

(* A step of the next-state relation signs votes for one transaction at most, and   *)
(* only for outpoints for which the node has no vote counted.                        *)
LEMMA NewVotesStep ==
    ASSUME QuorumInvariant, [Next]_vars
    PROVE  \/ relayed' = relayed
           \/ \E tx \in Txs, a \in {AcceptLockRequest(
                                      ProcessTxLockRequest(instantsend, t, mempool), t) : t \in Txs} :
                 /\ Sound(a) /\ Grows(instantsend, a)
                 /\ relayed' = relayed \cup MyVotes(a, tx)
  <1>1. CASE \E tx \in Txs : ReceiveTxLockRequest(tx) \/ ReceiveTx(tx)
    <2>1. PICK tx \in Txs : ReceiveTxLockRequest(tx) \/ ReceiveTx(tx)
      BY <1>1
    <2> DEFINE s == ProcessTxLockRequest(instantsend, tx, mempool)
               a == AcceptLockRequest(s, tx)
    <2>2. relayed' = relayed \/ relayed' = relayed \cup MyVotes(a, tx)
      BY <2>1, ZenonT(30) DEF ReceiveTxLockRequest, ReceiveTx
    <2>3. Sound(s) /\ Grows(instantsend, s)
      BY ProcessRequestSound DEF QuorumInvariant, TypeOK, MempoolRespectsLocks
    <2>4. a \in {AcceptLockRequest(
                   ProcessTxLockRequest(instantsend, t, mempool), t) : t \in Txs}
      OBVIOUS
    <2> HIDE DEF s
    <2>5. Sound(a) /\ Grows(instantsend, a)
      BY <2>3, AcceptSound, GrowsTransitive
    <2> HIDE DEF a
    <2> QED
      BY <2>2, <2>4, <2>5
  <1>2. CASE ~ \E tx \in Txs : ReceiveTxLockRequest(tx) \/ ReceiveTx(tx)
    <2>1. relayed' = relayed
      BY <1>2, ZenonT(60)
         DEF Next, Handlers, Blocks, vars, RelayWalletTransaction, SendRawTransaction,
             ExpireFromMempool, TrimToSize, ReceiveTxLockVote, Maintenance, Tick, CheckBlock,
             ConnectTip, UpdatedBlockTip, SporkUpdate, MasternodeSyncChange
    <2> QED
      BY <2>1
  <1> QED
    BY <1>1, <1>2

(* A masternode that runs on never signs votes that give one outpoint to two       *)
(* transactions, whatever requests, votes, timeouts and sporks come (Vote: "refuse *)
(* to vote twice or to include the same outpoint in another tx"): the votes it has *)
(* sent are still counted, and Vote finds them through mapVotedOutpoints.          *)
THEOREM OwnVotesStayExclusive == Spec => []OwnVotesExclusive
  <1>1. Init => OwnVotesExclusive
    BY DEF Init, OwnVotesExclusive
  <1>2. QuorumInvariant /\ OwnVotesExclusive /\ [Next]_vars => OwnVotesExclusive'
    <2> SUFFICES ASSUME QuorumInvariant, OwnVotesExclusive, [Next]_vars
                 PROVE  OwnVotesExclusive'
      OBVIOUS
    <2>1. CASE relayed' = relayed
      BY <2>1 DEF OwnVotesExclusive
    <2>2. ASSUME NEW tx \in Txs, NEW a, Sound(a), Grows(instantsend, a),
                 relayed' = relayed \cup MyVotes(a, tx)
          PROVE  OwnVotesExclusive'
      <3>1. \A v \in MyVotes(a, tx) :
               /\ v.tx = tx
               /\ \A h \in VotedFor(a, v.outpoint) : ~HasMasternodeVoted(a, h, v.outpoint, Me)
        <4> SUFFICES ASSUME NEW v \in MyVotes(a, tx)
                     PROVE  /\ v.tx = tx
                            /\ \A h \in VotedFor(a, v.outpoint) :
                                   ~HasMasternodeVoted(a, h, v.outpoint, Me)
          OBVIOUS
        <4>1. PICK o \in MyOutpoints(a, tx) : v = [tx |-> tx, outpoint |-> o, mn |-> Me]
          BY Zenon DEF MyVotes
        <4>2. v.tx = tx /\ v.outpoint = o
          BY <4>1
        <4> QED
          BY Zenon, <4>2 DEF MyOutpoints
      <3>2. \A v \in relayed : /\ v.tx \in Txs /\ v.outpoint \in Outpoints /\ Me \in Masternodes
                               /\ HasMasternodeVoted(instantsend, v.tx, v.outpoint, Me)
        BY DEF QuorumInvariant, TypeOK, OwnVotesKept, Vote
      <3>3. \A v \in relayed : HasMasternodeVoted(a, v.tx, v.outpoint, Me)
        BY <2>2, <3>2 DEF Grows
      <3>4. \A v \in relayed : v.tx \in VotedFor(a, v.outpoint)
        BY Zenon, <2>2, <3>3 DEF Sound, VotesRecorded, HasMasternodeVoted, LockVotes
      <3>5. \A v \in relayed, w \in MyVotes(a, tx) : v.outpoint # w.outpoint
        BY <3>1, <3>3, <3>4
      <3> QED
        BY <2>2, <3>1, <3>5 DEF OwnVotesExclusive
    <2> QED
      BY <2>1, <2>2, NewVotesStep
  <1> QED
    BY <1>1, <1>2, Inductive, PTL DEF Spec

--------------------------------------------------------------------------------
(* A node that starts again has forgotten votes, candidates and locks, and may  *)
(* still have its mempool: NodeInvariant holds again.                           *)
LEMMA RestartStep ==
    ASSUME NodeInvariant, Restart
    PROVE  NodeInvariant'
  <1>1. /\ instantsend' = NewInstantSend(height)
        /\ mempool' \in {mempool, {}} /\ checkedBlocks' = {}
        /\ height' = height /\ minedAt' = minedAt /\ mnList' = mnList
        /\ listSynced' = listSynced /\ sporks' = sporks /\ relayed' = relayed
    BY DEF Restart
  <1>2. TypeOK /\ height \in Nat /\ mempool \subseteq Txs
    BY DEF NodeInvariant, TypeOK
  <1>3. Sound(instantsend') /\ DOMAIN instantsend'.mapLockedOutpoints = {}
    BY <1>1, <1>2, NewSound
  <1>4. MempoolRespectsLocks'
    BY <1>3 DEF MempoolRespectsLocks, RespectsLocks, LockedByAnother
  <1>5. TypeOK'
    BY <1>1, <1>2, <1>3 DEF TypeOK, Sound
  <1> QED
    BY <1>1, <1>3, <1>4, <1>5 DEF NodeInvariant

(* Wherever a node stops and starts again, the invariant of a node holds.       *)
THEOREM RestartInductive == SpecRestart => []NodeInvariant
  <1>1. Init => NodeInvariant
    BY InitialStates DEF QuorumInvariant, NodeInvariant
  <1>2. NodeInvariant /\ [Next \/ Restart]_vars => NodeInvariant'
    BY NodeStep, RestartStep
  <1> QED
    BY <1>1, <1>2, PTL DEF SpecRestart

(* Two transactions that spend one outpoint are never both ready to be locked,  *)
(* also when votes counted before a stop arrive again in another order.         *)
THEOREM QuorumsAreExclusiveAgain == SpecRestart => []ExclusiveQuorums
  BY ReadyAreExclusive, RestartInductive, PTL

(* The mempool that a node reloads never spends an outpoint that it locks for   *)
(* another transaction.                                                         *)
THEOREM MempoolStaysWithLocksAgain == SpecRestart => []MempoolRespectsLocks
  <1>1. NodeInvariant => MempoolRespectsLocks
    BY DEF NodeInvariant
  <1> QED
    BY <1>1, RestartInductive, PTL

--------------------------------------------------------------------------------
(* What stays true when the masternode list changes and conflicting requests    *)
(* reach their quorums: a candidate marked as expired does not outlive the      *)
(* method that marks it.                                                        *)
IsRecord(c) ==
    c = [txLockRequest |-> c.txLockRequest, mapOutPointLocks |-> c.mapOutPointLocks,
         nConfirmedHeight |-> c.nConfirmedHeight, age |-> c.age]

(* The candidates of s, of which those of S are marked and the others are not.  *)
MarkedIn(s, S) ==
    /\ HasFields(s)
    /\ s.mapTxLockCandidates = [tx \in Candidates(s) |-> s.mapTxLockCandidates[tx]]
    /\ \A tx \in Candidates(s) :
          /\ IsRecord(s.mapTxLockCandidates[tx])
          /\ s.mapTxLockCandidates[tx].nConfirmedHeight = IF tx \in S THEN 0 ELSE -1
    /\ s.nCachedBlockHeight \in Nat
    /\ s.nCachedBlockHeight > nInstantSendKeepLock

Fresh(s) == MarkedIn(s, {})

Seen(s) == s.mapLockRequestAccepted \cup s.mapLockRequestRejected

(* r is left with no candidate marked, and with the requests seen in s.         *)
Recalls(s, r) == Fresh(r) /\ Seen(s) \subseteq Seen(r)

(* For the sequences of methods that a handler calls.                           *)
LEMMA RecallsTransitive ==
    ASSUME NEW s, NEW r, NEW q, Recalls(s, r), Recalls(r, q)
    PROVE  Recalls(s, q)
  BY DEF Recalls

(* A method that leaves the candidates alone and forgets no request.            *)
LEMMA SameFresh ==
    ASSUME NEW s, Fresh(s), NEW r, HasFields(r),
           r.mapTxLockCandidates = s.mapTxLockCandidates,
           r.nCachedBlockHeight \in Nat, r.nCachedBlockHeight >= s.nCachedBlockHeight,
           Seen(s) \subseteq Seen(r)
    PROVE  Recalls(s, r)
  <1>1. r.nCachedBlockHeight > nInstantSendKeepLock
    BY ParameterAssumption DEF Fresh, MarkedIn
  <1> QED
    BY <1>1 DEF Recalls, Fresh, MarkedIn, Candidates

(* A candidate that is stored without a mark.                                   *)
LEMMA PutFresh ==
    ASSUME NEW s, Fresh(s), NEW tx, NEW c, IsRecord(c), c.nConfirmedHeight = -1
    PROVE  Recalls(s, PutCandidate(s, tx, c))
  <1> DEFINE r == PutCandidate(s, tx, c)
             C == s.mapTxLockCandidates
             D == Put(C, tx, c)
  <1>1. /\ HasFields(r) /\ r.mapTxLockCandidates = D
        /\ r.nCachedBlockHeight = s.nCachedBlockHeight /\ Seen(r) = Seen(s)
    BY DEF PutCandidate, Fresh, MarkedIn, HasFields, Seen
  <1>2. /\ DOMAIN D = Candidates(s) \cup {tx}
        /\ D = [t \in DOMAIN D |-> D[t]]
        /\ D[tx] = c
        /\ \A t \in Candidates(s) : t # tx => D[t] = C[t]
    BY ZenonT(30) DEF Put, Candidates
  <1> HIDE DEF r, D
  <1>3. \A t \in DOMAIN D : IsRecord(D[t]) /\ D[t].nConfirmedHeight = -1
    BY <1>2 DEF Fresh, MarkedIn
  <1>4. Fresh(r)
    BY <1>1, <1>2, <1>3 DEF Fresh, MarkedIn, Candidates
  <1> QED
    BY <1>1, <1>4 DEF Recalls, r

(* SetConfirmedHeight(0), if the candidate is there.                            *)
SetExpired(s, h) == [s EXCEPT !.mapTxLockCandidates[h].nConfirmedHeight = 0]

(* CheckAndRemove may mark one candidate more.                                  *)
LEMMA MarkOneMore ==
    ASSUME NEW s, NEW S, MarkedIn(s, S), NEW h
    PROVE  MarkedIn(SetExpired(s, h), S \cup {h}) /\ Seen(SetExpired(s, h)) = Seen(s)
  <1> DEFINE r == SetExpired(s, h)
             C == s.mapTxLockCandidates
             D == [C EXCEPT ![h].nConfirmedHeight = 0]
  <1>1. /\ HasFields(r) /\ r.mapTxLockCandidates = D
        /\ r.nCachedBlockHeight = s.nCachedBlockHeight /\ Seen(r) = Seen(s)
    <2>1. r = [s EXCEPT !.mapTxLockCandidates = D]
      BY DEF SetExpired
    <2> HIDE DEF r, D
    <2>2. HasFields(s)
      BY DEF MarkedIn
    <2>3. /\ HasFields(r)
          /\ r.mapTxLockCandidates = D
          /\ r.nCachedBlockHeight = s.nCachedBlockHeight
          /\ r.mapLockRequestAccepted = s.mapLockRequestAccepted
          /\ r.mapLockRequestRejected = s.mapLockRequestRejected
      BY <2>1, <2>2 DEF HasFields
    <2> QED
      BY <2>3 DEF Seen
  <1>2. /\ DOMAIN D = DOMAIN C
        /\ D = [t \in DOMAIN D |-> D[t]]
        /\ \A t \in DOMAIN C : t # h => D[t] = C[t]
        /\ h \in DOMAIN C => D[h] = [C[h] EXCEPT !.nConfirmedHeight = 0]
    BY DEF MarkedIn, Candidates
  <1> HIDE DEF r, D
  <1>3. ASSUME NEW t \in DOMAIN C
        PROVE  IsRecord(D[t]) /\ D[t].nConfirmedHeight = IF t \in S \cup {h} THEN 0 ELSE -1
    <2>1. IsRecord(C[t]) /\ C[t].nConfirmedHeight = IF t \in S THEN 0 ELSE -1
      BY DEF MarkedIn, Candidates
    <2>2. CASE t = h
      <3>1. D[t] = [txLockRequest |-> C[t].txLockRequest, mapOutPointLocks |-> C[t].mapOutPointLocks,
                    nConfirmedHeight |-> 0, age |-> C[t].age]
        BY <1>2, <2>1, <2>2 DEF IsRecord
      <3> QED
        BY <2>2, <3>1 DEF IsRecord
    <2>3. CASE t # h
      BY <1>2, <2>1, <2>3
    <2> QED
      BY <2>2, <2>3
  <1>4. Candidates(r) = DOMAIN C /\ Candidates(s) = DOMAIN C
    BY <1>1, <1>2 DEF Candidates
  <1>5. r.nCachedBlockHeight \in Nat /\ r.nCachedBlockHeight > nInstantSendKeepLock
    BY <1>1 DEF MarkedIn
  <1>6. MarkedIn(r, S \cup {h})
    <2>1. r.mapTxLockCandidates = [t \in Candidates(r) |-> r.mapTxLockCandidates[t]]
      BY ZenonT(30), <1>1, <1>2, <1>4
    <2>2. \A t \in Candidates(r) :
              /\ IsRecord(r.mapTxLockCandidates[t])
              /\ r.mapTxLockCandidates[t].nConfirmedHeight = IF t \in S \cup {h} THEN 0 ELSE -1
      BY ZenonT(30), <1>1, <1>3, <1>4
    <2> QED
      BY ZenonT(30), <1>1, <1>5, <2>1, <2>2 DEF MarkedIn
  <1> QED
    BY <1>1, <1>6 DEF r

(* CheckAndRemove drops what is marked, and the requests seen with it.          *)
LEMMA CheckAndRemoveFresh ==
    ASSUME listSynced, NEW s, NEW S, MarkedIn(s, S)
    PROVE  LET r == CheckAndRemove(s)
           IN  Fresh(r) /\ Seen(s) \ S \subseteq Seen(r)
  <1> DEFINE C == s.mapTxLockCandidates
             expired == {tx \in Candidates(s) : IsExpired(s, C[tx])}
             requests == {tx \in expired : C[tx].txLockRequest = "known"}
             D == Erase(C, expired)
             outpoints == UNION {DOMAIN Locks(s, tx) : tx \in expired}
             orphans == {v \in DOMAIN s.mapTxLockVotesOrphan :
                             IsTimedOut(s.mapTxLockVotesOrphan[v])}
             old == {v \in DOMAIN s.mapTxLockVotes : IsExpired(s, s.mapTxLockVotes[v])}
             s1 == [nCachedBlockHeight |-> s.nCachedBlockHeight,
                    mapLockRequestAccepted |-> s.mapLockRequestAccepted \ requests,
                    mapLockRequestRejected |-> s.mapLockRequestRejected \ requests,
                    mapTxLockVotes |-> Erase(s.mapTxLockVotes, old \cup orphans),
                    mapTxLockVotesOrphan |-> Erase(s.mapTxLockVotesOrphan, orphans),
                    mapTxLockCandidates |-> D,
                    mapVotedOutpoints |-> Erase(s.mapVotedOutpoints, outpoints),
                    mapLockedOutpoints |-> Erase(s.mapLockedOutpoints, outpoints)]
             failed == {v \in DOMAIN s1.mapTxLockVotes : IsFailed(s1, v)}
             r == CheckAndRemove(s)
  <1>1. /\ HasFields(r)
        /\ r.mapTxLockCandidates = D
        /\ r.nCachedBlockHeight = s.nCachedBlockHeight
        /\ r.mapLockRequestAccepted = s.mapLockRequestAccepted \ requests
        /\ r.mapLockRequestRejected = s.mapLockRequestRejected \ requests
    <2>1. r = [s1 EXCEPT !.mapTxLockVotes = Erase(s1.mapTxLockVotes, failed)]
      BY DEF CheckAndRemove
    <2> HIDE DEF expired, orphans, old, requests, outpoints, failed, D, r
    <2> QED
      BY <2>1 DEF HasFields
  <1>2. expired = Candidates(s) \cap S
    BY ParameterAssumption DEF MarkedIn, IsExpired
  <1>3. /\ DOMAIN D = Candidates(s) \ S
        /\ D = [t \in DOMAIN D |-> D[t]]
        /\ \A t \in DOMAIN D : D[t] = C[t]
    BY ZenonT(30), <1>2 DEF Erase, Candidates
  <1>4. requests \subseteq S
    BY <1>2
  <1> HIDE DEF r, D, requests, expired
  <1>5. \A t \in DOMAIN D : IsRecord(D[t]) /\ D[t].nConfirmedHeight = -1
    BY <1>3 DEF MarkedIn
  <1>6. Fresh(r)
    BY <1>1, <1>3, <1>5 DEF Fresh, MarkedIn, Candidates
  <1>7. Seen(s) \ S \subseteq Seen(r)
    BY <1>1, <1>4 DEF Seen
  <1> QED
    BY <1>6, <1>7 DEF r

(* Votes leave marks in mapVotedOutpoints.                                      *)
LEMMA MarkVotedFresh ==
    ASSUME NEW s, Fresh(s), NEW S, NEW tx
    PROVE  Recalls(s, MarkVoted(s, S, tx))
  <1> DEFINE r == MarkVoted(s, S, tx)
  <1>1. s.nCachedBlockHeight \in Nat /\ HasFields(s)
    BY DEF Fresh, MarkedIn
  <1>2. /\ HasFields(r) /\ r.mapTxLockCandidates = s.mapTxLockCandidates
        /\ r.nCachedBlockHeight = s.nCachedBlockHeight /\ Seen(r) = Seen(s)
    BY <1>1 DEF MarkVoted, HasFields, Seen
  <1> HIDE DEF r
  <1>3. Recalls(s, r)
    BY <1>1, <1>2, SameFresh
  <1> QED
    BY <1>3 DEF r

(* Votes are recorded in mapTxLockVotes.                                        *)
LEMMA RecordVotesFresh ==
    ASSUME NEW s, Fresh(s), NEW V
    PROVE  Recalls(s, RecordVotes(s, V))
  <1> DEFINE r == RecordVotes(s, V)
  <1>1. s.nCachedBlockHeight \in Nat /\ HasFields(s)
    BY DEF Fresh, MarkedIn
  <1>2. /\ HasFields(r) /\ r.mapTxLockCandidates = s.mapTxLockCandidates
        /\ r.nCachedBlockHeight = s.nCachedBlockHeight /\ Seen(r) = Seen(s)
    BY <1>1 DEF RecordVotes, HasFields, Seen
  <1> HIDE DEF r
  <1>3. Recalls(s, r)
    BY <1>1, <1>2, SameFresh
  <1> QED
    BY <1>3 DEF r

(* Votes wait in mapTxLockVotesOrphan.                                          *)
LEMMA OrphansFresh ==
    ASSUME NEW s, Fresh(s), NEW F
    PROVE  Recalls(s, [s EXCEPT !.mapTxLockVotesOrphan = F])
  <1> DEFINE r == [s EXCEPT !.mapTxLockVotesOrphan = F]
  <1>1. s.nCachedBlockHeight \in Nat /\ HasFields(s)
    BY DEF Fresh, MarkedIn
  <1>2. /\ HasFields(r) /\ r.mapTxLockCandidates = s.mapTxLockCandidates
        /\ r.nCachedBlockHeight = s.nCachedBlockHeight /\ Seen(r) = Seen(s)
    BY <1>1 DEF HasFields, Seen
  <1> HIDE DEF r
  <1>3. Recalls(s, r)
    BY <1>1, <1>2, SameFresh
  <1> QED
    BY <1>3 DEF r

(* A request that is accepted or rejected is seen.                              *)
LEMMA AnswerFresh ==
    ASSUME NEW s, Fresh(s), NEW tx,
           NEW r, r = AcceptLockRequest(s, tx) \/ r = RejectLockRequest(s, tx)
    PROVE  Recalls(s, r) /\ tx \in Seen(r)
  <1>1. s.nCachedBlockHeight \in Nat /\ HasFields(s)
    BY DEF Fresh, MarkedIn
  <1>2. /\ HasFields(r) /\ r.mapTxLockCandidates = s.mapTxLockCandidates
        /\ r.nCachedBlockHeight = s.nCachedBlockHeight
        /\ \/ /\ r.mapLockRequestAccepted = s.mapLockRequestAccepted \cup {tx}
              /\ r.mapLockRequestRejected = s.mapLockRequestRejected
           \/ /\ r.mapLockRequestAccepted = s.mapLockRequestAccepted
              /\ r.mapLockRequestRejected = s.mapLockRequestRejected \cup {tx}
    BY <1>1 DEF AcceptLockRequest, RejectLockRequest, HasFields
  <1>3. Seen(r) = Seen(s) \cup {tx}
    BY <1>2 DEF Seen
  <1> QED
    BY <1>1, <1>2, <1>3, SameFresh

(* ResolveConflicts drops both transactions and remembers both requests.        *)
LEMMA DropBothFresh ==
    ASSUME listSynced, NEW s, Fresh(s), NEW tx, NEW other
    PROVE  Recalls(s, DropBoth(s, tx, other))
  <1> DEFINE p == SetExpired(s, tx)
             q == SetExpired(p, other)
             c == CheckAndRemove(q)
             d == RejectLockRequest(c, tx)
             r == RejectLockRequest(d, other)
             S == {} \cup {tx}
             T == S \cup {other}
  <1>1. r = DropBoth(s, tx, other)
    BY DEF DropBoth, SetExpired
  <1>2. MarkedIn(p, S) /\ Seen(p) = Seen(s)
    BY MarkOneMore DEF Fresh
  <1> HIDE DEF p, S
  <1>3. MarkedIn(q, T) /\ Seen(q) = Seen(p)
    BY <1>2, MarkOneMore
  <1> HIDE DEF q, T
  <1>4. T = {tx, other}
    BY DEF S, T
  <1>5. Fresh(c) /\ Seen(q) \ T \subseteq Seen(c)
    BY <1>3, CheckAndRemoveFresh
  <1> HIDE DEF c
  <1>6. Recalls(c, d) /\ tx \in Seen(d) /\ Fresh(d)
    BY <1>5, AnswerFresh DEF Recalls
  <1> HIDE DEF d
  <1>7. Recalls(d, r) /\ other \in Seen(r)
    BY <1>6, AnswerFresh
  <1> HIDE DEF r
  <1> QED
    BY <1>1, <1>2, <1>3, <1>4, <1>5, <1>6, <1>7 DEF Recalls

(* TryToFinalizeLockCandidate, with two completed locks that conflict or without*)
LEMMA FinalizeFresh ==
    ASSUME listSynced, NEW s, Fresh(s), NEW tx, NEW pool
    PROVE  Recalls(s, TryToFinalizeLockCandidate(s, tx, pool))
  <1> DEFINE r == TryToFinalizeLockCandidate(s, tx, pool)
             other == CHOOSE t \in CompletedRivals(s, tx, pool) : TRUE
  <1>1. r = s \/ r = LockTransactionInputs(s, tx) \/ r = DropBoth(s, tx, other)
    BY ZenonT(30) DEF TryToFinalizeLockCandidate
  <1> HIDE DEF r, other
  <1>2. CASE r = s
    BY <1>2 DEF r, Recalls
  <1>3. CASE r = LockTransactionInputs(s, tx)
    <2>1. /\ HasFields(r) /\ r.mapTxLockCandidates = s.mapTxLockCandidates
          /\ r.nCachedBlockHeight = s.nCachedBlockHeight /\ Seen(r) = Seen(s)
      BY <1>3 DEF LockTransactionInputs, Fresh, MarkedIn, HasFields, Seen
    <2>2. s.nCachedBlockHeight \in Nat
      BY DEF Fresh, MarkedIn
    <2> QED
      BY <2>1, <2>2, SameFresh DEF r
  <1>4. CASE r = DropBoth(s, tx, other)
    BY <1>4, DropBothFresh DEF r
  <1> QED
    BY <1>1, <1>2, <1>3, <1>4

(* Candidates are created without a mark.                                       *)
LEMMA NewFresh ==
    ASSUME NEW s, Fresh(s), NEW tx, NEW q, NEW S, NEW age
    PROVE  Recalls(s, PutCandidate(s, tx, Candidate(q, S, -1, age)))
  <1> DEFINE c == Candidate(q, S, -1, age)
  <1>1. IsRecord(c) /\ c.nConfirmedHeight = -1
    BY DEF Candidate, IsRecord
  <1> HIDE DEF c
  <1>2. Recalls(s, PutCandidate(s, tx, c))
    BY <1>1, PutFresh, Zenon
  <1> QED
    BY <1>2 DEF c

(* CreateTxLockCandidate and CreateEmptyTxLockCandidate.                        *)
LEMMA CreateFresh ==
    ASSUME NEW s, Fresh(s), NEW tx
    PROVE  /\ Recalls(s, CreateTxLockCandidate(s, tx))
           /\ Recalls(s, CreateEmptyTxLockCandidate(s, tx))
  <1> DEFINE c == s.mapTxLockCandidates[tx]
             S == IF IsTimedOut(c) THEN {} ELSE Inputs(tx)
             r == CreateTxLockCandidate(s, tx)
             e == CreateEmptyTxLockCandidate(s, tx)
  <1>1. Recalls(s, s)
    BY DEF Recalls
  <1>2. tx \in Candidates(s) => c.nConfirmedHeight = -1
    BY DEF Fresh, MarkedIn
  <1>3. \/ r = s
        \/ r = PutCandidate(s, tx, Candidate("known", Inputs(tx), -1, 0))
        \/ /\ r = PutCandidate(s, tx, Candidate("known", S, c.nConfirmedHeight, c.age))
           /\ tx \in Candidates(s)
    BY ZenonT(30) DEF CreateTxLockCandidate, NewCandidate, HasEmptyCandidate
  <1>4. e = s \/ e = PutCandidate(s, tx, Candidate("null", {}, -1, 0))
    BY ZenonT(30) DEF CreateEmptyTxLockCandidate, NewCandidate
  <1> HIDE DEF S, r, e, c
  <1>5. Recalls(s, r)
    BY <1>1, <1>2, <1>3, NewFresh
  <1>6. Recalls(s, e)
    BY <1>1, <1>4, NewFresh
  <1> QED
    BY <1>5, <1>6 DEF r, e

(* ProcessTxLockRequest.                                                        *)
LEMMA ProcessRequestFresh ==
    ASSUME listSynced, NEW s, Fresh(s), NEW tx, NEW pool
    PROVE  Recalls(s, ProcessTxLockRequest(s, tx, pool))
  <1> DEFINE q == CreateTxLockCandidate(s, tx)
  <1>1. Recalls(s, q) /\ Fresh(q)
    BY CreateFresh DEF Recalls
  <1> HIDE DEF q
  <1>2. Recalls(s, TryToFinalizeLockCandidate(q, tx, pool))
    BY <1>1, FinalizeFresh, RecallsTransitive
  <1> QED
    BY <1>1, <1>2 DEF ProcessTxLockRequest, q

(* MarkOutpointAsAttacked changes no height.                                    *)
LEMMA MarkAttackedFresh ==
    ASSUME NEW s, Fresh(s), NEW o, NEW S
    PROVE  Recalls(s, MarkAttacked(s, o, S)) /\ Candidates(MarkAttacked(s, o, S)) = Candidates(s)
  <1> DEFINE r == MarkAttacked(s, o, S)
             C == s.mapTxLockCandidates
             D == [tx \in DOMAIN C |-> IF tx \in S THEN MarkOutpointAsAttacked(C[tx], o) ELSE C[tx]]
  <1>1. r = [s EXCEPT !.mapTxLockCandidates = D]
    BY DEF MarkAttacked
  <1>2. ASSUME NEW t \in Candidates(s)
        PROVE  IsRecord(D[t]) /\ D[t].nConfirmedHeight = -1
    <2>1. IsRecord(C[t]) /\ C[t].nConfirmedHeight = -1
      BY DEF Fresh, MarkedIn
    <2> DEFINE L == [C[t].mapOutPointLocks EXCEPT ![o].fAttacked = TRUE]
               e == [C[t] EXCEPT !.mapOutPointLocks = L]
    <2>2. D[t] = C[t] \/ D[t] = e
      BY ZenonT(30) DEF Candidates, MarkOutpointAsAttacked
    <2> HIDE DEF L, D
    <2>3. IsRecord(e) /\ e.nConfirmedHeight = -1
      BY <2>1 DEF IsRecord
    <2> HIDE DEF e
    <2> QED
      BY ZenonT(30), <2>1, <2>2, <2>3
  <1>3. DOMAIN D = Candidates(s) /\ D = [t \in Candidates(s) |-> D[t]]
    BY DEF Candidates
  <1> HIDE DEF r, D
  <1>4. s.nCachedBlockHeight \in Nat /\ s.nCachedBlockHeight > nInstantSendKeepLock /\ HasFields(s)
    BY DEF Fresh, MarkedIn
  <1>5. /\ HasFields(r) /\ r.mapTxLockCandidates = D
        /\ r.nCachedBlockHeight = s.nCachedBlockHeight /\ Seen(r) = Seen(s)
    BY <1>1, <1>4 DEF HasFields, Seen
  <1>6. Candidates(r) = Candidates(s)
    BY <1>3, <1>5 DEF Candidates
  <1>7. Fresh(r)
    BY <1>2, <1>3, <1>4, <1>5, <1>6 DEF Fresh, MarkedIn
  <1> QED
    BY <1>5, <1>6, <1>7 DEF Recalls, r

(* Neither does AddVote.                                                        *)
LEMMA CastVotesFresh ==
    ASSUME NEW s, Fresh(s), NEW tx \in Candidates(s), NEW S, NEW mn
    PROVE  Recalls(s, CastVotes(s, tx, S, mn))
  <1> DEFINE c == s.mapTxLockCandidates[tx]
             d == AddVotes(c, S, mn)
             L == [o \in DOMAIN c.mapOutPointLocks |->
                      IF o \in S
                        THEN [c.mapOutPointLocks[o] EXCEPT
                                 !.mapMasternodeVotes = c.mapOutPointLocks[o].mapMasternodeVotes \cup {mn}]
                        ELSE c.mapOutPointLocks[o]]
  <1>1. IsRecord(c) /\ c.nConfirmedHeight = -1
    BY DEF Fresh, MarkedIn
  <1>2. d = [c EXCEPT !.mapOutPointLocks = L]
    BY DEF AddVotes
  <1> HIDE DEF c, d, L
  <1>3. IsRecord(d) /\ d.nConfirmedHeight = -1
    BY <1>1, <1>2 DEF IsRecord
  <1>4. Recalls(s, PutCandidate(s, tx, d))
    BY <1>3, PutFresh
  <1> QED
    BY <1>4 DEF CastVotes, c, d

(* Vote, with the votes recorded and the lock completed.                        *)
LEMMA VoteForFresh ==
    ASSUME listSynced, NEW s, Fresh(s), NEW tx, NEW pool
    PROVE  Recalls(s, VoteFor(s, tx, pool))
  <1>1. CASE tx \notin Candidates(s)
    BY <1>1 DEF VoteFor, Recalls
  <1>2. CASE tx \in Candidates(s)
    <2> DEFINE mine == MyOutpoints(s, tx)
               q == MarkVoted(s, mine, tx)
               p == CastVotes(q, tx, mine, Me)
               w == RecordVotes(p, MyVotes(s, tx))
               a == AddMyVotes(s, tx)
    <2>1. a = s \/ a = w
      BY DEF AddMyVotes
    <2>2. Recalls(s, q) /\ Fresh(q)
      BY MarkVotedFresh DEF Recalls
    <2>3. tx \in Candidates(q)
      BY <1>2 DEF MarkVoted, Candidates, Fresh, MarkedIn, HasFields
    <2> HIDE DEF q, a, mine
    <2>4. Recalls(q, p) /\ Fresh(p)
      BY <2>2, <2>3, CastVotesFresh DEF Recalls
    <2> HIDE DEF p
    <2>5. Recalls(p, w)
      BY <2>4, RecordVotesFresh
    <2> HIDE DEF w
    <2>6. Recalls(s, a) /\ Fresh(a)
      BY <2>1, <2>2, <2>4, <2>5 DEF Recalls
    <2>7. Recalls(s, TryToFinalizeLockCandidate(a, tx, pool))
      BY <2>6, FinalizeFresh, RecallsTransitive
    <2> QED
      BY <1>2, <2>7 DEF VoteFor, a
  <1> QED
    BY <1>1, <1>2

(* CountVote.                                                                   *)
LEMMA CountVoteFresh ==
    ASSUME listSynced, NEW s, Fresh(s), NEW v, v.tx \in Candidates(s), NEW pool
    PROVE  Recalls(s, CountVote(s, v, pool))
  <1> DEFINE R == Rivals(s, v)
             p == IF R = {} THEN s ELSE MarkAttacked(s, v.outpoint, R \cup {v.tx})
             q == MarkVoted(p, {v.outpoint}, v.tx)
             c == CastVotes(q, v.tx, {v.outpoint}, v.mn)
             r == CountVote(s, v, pool)
  <1>1. r = q \/ r = TryToFinalizeLockCandidate(c, v.tx, pool)
    BY ZenonT(30) DEF CountVote
  <1>2. Recalls(s, p) /\ Fresh(p) /\ v.tx \in Candidates(p)
    <2>1. CASE R = {}
      BY <2>1 DEF Recalls
    <2>2. CASE R # {}
      <3>1. p = MarkAttacked(s, v.outpoint, R \cup {v.tx})
        BY <2>2
      <3> HIDE DEF p, R
      <3> QED
        BY <3>1, MarkAttackedFresh DEF Recalls
    <2> QED
      BY <2>1, <2>2
  <1> HIDE DEF p, r
  <1>3. Recalls(p, q) /\ Fresh(q)
    BY <1>2, MarkVotedFresh DEF Recalls
  <1>4. v.tx \in Candidates(q)
    BY <1>2 DEF MarkVoted, Candidates, Fresh, MarkedIn, HasFields
  <1> HIDE DEF q
  <1>5. Recalls(q, c) /\ Fresh(c)
    BY <1>3, <1>4, CastVotesFresh DEF Recalls
  <1> HIDE DEF c
  <1>6. Recalls(c, TryToFinalizeLockCandidate(c, v.tx, pool))
    BY <1>5, FinalizeFresh
  <1> QED
    BY <1>1, <1>2, <1>3, <1>5, <1>6 DEF Recalls, r

(* ProcessTxLockVote: the vote is counted, or waits for its request.            *)
LEMMA ProcessVoteFresh ==
    ASSUME listSynced, NEW s, Fresh(s), NEW v, NEW pool
    PROVE  Recalls(s, ProcessTxLockVote(s, v, pool))
  <1> DEFINE q == CreateEmptyTxLockCandidate(s, v.tx)
             F == Put(q.mapTxLockVotesOrphan, v, NewVote)
             p == [q EXCEPT !.mapTxLockVotesOrphan = F]
             o == StoreOrphanVote(s, v, pool)
             r == ProcessTxLockVote(s, v, pool)
  <1>1. \/ r = s
        \/ r = o
        \/ r = CountVote(s, v, pool) /\ v.tx \in Candidates(s)
    BY ZenonT(30) DEF ProcessTxLockVote
  <1>2. o = s \/ o = p \/ o = ProcessTxLockRequest(p, v.tx, pool)
    BY DEF StoreOrphanVote
  <1>3. Recalls(s, q) /\ Fresh(q)
    BY CreateFresh DEF Recalls
  <1> HIDE DEF q, o, r, F
  <1>4. Recalls(q, p) /\ Fresh(p)
    BY <1>3, OrphansFresh DEF Recalls
  <1> HIDE DEF p
  <1>5. Recalls(p, ProcessTxLockRequest(p, v.tx, pool))
    BY <1>4, ProcessRequestFresh
  <1>6. Recalls(s, s)
    BY DEF Recalls
  <1>7. Recalls(s, o)
    BY <1>2, <1>3, <1>4, <1>5, <1>6, RecallsTransitive
  <1>8. v.tx \in Candidates(s) => Recalls(s, CountVote(s, v, pool))
    BY CountVoteFresh
  <1> QED
    BY <1>1, <1>6, <1>7, <1>8 DEF r

(* The clock changes ages only.                                                 *)
LEMMA TickFresh ==
    ASSUME NEW s, Fresh(s),
           NEW r, r = [s EXCEPT !.mapTxLockCandidates = Older(@, LOCK_TIMEOUT),
                                !.mapTxLockVotes = Older(@, FAILED_TIMEOUT),
                                !.mapTxLockVotesOrphan = Older(@, LOCK_TIMEOUT)]
    PROVE  Recalls(s, r)
  <1> DEFINE C == s.mapTxLockCandidates
             D == Older(C, LOCK_TIMEOUT)
  <1>1. s.nCachedBlockHeight \in Nat /\ s.nCachedBlockHeight > nInstantSendKeepLock /\ HasFields(s)
    BY DEF Fresh, MarkedIn
  <1>2. /\ HasFields(r) /\ r.mapTxLockCandidates = D
        /\ r.nCachedBlockHeight = s.nCachedBlockHeight
        /\ r.mapLockRequestAccepted = s.mapLockRequestAccepted
        /\ r.mapLockRequestRejected = s.mapLockRequestRejected
    BY ZenonT(30), <1>1 DEF HasFields
  <1>3. DOMAIN D = DOMAIN C /\ D = [t \in DOMAIN C |-> D[t]]
    BY DEF Older
  <1>4. ASSUME NEW t \in DOMAIN C
        PROVE  IsRecord(D[t]) /\ D[t].nConfirmedHeight = -1
    <2> DEFINE a == IF C[t].age > LOCK_TIMEOUT THEN C[t].age ELSE C[t].age + 1
               e == [C[t] EXCEPT !.age = a]
    <2>1. IsRecord(C[t]) /\ C[t].nConfirmedHeight = -1
      BY DEF Fresh, MarkedIn, Candidates
    <2>2. D[t] = e
      BY DEF Older
    <2> HIDE DEF a, D
    <2>3. IsRecord(e) /\ e.nConfirmedHeight = -1
      BY <2>1 DEF IsRecord
    <2> HIDE DEF e
    <2> QED
      BY <2>2, <2>3
  <1> HIDE DEF D
  <1>5. Seen(r) = Seen(s)
    BY <1>2 DEF Seen
  <1>6. Candidates(r) = DOMAIN C
    BY <1>2, <1>3 DEF Candidates
  <1>7. r.mapTxLockCandidates = [t \in Candidates(r) |-> r.mapTxLockCandidates[t]]
    <2>1. r.mapTxLockCandidates = D /\ Candidates(r) = DOMAIN C /\ D = [t \in DOMAIN C |-> D[t]]
      BY <1>2, <1>3, <1>6
    <2> HIDE DEF C
    <2> QED
      BY Zenon, <2>1
  <1>8. \A t \in Candidates(r) : /\ IsRecord(r.mapTxLockCandidates[t])
                                 /\ r.mapTxLockCandidates[t].nConfirmedHeight = -1
    BY ZenonT(30), <1>2, <1>4, <1>6
  <1>9. r.nCachedBlockHeight \in Nat /\ r.nCachedBlockHeight > nInstantSendKeepLock
    BY <1>1, <1>2
  <1>10. Fresh(r)
    BY ZenonT(30), <1>2, <1>7, <1>8, <1>9 DEF Fresh, MarkedIn
  <1> QED
    BY <1>5, <1>10 DEF Recalls

(* No step leaves a mark behind or forgets a request, also one that changes the *)
(* masternode list.                                                             *)
LEMMA SeenStep ==
    ASSUME listSynced, Fresh(instantsend), [Next \/ MasternodeListChange]_vars
    PROVE  Recalls(instantsend, instantsend')
  <1>0. Recalls(instantsend, instantsend)
    BY DEF Recalls
  <1>1. ASSUME NEW tx \in Txs, ReceiveTxLockRequest(tx) \/ ReceiveTx(tx)
        PROVE  Recalls(instantsend, instantsend')
    <2> DEFINE s == ProcessTxLockRequest(instantsend, tx, mempool)
               a == AcceptLockRequest(s, tx)
               w == VoteFor(a, tx, AddToMempool(tx, mempool))
               d == RejectLockRequest(s, tx)
    <2>1. instantsend' \in {s, d, instantsend, w}
      BY ZenonT(30), <1>1 DEF ReceiveTxLockRequest, ReceiveTx
    <2>2. Recalls(instantsend, s) /\ Fresh(s)
      BY ProcessRequestFresh DEF Recalls
    <2> HIDE DEF s
    <2>3. Recalls(s, a) /\ Recalls(s, d)
      BY <2>2, AnswerFresh
    <2> HIDE DEF a, d
    <2>4. Recalls(a, w)
      BY <2>3, VoteForFresh DEF Recalls
    <2> HIDE DEF w
    <2> QED
      BY <1>0, <2>1, <2>2, <2>3, <2>4 DEF Recalls
  <1>2. ASSUME NEW tx \in Txs, RelayWalletTransaction(tx) \/ SendRawTransaction(tx)
        PROVE  Recalls(instantsend, instantsend')
    <2> DEFINE s == ProcessTxLockRequest(instantsend, tx, mempool')
               q == ProcessTxLockRequest(instantsend, tx, mempool)
    <2>1. \/ instantsend' = AcceptLockRequest(s, tx) \/ instantsend' = RejectLockRequest(s, tx)
          \/ instantsend' = q \/ instantsend' = instantsend
      BY ZenonT(30), <1>2 DEF RelayWalletTransaction, SendRawTransaction
    <2>2. Recalls(instantsend, s) /\ Fresh(s) /\ Recalls(instantsend, q)
      BY ProcessRequestFresh DEF Recalls
    <2> HIDE DEF s, q
    <2>3. CASE instantsend' = AcceptLockRequest(s, tx) \/ instantsend' = RejectLockRequest(s, tx)
      BY <2>2, <2>3, AnswerFresh, RecallsTransitive
    <2> QED
      BY <1>0, <2>1, <2>2, <2>3
  <1>3. ASSUME NEW v \in Vote, ReceiveTxLockVote(v)
        PROVE  Recalls(instantsend, instantsend')
    <2> DEFINE s == RecordVotes(instantsend, {v})
    <2>1. instantsend' = s \/ instantsend' = ProcessTxLockVote(s, v, mempool)
      BY <1>3 DEF ReceiveTxLockVote
    <2>2. Recalls(instantsend, s) /\ Fresh(s)
      BY RecordVotesFresh DEF Recalls
    <2> HIDE DEF s
    <2>3. Recalls(s, ProcessTxLockVote(s, v, mempool))
      BY <2>2, ProcessVoteFresh
    <2> QED
      BY <2>1, <2>2, <2>3, RecallsTransitive
  <1>4. CASE Maintenance
    <2>1. instantsend' = CheckAndRemove(instantsend) /\ MarkedIn(instantsend, {})
      BY <1>4 DEF Maintenance, Fresh
    <2> QED
      BY <2>1, CheckAndRemoveFresh DEF Recalls
  <1>5. CASE Tick
    BY ZenonT(30), <1>5, TickFresh DEF Tick
  <1>6. CASE UpdatedBlockTip
    <2>1. instantsend.nCachedBlockHeight \in Nat /\ HasFields(instantsend)
      BY DEF Fresh, MarkedIn
    <2>2. PICK h \in instantsend.nCachedBlockHeight + 1 .. height :
              instantsend' = [instantsend EXCEPT !.nCachedBlockHeight = h]
      BY <1>6 DEF UpdatedBlockTip
    <2>3. /\ HasFields(instantsend')
          /\ instantsend'.mapTxLockCandidates = instantsend.mapTxLockCandidates
          /\ instantsend'.nCachedBlockHeight = h
          /\ Seen(instantsend') = Seen(instantsend)
      BY <2>1, <2>2 DEF HasFields, Seen
    <2>4. h \in Nat /\ h >= instantsend.nCachedBlockHeight
      BY <2>1
    <2> QED
      BY <2>3, <2>4, SameFresh
  <1>7. CASE instantsend' = instantsend
    BY <1>0, <1>7
  <1>8. ASSUME NEW tx \in Txs, ExpireFromMempool(tx) \/ TrimToSize(tx)
        PROVE  instantsend' = instantsend
    BY <1>8 DEF ExpireFromMempool, TrimToSize
  <1>9. ASSUME NEW block \in SUBSET Txs, CheckBlock(block) \/ ConnectTip(block)
        PROVE  instantsend' = instantsend
    BY ZenonT(30), <1>9 DEF CheckBlock, ConnectTip
  <1>10. SporkUpdate \/ MasternodeSyncChange \/ MasternodeListChange \/ UNCHANGED vars
           => instantsend' = instantsend
    BY ZenonT(30) DEF SporkUpdate, MasternodeSyncChange, MasternodeListChange, vars
  <1>11. Handlers => Recalls(instantsend, instantsend')
    BY <1>1, <1>2, <1>3, <1>4, <1>5, <1>7, <1>8 DEF Handlers
  <1>12. Blocks => Recalls(instantsend, instantsend')
    BY <1>6, <1>7, <1>9 DEF Blocks
  <1> QED
    BY <1>7, <1>10, <1>11, <1>12 DEF Next

(* A node that starts on a high enough chain holds no candidate.                *)
LEMMA InitialFresh ==
    ASSUME NEW s, s = NewInstantSend(InitHeight), InitHeight > nInstantSendKeepLock
    PROVE  Fresh(s)
  <1>1. HasFields(s) /\ s.nCachedBlockHeight = InitHeight /\ s.mapTxLockCandidates = Empty
    BY ZenonT(30) DEF NewInstantSend, HasFields
  <1>2. DOMAIN Empty = {} /\ Empty = [j \in DOMAIN Empty |-> Empty[j]]
    BY DEF Empty
  <1>3. Candidates(s) = {}
    BY <1>1, <1>2 DEF Candidates
  <1>4. s.nCachedBlockHeight \in Nat /\ s.nCachedBlockHeight > nInstantSendKeepLock
    BY <1>1, ParameterAssumption
  <1> QED
    BY ZenonT(30), <1>1, <1>2, <1>3, <1>4 DEF Fresh, MarkedIn

(* AlreadyHave is stable: once a lock request was accepted or rejected, the node *)
(* never treats it as new, whatever requests, votes, time-outs, blocks and       *)
(* changes of the masternode list follow.  It needs a masternode list that stays *)
(* synchronised and a chain higher than nInstantSendKeepLock blocks: without     *)
(* either, ResolveConflicts leaves candidates behind that a later CheckAndRemove *)
(* removes together with their requests.                                         *)
THEOREM RequestsStaySeen ==
    InitHeight > nInstantSendKeepLock /\ SpecList /\ []listSynced => AlreadyHaveIsStable
  <1> DEFINE Inv == Fresh(instantsend)
             Kept == \A tx \in Txs : AlreadyHave(instantsend, tx) => AlreadyHave(instantsend', tx)
  <1>1. InitHeight > nInstantSendKeepLock /\ Init => Inv
    BY InitialFresh DEF Init
  <1>2. listSynced /\ Inv /\ [Next \/ MasternodeListChange]_vars => Inv' /\ [Kept]_vars
    <2> SUFFICES ASSUME listSynced, Inv, [Next \/ MasternodeListChange]_vars
                 PROVE  Inv' /\ Kept
      OBVIOUS
    <2>1. Recalls(instantsend, instantsend')
      BY SeenStep
    <2> QED
      BY <2>1 DEF Recalls, AlreadyHave, Seen
  <1> QED
    BY <1>1, <1>2, PTL DEF SpecList, AlreadyHaveIsStable
====
