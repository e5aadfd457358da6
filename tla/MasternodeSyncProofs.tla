------------------------ MODULE MasternodeSyncProofs ------------------------
(***************************************************************************)
(* The safety of CMasternodeSync for any peers, timeouts and number of     *)
(* disturbances.  What makes the unlocked check of UpdatedBlockTip good    *)
(* when it is used is a race of clocks: the asset was bumped when the      *)
(* rebuild began, and both ages grow together, so that the maintenance     *)
(* thread cannot find the asset timed out before the rebuild has ended.    *)
(***************************************************************************)
EXTENDS MasternodeSync, TLAPS

Asset == sync.nRequestedMasternodeAssets
Attempt == sync.nRequestedMasternodeAttempt

\* During a rebuild the asset is one of the first two and no older than the rebuild.
RebuildIsYounger ==
  rebuild # NoRebuild =>
    /\ Asset \in {MASTERNODE_SYNC_INITIAL, MASTERNODE_SYNC_WAITING}
    /\ sync.sinceBumped <= rebuild

\* An attempt at the list, and every asset after it, has requested it.
AttemptsRequest ==
  /\ Asset = MASTERNODE_SYNC_LIST /\ Attempt # 0 => listRequested
  /\ Asset \in {MASTERNODE_SYNC_MNW, MASTERNODE_SYNC_FINISHED} => listRequested

SyncInv == TypeOK /\ RebuildIsYounger /\ AttemptsRequest

\* The values of sync.
SyncType ==
  [nRequestedMasternodeAssets : Assets,
   nRequestedMasternodeAttempt : 0 .. 2,
   sinceBumped : 0 .. SYNC_TIMEOUT + 1,
   sinceFailure : 0 .. FAILURE_COOLDOWN + 1]

-----------------------------------------------------------------------------
(* The short methods. *)

\* The numbers of the assets.
LEMMA AssetNumbers ==
  /\ MASTERNODE_SYNC_FAILED = -1
  /\ MASTERNODE_SYNC_INITIAL = 0
  /\ MASTERNODE_SYNC_WAITING = 1
  /\ MASTERNODE_SYNC_LIST = 2
  /\ MASTERNODE_SYNC_MNW = 3
  /\ MASTERNODE_SYNC_FINISHED = 999
  /\ Assets = {-1, 0, 1, 2, 3, 999}
BY DEF MASTERNODE_SYNC_FAILED, MASTERNODE_SYNC_INITIAL, MASTERNODE_SYNC_WAITING,
       MASTERNODE_SYNC_LIST, MASTERNODE_SYNC_MNW, MASTERNODE_SYNC_FINISHED, Assets

\* The assignments to two fields of the object keep its type.
LEMMA TwoFields ==
  ASSUME NEW s \in SyncType, NEW a \in Assets, NEW n \in 0 .. 2,
         NEW b \in 0 .. SYNC_TIMEOUT + 1, NEW c \in 0 .. FAILURE_COOLDOWN + 1
  PROVE  /\ [s EXCEPT !.nRequestedMasternodeAssets = a,
                       !.nRequestedMasternodeAttempt = n] \in SyncType
         /\ [s EXCEPT !.sinceFailure = c, !.nRequestedMasternodeAssets = a] \in SyncType
         /\ [s EXCEPT !.sinceBumped = b, !.sinceFailure = c] \in SyncType
BY DEF SyncType

\* The least values of the fields.
LEMMA Zeros ==
  /\ 0 \in Assets /\ -1 \in Assets
  /\ 0 \in 0 .. 2
  /\ 0 \in 0 .. SYNC_TIMEOUT + 1
  /\ 0 \in 0 .. FAILURE_COOLDOWN + 1
BY AssetNumbers, TimesAssumption

\* Reset leaves an object at the first asset, just bumped.
LEMMA ResetValueFacts ==
  /\ ResetValue \in SyncType
  /\ ResetValue.nRequestedMasternodeAssets = 0
  /\ ResetValue.nRequestedMasternodeAttempt = 0
  /\ ResetValue.sinceBumped = 0
BY AssetNumbers, TimesAssumption DEF ResetValue, SyncType

\* BumpAssetLastTime changes no more than the age.
LEMMA BumpFacts ==
  ASSUME NEW s \in SyncType
  PROVE  /\ BumpAssetLastTime(s) \in SyncType
         /\ BumpAssetLastTime(s).nRequestedMasternodeAssets = s.nRequestedMasternodeAssets
         /\ BumpAssetLastTime(s).nRequestedMasternodeAttempt
              = s.nRequestedMasternodeAttempt
         /\ s.nRequestedMasternodeAssets \notin {-1, 999} =>
              BumpAssetLastTime(s).sinceBumped = 0
         /\ BumpAssetLastTime(s).sinceBumped <= s.sinceBumped
BY AssetNumbers, TimesAssumption DEF BumpAssetLastTime, IsSynced, IsFailed, SyncType

\* SwitchToNextAsset goes to the next asset, with no attempt made at it.
LEMMA SwitchFacts ==
  ASSUME NEW s \in SyncType
  PROVE  /\ SwitchToNextAsset(s) \in SyncType
         /\ SwitchToNextAsset(s).nRequestedMasternodeAssets
              = NextAsset(s.nRequestedMasternodeAssets)
         /\ SwitchToNextAsset(s).nRequestedMasternodeAttempt = 0
         /\ NextAsset(s.nRequestedMasternodeAssets) # 999 =>
              SwitchToNextAsset(s).sinceBumped = 0
<1> DEFINE t == [s EXCEPT
                   !.nRequestedMasternodeAssets = NextAsset(s.nRequestedMasternodeAssets),
                   !.nRequestedMasternodeAttempt = 0]
<1>1. NextAsset(s.nRequestedMasternodeAssets) \in Assets \ {-1}
  BY AssetNumbers DEF NextAsset
<1>2. /\ t \in SyncType
      /\ t.nRequestedMasternodeAssets = NextAsset(s.nRequestedMasternodeAssets)
      /\ t.nRequestedMasternodeAttempt = 0
  <2>1. t \in SyncType
    BY <1>1, TwoFields, Zeros
  <2> QED
    BY <2>1 DEF SyncType
<1>3. SwitchToNextAsset(s) = BumpAssetLastTime(t)
  BY DEF SwitchToNextAsset
<1> HIDE DEF t
<1> QED
  BY <1>1, <1>2, <1>3, BumpFacts

\* What follows each asset.
LEMMA NextAssetFacts ==
  /\ NextAsset(0) = 1
  /\ NextAsset(1) = 2
  /\ NextAsset(2) = 3
  /\ NextAsset(3) = 999
  /\ NextAsset(999) = 999
BY AssetNumbers DEF NextAsset

\* SwitchToNextAsset leaves a map of fulfilled requests.
LEMMA SwitchRequestsType ==
  ASSUME NEW s \in SyncType, NEW f \in [Peers -> SUBSET Requests]
  PROVE  SwitchRequests(s, f) \in [Peers -> SUBSET Requests]
BY DEF SwitchRequests, ClearFulfilledRequests, Requests

\* An interval of ticks adds at most one to the age of the asset.
LEMMA TimePassesFacts ==
  ASSUME NEW s \in SyncType
  PROVE  /\ TimePasses(s) \in SyncType
         /\ TimePasses(s).nRequestedMasternodeAssets = s.nRequestedMasternodeAssets
         /\ TimePasses(s).nRequestedMasternodeAttempt = s.nRequestedMasternodeAttempt
         /\ TimePasses(s).sinceBumped <= s.sinceBumped + 1
<1> DEFINE b == Older(s.sinceBumped, SYNC_TIMEOUT)
           c == Older(s.sinceFailure, FAILURE_COOLDOWN)
<1>1. /\ b \in 0 .. SYNC_TIMEOUT + 1
      /\ c \in 0 .. FAILURE_COOLDOWN + 1
      /\ b <= s.sinceBumped + 1
  BY TimesAssumption DEF Older, SyncType
<1>2. TimePasses(s) = [s EXCEPT !.sinceBumped = b, !.sinceFailure = c]
  BY DEF TimePasses
<1> HIDE DEF b, c
<1>3. [s EXCEPT !.sinceBumped = b, !.sinceFailure = c] \in SyncType
  BY <1>1, TwoFields, Zeros
<1> QED
  BY <1>1, <1>2, <1>3 DEF SyncType

\* A long sleep makes both ages as old as they get.
LEMMA SleepFacts ==
  ASSUME NEW s \in SyncType
  PROVE  [s EXCEPT !.sinceBumped = SYNC_TIMEOUT + 1,
                   !.sinceFailure = FAILURE_COOLDOWN + 1] \in SyncType
<1> DEFINE b == SYNC_TIMEOUT + 1
           c == FAILURE_COOLDOWN + 1
<1>1. b \in 0 .. SYNC_TIMEOUT + 1 /\ c \in 0 .. FAILURE_COOLDOWN + 1
  BY TimesAssumption
<1> HIDE DEF b, c
<1>2. [s EXCEPT !.sinceBumped = b, !.sinceFailure = c] \in SyncType
  BY <1>1, TwoFields, Zeros
<1> QED
  BY <1>2 DEF b, c

\* Reset and SwitchToNextAsset, in one go, establish the invariant of sync whatever the
\* rebuild is doing.
LEMMA RestartedFacts ==
  ASSUME TypeOK, Restarted
  PROVE  /\ sync' \in SyncType
         /\ Asset' = 1
         /\ Attempt' = 0
         /\ sync'.sinceBumped = 0
         /\ mapFulfilledRequests' \in [Peers -> SUBSET Requests]
         /\ listRequested' = FALSE
BY ResetValueFacts, SwitchFacts, NextAssetFacts, SwitchRequestsType
   DEF Restarted, TypeOK, Asset, Attempt

-----------------------------------------------------------------------------
(* The actions, in the order of Next. *)

\* The program starts in the invariant.
LEMMA SyncInvInit == Init => SyncInv
<1> SUFFICES ASSUME Init PROVE SyncInv
  OBVIOUS
<1>1. sync \in SyncType /\ Asset = 0
  BY ResetValueFacts DEF Init, Asset
<1>2. mapFulfilledRequests \in [Peers -> SUBSET Requests]
  BY SMT DEF Init
<1>3. TypeOK
  <2>1. 0 \in 0 .. MaxDisturbances
    BY TimesAssumption
  <2> QED
    BY <1>1, <1>2, <2>1, Zenon DEF Init, TypeOK, SyncType
<1>4. RebuildIsYounger /\ AttemptsRequest
  BY <1>1, AssetNumbers DEF Init, RebuildIsYounger, AttemptsRequest
<1> QED
  BY <1>3, <1>4 DEF SyncInv

\* The ages of the asset and of the rebuild grow together.
LEMMA TimePassesInv ==
  ASSUME SyncInv, sync' = TimePasses(sync), RebuildMayContinue, RebuildContinues,
         UNCHANGED listRequested
  PROVE  sync' \in SyncType /\ RebuildIsYounger' /\ AttemptsRequest'
<1>1. sync \in SyncType
  BY DEF SyncInv, TypeOK, SyncType
<1>2. sync' \in SyncType
  BY <1>1, TimePassesFacts
<1>3. RebuildIsYounger'
  <2>1. /\ rebuild' # NoRebuild => rebuild # NoRebuild /\ rebuild' = rebuild + 1
        /\ rebuild \in {NoRebuild} \cup 0 .. REBUILD
    BY DEF RebuildContinues, SyncInv, TypeOK
  <2>2. /\ Asset' = Asset
        /\ sync'.sinceBumped <= sync.sinceBumped + 1
        /\ sync.sinceBumped \in Int /\ sync'.sinceBumped \in Int
    BY <1>1, <1>2, TimePassesFacts, TimesAssumption DEF Asset, SyncType
  <2> QED
    BY <2>1, <2>2, TimesAssumption DEF SyncInv, RebuildIsYounger, NoRebuild
<1>4. AttemptsRequest'
  BY <1>1, TimePassesFacts DEF SyncInv, AttemptsRequest, Asset, Attempt
<1> QED
  BY <1>2, <1>3, <1>4

\* A tick that restarts the sync, waits out a failure or begins to visit the peers.
LEMMA BeginTickInv == SyncInv /\ BeginTick => SyncInv'
<1> SUFFICES ASSUME SyncInv, BeginTick PROVE SyncInv'
  OBVIOUS
<1>1. sync \in SyncType /\ rebuild' \in {NoRebuild} \cup 0 .. REBUILD
  BY TimesAssumption
     DEF SyncInv, TypeOK, SyncType, BeginTick, RebuildContinues, RebuildMayContinue,
         NoRebuild
<1>2. CASE Restarted /\ todo' = {}
  <2>1. TypeOK'
    BY <1>1, <1>2, RestartedFacts DEF SyncInv, TypeOK, SyncType, BeginTick
  <2>2. RebuildIsYounger' /\ AttemptsRequest'
    BY <1>1, <1>2, RestartedFacts, AssetNumbers, TimesAssumption
       DEF SyncInv, RebuildIsYounger, AttemptsRequest, NoRebuild
  <2> QED
    BY <2>1, <2>2 DEF SyncInv
<1>3. CASE /\ sync' = TimePasses(sync)
           /\ todo' \subseteq Peers
           /\ UNCHANGED <<mapFulfilledRequests, listRequested>>
  <2>1. sync' \in SyncType /\ RebuildIsYounger' /\ AttemptsRequest'
    BY <1>3, TimePassesInv DEF BeginTick
  <2>2. /\ slept' = FALSE
        /\ UNCHANGED <<nodes, fReachedBestHeader, ibd, thrown, disturbances>>
    BY DEF BeginTick
  <2> QED
    BY <1>1, <1>3, <2>1, <2>2 DEF SyncInv, TypeOK, SyncType
<1> QED
  BY <1>2, <1>3 DEF BeginTick, SyncInv, TypeOK

\* The treatment of an asset, when s is the object at the list or the winners.
LEMMA SyncAssetInv ==
  ASSUME SyncInv, rebuild = NoRebuild, UNCHANGED rebuild,
         NEW p \in Peers, NEW request \in Requests, NEW enough \in BOOLEAN,
         NEW s \in SyncType, NEW f \in [Peers -> SUBSET Requests],
         \/ s.nRequestedMasternodeAssets = 2 /\ request = "masternode-list-sync"
         \/ s.nRequestedMasternodeAssets = 3 /\ listRequested,
         s.nRequestedMasternodeAttempt # 0 => listRequested,
         request = "masternode-list-sync" => s.nRequestedMasternodeAssets = 2,
         SyncAsset(p, request, enough, s, f), s.nRequestedMasternodeAssets = 2 => ~enough
  PROVE  /\ sync' \in SyncType
         /\ mapFulfilledRequests' \in [Peers -> SUBSET Requests]
         /\ todo' \subseteq Peers
         /\ listRequested' \in BOOLEAN
         /\ RebuildIsYounger'
         /\ AttemptsRequest'
<1>1. RebuildIsYounger'
  BY DEF RebuildIsYounger
<1>2. CASE sync' = Fail(s) /\ mapFulfilledRequests' = f /\ todo' = {}
           /\ UNCHANGED listRequested
  <2>1. sync' \in SyncType /\ Asset' = -1
    <3>1. sync' = [s EXCEPT !.sinceFailure = 0, !.nRequestedMasternodeAssets = -1]
      BY <1>2, AssetNumbers DEF Fail
    <3>2. sync' \in SyncType
      BY <3>1, TwoFields, Zeros
    <3> QED
      BY <3>1, <3>2 DEF SyncType, Asset
  <2> QED
    BY <1>1, <1>2, <2>1, AssetNumbers DEF AttemptsRequest, SyncInv, TypeOK
<1>3. CASE /\ s.nRequestedMasternodeAttempt # 0
           /\ sync' = SwitchToNextAsset(s)
           /\ mapFulfilledRequests' = SwitchRequests(s, f)
           /\ todo' = {}
           /\ UNCHANGED listRequested
  <2>1. sync' \in SyncType /\ listRequested' = TRUE
    BY <1>3, SwitchFacts DEF SyncInv, TypeOK
  <2> QED
    BY <1>1, <1>3, <2>1, SwitchRequestsType DEF AttemptsRequest
<1>4. CASE /\ mapFulfilledRequests' = [f EXCEPT ![p] = @ \cup {request}]
           /\ sync' = s
           /\ todo' = todo \ {p}
           /\ UNCHANGED listRequested
  BY <1>1, <1>4, AssetNumbers DEF AttemptsRequest, SyncInv, TypeOK, Asset, Attempt
<1>5. CASE /\ mapFulfilledRequests' = [f EXCEPT ![p] = @ \cup {request}]
           /\ sync' = CountAttempt(s)
           /\ todo' = {}
           /\ listRequested' = (listRequested \/ request = "masternode-list-sync")
  <2>1. sync' \in SyncType
    BY <1>5 DEF CountAttempt, SyncType
  <2>2. listRequested' = TRUE
    BY <1>5 DEF SyncInv, TypeOK
  <2> QED
    BY <1>1, <1>5, <2>1, <2>2 DEF AttemptsRequest
<1> QED
  <2>1. s.nRequestedMasternodeAttempt > 1 => s.nRequestedMasternodeAttempt # 0
    OBVIOUS
  <2> QED
    BY <1>2, <1>3, <1>4, <1>5, <2>1 DEF SyncAsset
\* An iteration of the loop over the peers.
LEMMA VisitPeerInv == ASSUME SyncInv, NEW p \in Peers, VisitPeer(p) PROVE SyncInv'
<1> USE AssetNumbers
<1> DEFINE synced == IsSynced(sync) /\ "full-sync" \in mapFulfilledRequests[p]
           waited == Asset = 1 /\ TimedOut(sync)
           asked == [mapFulfilledRequests EXCEPT ![p] = @ \cup {"spork-sync"}]
           s == IF waited THEN SwitchToNextAsset(sync) ELSE sync
           f == IF waited THEN SwitchRequests(sync, asked) ELSE asked
           Kept == UNCHANGED <<rebuild, fReachedBestHeader, ibd, slept, thrown, disturbances>>
<1>1. Kept
  BY DEF VisitPeer
<1>2. sync \in SyncType
  BY DEF SyncInv, TypeOK, SyncType
<1>3. CASE synced
  <2>1. nodes' \subseteq Peers /\ todo' \subseteq Peers
        /\ UNCHANGED <<sync, mapFulfilledRequests, listRequested>>
    BY <1>3 DEF VisitPeer, SyncInv, TypeOK
  <2> QED
    BY <1>1, <2>1 DEF SyncInv, TypeOK, RebuildIsYounger, AttemptsRequest, Asset, Attempt
<1>4. CASE ~synced
  <2>1. f \in [Peers -> SUBSET Requests]
    <3>1. asked \in [Peers -> SUBSET Requests]
      BY DEF SyncInv, TypeOK, Requests
    <3> HIDE DEF asked
    <3> QED
      BY <1>2, <3>1, SwitchRequestsType
  <2>2. s \in SyncType
    BY <1>2, SwitchFacts
  <2>3. waited => /\ rebuild = NoRebuild
                  /\ s.nRequestedMasternodeAssets = 2
                  /\ s.nRequestedMasternodeAttempt = 0
    <3>1. waited => rebuild = NoRebuild
      BY <1>2, TimesAssumption, RebuildAssumption
         DEF TimedOut, SyncInv, TypeOK, RebuildIsYounger, SyncType, NoRebuild
    <3> QED
      BY <1>2, <3>1, SwitchFacts, NextAssetFacts DEF Asset
  <2>4. ~waited => s = sync
    OBVIOUS
  <2>5. s.nRequestedMasternodeAssets \in {2, 3} => rebuild = NoRebuild
    BY <2>3, <2>4 DEF SyncInv, RebuildIsYounger, Asset
  <2>6. /\ s.nRequestedMasternodeAssets = 2 =>
             (s.nRequestedMasternodeAttempt # 0 => listRequested)
        /\ s.nRequestedMasternodeAssets = 3 => listRequested
    BY <2>3, <2>4 DEF SyncInv, AttemptsRequest, Asset, Attempt
  <2>7. /\ nodes' = nodes
        /\ \/ /\ s.nRequestedMasternodeAssets = 2
              /\ SyncAsset(p, "masternode-list-sync", FALSE, s, f)
           \/ /\ s.nRequestedMasternodeAssets = 3
              /\ \E enough \in BOOLEAN :
                   SyncAsset(p, "masternode-payment-sync", enough, s, f)
           \/ /\ s.nRequestedMasternodeAssets \notin {2, 3}
              /\ sync' = s
              /\ mapFulfilledRequests' = f
              /\ todo' = todo \ {p}
              /\ UNCHANGED listRequested
    BY <1>4 DEF VisitPeer, Asset
  <2> HIDE DEF s, f, waited
  <2>8. /\ sync' \in SyncType
        /\ mapFulfilledRequests' \in [Peers -> SUBSET Requests]
        /\ todo' \subseteq Peers
        /\ listRequested' \in BOOLEAN
        /\ RebuildIsYounger'
        /\ AttemptsRequest'
    <3>1. CASE /\ s.nRequestedMasternodeAssets = 2
               /\ SyncAsset(p, "masternode-list-sync", FALSE, s, f)
      BY <1>1, <2>1, <2>2, <2>5, <2>6, <3>1, SyncAssetInv DEF Requests
    <3>2. CASE /\ s.nRequestedMasternodeAssets = 3
               /\ \E enough \in BOOLEAN :
                    SyncAsset(p, "masternode-payment-sync", enough, s, f)
      <4>1. PICK enough \in BOOLEAN :
              SyncAsset(p, "masternode-payment-sync", enough, s, f)
        BY <3>2
      <4> QED
        BY <1>1, <2>1, <2>2, <2>5, <2>6, <3>2, <4>1, SyncAssetInv DEF Requests
    <3>3. CASE /\ s.nRequestedMasternodeAssets \notin {2, 3}
               /\ sync' = s
               /\ mapFulfilledRequests' = f
               /\ todo' = todo \ {p}
               /\ UNCHANGED listRequested
      <4>1. sync' = sync
        BY <2>3, <2>4, <3>3
      <4> QED
        BY <1>1, <1>2, <2>1, <3>3, <4>1
           DEF SyncInv, TypeOK, RebuildIsYounger, AttemptsRequest, Asset, Attempt
    <3> QED
      BY <2>7, <3>1, <3>2, <3>3
  <2> QED
    BY <1>1, <2>7, <2>8 DEF SyncInv, TypeOK, SyncType
<1> QED
  BY <1>3, <1>4
\* A new tip: the rebuild begins with an asset that was just bumped.
LEMMA UpdatedBlockTipInv ==
  ASSUME SyncInv, NEW i \in BOOLEAN, NEW b \in BOOLEAN, UpdatedBlockTip(i, b)
  PROVE  SyncInv'
<1> USE AssetNumbers
<1> DEFINE s == IF IsBlockchainSynced(sync) THEN sync ELSE BumpAssetLastTime(sync)
<1>1. /\ rebuild = NoRebuild
      /\ ibd' \in BOOLEAN
      /\ UNCHANGED <<mapFulfilledRequests, nodes, todo, slept, thrown>>
  BY DEF UpdatedBlockTip
<1>2. sync \in SyncType
  BY DEF SyncInv, TypeOK, SyncType
<1>3. /\ s \in SyncType
      /\ s.nRequestedMasternodeAssets = Asset
      /\ s.nRequestedMasternodeAttempt = Attempt
      /\ ~IsBlockchainSynced(s) /\ ~IsFailed(sync) =>
           s.sinceBumped = 0 /\ Asset \in {0, 1}
  BY <1>2, BumpFacts DEF IsBlockchainSynced, IsFailed, Asset, Attempt, SyncType
<1>4. \/ UNCHANGED <<sync, rebuild, fReachedBestHeader, disturbances, listRequested>>
      \/ /\ sync' = ResetValue
         /\ listRequested' = FALSE
         /\ UNCHANGED rebuild
         /\ fReachedBestHeader' \in BOOLEAN
         /\ disturbances' \in 0 .. MaxDisturbances
      \/ /\ ~IsFailed(sync)
         /\ sync' = s
         /\ fReachedBestHeader' \in BOOLEAN
         /\ \/ UNCHANGED rebuild
            \/ ~IsBlockchainSynced(s) /\ rebuild' = 0
         /\ UNCHANGED <<disturbances, listRequested>>
  <2>1. disturbances' = disturbances + 1 /\ disturbances < MaxDisturbances =>
          disturbances' \in 0 .. MaxDisturbances
    BY TimesAssumption DEF SyncInv, TypeOK
  <2>2. fReachedBestHeader \in BOOLEAN /\ disturbances \in 0 .. MaxDisturbances
        /\ listRequested \in BOOLEAN
    BY DEF SyncInv, TypeOK
  <2>3. \/ UNCHANGED <<sync, rebuild, fReachedBestHeader, disturbances, listRequested>>
        \/ /\ ~IsFailed(sync)
           /\ sync' = IF IsBlockchainSynced(s) THEN ResetValue ELSE s
           /\ listRequested' = (listRequested /\ ~IsBlockchainSynced(s))
           /\ UNCHANGED <<rebuild, fReachedBestHeader, disturbances>>
        \/ /\ Disturb
           /\ sync' = ResetValue
           /\ listRequested' = FALSE
           /\ fReachedBestHeader' = FALSE
           /\ UNCHANGED rebuild
        \/ /\ ~IsFailed(sync)
           /\ sync' = s
           /\ fReachedBestHeader' = b
           /\ rebuild' = IF ~IsBlockchainSynced(s) /\ b THEN 0 ELSE NoRebuild
           /\ UNCHANGED <<disturbances, listRequested>>
    BY DEF UpdatedBlockTip
  <2> HIDE DEF s
  <2> QED
    BY <1>1, <2>1, <2>2, <2>3 DEF Disturb
<1> HIDE DEF s
<1>5. CASE UNCHANGED <<sync, rebuild, fReachedBestHeader, disturbances, listRequested>>
  BY <1>1, <1>5 DEF SyncInv, TypeOK, RebuildIsYounger, AttemptsRequest, Asset, Attempt
<1>6. CASE /\ sync' = ResetValue
           /\ listRequested' = FALSE
           /\ UNCHANGED rebuild
           /\ fReachedBestHeader' \in BOOLEAN
           /\ disturbances' \in 0 .. MaxDisturbances
  <2>1. sync' \in SyncType /\ Asset' = 0
    BY <1>6, ResetValueFacts DEF Asset
  <2>2. RebuildIsYounger' /\ AttemptsRequest'
    BY <1>1, <1>6, <2>1 DEF RebuildIsYounger, AttemptsRequest
  <2> QED
    BY <1>1, <1>6, <2>1, <2>2 DEF SyncInv, TypeOK, SyncType
<1>7. CASE /\ ~IsFailed(sync)
           /\ sync' = s
           /\ fReachedBestHeader' \in BOOLEAN
           /\ \/ UNCHANGED rebuild
              \/ ~IsBlockchainSynced(s) /\ rebuild' = 0
           /\ UNCHANGED <<disturbances, listRequested>>
  <2>1. sync' \in SyncType /\ Asset' = Asset /\ Attempt' = Attempt
    BY <1>3, <1>7 DEF Asset, Attempt
  <2>2. AttemptsRequest'
    BY <1>7, <2>1 DEF SyncInv, AttemptsRequest
  <2>3. RebuildIsYounger'
    BY <1>1, <1>3, <1>7, <2>1 DEF RebuildIsYounger
  <2>4. rebuild' \in {NoRebuild} \cup 0 .. REBUILD
    BY <1>1, <1>7, TimesAssumption
  <2> QED
    BY <1>1, <1>7, <2>1, <2>2, <2>3, <2>4 DEF SyncInv, TypeOK, SyncType
<1> QED
  BY <1>4, <1>5, <1>6, <1>7

\* The switch after the rebuild: it does not throw, and reaches at most the list.
LEMMA SwitchAtTipInv == ASSUME SyncInv, SwitchAtTip PROVE SyncInv'
<1> USE AssetNumbers
<1>1. sync \in SyncType /\ Asset \in {0, 1}
  BY DEF SyncInv, TypeOK, SyncType, RebuildIsYounger, SwitchAtTip
<1>2. /\ sync' = SwitchToNextAsset(sync)
      /\ mapFulfilledRequests' = SwitchRequests(sync, mapFulfilledRequests)
      /\ rebuild' = NoRebuild
      /\ UNCHANGED <<nodes, todo, fReachedBestHeader, ibd, slept, thrown, disturbances,
                     listRequested>>
  BY <1>1 DEF SwitchAtTip, IsFailed, Asset
<1>3. sync' \in SyncType /\ Asset' \in {1, 2} /\ Attempt' = 0
  BY <1>1, <1>2, SwitchFacts, NextAssetFacts DEF Asset, Attempt
<1>4. mapFulfilledRequests' \in [Peers -> SUBSET Requests]
  BY <1>1, <1>2, SwitchRequestsType DEF SyncInv, TypeOK
<1>5. RebuildIsYounger' /\ AttemptsRequest'
  BY <1>2, <1>3 DEF RebuildIsYounger, AttemptsRequest
<1> QED
  BY <1>2, <1>3, <1>4, <1>5 DEF SyncInv, TypeOK, SyncType
\* Messages, RPC, connections and time.
LEMMA DisturbancesInv ==
  ASSUME SyncInv,
         \/ DataArrives \/ MnsyncReset \/ TickDelayed \/ Sleep
         \/ \E p \in Peers : Connect(p) \/ Disconnect(p)
         \/ \E p \in Peers, request \in Requests : RequestExpires(p, request)
  PROVE  SyncInv'
<1> USE AssetNumbers
<1>1. sync \in SyncType
  BY DEF SyncInv, TypeOK, SyncType
<1>2. Disturb => disturbances' \in 0 .. MaxDisturbances
  BY TimesAssumption DEF Disturb, SyncInv, TypeOK
<1>3. CASE DataArrives
  <2>1. sync' \in SyncType /\ Asset' = Asset /\ Attempt' = Attempt
        /\ sync'.sinceBumped <= sync.sinceBumped
    BY <1>1, <1>3, BumpFacts DEF DataArrives, Asset, Attempt
  <2>2. rebuild = NoRebuild
    BY <1>3 DEF DataArrives, IsBlockchainSynced, SyncInv, RebuildIsYounger, Asset
  <2>3. RebuildIsYounger' /\ AttemptsRequest'
    BY <1>3, <2>1, <2>2 DEF DataArrives, SyncInv, RebuildIsYounger, AttemptsRequest
  <2> QED
    BY <1>2, <1>3, <2>1, <2>3 DEF DataArrives, SyncInv, TypeOK, SyncType
<1>4. CASE MnsyncReset
  <2>1. RebuildIsYounger' /\ AttemptsRequest'
    <3>1. Asset' = 1 /\ Attempt' = 0 /\ sync'.sinceBumped = 0 /\ rebuild' = rebuild
      BY <1>4, RestartedFacts DEF MnsyncReset, SyncInv
    <3>2. rebuild # NoRebuild => 0 <= rebuild
      BY TimesAssumption DEF SyncInv, TypeOK
    <3> QED
      BY <3>1, <3>2 DEF RebuildIsYounger, AttemptsRequest
  <2> QED
    BY <1>2, <1>4, <2>1, RestartedFacts DEF MnsyncReset, SyncInv, TypeOK, SyncType
<1>5. CASE TickDelayed
  <2>1. sync' \in SyncType /\ RebuildIsYounger' /\ AttemptsRequest'
    BY <1>5, TimePassesInv DEF TickDelayed
  <2>2. rebuild' \in {NoRebuild} \cup 0 .. REBUILD
    BY <1>5, TimesAssumption
       DEF TickDelayed, RebuildContinues, RebuildMayContinue, SyncInv, TypeOK, NoRebuild
  <2> QED
    BY <1>2, <1>5, <2>1, <2>2 DEF TickDelayed, SyncInv, TypeOK, SyncType
<1>6. CASE Sleep
  <2>1. sync' \in SyncType
    BY <1>1, <1>6, SleepFacts DEF Sleep
  <2>2. Asset' = Asset /\ Attempt' = Attempt
    BY <1>1, <1>6 DEF Sleep, Asset, Attempt, SyncType
  <2>3. RebuildIsYounger' /\ AttemptsRequest'
    BY <1>6, <2>2 DEF Sleep, SyncInv, RebuildIsYounger, AttemptsRequest
  <2> QED
    BY <1>2, <1>6, <2>1, <2>3 DEF Sleep, SyncInv, TypeOK, SyncType
<1>7. CASE \E p \in Peers : Connect(p) \/ Disconnect(p)
  <2>1. /\ nodes' \subseteq Peers
        /\ disturbances' \in 0 .. MaxDisturbances
        /\ UNCHANGED <<sync, mapFulfilledRequests, todo, rebuild, fReachedBestHeader, ibd,
                       slept, thrown, listRequested>>
    BY <1>2, <1>7 DEF Connect, Disconnect, SyncInv, TypeOK
  <2> QED
    BY <2>1 DEF SyncInv, TypeOK, RebuildIsYounger, AttemptsRequest, Asset, Attempt
<1>8. CASE \E p \in Peers, request \in Requests : RequestExpires(p, request)
  <2>1. /\ mapFulfilledRequests' \in [Peers -> SUBSET Requests]
        /\ disturbances' \in 0 .. MaxDisturbances
        /\ UNCHANGED <<sync, nodes, todo, rebuild, fReachedBestHeader, ibd, slept, thrown,
                       listRequested>>
    BY <1>2, <1>8 DEF RequestExpires, SyncInv, TypeOK
  <2> QED
    BY <2>1 DEF SyncInv, TypeOK, RebuildIsYounger, AttemptsRequest, Asset, Attempt
<1> QED
  BY <1>3, <1>4, <1>5, <1>6, <1>7, <1>8

-----------------------------------------------------------------------------
(* Theorems. *)

\* The invariant holds in every state.
LEMMA SyncInvAlways == Spec => []SyncInv
<1>1. SyncInv /\ [Next]_vars => SyncInv'
  <2> SUFFICES ASSUME SyncInv, [Next]_vars PROVE SyncInv'
    OBVIOUS
  <2>1. CASE UNCHANGED vars
    BY <2>1 DEF vars, SyncInv, TypeOK, RebuildIsYounger, AttemptsRequest, Asset, Attempt
  <2>2. CASE BeginTick
    BY <2>2, BeginTickInv
  <2>3. CASE \E p \in Peers : VisitPeer(p)
    BY <2>3, VisitPeerInv
  <2>4. CASE \E i, b \in BOOLEAN : UpdatedBlockTip(i, b)
    BY <2>4, UpdatedBlockTipInv
  <2>5. CASE SwitchAtTip
    BY <2>5, SwitchAtTipInv
  <2>6. CASE \/ DataArrives \/ MnsyncReset \/ TickDelayed \/ Sleep
             \/ \E p \in Peers : Connect(p) \/ Disconnect(p)
             \/ \E p \in Peers, request \in Requests : RequestExpires(p, request)
    BY <2>6, DisturbancesInv
  <2> QED
    BY <2>1, <2>2, <2>3, <2>4, <2>5, <2>6 DEF Next
<1> QED
  BY <1>1, SyncInvInit, PTL DEF Spec

\* For any peers and timeouts, the asset, the attempts and the clocks of the sync stay in
\* their ranges, and so do the requests that count as made to each peer.
THEOREM TypeCorrect == Spec => []TypeOK
<1>1. SyncInv => TypeOK
  BY DEF SyncInv
<1> QED
  BY <1>1, SyncInvAlways, PTL

\* For any peers and timeouts, if no rebuild of the infinity node list outlasts the
\* timeout of the sync: what UpdatedBlockTip has checked before the rebuild still holds
\* when it switches to the next asset, and SwitchToNextAsset does not throw there.
THEOREM SwitchIsSafe == Spec => []CheckHoldsAtSwitch
<1>1. SyncInv => CheckHoldsAtSwitch
  BY AssetNumbers
     DEF SyncInv, RebuildIsYounger, CheckHoldsAtSwitch, IsBlockchainSynced, IsFailed, Asset
<1> QED
  BY <1>1, SyncInvAlways, PTL

\* Under the same assumption, no timeout, reset, failure or block lets the sync pass
\* MASTERNODE_SYNC_LIST without a request for the list.
THEOREM ListIsRequested == Spec => []ListBeforeWinners
<1>1. SyncInv => ListBeforeWinners
  BY AssetNumbers
     DEF SyncInv, TypeOK, AttemptsRequest, ListBeforeWinners, IsMasternodeListSynced, Asset
<1> QED
  BY <1>1, SyncInvAlways, PTL
=============================================================================
