--------------------------- MODULE MasternodeSync ---------------------------
(***************************************************************************)
(* CMasternodeSync (masternode-sync.cpp) and the part of the fulfilled     *)
(* requests (netfulfilledman.cpp) it uses, on test and main network.       *)
(*                                                                         *)
(* Three threads share the object without a lock.  The maintenance thread  *)
(* calls ProcessTick, here one action for the start of a tick and one for  *)
(* each peer its loop visits.  The scheduler thread calls UpdatedBlockTip, *)
(* which rebuilds the infinity node list between its check of the state    *)
(* and its SwitchToNextAsset: two actions.  RPC and message threads call   *)
(* the short methods, an action each.                                      *)
(*                                                                         *)
(* The unit of time is the interval of ticks, MASTERNODE_SYNC_TICK_SECONDS.*)
(* A time stamp is its age, which saturates above the timeout it is        *)
(* compared with.  AcceptedBlockHeader and NotifyHeaderTip are absent: the *)
(* signals they are connected to are never sent.  So is the RPC "mnsync    *)
(* next", with which the user skips an asset.                              *)
(***************************************************************************)
EXTENDS Integers

CONSTANTS
  Peers,             \* addresses of the peers that the loop does not skip
  OldPeers,          \* those below GetMinMasternodePaymentsProto
  SYNC_TIMEOUT,      \* MASTERNODE_SYNC_TIMEOUT_SECONDS, in ticks
  FAILURE_COOLDOWN,  \* the minute after Fail, in ticks
  REBUILD,           \* the longest rebuild of the infinity node list, in ticks
  MaxDisturbances    \* bound on what the users and the network do to the sync

ASSUME TimesAssumption ==
  /\ SYNC_TIMEOUT \in Nat
  /\ FAILURE_COOLDOWN \in Nat
  /\ REBUILD \in Nat
  /\ MaxDisturbances \in Nat

\* The rebuild ends before the asset that waits for it times out.
ASSUME RebuildAssumption == REBUILD <= SYNC_TIMEOUT

MASTERNODE_SYNC_FAILED == -1
MASTERNODE_SYNC_INITIAL == 0
MASTERNODE_SYNC_WAITING == 1
MASTERNODE_SYNC_LIST == 2
MASTERNODE_SYNC_MNW == 3
MASTERNODE_SYNC_FINISHED == 999

Assets == {MASTERNODE_SYNC_FAILED, MASTERNODE_SYNC_INITIAL, MASTERNODE_SYNC_WAITING,
           MASTERNODE_SYNC_LIST, MASTERNODE_SYNC_MNW, MASTERNODE_SYNC_FINISHED}

Requests == {"spork-sync", "masternode-list-sync", "masternode-payment-sync", "full-sync"}

\* The rebuild of UpdatedBlockTip is not running.
NoRebuild == -1

VARIABLES
  sync,                \* the CMasternodeSync object
  mapFulfilledRequests,\* for each address, the requests not to be repeated
  nodes,               \* connected peers
  todo,                \* peers the current tick has still to visit
  rebuild,             \* age of the rebuild in UpdatedBlockTip, or NoRebuild
  fReachedBestHeader,  \* static variable of UpdatedBlockTip
  ibd,                 \* IsInitialBlockDownload, a latch
  slept,               \* no tick for more than 60 minutes
  thrown,              \* SwitchToNextAsset has thrown in the scheduler thread
  disturbances,        \* how many disturbances have happened
  listRequested        \* history: the list was requested since the last Reset

vars == <<sync, mapFulfilledRequests, nodes, todo, rebuild, fReachedBestHeader, ibd,
          slept, thrown, disturbances, listRequested>>

TypeOK ==
  /\ sync \in [nRequestedMasternodeAssets : Assets,
               nRequestedMasternodeAttempt : 0 .. 2,
               sinceBumped : 0 .. SYNC_TIMEOUT + 1,
               sinceFailure : 0 .. FAILURE_COOLDOWN + 1]
  /\ mapFulfilledRequests \in [Peers -> SUBSET Requests]
  /\ nodes \subseteq Peers
  /\ todo \subseteq Peers
  /\ rebuild \in {NoRebuild} \cup 0 .. REBUILD
  /\ fReachedBestHeader \in BOOLEAN
  /\ ibd \in BOOLEAN
  /\ slept \in BOOLEAN
  /\ thrown \in BOOLEAN
  /\ disturbances \in 0 .. MaxDisturbances
  /\ listRequested \in BOOLEAN

-----------------------------------------------------------------------------
(* The short methods, on a value s of sync and f of mapFulfilledRequests. *)

IsFailed(s) == s.nRequestedMasternodeAssets = MASTERNODE_SYNC_FAILED
IsBlockchainSynced(s) == s.nRequestedMasternodeAssets > MASTERNODE_SYNC_WAITING
IsMasternodeListSynced(s) == s.nRequestedMasternodeAssets > MASTERNODE_SYNC_LIST
IsSynced(s) == s.nRequestedMasternodeAssets = MASTERNODE_SYNC_FINISHED

Fail(s) ==
  [s EXCEPT !.sinceFailure = 0, !.nRequestedMasternodeAssets = MASTERNODE_SYNC_FAILED]

ResetValue ==
  [nRequestedMasternodeAssets |-> MASTERNODE_SYNC_INITIAL,
   nRequestedMasternodeAttempt |-> 0,
   sinceBumped |-> 0,
   sinceFailure |-> FAILURE_COOLDOWN + 1]

\* A mutant: only the assets after the blocks are postponed.
BumpAfterBlocks(s) ==
  IF ~IsBlockchainSynced(s) \/ IsSynced(s) THEN s ELSE [s EXCEPT !.sinceBumped = 0]

BumpAssetLastTime(s) ==
  IF IsSynced(s) \/ IsFailed(s) THEN s ELSE [s EXCEPT !.sinceBumped = 0]

\* A mutant: the assets are counted up.
CountAsset(asset) == asset + 1

NextAsset(asset) ==
  CASE asset = MASTERNODE_SYNC_INITIAL -> MASTERNODE_SYNC_WAITING
    [] asset = MASTERNODE_SYNC_WAITING -> MASTERNODE_SYNC_LIST
    [] asset = MASTERNODE_SYNC_LIST -> MASTERNODE_SYNC_MNW
    [] OTHER -> MASTERNODE_SYNC_FINISHED

\* SwitchToNextAsset(s) is what it makes of the object unless IsFailed(s), where it
\* throws; SwitchRequests(s, f) what it makes of the fulfilled requests.
SwitchToNextAsset(s) ==
  BumpAssetLastTime([s EXCEPT
    !.nRequestedMasternodeAssets = NextAsset(s.nRequestedMasternodeAssets),
    !.nRequestedMasternodeAttempt = 0])

\* A mutant: the requests stay fulfilled.
KeepFulfilledRequests(f) == f

ClearFulfilledRequests(f) == [p \in Peers |-> IF p \in nodes THEN {} ELSE f[p]]

SwitchRequests(s, f) ==
  IF ~IsBlockchainSynced(s) THEN ClearFulfilledRequests(f)
  ELSE IF s.nRequestedMasternodeAssets = MASTERNODE_SYNC_MNW
       THEN [p \in Peers |-> IF p \in nodes THEN f[p] \cup {"full-sync"} ELSE f[p]]
       ELSE f

\* Reset() followed by SwitchToNextAsset().
Restarted ==
  /\ sync' = SwitchToNextAsset(ResetValue)
  /\ mapFulfilledRequests' = SwitchRequests(ResetValue, mapFulfilledRequests)
  /\ listRequested' = FALSE

Older(age, limit) == IF age > limit THEN age ELSE age + 1

\* An interval of ticks passes; a rebuild never takes longer than REBUILD.
TimePasses(s) ==
  [s EXCEPT !.sinceBumped = Older(@, SYNC_TIMEOUT),
            !.sinceFailure = Older(@, FAILURE_COOLDOWN)]

RebuildMayContinue == rebuild # NoRebuild => rebuild < REBUILD

RebuildContinues == rebuild' = IF rebuild = NoRebuild THEN NoRebuild ELSE rebuild + 1

Disturb ==
  /\ disturbances < MaxDisturbances
  /\ disturbances' = disturbances + 1

-----------------------------------------------------------------------------
(* The maintenance thread: ProcessTick. *)

\* Up to the copy of the nodes.
BeginTick ==
  /\ ~thrown
  /\ todo = {}
  /\ RebuildMayContinue
  /\ RebuildContinues
  /\ slept' = FALSE
  /\ \/ /\ slept
        /\ Restarted
        /\ todo' = {}
     \/ /\ ~slept
        /\ IsFailed(sync)
        /\ sync.sinceFailure > FAILURE_COOLDOWN
        /\ Restarted
        /\ todo' = {}
     \/ /\ ~slept
        /\ IsFailed(sync)
        /\ sync.sinceFailure <= FAILURE_COOLDOWN
        /\ sync' = TimePasses(sync)
        /\ UNCHANGED <<mapFulfilledRequests, todo, listRequested>>
     \/ /\ ~slept
        /\ ~IsFailed(sync)
        /\ sync' = TimePasses(sync)
        /\ todo' = nodes
        /\ UNCHANGED <<mapFulfilledRequests, listRequested>>
  /\ UNCHANGED <<nodes, fReachedBestHeader, ibd, thrown, disturbances>>

\* A mutant: off by one.
TimedOutEarly(s) == s.sinceBumped >= SYNC_TIMEOUT

TimedOut(s) == s.sinceBumped > SYNC_TIMEOUT

CountAttempt(s) ==
  [s EXCEPT !.nRequestedMasternodeAttempt = IF @ = 2 THEN 2 ELSE @ + 1]

\* The treatment of MASTERNODE_SYNC_LIST and MASTERNODE_SYNC_MNW: s and f are what the
\* iteration has made of the state so far, enough is mnpayments.IsEnoughData().
SyncAsset(p, request, enough, s, f) ==
  \/ /\ TimedOut(s)
     /\ s.nRequestedMasternodeAttempt = 0
     /\ sync' = Fail(s)
     /\ mapFulfilledRequests' = f
     /\ todo' = {}
     /\ UNCHANGED listRequested
  \/ /\ \/ TimedOut(s) /\ s.nRequestedMasternodeAttempt # 0
        \/ ~TimedOut(s) /\ s.nRequestedMasternodeAttempt > 1 /\ enough
     /\ sync' = SwitchToNextAsset(s)
     /\ mapFulfilledRequests' = SwitchRequests(s, f)
     /\ todo' = {}
     /\ UNCHANGED listRequested
  \/ /\ ~TimedOut(s)
     /\ ~(s.nRequestedMasternodeAttempt > 1 /\ enough)
     /\ mapFulfilledRequests' = [f EXCEPT ![p] = @ \cup {request}]
     /\ IF request \in f[p] \/ p \in OldPeers
        THEN /\ sync' = s
             /\ todo' = todo \ {p}
             /\ UNCHANGED listRequested
        ELSE /\ sync' = CountAttempt(s)
             /\ todo' = {}
             /\ listRequested' = (listRequested \/ request = "masternode-list-sync")

\* One iteration of the loop over the copied nodes.
VisitPeer(p) ==
  /\ ~thrown
  /\ p \in todo
  /\ IF IsSynced(sync) /\ "full-sync" \in mapFulfilledRequests[p]
     THEN /\ nodes' = nodes \ {p}
          /\ todo' = todo \ {p}
          /\ UNCHANGED <<sync, mapFulfilledRequests, listRequested>>
     ELSE LET waited == /\ sync.nRequestedMasternodeAssets = MASTERNODE_SYNC_WAITING
                        /\ TimedOut(sync)
              asked == [mapFulfilledRequests EXCEPT ![p] = @ \cup {"spork-sync"}]
              s == IF waited THEN SwitchToNextAsset(sync) ELSE sync
              f == IF waited THEN SwitchRequests(sync, asked) ELSE asked
          IN /\ nodes' = nodes
             /\ CASE s.nRequestedMasternodeAssets = MASTERNODE_SYNC_LIST ->
                       SyncAsset(p, "masternode-list-sync", FALSE, s, f)
                  [] s.nRequestedMasternodeAssets = MASTERNODE_SYNC_MNW ->
                       \E enough \in BOOLEAN :
                         SyncAsset(p, "masternode-payment-sync", enough, s, f)
                  [] OTHER ->
                       /\ sync' = s
                       /\ mapFulfilledRequests' = f
                       /\ todo' = todo \ {p}
                       /\ UNCHANGED listRequested
  /\ UNCHANGED <<rebuild, fReachedBestHeader, ibd, slept, thrown, disturbances>>

-----------------------------------------------------------------------------
(* The scheduler thread: UpdatedBlockTip. *)

\* Up to the rebuild; isBest: the tip is the best header.
UpdatedBlockTip(fInitialDownload, isBest) ==
  /\ ~thrown
  /\ rebuild = NoRebuild
  /\ fInitialDownload => ibd
  /\ ibd' = fInitialDownload
  /\ LET s == IF IsBlockchainSynced(sync) THEN sync ELSE BumpAssetLastTime(sync)
     IN \/ /\ IsFailed(sync) \/ IsSynced(sync)
           /\ UNCHANGED <<sync, rebuild, fReachedBestHeader, disturbances, listRequested>>
        \/ /\ ~IsFailed(sync) /\ ~IsSynced(sync)
           /\ fInitialDownload
           /\ sync' = IF IsBlockchainSynced(s) THEN ResetValue ELSE s
           /\ listRequested' = (listRequested /\ ~IsBlockchainSynced(s))
           /\ UNCHANGED <<rebuild, fReachedBestHeader, disturbances>>
        \/ /\ ~IsFailed(sync) /\ ~IsSynced(sync)
           /\ ~fInitialDownload
           /\ fReachedBestHeader /\ ~isBest
           /\ Disturb
           /\ sync' = ResetValue
           /\ listRequested' = FALSE
           /\ fReachedBestHeader' = FALSE
           /\ UNCHANGED rebuild
        \/ /\ ~IsFailed(sync) /\ ~IsSynced(sync)
           /\ ~fInitialDownload
           /\ ~fReachedBestHeader \/ isBest
           /\ sync' = s
           /\ fReachedBestHeader' = isBest
           /\ rebuild' = IF ~IsBlockchainSynced(s) /\ isBest THEN 0 ELSE NoRebuild
           /\ UNCHANGED <<disturbances, listRequested>>
  /\ UNCHANGED <<mapFulfilledRequests, nodes, todo, slept, thrown>>

\* From the rebuild on.
SwitchAtTip ==
  /\ ~thrown
  /\ rebuild # NoRebuild
  /\ rebuild' = NoRebuild
  /\ IF IsFailed(sync)
     THEN thrown' = TRUE /\ UNCHANGED <<sync, mapFulfilledRequests>>
     ELSE /\ sync' = SwitchToNextAsset(sync)
          /\ mapFulfilledRequests' = SwitchRequests(sync, mapFulfilledRequests)
          /\ UNCHANGED thrown
  /\ UNCHANGED <<nodes, todo, fReachedBestHeader, ibd, slept, disturbances, listRequested>>

-----------------------------------------------------------------------------
(* Messages, RPC, connections and time. *)

\* A broadcast, ping or payment vote that was not known; ignored before
\* IsBlockchainSynced.
DataArrives ==
  /\ ~thrown
  /\ Disturb
  /\ IsBlockchainSynced(sync)
  /\ sync' = BumpAssetLastTime(sync)
  /\ UNCHANGED <<mapFulfilledRequests, nodes, todo, rebuild, fReachedBestHeader, ibd,
                 slept, thrown, listRequested>>

\* mnsync reset
MnsyncReset ==
  /\ ~thrown
  /\ Disturb
  /\ Restarted
  /\ UNCHANGED <<nodes, todo, rebuild, fReachedBestHeader, ibd, slept, thrown>>

Connect(p) ==
  /\ ~thrown
  /\ p \notin nodes
  /\ nodes' = nodes \cup {p}
  /\ UNCHANGED <<sync, mapFulfilledRequests, todo, rebuild, fReachedBestHeader, ibd,
                 slept, thrown, disturbances, listRequested>>

Disconnect(p) ==
  /\ ~thrown
  /\ Disturb
  /\ p \in nodes
  /\ nodes' = nodes \ {p}
  /\ UNCHANGED <<sync, mapFulfilledRequests, todo, rebuild, fReachedBestHeader, ibd,
                 slept, thrown, listRequested>>

\* A fulfilled request expires (HasFulfilledRequest, CheckAndRemove).
RequestExpires(p, request) ==
  /\ ~thrown
  /\ Disturb
  /\ request \in mapFulfilledRequests[p]
  /\ mapFulfilledRequests' = [mapFulfilledRequests EXCEPT ![p] = @ \ {request}]
  /\ UNCHANGED <<sync, nodes, todo, rebuild, fReachedBestHeader, ibd, slept, thrown,
                 listRequested>>

\* The maintenance thread is held up, between ticks or within one.
TickDelayed ==
  /\ ~thrown
  /\ Disturb
  /\ RebuildMayContinue
  /\ RebuildContinues
  /\ sync' = TimePasses(sync)
  /\ UNCHANGED <<mapFulfilledRequests, nodes, todo, fReachedBestHeader, ibd, slept,
                 thrown, listRequested>>

\* The machine is suspended for more than an hour.  Not during a rebuild, which would
\* then take longer than REBUILD.
Sleep ==
  /\ ~thrown
  /\ Disturb
  /\ rebuild = NoRebuild
  /\ slept' = TRUE
  /\ sync' = [sync EXCEPT !.sinceBumped = SYNC_TIMEOUT + 1,
                          !.sinceFailure = FAILURE_COOLDOWN + 1]
  /\ UNCHANGED <<mapFulfilledRequests, nodes, todo, rebuild, fReachedBestHeader, ibd,
                 thrown, listRequested>>

-----------------------------------------------------------------------------
(* Specifications. *)

Init ==
  /\ sync = ResetValue
  /\ mapFulfilledRequests \in [Peers -> {{}, Requests}]  \* loaded from netfulfilled.dat
  /\ nodes = {}
  /\ todo = {}
  /\ rebuild = NoRebuild
  /\ fReachedBestHeader = FALSE
  /\ ibd \in BOOLEAN
  /\ slept = FALSE
  /\ thrown = FALSE
  /\ disturbances = 0
  /\ listRequested = FALSE

Next ==
  \/ BeginTick
  \/ \E p \in Peers : VisitPeer(p)
  \/ \E fInitialDownload, isBest \in BOOLEAN : UpdatedBlockTip(fInitialDownload, isBest)
  \/ SwitchAtTip
  \/ DataArrives
  \/ MnsyncReset
  \/ \E p \in Peers : Connect(p)
  \/ \E p \in Peers : Disconnect(p)
  \/ \E p \in Peers, request \in Requests : RequestExpires(p, request)
  \/ TickDelayed
  \/ Sleep

\* Both threads keep running, blocks keep arriving and reach the best header, and
\* peers keep connecting.
Fairness ==
  /\ WF_vars(BeginTick)
  /\ \A p \in Peers : WF_vars(VisitPeer(p))
  /\ WF_vars(UpdatedBlockTip(FALSE, TRUE))
  /\ WF_vars(SwitchAtTip)
  /\ \A p \in Peers : WF_vars(Connect(p))

Spec == Init /\ [][Next]_vars /\ Fairness

-----------------------------------------------------------------------------
(* Properties. *)

\* Payment votes are only synchronised, and the sync only finished, after the list was
\* requested from a peer since the last Reset: neither a timeout nor the scheduler
\* thread passes MASTERNODE_SYNC_LIST over.
ListBeforeWinners == IsMasternodeListSynced(sync) => listRequested

\* What UpdatedBlockTip has checked before the rebuild still holds when it acts on it:
\* the maintenance thread does not leave the first two assets meanwhile.  In particular
\* SwitchToNextAsset does not throw in the scheduler thread, which would end the process.
CheckHoldsAtSwitch == rebuild # NoRebuild => ~IsBlockchainSynced(sync) /\ ~IsFailed(sync)

\* Whatever state the disturbances have left behind (a failed asset, requests that count
\* as fulfilled, a Reset), the sync finishes and stays finished once they end.
Finishes == <>[]IsSynced(sync)
=============================================================================
