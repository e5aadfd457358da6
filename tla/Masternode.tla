----------------------------- MODULE Masternode -----------------------------
(***************************************************************************)
(* What a node knows of one masternode of the network: its entry in the    *)
(* list, the broadcasts and pings seen, and the requests that try to       *)
(* recover it (masternode.cpp, masternodeman.cpp).  Every handler runs     *)
(* under cs_main and CMasternodeMan::cs and is one action.                 *)
(*                                                                         *)
(* A time stamp is an age, in ticks.  Ages are capped where the code no    *)
(* longer tells them apart: a ping at NEW_START_REQUIRED, a broadcast      *)
(* just before MIN_MNP more.  A broadcast is its number in the order of    *)
(* signing, and a ping is its age: both stand for the hash the code keys   *)
(* its maps with.                                                          *)
(* The node and the masternode are on the same chain, and the keys of the  *)
(* masternode do not change.                                               *)
(***************************************************************************)
EXTENDS Integers, Sequences, FiniteSets, Functions

CONSTANTS
  MIN_MNB,               \* MASTERNODE_MIN_MNB_SECONDS
  MIN_MNP,               \* MASTERNODE_MIN_MNP_SECONDS
  PING_GAP,              \* MASTERNODE_MIN_MNP_SECONDS - 60
  EXPIRATION,            \* MASTERNODE_EXPIRATION_SECONDS
  WATCHDOG_MAX,          \* MASTERNODE_WATCHDOG_MAX_SECONDS
  NEW_START_REQUIRED,    \* MASTERNODE_NEW_START_REQUIRED_SECONDS
  PING_LIFE,             \* the age at which the block of a ping is too old
  POSE_BAN_MAX_SCORE,
  RECOVERY_RETRY,        \* MNB_RECOVERY_RETRY_SECONDS
  QUORUM_TOTAL, QUORUM_REQUIRED,
  ListSize,              \* CMasternodeMan::size(), the length of a ban in blocks
  MaxBroadcasts,         \* bound on the broadcasts the owner signs
  MaxFaults,             \* bound on the disturbances, marked below
  WatchdogActive,        \* IsWatchdogActive: whether other masternodes vote with theirs
  None

ASSUME MasternodeAssumption ==
  /\ {MIN_MNB, MIN_MNP, PING_GAP, EXPIRATION, WATCHDOG_MAX, PING_LIFE} \subseteq Nat
  /\ NEW_START_REQUIRED \in Nat \ {0} /\ PING_LIFE + PING_GAP <= NEW_START_REQUIRED
  /\ EXPIRATION <= NEW_START_REQUIRED
  /\ {POSE_BAN_MAX_SCORE, ListSize, QUORUM_REQUIRED} \subseteq Nat \ {0}
  /\ WatchdogActive \in BOOLEAN
  /\ {RECOVERY_RETRY, QUORUM_TOTAL, MaxBroadcasts, MaxFaults} \subseteq Nat

VARIABLES
  mnodeman,         \* CMasternodeMan, as far as it is about this masternode
  sync,             \* the state of masternodeSync
  signed,           \* the broadcasts the owner has signed, oldest first
  pings,            \* the pings the masternode has signed
  collateral,       \* the collateral: spent or unknown, unconfirmed, confirmed
  burnFund,         \* whether the burn fund is valid and not expired
  faults            \* the disturbances so far

network == <<signed, pings>>
chain == <<collateral, burnFund>>
vars == <<mnodeman, sync, network, chain, faults>>

LIST == "LIST"
WINNERS == "WINNERS"
FINISHED == "FINISHED"

PRE_ENABLED == "PRE_ENABLED"
ENABLED_ == "ENABLED"
EXPIRED == "EXPIRED"
OUTPOINT_SPENT == "OUTPOINT_SPENT"
WATCHDOG_EXPIRED == "WATCHDOG_EXPIRED"
NEW_START == "NEW_START_REQUIRED"
POSE_BAN == "POSE_BAN"

NoPing == -1        \* CMasternodePing()
OldBroadcast == NEW_START_REQUIRED + MIN_MNP - 1
NoVote == WATCHDOG_MAX + 1

PingAges == 0 .. NEW_START_REQUIRED
LastPings == PingAges \cup {NoPing}
Broadcasts == 1 .. MaxBroadcasts

Entries ==
  [mnb : Broadcasts, lastPing : LastPings,
   nActiveState : {PRE_ENABLED, ENABLED_, EXPIRED, OUTPOINT_SPENT, WATCHDOG_EXPIRED,
                   NEW_START, POSE_BAN},
   watchdogVote : 0 .. NoVote,
   nPoSeBanScore : -POSE_BAN_MAX_SCORE .. POSE_BAN_MAX_SCORE,
   banLeft : 0 .. ListSize,
   justChecked : BOOLEAN]

ASSUME NoneAssumption == None \notin Entries

\* The maps keyed with the hash of a broadcast.
Maps(S) == UNION {[D -> S] : D \in SUBSET Broadcasts}

Managers ==
  [entry : Entries \cup {None},
   seenMnb : Maps([default : BOOLEAN, lastPing : LastPings]),
   seenMnp : SUBSET PingAges,
   requests : Maps([open : BOOLEAN, age : 0 .. RECOVERY_RETRY + 1, asked : 0 .. QUORUM_TOTAL]),
   replies : Maps([lastPing : PingAges, count : 1 .. QUORUM_TOTAL])]

\* The entry, the maps and the network around them hold what their declarations say.
TypeOK ==
  /\ mnodeman \in Managers
  /\ sync \in {LIST, WINNERS, FINISHED}
  /\ signed \in Seq([age : 0 .. OldBroadcast, confirmed : BOOLEAN])
  /\ Len(signed) <= MaxBroadcasts
  /\ pings \subseteq PingAges
  /\ collateral \in {"spent", "young", "confirmed"}
  /\ burnFund \in BOOLEAN
  /\ faults \in 0 .. MaxFaults

Empty == [b \in {} |-> 0]
Put(m, b, v) == [x \in DOMAIN m \cup {b} |-> IF x = b THEN v ELSE m[x]]
Insert(m, b, v) == IF b \in DOMAIN m THEN m ELSE Put(m, b, v)
Without(m, S) == [x \in DOMAIN m \ S |-> m[x]]
Capped(n, limit) == IF n < limit THEN n ELSE limit

-----------------------------------------------------------------------------
(* CMasternode. *)

IsPingedWithin(e, n) == e.lastPing # NoPing /\ e.lastPing < n
\* A broadcast that is not among those signed before is being signed in this step.
AgeOf(b) == IF b \in DOMAIN signed THEN signed[b].age ELSE 0
IsBroadcastedWithin(e, n) == AgeOf(e.mnb) < n
PingIsEarly(e) == e.lastPing = NoPing \/ AgeOf(e.mnb) - e.lastPing < MIN_MNP

Increased(e) == [e EXCEPT !.nPoSeBanScore = IF @ < POSE_BAN_MAX_SCORE THEN @ + 1 ELSE @]
Decreased(e) == [e EXCEPT !.nPoSeBanScore = IF @ > -POSE_BAN_MAX_SCORE THEN @ - 1 ELSE @]

\* The last part of Check: what the last ping and the last vote of the watchdog make of an
\* entry that is neither spent nor banned.  During the list stage an entry without a recent
\* ping does not expire, and one that had expired before stays so.
StateOf(e) ==
  LET fWaitForPing == sync = LIST /\ ~IsPingedWithin(e, MIN_MNP)
      fWatchdogExpired == /\ sync = FINISHED
                          /\ WatchdogActive
                          /\ e.watchdogVote > WATCHDOG_MAX
      alive == IF PingIsEarly(e) THEN PRE_ENABLED ELSE ENABLED_
  IN IF fWaitForPing
     THEN IF e.nActiveState \in {EXPIRED, WATCHDOG_EXPIRED, NEW_START}
          THEN e.nActiveState ELSE alive
     ELSE CASE ~IsPingedWithin(e, NEW_START_REQUIRED) -> NEW_START
            [] IsPingedWithin(e, NEW_START_REQUIRED) /\ fWatchdogExpired -> WATCHDOG_EXPIRED
            [] ~fWatchdogExpired /\ IsPingedWithin(e, NEW_START_REQUIRED)
                 /\ ~IsPingedWithin(e, EXPIRATION) -> EXPIRED
            [] ~fWatchdogExpired /\ IsPingedWithin(e, EXPIRATION) -> alive

Settled(e) == [e EXCEPT !.nActiveState = StateOf(e)]

\* Check.  It does nothing within MASTERNODE_CHECK_SECONDS of the last time, unless forced.
Check(e, fForce) ==
  LET c == [e EXCEPT !.justChecked = TRUE]
  IN IF ~fForce /\ e.justChecked THEN e
     ELSE IF e.nActiveState = OUTPOINT_SPENT THEN c
     ELSE IF collateral = "spent" \/ ~burnFund THEN [c EXCEPT !.nActiveState = OUTPOINT_SPENT]
     ELSE IF c.nActiveState = POSE_BAN
     THEN IF c.banLeft > 0 THEN c ELSE Settled(Decreased(c))
     ELSE IF c.nPoSeBanScore >= POSE_BAN_MAX_SCORE
     THEN [c EXCEPT !.nActiveState = POSE_BAN, !.banLeft = ListSize]
     ELSE Settled(c)

\* The entry that Add makes of a broadcast; SimpleCheck marks one without a ping as expired.
NewEntry(b, p) ==
  [mnb |-> b, lastPing |-> p,
   nActiveState |-> IF p = NoPing THEN EXPIRED ELSE ENABLED_,
   watchdogVote |-> NoVote, nPoSeBanScore |-> 0, banLeft |-> 0, justChecked |-> FALSE]

-----------------------------------------------------------------------------
(* CMasternodePing::CheckAndUpdate and CMasternodeBroadcast::Update. *)

\* Mutant: an entry that needs a new start refuses pings too.
AcceptsBeforeStart(e, p, fFromNewBroadcast) ==
  /\ fFromNewBroadcast \/ e.nActiveState \notin {EXPIRED, NEW_START}
  /\ p <= PING_LIFE
  /\ e.lastPing = NoPing \/ e.lastPing - p >= PING_GAP

\* The refusals of CheckAndUpdate: an expired entry, a block that is too old, a ping that is
\* not PING_GAP newer than the last one.
Accepts(e, p, fFromNewBroadcast) ==
  /\ fFromNewBroadcast \/ e.nActiveState # EXPIRED
  /\ p <= PING_LIFE
  /\ e.lastPing = NoPing \/ e.lastPing - p >= PING_GAP

\* The rest of CheckAndUpdate: the ping is stored, also in the broadcast seen, and the entry
\* is checked at once.
StorePing(m, p) ==
  [m EXCEPT !.entry = Check([@ EXCEPT !.lastPing = p], TRUE),
            !.seenMnb = IF m.entry.mnb \in DOMAIN @
                        THEN [@ EXCEPT ![m.entry.mnb].lastPing = p] ELSE @]

Relayed == {ENABLED_, EXPIRED, WATCHDOG_EXPIRED}

\* UpdateFromNewBroadcast, past the test of the time of signing.
UpdateFromNewBroadcast(m, b, p) ==
  LET reset == [m EXCEPT !.entry = [@ EXCEPT !.mnb = b, !.nPoSeBanScore = 0,
                                             !.banLeft = 0, !.justChecked = FALSE]]
      stored == StorePing(reset, p)
  IN IF p = NoPing THEN [reset EXCEPT !.entry.lastPing = NoPing]
     ELSE IF ~Accepts(reset.entry, p, TRUE) THEN reset
     ELSE IF stored.entry.nActiveState \in Relayed
     THEN [stored EXCEPT !.seenMnp = @ \cup {p}]
     ELSE stored

\* Mutant: a broadcast that is reprocessed may be of any age.
NewerOrRecovered(e, b, fRecovery) == b > e.mnb \/ fRecovery

\* The broadcast is not an old one (the first two tests of Update).
Newer(e, b, fRecovery) == b > e.mnb \/ (b = e.mnb /\ fRecovery)

\* Mutant: the broadcast of a banned masternode is taken.
UpdateBanned(m, b, p, fRecovery) ==
  LET checked == [m EXCEPT !.entry = Check(@, FALSE)]
      updated == UpdateFromNewBroadcast(checked, b, p)
  IN IF ~Newer(m.entry, b, fRecovery) THEN [man |-> m, ok |-> FALSE]
     ELSE IF IsBroadcastedWithin(checked.entry, MIN_MNB) THEN [man |-> checked, ok |-> TRUE]
     ELSE [man |-> [updated EXCEPT !.entry = Check(@, FALSE)], ok |-> TRUE]

\* Update: the manager after it, and what it returns.  A broadcast that comes within MIN_MNB
\* of the current one is not taken, and Update returns true all the same.
Update(m, b, p, fRecovery) ==
  LET checked == [m EXCEPT !.entry = Check(@, FALSE)]
      updated == UpdateFromNewBroadcast(checked, b, p)
  IN IF ~Newer(m.entry, b, fRecovery) THEN [man |-> m, ok |-> FALSE]
     ELSE IF checked.entry.nActiveState = POSE_BAN THEN [man |-> checked, ok |-> FALSE]
     ELSE IF IsBroadcastedWithin(checked.entry, MIN_MNB) THEN [man |-> checked, ok |-> TRUE]
     ELSE [man |-> [updated EXCEPT !.entry = Check(@, FALSE)], ok |-> TRUE]

-----------------------------------------------------------------------------
(* CMasternodeMan. *)

SeenAs(p) == [default |-> FALSE, lastPing |-> p]

\* Looking the broadcast of the entry up with operator[] leaves an empty broadcast in the map
\* when it is not there.
LookedUp(m) ==
  [m EXCEPT !.seenMnb = Insert(@, m.entry.mnb, [default |-> TRUE, lastPing |-> NoPing])]

\* The broadcast found there is erased, by its own hash: an empty one stays.
EraseOld(m, found, old) ==
  IF found[old].default THEN m ELSE [m EXCEPT !.seenMnb = Without(@, {old})]

\* One answer more for a broadcast: the first one is the one that may be reprocessed.
AnsweredAgain(replies, b, p) ==
  IF b \in DOMAIN replies THEN [replies EXCEPT ![b].count = @ + 1]
  ELSE Put(replies, b, [lastPing |-> p, count |-> 1])

\* Mutant: a peer may answer again and again.
SeenAgainRepeated(m, b, p, asked) ==
  IF ~(asked /\ m.requests[b].open) THEN m
  ELSE [m EXCEPT !.replies = IF p = NoPing THEN @
                             ELSE AnsweredAgain(@, b, p)]

\* A broadcast that was seen before: only the answer of a peer we asked is kept, when its
\* ping is newer and would bring the masternode back.
SeenAgain(m, b, p, asked) ==
  LET known == m.seenMnb[b].lastPing
      better == p # NoPing /\ (known = NoPing \/ p < known)
      mnTemp == [NewEntry(b, p) EXCEPT !.watchdogVote = Capped(AgeOf(b), NoVote)]
      good == Check(mnTemp, FALSE).nActiveState
                \in {ENABLED_, PRE_ENABLED, EXPIRED, WATCHDOG_EXPIRED}
  IN IF ~(asked /\ m.requests[b].open) THEN m
     ELSE [m EXCEPT !.requests[b].asked = @ - 1,
                    !.replies = IF ~(better /\ good) THEN @
                                ELSE AnsweredAgain(@, b, p)]

\* CheckOutpoint and Add, for a masternode that is not in the list.
AddNew(m, b, p) ==
  CASE collateral = "spent" -> m
    [] collateral = "young" -> [m EXCEPT !.seenMnb = Without(@, {b})]
    [] collateral = "confirmed" ->
         IF signed[b].confirmed THEN [m EXCEPT !.entry = NewEntry(b, p)] ELSE m

CheckMnbAndUpdateMasternodeList(m, b, p, asked, fRecovery) ==
  LET seen == [m EXCEPT !.seenMnb = Insert(@, b, SeenAs(p))]
      looked == LookedUp(seen)
      update == Update(looked, b, p, fRecovery)
  IN IF b \in DOMAIN m.seenMnb /\ ~fRecovery THEN SeenAgain(m, b, p, asked)
     ELSE IF m.entry = None THEN AddNew(seen, b, p)
     ELSE IF update.ok /\ b # m.entry.mnb
     THEN EraseOld(update.man, looked.seenMnb, m.entry.mnb)
     ELSE update.man

\* UpdateMasternodeList, for a broadcast this node's own wallet has signed.
UpdateMasternodeList(m, b, p) ==
  LET seen == [m EXCEPT !.seenMnp = @ \cup {p}, !.seenMnb = Insert(@, b, SeenAs(p))]
      looked == LookedUp(seen)
  IN IF m.entry = None THEN [seen EXCEPT !.entry = NewEntry(b, p)]
     ELSE EraseOld(UpdateFromNewBroadcast(looked, b, p), looked.seenMnb, m.entry.mnb)

\* An entry leaves the list, and its broadcast the map of those seen.
Removed(m) == [m EXCEPT !.entry = None, !.seenMnb = Without(@, {m.entry.mnb})]

\* CheckAndRemove, first part: a spent entry goes; one that needs a new start makes the node
\* ask n masternodes for a better ping, unless it has asked already.
RemovedOrAsked(m, n) ==
  IF m.entry = None THEN m
  ELSE IF m.entry.nActiveState = OUTPOINT_SPENT THEN Removed(m)
  ELSE IF m.entry.nActiveState = NEW_START
  THEN [m EXCEPT !.requests = Insert(@, m.entry.mnb, [open |-> TRUE, age |-> 0, asked |-> n])]
  ELSE m

\* Second part: the answers whose time is up.
Ripe(m) ==
  {b \in DOMAIN m.replies : b \in DOMAIN m.requests => ~m.requests[b].open}

Reprocessed(m, b) ==
  LET reply == m.replies[b]
      after == IF reply.count >= QUORUM_REQUIRED
               THEN CheckMnbAndUpdateMasternodeList(m, b, reply.lastPing, FALSE, TRUE)
               ELSE m
  IN [after EXCEPT !.replies = Without(@, {b})]

\* The loop over the answers: the manager after those of order, one after another.
Answered(m, order) ==
  LET after[i \in 0 .. Len(order)] ==
        IF i = 0 THEN m ELSE Reprocessed(after[i - 1], order[i])
  IN after[Len(order)]

\* The managers that can result: the answers are taken in the order of their hashes, which
\* may be any.
AfterReplies(m) ==
  {Answered(m, order) : order \in Bijection(1 .. Cardinality(Ripe(m)), Ripe(m))}

\* Third part: the requests that may be made again.
Forgotten(m) ==
  [m EXCEPT !.requests =
     Without(@, {b \in DOMAIN @ : ~@[b].open /\ @[b].age > RECOVERY_RETRY})]

-----------------------------------------------------------------------------
(* The messages.  An event of a life that does not go smoothly is a        *)
(* disturbance: it is counted, and there are at most MaxFaults.            *)

Disturbance(is) ==
  /\ is => faults < MaxFaults
  /\ faults' = IF is THEN faults + 1 ELSE faults

\* A ping as old as this hardly ever comes on its own, or in the answer to a request.
Late(p) == p >= EXPIRATION

\* MNANNOUNCE: a peer, one the node has asked or not, sends a broadcast with the last ping it
\* knows.  One seen before that is no answer changes nothing.
ReceiveBroadcast(b, p, asked) ==
  /\ asked \/ b \notin DOMAIN mnodeman.seenMnb
  /\ asked => b \in DOMAIN mnodeman.requests /\ mnodeman.requests[b].asked > 0
  /\ Disturbance(p = NoPing \/ (asked /\ Late(p)))
  /\ mnodeman' = CheckMnbAndUpdateMasternodeList(mnodeman, b, p, asked, FALSE)
  /\ UNCHANGED <<sync, network, chain>>

\* The entry after the vote of the watchdog that a ping with a current sentinel carries.
Voted(m, p) == [m EXCEPT !.entry.watchdogVote = Capped(p, NoVote)]

\* MNPING.
ReceivePing(p, fSentinelIsCurrent) ==
  LET seen == [mnodeman EXCEPT !.seenMnp = @ \cup {p}]
      voted == IF fSentinelIsCurrent THEN Voted(seen, p) ELSE seen
  IN /\ p \notin mnodeman.seenMnp
     /\ p < NEW_START_REQUIRED
     /\ Disturbance(Late(p) \/ ~fSentinelIsCurrent)
     /\ IF mnodeman.entry = None
        THEN mnodeman' = seen
        ELSE mnodeman' = IF Accepts(voted.entry, p, FALSE) THEN StorePing(voted, p) ELSE voted
     /\ UNCHANGED <<sync, network, chain>>

\* DSEG: the entry is offered to a peer that asks for the list, and counts as seen.
ReceiveDseg ==
  /\ sync = FINISHED
  /\ mnodeman.entry # None
  /\ mnodeman' =
       [mnodeman EXCEPT
          !.seenMnb = Insert(@, mnodeman.entry.mnb, SeenAs(mnodeman.entry.lastPing)),
          !.seenMnp = @ \cup ({mnodeman.entry.lastPing} \ {NoPing, NEW_START_REQUIRED})]
  /\ UNCHANGED <<sync, network, chain, faults>>

\* ProcessVerifyReply and ProcessVerifyBroadcast: the masternode has shown that it is at its
\* address, or another one has.
Verified(e, itself) == IF itself THEN Decreased(e) ELSE Increased(e)

\* MNVERIFY.
ReceiveVerification(itself) ==
  /\ Disturbance(TRUE)
  /\ sync # LIST
  /\ mnodeman.entry # None
  /\ mnodeman' = [mnodeman EXCEPT !.entry = Verified(@, itself)]
  /\ UNCHANGED <<sync, network, chain>>

\* PoSeBan, called for a masternode that votes for two transactions on one outpoint.
PoSeBan ==
  /\ Disturbance(TRUE)
  /\ mnodeman.entry # None
  /\ mnodeman' = [mnodeman EXCEPT !.entry.nPoSeBanScore = POSE_BAN_MAX_SCORE]
  /\ UNCHANGED <<sync, network, chain>>

-----------------------------------------------------------------------------
(* The node. *)

\* Every second, once synchronised.
CheckAll ==
  /\ sync = FINISHED
  /\ mnodeman.entry # None
  /\ mnodeman' = [mnodeman EXCEPT !.entry = Check(@, FALSE)]
  /\ UNCHANGED <<sync, network, chain, faults>>

\* Every minute.
CheckAndRemove(n) ==
  /\ sync = FINISHED
  /\ UNCHANGED <<sync, network, chain, faults>>
  /\ \E checked \in {IF mnodeman.entry = None THEN mnodeman
                     ELSE [mnodeman EXCEPT !.entry = Check(@, FALSE)]} :
     \E asked \in {RemovedOrAsked(checked, n)} :
     \E answered \in AfterReplies(asked) :
       mnodeman' = Forgotten(answered)

\* Every five minutes: another masternode burnt the same fund earlier, or the tier is full.
RemoveExcess ==
  /\ Disturbance(TRUE)
  /\ sync = FINISHED
  /\ mnodeman.entry # None
  /\ mnodeman' = Removed(mnodeman)
  /\ UNCHANGED <<sync, network, chain>>

\* CheckSameAddr: a verified masternode may be at the same address.
CheckSameAddr(e, duplicate) == IF duplicate THEN Increased(e) ELSE e

\* A new tip: a ban is one block shorter.
UpdatedBlockTip(duplicate) ==
  /\ Disturbance(duplicate)
  /\ mnodeman.entry # None
  /\ duplicate => sync = FINISHED /\ mnodeman.entry.nActiveState \in {ENABLED_, PRE_ENABLED}
  /\ LET e == CheckSameAddr(mnodeman.entry, duplicate)
     IN mnodeman' = [mnodeman EXCEPT !.entry = [e EXCEPT !.banLeft = IF @ > 0 THEN @ - 1 ELSE 0]]
  /\ UNCHANGED <<sync, network, chain>>

\* The synchronisation goes on.
SwitchToNextAsset ==
  /\ sync # FINISHED
  /\ sync' = IF sync = LIST THEN WINNERS ELSE FINISHED
  /\ UNCHANGED <<mnodeman, network, chain, faults>>

NoManager ==
  [entry |-> None, seenMnb |-> Empty, seenMnp |-> {}, requests |-> Empty, replies |-> Empty]

\* The node starts again, with mncache.dat or without it; the synchronisation also starts
\* again, with everything kept, after the node has slept.
Restart(kept) ==
  /\ Disturbance(TRUE)
  /\ sync' = LIST
  /\ mnodeman' = IF kept THEN mnodeman ELSE NoManager
  /\ UNCHANGED <<network, chain>>

-----------------------------------------------------------------------------
(* The owner, the masternode and the chain. *)

Signed == [age |-> 0, confirmed |-> collateral = "confirmed"]

\* The owner starts the masternode from another node.
SignBroadcast ==
  /\ Len(signed) < MaxBroadcasts
  /\ signed' = Append(signed, Signed)
  /\ pings' = pings \cup {0}
  /\ UNCHANGED <<mnodeman, sync, chain, faults>>

\* The owner starts it from this node (masternode start-alias).  The entry is not checked.
StartAlias ==
  /\ Len(signed) < MaxBroadcasts
  /\ signed' = Append(signed, Signed)
  /\ pings' = pings \cup {0}
  /\ mnodeman' = UpdateMasternodeList(mnodeman, Len(signed) + 1, 0)
  /\ UNCHANGED <<sync, chain, faults>>

\* The masternode signs a ping, MIN_MNP after the last one at the earliest.
SignPing ==
  /\ signed # <<>>
  /\ \A p \in pings : p >= MIN_MNP
  /\ pings' = pings \cup {0}
  /\ UNCHANGED <<mnodeman, sync, signed, chain, faults>>

Older(p) == IF p = NoPing THEN NoPing ELSE Capped(p + 1, NEW_START_REQUIRED)

\* A tick of time passes: many minutes, so that a node at work has gone through its answers.
\* A ping seen is forgotten at the age at which it is refused anyway.
Tick ==
  /\ sync = FINISHED => mnodeman.replies = Empty
  /\ pings' = {Older(p) : p \in pings}
  /\ signed' = [b \in DOMAIN signed |->
                  [signed[b] EXCEPT !.age = Capped(@ + 1, OldBroadcast)]]
  /\ mnodeman' =
       [entry |-> IF mnodeman.entry = None THEN None
                  ELSE [mnodeman.entry EXCEPT !.lastPing = Older(@),
                                              !.watchdogVote = Capped(@ + 1, NoVote),
                                              !.justChecked = FALSE],
        seenMnb |-> [b \in DOMAIN mnodeman.seenMnb |->
                       [mnodeman.seenMnb[b] EXCEPT !.lastPing = Older(@)]],
        seenMnp |-> {Older(p) : p \in mnodeman.seenMnp} \ {NEW_START_REQUIRED},
        requests |-> [b \in DOMAIN mnodeman.requests |->
                        [mnodeman.requests[b] EXCEPT
                           !.open = FALSE, !.age = Capped(@ + 1, RECOVERY_RETRY + 1)]],
        replies |-> [b \in DOMAIN mnodeman.replies |->
                       [mnodeman.replies[b] EXCEPT !.lastPing = Older(@)]]]
  /\ UNCHANGED <<sync, chain, faults>>

\* MASTERNODE_CHECK_SECONDS pass.
SecondsPass ==
  /\ mnodeman.entry # None
  /\ mnodeman' = [mnodeman EXCEPT !.entry.justChecked = FALSE]
  /\ UNCHANGED <<sync, network, chain, faults>>

\* MNB_RECOVERY_WAIT_SECONDS pass, which are more.
RecoveryWaitEnds ==
  /\ \E b \in DOMAIN mnodeman.requests : mnodeman.requests[b].open
  /\ mnodeman' =
       [mnodeman EXCEPT
          !.requests = [b \in DOMAIN @ |-> [@[b] EXCEPT !.open = FALSE]],
          !.entry = IF @ = None THEN None ELSE [@ EXCEPT !.justChecked = FALSE]]
  /\ UNCHANGED <<sync, network, chain, faults>>

\* The collateral gets its confirmations: every broadcast so far was signed too early.
ConfirmCollateral ==
  /\ collateral = "young"
  /\ collateral' = "confirmed"
  /\ signed' = [b \in DOMAIN signed |-> [signed[b] EXCEPT !.confirmed = FALSE]]
  /\ UNCHANGED <<mnodeman, sync, pings, burnFund, faults>>

\* The collateral is spent, or a reorganisation takes its confirmations.
LoseCollateral(to) ==
  /\ Disturbance(TRUE)
  /\ collateral = "confirmed" \/ (collateral = "young" /\ to = "spent")
  /\ collateral' = to
  /\ UNCHANGED <<mnodeman, sync, network, burnFund>>

ExpireBurnFund ==
  /\ Disturbance(TRUE)
  /\ burnFund = TRUE
  /\ burnFund' = FALSE
  /\ UNCHANGED <<mnodeman, sync, network, collateral>>

-----------------------------------------------------------------------------
\* The node is synchronised, and the collateral of the new masternode confirmed.
Init ==
  /\ mnodeman = NoManager
  /\ sync = FINISHED
  /\ signed = <<>>
  /\ pings = {}
  /\ collateral = "confirmed"
  /\ burnFund = TRUE
  /\ faults = 0

Messages ==
  \/ \E b \in DOMAIN signed, p \in pings \cup {NoPing}, asked \in BOOLEAN :
       ReceiveBroadcast(b, p, asked)
  \/ \E p \in pings, fSentinelIsCurrent \in BOOLEAN : ReceivePing(p, fSentinelIsCurrent)
  \/ ReceiveDseg
  \/ \E itself \in BOOLEAN : ReceiveVerification(itself)
  \/ PoSeBan

Node ==
  \/ CheckAll
  \/ \E n \in 0 .. QUORUM_TOTAL : CheckAndRemove(n)
  \/ RemoveExcess
  \/ \E duplicate \in BOOLEAN : UpdatedBlockTip(duplicate)
  \/ SwitchToNextAsset
  \/ \E kept \in BOOLEAN : Restart(kept)

World ==
  \/ SignBroadcast
  \/ StartAlias
  \/ SignPing
  \/ Tick
  \/ SecondsPass
  \/ RecoveryWaitEnds
  \/ ConfirmCollateral
  \/ \E to \in {"spent", "young"} : LoseCollateral(to)
  \/ ExpireBurnFund

Next == Messages \/ Node \/ World

\* Time passes, the threads of the node and of the masternode run, and of the pings that are
\* sent again and again while an entry waits for one, one arrives before the next tick.
Fairness ==
  /\ WF_vars(Tick) /\ WF_vars(CheckAll) /\ WF_vars(SwitchToNextAsset)
  /\ WF_vars(RecoveryWaitEnds)
  /\ WF_vars(mnodeman.replies # Empty /\ \E n \in 0 .. QUORUM_TOTAL : CheckAndRemove(n))
  /\ WF_vars(SignPing)
  /\ SF_vars(0 \in pings /\ mnodeman.entry # None /\ mnodeman.entry.nActiveState = NEW_START
             /\ ReceivePing(0, TRUE))

Spec == Init /\ [][Next]_vars /\ Fairness

-----------------------------------------------------------------------------
(* Properties. *)

\* What makes Check find an entry spent does not hold.
Funded == collateral # "spent" /\ burnFund

\* While a funded masternode stays in the list, the broadcast its entry is made from never
\* gets older, whatever order broadcasts come in, come back as answers to a recovery request,
\* or were seen and skipped before; and its last ping is never replaced by an older one (the
\* tests of the times of signing in Update and CheckAndUpdate).  Only a broadcast without a
\* ping clears it.
EntryAdvances ==
  [][mnodeman.entry # None /\ mnodeman'.entry # None /\ Funded =>
       /\ mnodeman.entry.mnb <= mnodeman'.entry.mnb
       /\ \/ mnodeman'.entry.lastPing <= mnodeman.entry.lastPing
          \/ mnodeman.entry.lastPing = NoPing
          \/ Tick]_vars

\* While the masternode is funded and in the list, a ban lasts until its block: before it, no
\* broadcast, ping, recovery, verification or restart with the cache brings the masternode
\* back; only its owner does, by starting it from this node (Check, Update,
\* UpdateFromNewBroadcast).
BansHold ==
  [][(/\ mnodeman.entry # None /\ mnodeman'.entry # None
      /\ mnodeman.entry.nActiveState = POSE_BAN
      /\ mnodeman.entry.banLeft > 0
      /\ Funded) =>
       mnodeman'.entry.nActiveState = POSE_BAN \/ StartAlias]_vars

Silent == mnodeman.entry # None /\ mnodeman.entry.nActiveState \in {EXPIRED, NEW_START}

\* A masternode that goes on pinging comes back without a new broadcast: an entry that has
\* expired refuses pings, but only until it needs a new start, and then the next ping counts
\* (CheckAndUpdate, Check).
PingersComeBack == []<>~Silent
=============================================================================
