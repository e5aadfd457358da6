-------------------------- MODULE MasternodeProofs --------------------------
(***************************************************************************)
(* Proofs about Masternode.tla: for any constants that meet the            *)
(* assumptions of that module, the types hold, the entry of a funded       *)
(* masternode only advances, and a ban lasts until its block.              *)
(*                                                                         *)
(* The handlers are operators on the manager, so there is one lemma for    *)
(* each, from Check up to the loop over the answers in CheckAndRemove.     *)
(***************************************************************************)
EXTENDS Masternode, FiniteSetTheorems, TLAPS

\* A banned entry whose ban is not over.
Held(e) == e.nActiveState = POSE_BAN /\ e.banLeft > 0

\* What the handlers may make of an entry e.
Advanced(e, d) ==
  /\ e.mnb <= d.mnb
  /\ d.lastPing <= e.lastPing \/ e.lastPing = NoPing
  /\ Held(e) /\ Funded => Held(d)

\* Every answer to a recovery request has used up one of the peers asked.
AnswersAreBounded(m) ==
  /\ DOMAIN m.replies \subseteq DOMAIN m.requests
  /\ \A b \in DOMAIN m.replies : m.replies[b].count + m.requests[b].asked <= QUORUM_TOTAL

\* The broadcasts that may get into the list are among the n the owner has signed.
AreSigned(m, n) ==
  /\ m.entry # None => m.entry.mnb <= n
  /\ \A b \in DOMAIN m.replies : b <= n

\* An entry that counts as spent has lost its collateral or its burn fund.
SpentIsUnfunded(m) == m.entry # None /\ m.entry.nActiveState = OUTPOINT_SPENT => ~Funded

Sound(m, n) ==
  m \in Managers /\ AnswersAreBounded(m) /\ AreSigned(m, n) /\ SpentIsUnfunded(m)

\* The inductive invariant.
MasternodeInv == TypeOK /\ Sound(mnodeman, Len(signed))

-----------------------------------------------------------------------------
(* The natural numbers. *)

\* A set of numbers that is not empty has a smallest one: what the search for the first entry
\* of a vector finds.
LEMMA SmallestNat ==
  ASSUME NEW S \in SUBSET Nat, S # {}
  PROVE  \E k \in S : \A j \in S : k <= j
<1> DEFINE R == OpToRel(<, Nat)
<1>1. \A j, k \in Nat : j < k => <<j, k>> \in R
  BY DEF OpToRel
<1>2. IsWellFoundedOn(R, Nat)
  BY NatLessThanWellFounded, Zenon
<1> HIDE DEF R
<1>3. PICK k \in S : \A j \in S : ~ (<<j, k>> \in R)
  BY <1>2, WFMin, Zenon
<1>4. \A j \in S : j \in Nat /\ k \in Nat /\ ~ (j < k)
  BY <1>1, <1>3, Zenon
<1>5. \A j \in S : k <= j
  BY <1>4
<1> QED
  BY <1>5

\* Induction up to n: what holds before the first turn of a loop and is kept by each turn
\* holds after the last.
LEMMA UpTo ==
  ASSUME NEW n \in Nat, NEW P, 0 \in P, \A i \in 0 .. n - 1 : i \in P => i + 1 \in P
  PROVE  \A i \in 0 .. n : i \in P
<1> DEFINE bad == {i \in 0 .. n : i \notin P}
<1> SUFFICES ASSUME bad # {} PROVE FALSE
  OBVIOUS
<1>1. bad \in SUBSET Nat
  OBVIOUS
<1> HIDE DEF bad
<1>2. PICK k \in bad : \A j \in bad : k <= j
  BY <1>1, SmallestNat
<1>3. k \in 0 .. n /\ k \notin P /\ k # 0
  BY DEF bad
<1>4. k - 1 \in 0 .. n - 1 /\ k - 1 \notin bad
  BY <1>2, <1>3, SMT
<1>5. k - 1 \in P
  BY <1>3, <1>4 DEF bad
<1> QED
  BY <1>3, <1>4, <1>5

-----------------------------------------------------------------------------
(* The operators on maps. *)

LEMMA MapsAre ==
  ASSUME NEW S, NEW m
  PROVE  m \in Maps(S) <=> DOMAIN m \subseteq Broadcasts /\ m \in [DOMAIN m -> S]
BY Zenon DEF Maps

LEMMA PutMaps ==
  ASSUME NEW S, NEW m \in Maps(S), NEW b \in Broadcasts, NEW v \in S
  PROVE  Put(m, b, v) \in Maps(S)
<1>1. DOMAIN m \subseteq Broadcasts /\ m \in [DOMAIN m -> S]
  BY MapsAre
<1>2. DOMAIN Put(m, b, v) = DOMAIN m \cup {b} /\ Put(m, b, v) \in [DOMAIN m \cup {b} -> S]
  BY <1>1 DEF Put
<1>3. DOMAIN Put(m, b, v) \subseteq Broadcasts
  BY <1>1, <1>2
<1> QED
  BY <1>2, <1>3, MapsAre

LEMMA InsertMaps ==
  ASSUME NEW S, NEW m \in Maps(S), NEW b \in Broadcasts, NEW v \in S
  PROVE  Insert(m, b, v) \in Maps(S)
BY PutMaps DEF Insert

LEMMA WithoutMaps ==
  ASSUME NEW S, NEW m \in Maps(S), NEW T
  PROVE  Without(m, T) \in Maps(S)
<1>1. DOMAIN m \subseteq Broadcasts /\ m \in [DOMAIN m -> S]
  BY MapsAre
<1>2. DOMAIN Without(m, T) = DOMAIN m \ T /\ Without(m, T) \in [DOMAIN m \ T -> S]
  BY <1>1 DEF Without
<1> QED
  BY <1>1, <1>2, MapsAre

LEMMA EmptyMaps == \A S : Empty \in Maps(S) /\ DOMAIN Empty = {}
<1>1. DOMAIN Empty = {} /\ \A S : Empty \in [{} -> S]
  BY DEF Empty
<1> QED
  BY Zenon, <1>1, MapsAre

-----------------------------------------------------------------------------
(* CMasternode. *)

LEMMA Numbers ==
  /\ {MIN_MNB, MIN_MNP, PING_GAP, EXPIRATION, WATCHDOG_MAX, PING_LIFE, NEW_START_REQUIRED,
      RECOVERY_RETRY, QUORUM_TOTAL, MaxBroadcasts, MaxFaults, ListSize,
      POSE_BAN_MAX_SCORE, QUORUM_REQUIRED} \subseteq Nat
  /\ ListSize > 0 /\ POSE_BAN_MAX_SCORE > 0 /\ QUORUM_REQUIRED > 0
  /\ EXPIRATION <= NEW_START_REQUIRED
BY MasternodeAssumption

LEMMA StateOfAlive ==
  ASSUME NEW e \in Entries
  PROVE  StateOf(e) \in {PRE_ENABLED, ENABLED_, EXPIRED, WATCHDOG_EXPIRED, NEW_START}
BY Numbers DEF StateOf, Entries, LastPings, PingAges, NoPing, IsPingedWithin, PRE_ENABLED,
   ENABLED_, EXPIRED, WATCHDOG_EXPIRED, NEW_START

\* The steps of the proof of service score stay within its limits.
LEMMA ScoreEntry ==
  ASSUME NEW e \in Entries,
         NEW n \in -POSE_BAN_MAX_SCORE .. POSE_BAN_MAX_SCORE
  PROVE  LET d == [e EXCEPT !.nPoSeBanScore = n]
         IN  /\ d \in Entries /\ d.mnb = e.mnb /\ d.lastPing = e.lastPing
             /\ d.nActiveState = e.nActiveState /\ d.banLeft = e.banLeft
BY DEF Entries

LEMMA VerifiedEntry ==
  ASSUME NEW e \in Entries, NEW d \in {Decreased(e), Increased(e)}
  PROVE  /\ d \in Entries /\ d.mnb = e.mnb /\ d.lastPing = e.lastPing
         /\ d.nActiveState = e.nActiveState /\ d.banLeft = e.banLeft
<1>1. e.nPoSeBanScore \in -POSE_BAN_MAX_SCORE .. POSE_BAN_MAX_SCORE
  BY DEF Entries
<1> DEFINE up == IF e.nPoSeBanScore < POSE_BAN_MAX_SCORE
                 THEN e.nPoSeBanScore + 1 ELSE e.nPoSeBanScore
           down == IF e.nPoSeBanScore > -POSE_BAN_MAX_SCORE
                   THEN e.nPoSeBanScore - 1 ELSE e.nPoSeBanScore
<1>2. {up, down} \subseteq -POSE_BAN_MAX_SCORE .. POSE_BAN_MAX_SCORE
  BY <1>1, Numbers
<1>3. /\ Increased(e) = [e EXCEPT !.nPoSeBanScore = up]
      /\ Decreased(e) = [e EXCEPT !.nPoSeBanScore = down]
  BY DEF Increased, Decreased
<1> HIDE DEF up, down
<1>4. PICK n \in -POSE_BAN_MAX_SCORE .. POSE_BAN_MAX_SCORE :
        d = [e EXCEPT !.nPoSeBanScore = n]
  BY <1>2, <1>3
<1> QED
  BY <1>4, ScoreEntry

LEMMA BannedEntry ==
  ASSUME NEW e \in Entries
  PROVE  LET d == [e EXCEPT !.nActiveState = POSE_BAN, !.banLeft = ListSize]
         IN  /\ d \in Entries /\ d.mnb = e.mnb /\ d.lastPing = e.lastPing
             /\ d.nActiveState = POSE_BAN
<1>1. ListSize \in 0 .. ListSize
  BY Numbers
<1> QED
  BY Zenon, <1>1 DEF Entries

\* Check keeps the broadcast and the ping of an entry, and a ban that is not over; it finds
\* an entry spent only if it is not funded.
LEMMA CheckEntry ==
  ASSUME NEW e \in Entries, NEW fForce \in BOOLEAN
  PROVE  LET c == Check(e, fForce)
         IN  /\ c \in Entries
             /\ c.mnb = e.mnb
             /\ c.lastPing = e.lastPing
             /\ Held(e) /\ Funded => Held(c)
             /\ c.nActiveState = OUTPOINT_SPENT => e.nActiveState = OUTPOINT_SPENT \/ ~Funded
<1> DEFINE c == [e EXCEPT !.justChecked = TRUE]
<1>1. /\ c \in Entries /\ c.mnb = e.mnb /\ c.lastPing = e.lastPing
      /\ c.nActiveState = e.nActiveState /\ c.banLeft = e.banLeft
  BY Zenon DEF Entries
<1>2. ASSUME NEW d \in Entries
      PROVE  /\ Settled(d) \in Entries /\ Settled(d).mnb = d.mnb
             /\ Settled(d).lastPing = d.lastPing /\ Settled(d).nActiveState # OUTPOINT_SPENT
  BY StateOfAlive DEF Settled, Entries, PRE_ENABLED, ENABLED_, EXPIRED, WATCHDOG_EXPIRED,
     NEW_START, OUTPOINT_SPENT
<1>3. Decreased(c) \in Entries /\ Decreased(c).mnb = e.mnb /\ Decreased(c).lastPing = e.lastPing
  BY Zenon, <1>1, VerifiedEntry
<1>4. LET d == [c EXCEPT !.nActiveState = OUTPOINT_SPENT]
      IN  d \in Entries /\ d.mnb = e.mnb /\ d.lastPing = e.lastPing
  BY Zenon, <1>1 DEF Entries
<1>5. LET d == [c EXCEPT !.nActiveState = POSE_BAN, !.banLeft = ListSize]
      IN  /\ d \in Entries /\ d.mnb = e.mnb /\ d.lastPing = e.lastPing
          /\ d.nActiveState = POSE_BAN
  BY Zenon, <1>1, BannedEntry
<1>6. OUTPOINT_SPENT # POSE_BAN
  BY DEF OUTPOINT_SPENT, POSE_BAN
<1> HIDE DEF c
<1>7. Check(e, fForce) =
        IF ~fForce /\ e.justChecked THEN e
        ELSE IF e.nActiveState = OUTPOINT_SPENT THEN c
        ELSE IF collateral = "spent" \/ ~burnFund
        THEN [c EXCEPT !.nActiveState = OUTPOINT_SPENT]
        ELSE IF c.nActiveState = POSE_BAN
        THEN IF c.banLeft > 0 THEN c ELSE Settled(Decreased(c))
        ELSE IF c.nPoSeBanScore >= POSE_BAN_MAX_SCORE
        THEN [c EXCEPT !.nActiveState = POSE_BAN, !.banLeft = ListSize]
        ELSE Settled(c)
  BY Zenon DEF Check, c
<1> QED
  BY <1>1, <1>2, <1>3, <1>4, <1>5, <1>6, <1>7 DEF Held, Funded

\* The last ping of an entry changes and nothing else does.
LEMMA PingedEntry ==
  ASSUME NEW e \in Entries, NEW p \in LastPings
  PROVE  LET d == [e EXCEPT !.lastPing = p]
         IN  /\ d \in Entries /\ d.mnb = e.mnb /\ d.lastPing = p
             /\ d.nActiveState = e.nActiveState /\ d.banLeft = e.banLeft
BY DEF Entries

LEMMA NewEntryEntry ==
  ASSUME NEW b \in Broadcasts, NEW p \in LastPings
  PROVE  /\ NewEntry(b, p) \in Entries
         /\ NewEntry(b, p).mnb = b
         /\ NewEntry(b, p).nActiveState # OUTPOINT_SPENT
<1>1. /\ NoVote \in 0 .. NoVote /\ 0 \in 0 .. ListSize
      /\ 0 \in -POSE_BAN_MAX_SCORE .. POSE_BAN_MAX_SCORE
  BY Numbers DEF NoVote
<1> QED
  BY <1>1 DEF NewEntry, Entries, EXPIRED, ENABLED_, OUTPOINT_SPENT

-----------------------------------------------------------------------------
(* CMasternodeBroadcast and CMasternodePing: the entry and the maps of seen *)
(* broadcasts and pings change, the recovery requests do not.               *)

SeenMnb == [default : BOOLEAN, lastPing : LastPings]

\* The manager r has the requests and the answers of m.
SameRecovery(m, r) == r.requests = m.requests /\ r.replies = m.replies

LEMMA ManagerFields ==
  ASSUME NEW m \in Managers
  PROVE  /\ m.entry \in Entries \cup {None}
         /\ m.seenMnb \in Maps(SeenMnb)
         /\ m.seenMnp \subseteq PingAges
         /\ \A e \in Entries \cup {None} :
              LET r == [m EXCEPT !.entry = e]
              IN  /\ r \in Managers /\ r.entry = e /\ r.seenMnb = m.seenMnb
                  /\ r.seenMnp = m.seenMnp /\ SameRecovery(m, r)
         /\ \A seen \in Maps(SeenMnb) :
              LET r == [m EXCEPT !.seenMnb = seen]
              IN  /\ r \in Managers /\ r.entry = m.entry /\ r.seenMnb = seen
                  /\ r.seenMnp = m.seenMnp /\ SameRecovery(m, r)
         /\ \A seen \in SUBSET PingAges :
              LET r == [m EXCEPT !.seenMnp = seen]
              IN  /\ r \in Managers /\ r.entry = m.entry /\ r.seenMnb = m.seenMnb
                  /\ r.seenMnp = seen /\ SameRecovery(m, r)
BY Zenon DEF Managers, SeenMnb, SameRecovery

LEMMA SeenPinged ==
  ASSUME NEW seen \in Maps(SeenMnb), NEW b \in DOMAIN seen, NEW p \in LastPings
  PROVE  [seen EXCEPT ![b].lastPing = p] \in Maps(SeenMnb)
<1>1. DOMAIN seen \subseteq Broadcasts /\ seen \in [DOMAIN seen -> SeenMnb]
  BY MapsAre
<1> DEFINE s == [seen EXCEPT ![b].lastPing = p]
<1>2. DOMAIN s = DOMAIN seen /\ s \in [DOMAIN seen -> SeenMnb]
  BY <1>1 DEF SeenMnb
<1> HIDE DEF s
<1>3. s \in Maps(SeenMnb)
  BY <1>1, <1>2, MapsAre
<1> QED
  BY <1>3 DEF s

LEMMA StorePingManager ==
  ASSUME NEW m \in Managers, m.entry \in Entries, NEW p \in LastPings
  PROVE  LET r == StorePing(m, p)
         IN  /\ r \in Managers
             /\ r.entry = Check([m.entry EXCEPT !.lastPing = p], TRUE)
             /\ r.entry \in Entries
             /\ SameRecovery(m, r)
<1> DEFINE e == Check([m.entry EXCEPT !.lastPing = p], TRUE)
           seen == IF m.entry.mnb \in DOMAIN m.seenMnb
                   THEN [m.seenMnb EXCEPT ![m.entry.mnb].lastPing = p] ELSE m.seenMnb
<1>1. e \in Entries
  BY Zenon, PingedEntry, CheckEntry
<1>2. seen \in Maps(SeenMnb)
  BY ManagerFields, SeenPinged
<1>3. StorePing(m, p) = [m EXCEPT !.entry = e, !.seenMnb = seen]
  BY DEF StorePing
<1> HIDE DEF e, seen
<1>4. /\ StorePing(m, p) \in Managers /\ StorePing(m, p).entry = e
      /\ SameRecovery(m, StorePing(m, p))
  BY Zenon, <1>1, <1>2, <1>3 DEF Managers, SeenMnb, SameRecovery
<1> QED
  BY Zenon, <1>1, <1>4 DEF e

\* The manager r comes from m without a request or an answer changing, and its entry is not
\* spent unless that of m was, or is not funded.
Handled(m, r) ==
  /\ r \in Managers /\ r.entry \in Entries
  /\ SameRecovery(m, r)
  /\ r.entry.nActiveState = OUTPOINT_SPENT =>
       m.entry.nActiveState = OUTPOINT_SPENT \/ ~Funded

\* A ping that replaces the last one is not older, and only a broadcast without a ping
\* clears it.
PingAdvances(e, d, p) ==
  /\ d.lastPing <= e.lastPing \/ e.lastPing = NoPing
  /\ e.lastPing # NoPing /\ p # NoPing => d.lastPing # NoPing

LEMMA Pings ==
  ASSUME NEW e \in Entries
  PROVE  /\ e.lastPing \in Int /\ e.lastPing >= NoPing
         /\ e.mnb \in Broadcasts /\ e.mnb \in Nat
BY Numbers DEF Entries, LastPings, PingAges, NoPing, Broadcasts

LEMMA UpdateFromNewBroadcastManager ==
  ASSUME NEW m \in Managers, m.entry \in Entries,
         NEW b \in Broadcasts, NEW p \in LastPings
  PROVE  LET r == UpdateFromNewBroadcast(m, b, p)
         IN  Handled(m, r) /\ r.entry.mnb = b /\ PingAdvances(m.entry, r.entry, p)
<1> DEFINE e == [m.entry EXCEPT !.mnb = b, !.nPoSeBanScore = 0,
                                !.banLeft = 0, !.justChecked = FALSE]
           reset == [m EXCEPT !.entry = e]
           stored == StorePing(reset, p)
           r == UpdateFromNewBroadcast(m, b, p)
<1>1. /\ e \in Entries /\ e.mnb = b /\ e.lastPing = m.entry.lastPing
      /\ e.nActiveState = m.entry.nActiveState
  <2>1. 0 \in 0 .. ListSize /\ 0 \in -POSE_BAN_MAX_SCORE .. POSE_BAN_MAX_SCORE
    BY Numbers
  <2> QED
    BY Zenon, <2>1 DEF Entries
<1>2. r = IF p = NoPing THEN [reset EXCEPT !.entry.lastPing = NoPing]
          ELSE IF ~Accepts(reset.entry, p, TRUE) THEN reset
          ELSE IF stored.entry.nActiveState \in Relayed
          THEN [stored EXCEPT !.seenMnp = @ \cup {p}]
          ELSE stored
  BY DEF UpdateFromNewBroadcast
<1> HIDE DEF e
<1>3. reset \in Managers /\ reset.entry = e /\ SameRecovery(m, reset)
  BY <1>1, ManagerFields
<1> HIDE DEF reset, r
<1>4. p \in Int /\ NoPing \in LastPings
  BY Numbers DEF LastPings, PingAges, NoPing
<1>5. CASE p = NoPing
  <2> DEFINE d == [e EXCEPT !.lastPing = NoPing]
  <2>1. /\ d \in Entries /\ d.mnb = b /\ d.lastPing = NoPing
        /\ d.nActiveState = m.entry.nActiveState
    BY <1>1, <1>4, PingedEntry
  <2>2. r = [reset EXCEPT !.entry = d]
    BY <1>2, <1>3, <1>5
  <2> HIDE DEF d
  <2>3. r \in Managers /\ r.entry = d /\ SameRecovery(m, r)
    BY <1>3, <2>1, <2>2, ManagerFields DEF SameRecovery
  <2>4. NoPing <= m.entry.lastPing
    BY Pings DEF NoPing
  <2> QED
    BY <1>5, <2>1, <2>3, <2>4 DEF r, Handled, PingAdvances
<1>6. CASE p # NoPing /\ ~Accepts(e, p, TRUE)
  <2>1. r = reset
    BY <1>2, <1>3, <1>6
  <2>2. m.entry.lastPing <= m.entry.lastPing
    BY Pings
  <2> QED
    BY <1>1, <1>3, <2>1, <2>2 DEF r, Handled, PingAdvances
<1>7. CASE p # NoPing /\ Accepts(e, p, TRUE)
  <2> DEFINE f == [e EXCEPT !.lastPing = p]
             d == Check(f, TRUE)
  <2>1. stored \in Managers /\ stored.entry = d /\ d \in Entries /\ SameRecovery(m, stored)
    BY Zenon, <1>1, <1>3, StorePingManager DEF SameRecovery
  <2>2. /\ d.mnb = b /\ d.lastPing = p
        /\ d.nActiveState = OUTPOINT_SPENT => m.entry.nActiveState = OUTPOINT_SPENT \/ ~Funded
    <3>1. /\ f \in Entries /\ f.mnb = b /\ f.lastPing = p
          /\ f.nActiveState = m.entry.nActiveState
      BY <1>1, PingedEntry
    <3> HIDE DEF f
    <3> QED
      BY Zenon, <3>1, CheckEntry
  <2> HIDE DEF d
  <2>3. m.entry.lastPing = NoPing \/ p <= m.entry.lastPing
    <3>1. m.entry.lastPing = NoPing \/ m.entry.lastPing - p >= PING_GAP
      BY <1>1, <1>7 DEF Accepts
    <3> QED
      BY <3>1, <1>4, Pings, Numbers
  <2>4. p \in PingAges
    BY <1>7 DEF LastPings
  <2> HIDE DEF stored
  <2>5. /\ [stored EXCEPT !.seenMnp = @ \cup {p}] \in Managers
        /\ [stored EXCEPT !.seenMnp = @ \cup {p}].entry = d
        /\ SameRecovery(m, [stored EXCEPT !.seenMnp = @ \cup {p}])
    BY <2>1, <2>4, ManagerFields DEF SameRecovery
  <2>6. r \in Managers /\ r.entry = d /\ SameRecovery(m, r)
    BY <1>2, <1>3, <1>7, <2>1, <2>5
  <2> QED
    BY <1>7, <2>1, <2>2, <2>3, <2>6 DEF r, Handled, PingAdvances
<1> QED
  BY Zenon, <1>5, <1>6, <1>7 DEF r

\* Check as CheckAll, Update and CheckAndRemove call it.
LEMMA CheckManager ==
  ASSUME NEW m \in Managers, m.entry \in Entries, NEW fForce \in BOOLEAN
  PROVE  LET r == [m EXCEPT !.entry = Check(@, fForce)]
         IN  /\ Handled(m, r) /\ r.entry.mnb = m.entry.mnb
             /\ r.entry.lastPing = m.entry.lastPing /\ r.seenMnb = m.seenMnb
             /\ Held(m.entry) /\ Funded => Held(r.entry)
<1> DEFINE c == Check(m.entry, fForce)
           r == [m EXCEPT !.entry = c]
<1>1. /\ c \in Entries /\ c.mnb = m.entry.mnb /\ c.lastPing = m.entry.lastPing
      /\ Held(m.entry) /\ Funded => Held(c)
      /\ c.nActiveState = OUTPOINT_SPENT => m.entry.nActiveState = OUTPOINT_SPENT \/ ~Funded
  BY CheckEntry
<1> HIDE DEF c
<1>2. /\ r \in Managers /\ r.entry = c /\ r.seenMnb = m.seenMnb /\ SameRecovery(m, r)
  BY <1>1, ManagerFields
<1>3. Handled(m, r) /\ r.entry.mnb = m.entry.mnb /\ r.entry.lastPing = m.entry.lastPing
  BY <1>1, <1>2 DEF Handled
<1> QED
  BY <1>1, <1>2, <1>3 DEF c

\* Update takes no older broadcast and no older ping, and none for a banned masternode.
LEMMA UpdateManager ==
  ASSUME NEW m \in Managers, m.entry \in Entries,
         NEW b \in Broadcasts, NEW p \in LastPings, NEW fRecovery \in BOOLEAN
  PROVE  LET r == Update(m, b, p, fRecovery).man
         IN  /\ Handled(m, r) /\ Advanced(m.entry, r.entry)
             /\ PingAdvances(m.entry, r.entry, p)
             /\ r.entry.mnb \in {m.entry.mnb, b}
<1> DEFINE checked == [m EXCEPT !.entry = Check(@, FALSE)]
           updated == UpdateFromNewBroadcast(checked, b, p)
           again == [updated EXCEPT !.entry = Check(@, FALSE)]
           r == Update(m, b, p, fRecovery).man
<1>1. r = IF ~Newer(m.entry, b, fRecovery) THEN m
          ELSE IF checked.entry.nActiveState = POSE_BAN THEN checked
          ELSE IF IsBroadcastedWithin(checked.entry, MIN_MNB) THEN checked
          ELSE again
  BY DEF Update
<1>2. /\ Handled(m, checked) /\ checked.entry.mnb = m.entry.mnb
      /\ checked.entry.lastPing = m.entry.lastPing
      /\ Held(m.entry) /\ Funded => Held(checked.entry)
  BY Zenon, CheckManager
<1>3. m.entry.mnb \in Nat /\ m.entry.lastPing \in Int /\ b \in Nat
  BY Pings, Numbers DEF Broadcasts
<1> HIDE DEF checked
<1>4. /\ Handled(checked, updated) /\ updated.entry.mnb = b
      /\ PingAdvances(checked.entry, updated.entry, p)
  BY <1>2, UpdateFromNewBroadcastManager DEF Handled
<1> HIDE DEF updated
<1>5. /\ Handled(updated, again) /\ again.entry.mnb = b
      /\ again.entry.lastPing = updated.entry.lastPing
  BY Zenon, <1>4, CheckManager DEF Handled
<1> HIDE DEF again, r
<1>6. CASE r = m
  <2>1. Handled(m, m)
    BY DEF Handled, SameRecovery
  <2> QED
    BY <1>3, <1>6, <2>1 DEF r, Advanced, PingAdvances
<1>7. CASE r = checked
  BY <1>2, <1>3, <1>7 DEF r, Advanced, PingAdvances
<1>8. CASE r = again /\ Newer(m.entry, b, fRecovery) /\ checked.entry.nActiveState # POSE_BAN
  <2>1. Handled(m, again)
    BY <1>2, <1>4, <1>5 DEF Handled, SameRecovery
  <2>2. m.entry.mnb <= b
    BY <1>3, <1>8 DEF Newer
  <2>3. ~(Held(m.entry) /\ Funded)
    BY <1>2, <1>8 DEF Held
  <2>4. PingAdvances(m.entry, again.entry, p)
    BY <1>2, <1>4, <1>5 DEF PingAdvances
  <2> QED
    BY <1>5, <1>8, <2>1, <2>2, <2>3, <2>4 DEF r, Advanced, PingAdvances
<1> QED
  BY <1>1, <1>6, <1>7, <1>8

-----------------------------------------------------------------------------
(* CMasternodeMan. *)

\* The map of the broadcasts seen may change at will.
LEMMA SeenChanges ==
  ASSUME NEW n, NEW m, Sound(m, n), NEW seen \in Maps(SeenMnb)
  PROVE  LET r == [m EXCEPT !.seenMnb = seen]
         IN  /\ Sound(r, n)
             /\ r \in Managers /\ r.entry = m.entry /\ r.seenMnb = seen
             /\ SameRecovery(m, r)
<1> DEFINE r == [m EXCEPT !.seenMnb = seen]
<1>1. r \in Managers /\ r.entry = m.entry /\ r.seenMnb = seen /\ SameRecovery(m, r)
  BY ManagerFields DEF Sound
<1> HIDE DEF r
<1>2. Sound(r, n)
  BY <1>1 DEF Sound, SameRecovery, AnswersAreBounded, AreSigned, SpentIsUnfunded
<1> QED
  BY <1>1, <1>2 DEF r

\* A handled entry that is made from a signed broadcast leaves the manager sound.
LEMMA HandledSound ==
  ASSUME NEW n, NEW m, Sound(m, n), m.entry # None, NEW r, Handled(m, r), r.entry.mnb <= n
  PROVE  Sound(r, n)
BY DEF Sound, Handled, SameRecovery, AnswersAreBounded, AreSigned, SpentIsUnfunded

Request == [open : BOOLEAN, age : 0 .. RECOVERY_RETRY + 1, asked : 0 .. QUORUM_TOTAL]
Reply == [lastPing : PingAges, count : 1 .. QUORUM_TOTAL]

LEMMA RecoveryFields ==
  ASSUME NEW m \in Managers
  PROVE  /\ m.requests \in Maps(Request) /\ m.replies \in Maps(Reply)
         /\ \A requests \in Maps(Request), replies \in Maps(Reply) :
              LET r == [m EXCEPT !.requests = requests, !.replies = replies]
              IN  /\ r \in Managers /\ r.entry = m.entry /\ r.requests = requests
                  /\ r.replies = replies
BY Zenon DEF Managers, Request, Reply

\* An answer uses up one of the peers asked, and counts at most once.
LEMMA SeenAgainSound ==
  ASSUME NEW n \in Nat, NEW m, Sound(m, n),
         NEW b \in Broadcasts, b <= n, NEW p \in LastPings, NEW asked \in BOOLEAN,
         asked => b \in DOMAIN m.requests /\ m.requests[b].asked > 0
  PROVE  Sound(SeenAgain(m, b, p, asked), n) /\ SeenAgain(m, b, p, asked).entry = m.entry
<1> DEFINE r == SeenAgain(m, b, p, asked)
           requests == [m.requests EXCEPT ![b].asked = @ - 1]
           more == [m.replies EXCEPT ![b].count = @ + 1]
           first == Put(m.replies, b, [lastPing |-> p, count |-> 1])
           better == p # NoPing /\ (m.seenMnb[b].lastPing = NoPing \/ p < m.seenMnb[b].lastPing)
           mnTemp == [NewEntry(b, p) EXCEPT !.watchdogVote = Capped(AgeOf(b), NoVote)]
           good == Check(mnTemp, FALSE).nActiveState
                     \in {ENABLED_, PRE_ENABLED, EXPIRED, WATCHDOG_EXPIRED}
           replies == IF ~(better /\ good) THEN m.replies
                      ELSE AnsweredAgain(m.replies, b, p)
<1>1. SUFFICES ASSUME asked, m.requests[b].open
               PROVE  Sound(r, n) /\ r.entry = m.entry
  BY DEF SeenAgain
<1>2. /\ r = [m EXCEPT !.requests = requests, !.replies = replies]
      /\ \/ replies = m.replies
         \/ p # NoPing /\ b \in DOMAIN m.replies /\ replies = more
         \/ p # NoPing /\ b \notin DOMAIN m.replies /\ replies = first
  <2>1. r = [m EXCEPT !.requests[b].asked = @ - 1, !.replies = replies]
    <3>1. r = IF ~(asked /\ m.requests[b].open) THEN m
              ELSE [m EXCEPT !.requests[b].asked = @ - 1, !.replies = replies]
      BY Zenon DEF SeenAgain
    <3> HIDE DEF r, replies
    <3> QED
      BY <1>1, <3>1
  <2> HIDE DEF r, good, more, first
  <2>2. \/ replies = m.replies
        \/ p # NoPing /\ b \in DOMAIN m.replies /\ replies = more
        \/ p # NoPing /\ b \notin DOMAIN m.replies /\ replies = first
    BY DEF AnsweredAgain, more, first
  <2> HIDE DEF replies
  <2> QED
    BY <2>1, <2>2 DEF Sound, Managers
<1>3. /\ m.requests \in Maps(Request) /\ m.replies \in Maps(Reply)
      /\ m.requests \in [DOMAIN m.requests -> Request]
      /\ m.replies \in [DOMAIN m.replies -> Reply]
      /\ DOMAIN m.requests \subseteq Broadcasts /\ DOMAIN m.replies \subseteq Broadcasts
  BY Zenon, RecoveryFields, MapsAre DEF Sound
<1>4. /\ m.requests[b].asked \in 1 .. QUORUM_TOTAL
      /\ \A x \in DOMAIN m.requests : m.requests[x].asked \in 0 .. QUORUM_TOTAL
      /\ \A x \in DOMAIN m.replies : m.replies[x].count \in 1 .. QUORUM_TOTAL
  BY <1>1, <1>3 DEF Request, Reply
<1>5. \A x \in DOMAIN m.replies : /\ x \in DOMAIN m.requests /\ x <= n
                                 /\ m.replies[x].count + m.requests[x].asked <= QUORUM_TOTAL
  BY DEF Sound, AnswersAreBounded, AreSigned
<1>6. /\ DOMAIN requests = DOMAIN m.requests
      /\ requests[b].asked = m.requests[b].asked - 1
      /\ \A x \in DOMAIN m.requests : x # b => requests[x] = m.requests[x]
      /\ requests \in Maps(Request)
  <2>1. m.requests[b].asked - 1 \in 0 .. QUORUM_TOTAL
    BY <1>4, Numbers
  <2>2. /\ DOMAIN requests = DOMAIN m.requests /\ requests \in [DOMAIN m.requests -> Request]
        /\ requests[b].asked = m.requests[b].asked - 1
        /\ \A x \in DOMAIN m.requests : x # b => requests[x] = m.requests[x]
    BY <1>1, <1>3, <2>1 DEF Request
  <2> QED
    BY <1>3, <2>2, MapsAre
<1>7. ASSUME b \in DOMAIN m.replies
      PROVE  /\ DOMAIN more = DOMAIN m.replies
             /\ more[b].count = m.replies[b].count + 1
             /\ \A x \in DOMAIN m.replies : x # b => more[x] = m.replies[x]
             /\ more \in Maps(Reply)
  <2>1. m.replies[b].count + 1 \in 1 .. QUORUM_TOTAL
    BY <1>4, <1>5, <1>7, Numbers
  <2>2. /\ DOMAIN more = DOMAIN m.replies /\ more \in [DOMAIN m.replies -> Reply]
        /\ more[b].count = m.replies[b].count + 1
        /\ \A x \in DOMAIN m.replies : x # b => more[x] = m.replies[x]
    BY <1>3, <1>7, <2>1 DEF Reply
  <2> QED
    BY <1>3, <2>2, MapsAre
<1>8. ASSUME p # NoPing
      PROVE  /\ DOMAIN first = DOMAIN m.replies \cup {b}
             /\ first[b].count = 1
             /\ \A x \in DOMAIN m.replies : x # b => first[x] = m.replies[x]
             /\ first \in Maps(Reply)
  <2>1. [lastPing |-> p, count |-> 1] \in Reply
    BY <1>4, <1>8, Numbers DEF Reply, LastPings
  <2> DEFINE v == [lastPing |-> p, count |-> 1]
  <2>2. v.count = 1
    OBVIOUS
  <2> HIDE DEF v
  <2>3. /\ Put(m.replies, b, v) \in Maps(Reply)
        /\ DOMAIN Put(m.replies, b, v) = DOMAIN m.replies \cup {b}
        /\ Put(m.replies, b, v)[b].count = 1
        /\ \A x \in DOMAIN m.replies : x # b => Put(m.replies, b, v)[x] = m.replies[x]
    <3>1. v \in Reply
      BY <2>1 DEF v
    <3>2. Put(m.replies, b, v) \in Maps(Reply)
      BY <1>3, <3>1, PutMaps
    <3>3. /\ DOMAIN Put(m.replies, b, v) = DOMAIN m.replies \cup {b}
          /\ Put(m.replies, b, v)[b] = v
          /\ \A x \in DOMAIN m.replies : x # b => Put(m.replies, b, v)[x] = m.replies[x]
      BY DEF Put
    <3> QED
      BY <2>2, <3>2, <3>3
  <2> QED
    BY <2>3 DEF v
<1> HIDE DEF requests, more, first, replies, r
<1>9. replies \in Maps(Reply)
  BY <1>2, <1>3, <1>7, <1>8
<1>10. r \in Managers /\ r.entry = m.entry /\ r.requests = requests /\ r.replies = replies
  <2>1. m \in Managers
    BY DEF Sound
  <2> QED
    BY Zenon, <1>2, <1>6, <1>9, <2>1 DEF Managers, Request, Reply
<1>11. ASSUME NEW x \in DOMAIN r.replies
       PROVE  /\ x \in DOMAIN r.requests /\ x <= n
              /\ r.replies[x].count + r.requests[x].asked <= QUORUM_TOTAL
  <2>1. CASE replies = m.replies
    BY <1>4, <1>5, <1>6, <1>10, <2>1, Numbers
  <2>2. CASE b \in DOMAIN m.replies /\ replies = more
    BY <1>4, <1>5, <1>6, <1>7, <1>10, <2>2, Numbers
  <2>3. CASE p # NoPing /\ b \notin DOMAIN m.replies /\ replies = first
    BY <1>1, <1>4, <1>5, <1>6, <1>8, <1>10, <2>3, Numbers
  <2> QED
    BY <1>2, <2>1, <2>2, <2>3
<1> QED
  BY <1>10, <1>11 DEF Sound, AnswersAreBounded, AreSigned, SpentIsUnfunded

\* A masternode that is not in the list: it gets in, with a signed broadcast, or does not.
LEMMA AddNewSound ==
  ASSUME TypeOK, NEW n \in Nat, NEW m, Sound(m, n), m.entry = None,
         NEW b \in Broadcasts, b <= n, NEW p \in LastPings
  PROVE  LET r == AddNew(m, b, p)
         IN  Sound(r, n) /\ SameRecovery(m, r)
<1> DEFINE r == AddNew(m, b, p)
           added == [m EXCEPT !.entry = NewEntry(b, p)]
           erased == [m EXCEPT !.seenMnb = Without(@, {b})]
<1>1. r \in {m, erased, added}
  BY DEF AddNew, TypeOK
<1>2. Sound(erased, n) /\ SameRecovery(m, erased)
  <2>1. Without(m.seenMnb, {b}) \in Maps(SeenMnb)
    BY ManagerFields, WithoutMaps DEF Sound
  <2> QED
    BY <2>1, SeenChanges
<1>3. Sound(added, n) /\ SameRecovery(m, added)
  <2> DEFINE e == NewEntry(b, p)
  <2>1. e \in Entries /\ e.mnb = b /\ e.nActiveState # OUTPOINT_SPENT
    BY NewEntryEntry
  <2> HIDE DEF e
  <2>2. added \in Managers /\ added.entry = e /\ SameRecovery(m, added)
    BY <2>1, ManagerFields DEF Sound, e
  <2> HIDE DEF added
  <2> QED
    BY <2>1, <2>2 DEF Sound, SameRecovery, AnswersAreBounded, AreSigned, SpentIsUnfunded
<1>4. SameRecovery(m, m)
  BY DEF SameRecovery
<1> QED
  BY <1>1, <1>2, <1>3, <1>4

\* Looking up and erasing broadcasts changes nothing but the map of those seen.
LEMMA LookedUpSound ==
  ASSUME NEW n, NEW m, Sound(m, n), m.entry \in Entries
  PROVE  LET r == LookedUp(m)
         IN  Sound(r, n) /\ r \in Managers /\ r.entry = m.entry /\ SameRecovery(m, r)
<1>1. [default |-> TRUE, lastPing |-> NoPing] \in SeenMnb
  BY DEF SeenMnb, LastPings
<1>2. m.seenMnb \in Maps(SeenMnb) /\ m.entry.mnb \in Broadcasts
  BY ManagerFields, Pings DEF Sound
<1> DEFINE seen == Insert(m.seenMnb, m.entry.mnb, [default |-> TRUE, lastPing |-> NoPing])
<1>3. seen \in Maps(SeenMnb)
  BY <1>1, <1>2, InsertMaps
<1>4. LookedUp(m) = [m EXCEPT !.seenMnb = seen]
  BY DEF LookedUp
<1> HIDE DEF seen
<1> QED
  BY <1>3, <1>4, SeenChanges

LEMMA EraseOldSound ==
  ASSUME NEW n, NEW m, Sound(m, n), NEW found, NEW old
  PROVE  LET r == EraseOld(m, found, old)
         IN  Sound(r, n) /\ r.entry = m.entry /\ SameRecovery(m, r)
<1> DEFINE erased == [m EXCEPT !.seenMnb = Without(@, {old})]
<1>1. EraseOld(m, found, old) \in {m, erased}
  BY DEF EraseOld
<1>2. Without(m.seenMnb, {old}) \in Maps(SeenMnb)
  BY ManagerFields, WithoutMaps DEF Sound
<1>3. Sound(erased, n) /\ erased.entry = m.entry /\ SameRecovery(m, erased)
  BY <1>2, SeenChanges
<1>4. SameRecovery(m, m)
  BY DEF SameRecovery
<1> QED
  BY Zenon, <1>1, <1>3, <1>4

LEMMA SeenAsSound ==
  ASSUME NEW n, NEW m, Sound(m, n), NEW b \in Broadcasts, NEW p \in LastPings
  PROVE  LET r == [m EXCEPT !.seenMnb = Insert(@, b, SeenAs(p))]
         IN  Sound(r, n) /\ r \in Managers /\ r.entry = m.entry /\ SameRecovery(m, r)
<1>1. SeenAs(p) \in SeenMnb
  BY DEF SeenAs, SeenMnb
<1>2. m.seenMnb \in Maps(SeenMnb)
  BY ManagerFields DEF Sound
<1>3. Insert(m.seenMnb, b, SeenAs(p)) \in Maps(SeenMnb)
  BY <1>1, <1>2, InsertMaps
<1> QED
  BY <1>3, SeenChanges

\* CheckMnbAndUpdateMasternodeList, for a broadcast that a peer sends or one that is
\* reprocessed: whatever its age, the entry only advances.
LEMMA CheckMnbSound ==
  ASSUME TypeOK, NEW n \in Nat, NEW m, Sound(m, n),
         NEW b \in Broadcasts, b <= n, NEW p \in LastPings,
         NEW asked \in BOOLEAN, NEW fRecovery \in BOOLEAN,
         asked => b \in DOMAIN m.requests /\ m.requests[b].asked > 0
  PROVE  LET r == CheckMnbAndUpdateMasternodeList(m, b, p, asked, fRecovery)
         IN  /\ Sound(r, n)
             /\ m.entry # None =>
                  /\ r.entry # None /\ Advanced(m.entry, r.entry)
                  /\ PingAdvances(m.entry, r.entry, p)
             /\ fRecovery => SameRecovery(m, r)
<1> DEFINE seen == [m EXCEPT !.seenMnb = Insert(@, b, SeenAs(p))]
           looked == LookedUp(seen)
           update == Update(looked, b, p, fRecovery)
           erased == EraseOld(update.man, looked.seenMnb, m.entry.mnb)
           r == CheckMnbAndUpdateMasternodeList(m, b, p, asked, fRecovery)
<1>1. r = IF b \in DOMAIN m.seenMnb /\ ~fRecovery THEN SeenAgain(m, b, p, asked)
          ELSE IF m.entry = None THEN AddNew(seen, b, p)
          ELSE IF update.ok /\ b # m.entry.mnb THEN erased
          ELSE update.man
  BY DEF CheckMnbAndUpdateMasternodeList
<1>2. Sound(seen, n) /\ seen \in Managers /\ seen.entry = m.entry /\ SameRecovery(m, seen)
  BY SeenAsSound
<1>3. m.entry \in Entries \cup {None}
  BY ManagerFields DEF Sound
<1> HIDE DEF seen
<1>4. CASE b \in DOMAIN m.seenMnb /\ ~fRecovery
  <2>1. r = SeenAgain(m, b, p, asked)
    BY <1>1, <1>4
  <2>2. Sound(r, n) /\ r.entry = m.entry
    BY <2>1, SeenAgainSound
  <2>3. m.entry # None => Advanced(m.entry, m.entry) /\ PingAdvances(m.entry, m.entry, p)
    BY <1>3, Pings DEF Advanced, PingAdvances
  <2> QED
    BY <1>4, <2>2, <2>3
<1>5. CASE ~(b \in DOMAIN m.seenMnb /\ ~fRecovery) /\ m.entry = None
  <2>1. r = AddNew(seen, b, p)
    BY <1>1, <1>5
  <2>2. Sound(r, n) /\ SameRecovery(seen, r)
    BY <1>2, <1>5, <2>1, AddNewSound
  <2> QED
    BY <1>2, <1>5, <2>2 DEF SameRecovery
<1>6. CASE ~(b \in DOMAIN m.seenMnb /\ ~fRecovery) /\ m.entry # None
  <2>1. /\ Sound(looked, n) /\ looked \in Managers /\ looked.entry = m.entry
        /\ SameRecovery(m, looked) /\ m.entry \in Entries
    BY <1>2, <1>3, <1>6, LookedUpSound DEF SameRecovery
  <2> HIDE DEF looked
  <2> DEFINE u == update.man
  <2>2. /\ Handled(looked, u) /\ Advanced(m.entry, u.entry)
        /\ PingAdvances(m.entry, u.entry, p) /\ u.entry.mnb \in {m.entry.mnb, b}
    BY <2>1, UpdateManager
  <2>3. m.entry.mnb <= n
    BY <1>6 DEF Sound, AreSigned
  <2> HIDE DEF update, u
  <2>4. Sound(u, n) /\ u.entry \in Entries /\ SameRecovery(m, u)
    BY <1>6, <2>1, <2>2, <2>3, HandledSound DEF Handled, SameRecovery
  <2>5. Sound(erased, n) /\ erased.entry = u.entry /\ SameRecovery(m, erased)
    BY <2>4, EraseOldSound DEF SameRecovery, u
  <2>6. r \in {u, erased}
    BY <1>1, <1>6 DEF u
  <2> QED
    BY <2>2, <2>4, <2>5, <2>6, NoneAssumption
<1> QED
  BY <1>4, <1>5, <1>6

\* UpdateMasternodeList, for the next broadcast of the owner.
LEMMA UpdateMasternodeListSound ==
  ASSUME NEW n \in Nat, NEW m, Sound(m, n), n + 1 \in Broadcasts
  PROVE  LET r == UpdateMasternodeList(m, n + 1, 0)
         IN  /\ Sound(r, n + 1)
             /\ m.entry # None => /\ r.entry # None
                                  /\ m.entry.mnb <= r.entry.mnb
                                  /\ PingAdvances(m.entry, r.entry, 0)
<1> DEFINE b == n + 1
           pinged == [m EXCEPT !.seenMnp = @ \cup {0}]
           seen == [m EXCEPT !.seenMnp = @ \cup {0}, !.seenMnb = Insert(@, b, SeenAs(0))]
           looked == LookedUp(seen)
           u == UpdateFromNewBroadcast(looked, b, 0)
           r == UpdateMasternodeList(m, b, 0)
<1>1. r = IF m.entry = None THEN [seen EXCEPT !.entry = NewEntry(b, 0)]
          ELSE EraseOld(u, looked.seenMnb, m.entry.mnb)
  BY DEF UpdateMasternodeList
<1>2. 0 \in PingAges /\ 0 \in LastPings /\ b > n /\ b \in Nat
  BY Numbers DEF PingAges, LastPings
<1>3. Sound(m, b)
  <2>1. DOMAIN m.replies \subseteq Nat
    <3>1. m.replies \in Maps(Reply)
      BY Zenon, RecoveryFields DEF Sound
    <3>2. DOMAIN m.replies \subseteq Broadcasts
      BY <3>1, MapsAre
    <3> QED
      BY <3>2, Numbers DEF Broadcasts
  <2>2. m.entry # None => m.entry.mnb \in Nat
    BY ManagerFields, Pings DEF Sound
  <2>3. AreSigned(m, b)
    BY <2>1, <2>2 DEF Sound, AreSigned
  <2> QED
    BY <2>3 DEF Sound
<1>4. Sound(pinged, b) /\ pinged \in Managers /\ pinged.entry = m.entry
  <2>1. m.seenMnp \cup {0} \in SUBSET PingAges
    BY <1>2, ManagerFields DEF Sound
  <2>2. pinged \in Managers /\ pinged.entry = m.entry /\ SameRecovery(m, pinged)
    BY <2>1, ManagerFields DEF Sound
  <2> HIDE DEF pinged
  <2> QED
    BY <1>3, <2>2 DEF Sound, SameRecovery, AnswersAreBounded, AreSigned, SpentIsUnfunded
<1>5. seen = [pinged EXCEPT !.seenMnb = Insert(@, b, SeenAs(0))]
  BY DEF Sound, Managers
<1> HIDE DEF pinged, seen, r, b
<1>6. Sound(seen, b) /\ seen \in Managers /\ seen.entry = m.entry
  BY Zenon, <1>2, <1>4, <1>5, SeenAsSound DEF b
<1>7. CASE m.entry = None
  <2> DEFINE e == NewEntry(b, 0)
  <2>1. e \in Entries /\ e.mnb = b /\ e.nActiveState # OUTPOINT_SPENT
    BY <1>2, NewEntryEntry DEF b
  <2>2. r = [seen EXCEPT !.entry = e]
    BY <1>1, <1>7
  <2> HIDE DEF e
  <2>3. r \in Managers /\ r.entry = e /\ SameRecovery(seen, r)
    BY <1>6, <2>1, <2>2, ManagerFields
  <2>4. Sound(r, b)
    BY <1>2, <1>6, <2>1, <2>3
       DEF Sound, SameRecovery, AnswersAreBounded, AreSigned, SpentIsUnfunded
  <2> QED
    BY <1>7, <2>4 DEF r, b
<1>8. CASE m.entry # None
  <2>1. Sound(looked, b) /\ looked \in Managers /\ looked.entry = m.entry /\ m.entry \in Entries
    <3>1. m.entry \in Entries
      BY <1>8, ManagerFields DEF Sound
    <3> QED
      BY <1>6, <3>1, LookedUpSound
  <2> HIDE DEF looked
  <2>2. Handled(looked, u) /\ u.entry.mnb = b /\ PingAdvances(m.entry, u.entry, 0)
    BY <1>2, <2>1, UpdateFromNewBroadcastManager DEF b
  <2> HIDE DEF u
  <2>3. Sound(u, b)
    <3>1. u.entry.mnb <= b
      BY <1>2, <2>2
    <3> QED
      BY <1>8, <2>1, <2>2, <3>1, HandledSound
  <2>4. Sound(r, b) /\ r.entry = u.entry
    BY <1>1, <1>8, <2>3, EraseOldSound
  <2>5. m.entry.mnb <= b
    BY <1>3, <1>8 DEF Sound, AreSigned
  <2>6. r.entry # None
    BY <2>2, <2>4, NoneAssumption DEF Handled
  <2> QED
    BY <2>2, <2>4, <2>5, <2>6 DEF r, b
<1> QED
  BY <1>7, <1>8

-----------------------------------------------------------------------------
(* The loop over the answers. *)

\* What the loop may make of the manager m.
Answers(m, r) ==
  /\ r.requests = m.requests
  /\ m.entry # None =>
       /\ r.entry # None /\ Advanced(m.entry, r.entry)
       /\ m.entry.lastPing # NoPing => r.entry.lastPing # NoPing

LEMMA ReprocessedSound ==
  ASSUME TypeOK, NEW n \in Nat, NEW m, Sound(m, n), NEW b \in DOMAIN m.replies
  PROVE  LET r == Reprocessed(m, b)
         IN  Sound(r, n) /\ Answers(m, r) /\ DOMAIN r.replies = DOMAIN m.replies \ {b}
<1> DEFINE reply == m.replies[b]
           a == IF reply.count >= QUORUM_REQUIRED
                THEN CheckMnbAndUpdateMasternodeList(m, b, reply.lastPing, FALSE, TRUE)
                ELSE m
           r == Reprocessed(m, b)
<1>1. r = [a EXCEPT !.replies = Without(@, {b})]
  BY DEF Reprocessed
<1>2. /\ m.replies \in Maps(Reply) /\ DOMAIN m.replies \subseteq Broadcasts
      /\ reply \in Reply /\ b <= n
  <2>1. m.replies \in Maps(Reply)
    BY Zenon, RecoveryFields DEF Sound
  <2>2. DOMAIN m.replies \subseteq Broadcasts /\ m.replies \in [DOMAIN m.replies -> Reply]
    BY <2>1, MapsAre
  <2> QED
    BY <2>1, <2>2 DEF Sound, AreSigned
<1>3. reply.lastPing \in LastPings /\ reply.lastPing # NoPing
  BY <1>2, Numbers DEF Reply, LastPings, PingAges, NoPing
<1> HIDE DEF reply, r
<1>4. /\ Sound(a, n) /\ SameRecovery(m, a)
      /\ m.entry # None => /\ a.entry # None /\ Advanced(m.entry, a.entry)
                           /\ m.entry.lastPing # NoPing => a.entry.lastPing # NoPing
  <2>1. CASE a = m
    <3>1. m.entry # None => Advanced(m.entry, m.entry)
      BY ManagerFields, Pings DEF Sound, Advanced
    <3> QED
      BY Zenon, <2>1, <3>1 DEF SameRecovery
  <2>2. CASE a = CheckMnbAndUpdateMasternodeList(m, b, reply.lastPing, FALSE, TRUE)
    <3> HIDE DEF a
    <3>1. b \in Broadcasts
      BY <1>2
    <3>2. /\ Sound(a, n) /\ SameRecovery(m, a)
          /\ m.entry # None => /\ a.entry # None /\ Advanced(m.entry, a.entry)
                               /\ PingAdvances(m.entry, a.entry, reply.lastPing)
      BY Zenon, <1>2, <1>3, <2>2, <3>1, CheckMnbSound
    <3> QED
      BY <1>3, <3>2 DEF PingAdvances
  <2> QED
    BY Zenon, <2>1, <2>2
<1> HIDE DEF a
<1>5. a \in Managers /\ a.replies = m.replies /\ a.requests = m.requests
  BY <1>4 DEF Sound, SameRecovery
<1> DEFINE w == Without(m.replies, {b})
<1>6. w \in Maps(Reply)
  BY <1>2, WithoutMaps
<1>7. DOMAIN w = DOMAIN m.replies \ {b} /\ \A x \in DOMAIN w : w[x] = m.replies[x]
  BY DEF Without
<1> HIDE DEF w
<1>8. /\ r \in Managers /\ r.replies = w /\ r.requests = m.requests /\ r.entry = a.entry
  BY <1>1, <1>5, <1>6 DEF Managers, Reply, w
<1>9. Sound(r, n)
  BY <1>4, <1>5, <1>7, <1>8 DEF Sound, AnswersAreBounded, AreSigned, SpentIsUnfunded
<1> QED
  BY <1>4, <1>7, <1>8, <1>9 DEF Answers, r

LEMMA AnswersCompose ==
  ASSUME NEW n, NEW m, NEW r, NEW s, Sound(m, n), Sound(r, n), Sound(s, n),
         Answers(m, r), Answers(r, s)
  PROVE  Answers(m, s)
<1> SUFFICES ASSUME m.entry # None
             PROVE  /\ s.entry # None /\ Advanced(m.entry, s.entry)
                    /\ m.entry.lastPing # NoPing => s.entry.lastPing # NoPing
  BY DEF Answers
<1>1. /\ r.entry # None /\ s.entry # None
      /\ Advanced(m.entry, r.entry) /\ Advanced(r.entry, s.entry)
  BY DEF Answers
<1>2. m.entry \in Entries /\ r.entry \in Entries /\ s.entry \in Entries
  BY <1>1, ManagerFields DEF Sound
<1>3. /\ {m.entry.mnb, r.entry.mnb, s.entry.mnb} \subseteq Nat
      /\ {m.entry.lastPing, r.entry.lastPing, s.entry.lastPing} \subseteq Int
  BY <1>2, Pings
<1>4. m.entry.lastPing # NoPing => r.entry.lastPing # NoPing /\ s.entry.lastPing # NoPing
  BY <1>1 DEF Answers
<1> QED
  BY <1>1, <1>3, <1>4 DEF Advanced

\* The recursive function of Answered exists.
LEMMA AnsweredUnfolds ==
  ASSUME NEW m, NEW order, Len(order) \in Nat
  PROVE  \E f : /\ f = [i \in 0 .. Len(order) |->
                          IF i = 0 THEN m ELSE Reprocessed(f[i - 1], order[i])]
                /\ Answered(m, order) = f[Len(order)]
<1> DEFINE n == Len(order)
           Loop(k, f) == f = [i \in 0 .. k |->
                                IF i = 0 THEN m ELSE Reprocessed(f[i - 1], order[i])]
           P == {k \in 0 .. n : \E f : Loop(k, f)}
<1>1. 0 \in P
  <2>1. Loop(0, [i \in 0 .. 0 |-> m])
    OBVIOUS
  <2>2. \E f : Loop(0, f)
    BY Zenon, <2>1
  <2> QED
    BY <2>2
<1>2. ASSUME NEW k \in 0 .. n - 1, k \in P PROVE k + 1 \in P
  <2>1. PICK f : Loop(k, f)
    BY <1>2
  <2> DEFINE g == [i \in 0 .. k + 1 |-> IF i <= k THEN f[i] ELSE Reprocessed(f[k], order[i])]
  <2>2. \A i \in 0 .. k : f[i] = IF i = 0 THEN m ELSE Reprocessed(f[i - 1], order[i])
    BY <2>1
  <2> HIDE DEF Loop
  <2>3. ASSUME NEW i \in 0 .. k + 1
        PROVE  g[i] = IF i = 0 THEN m ELSE Reprocessed(g[i - 1], order[i])
    <3>1. CASE i <= k
      BY <2>2, <3>1
    <3>2. CASE i = k + 1
      <4>1. g[i] = Reprocessed(f[k], order[i])
        BY <3>2
      <4>2. i - 1 = k /\ i # 0 /\ k \in 0 .. k + 1 /\ k <= k
        BY <3>2
      <4>3. g[i - 1] = f[k]
        BY <4>2
      <4> QED
        BY <4>1, <4>2, <4>3
    <3> QED
      BY <3>1, <3>2
  <2>4. Loop(k + 1, g)
    <3>1. g = [i \in 0 .. k + 1 |-> g[i]]
      OBVIOUS
    <3> HIDE DEF g
    <3> QED
      BY <2>3, <3>1 DEF Loop
  <2>5. \E h : Loop(k + 1, h)
    BY <2>4
  <2> QED
    BY <2>5
<1>3. n \in P
  <2> HIDE DEF P
  <2>1. n \in 0 .. n
    OBVIOUS
  <2> QED
    BY Zenon, <1>1, <1>2, <2>1, UpTo
<1> DEFINE a == CHOOSE f : Loop(n, f)
<1>4. Loop(n, a)
  BY <1>3
<1>5. Answered(m, order) = a[n]
  BY DEF Answered
<1> HIDE DEF a
<1> QED
  BY <1>4, <1>5

\* Whatever the order in which the ripe answers are taken.
LEMMA AfterRepliesSound ==
  ASSUME TypeOK, NEW n \in Nat, NEW m, Sound(m, n), NEW r \in AfterReplies(m)
  PROVE  Sound(r, n) /\ Answers(m, r) /\ DOMAIN r.replies = DOMAIN m.replies \ Ripe(m)
<1>1. PICK order \in Bijection(1 .. Cardinality(Ripe(m)), Ripe(m)) : r = Answered(m, order)
  BY DEF AfterReplies
<1> DEFINE k == Cardinality(Ripe(m))
<1>2. k \in Nat
  <2>1. m.replies \in Maps(Reply)
    BY Zenon, RecoveryFields DEF Sound
  <2>2. Ripe(m) \subseteq 1 .. MaxBroadcasts
    BY <2>1, MapsAre DEF Ripe, Broadcasts
  <2>3. IsFiniteSet(1 .. MaxBroadcasts)
    BY FS_Interval, Numbers
  <2> QED
    BY Zenon, <2>2, <2>3, FS_Subset, FS_CardinalityType
<1>3. /\ order \in [1 .. k -> Ripe(m)]
      /\ \A i, j \in 1 .. k : order[i] = order[j] => i = j
      /\ \A b \in Ripe(m) : \E i \in 1 .. k : order[i] = b
  BY DEF Bijection, Injection, Surjection, IsInjective
<1> HIDE DEF k
<1>4. Len(order) = k
  <2>1. order \in Seq(Ripe(m)) /\ DOMAIN order = 1 .. k
    BY <1>2, <1>3
  <2> QED
    BY <1>2, <2>1
<1>5. PICK f : /\ f = [i \in 0 .. k |-> IF i = 0 THEN m ELSE Reprocessed(f[i - 1], order[i])]
               /\ r = f[k]
  BY <1>1, <1>2, <1>4, AnsweredUnfolds
<1>6. f[0] = m /\ \A i \in 0 .. k - 1 : f[i + 1] = Reprocessed(f[i], order[i + 1])
  <2>1. \A i \in 0 .. k : f[i] = IF i = 0 THEN m ELSE Reprocessed(f[i - 1], order[i])
    BY Zenon, <1>5
  <2>2. f[0] = m
    BY <1>2, <2>1
  <2>3. ASSUME NEW i \in 0 .. k - 1 PROVE f[i + 1] = Reprocessed(f[i], order[i + 1])
    <3>1. i + 1 \in 0 .. k /\ i + 1 # 0 /\ (i + 1) - 1 = i
      BY <1>2
    <3> QED
      BY <2>1, <3>1
  <2> QED
    BY <2>2, <2>3
<1> DEFINE Taken(i) == {order[j] : j \in 1 .. i}
           P == {i \in 0 .. k : /\ Sound(f[i], n) /\ Answers(m, f[i])
                                /\ DOMAIN f[i].replies = DOMAIN m.replies \ Taken(i)}
<1>7. 0 \in P
  <2>1. m.entry # None => Advanced(m.entry, m.entry)
    BY ManagerFields, Pings DEF Sound, Advanced
  <2>2. Answers(m, m) /\ Taken(0) = {}
    BY <2>1 DEF Answers
  <2> QED
    BY <1>2, <1>6, <2>2
<1>8. ASSUME NEW i \in 0 .. k - 1, i \in P PROVE i + 1 \in P
  <2>1. /\ i + 1 \in 1 .. k /\ i + 1 \in 0 .. k /\ i \in Nat
        /\ 1 .. i \subseteq 1 .. k /\ 1 .. (i + 1) = (1 .. i) \cup {i + 1}
        /\ i + 1 \notin 1 .. i
    BY <1>2
  <2>2. Sound(f[i], n) /\ Answers(m, f[i]) /\ DOMAIN f[i].replies = DOMAIN m.replies \ Taken(i)
    BY <1>8
  <2>3. order[i + 1] \in DOMAIN f[i].replies
    <3>1. order[i + 1] \in DOMAIN m.replies
      BY <1>3, <2>1 DEF Ripe
    <3>2. order[i + 1] \notin Taken(i)
      BY <1>3, <2>1
    <3> QED
      BY <2>2, <3>1, <3>2
  <2>4. /\ Sound(f[i + 1], n) /\ Answers(f[i], f[i + 1])
        /\ DOMAIN f[i + 1].replies = DOMAIN f[i].replies \ {order[i + 1]}
    BY <1>6, <2>2, <2>3, ReprocessedSound
  <2>5. Taken(i + 1) = Taken(i) \cup {order[i + 1]}
    BY <2>1
  <2> HIDE DEF Taken
  <2>6. Answers(m, f[i + 1])
    BY <2>2, <2>4, AnswersCompose
  <2> QED
    BY <2>1, <2>2, <2>4, <2>5, <2>6
<1>9. k \in P
  <2> HIDE DEF P
  <2>1. k \in 0 .. k
    BY <1>2
  <2> QED
    BY Zenon, <1>2, <1>7, <1>8, <2>1, UpTo
<1>10. Taken(k) = Ripe(m)
  BY <1>3
<1> QED
  BY <1>5, <1>9, <1>10

-----------------------------------------------------------------------------
(* The actions. *)

\* What a step may do to the entry of a funded masternode.
StepAdvances ==
  mnodeman.entry # None /\ mnodeman'.entry # None /\ Funded =>
    /\ mnodeman.entry.mnb <= mnodeman'.entry.mnb
    /\ \/ mnodeman'.entry.lastPing <= mnodeman.entry.lastPing
       \/ mnodeman.entry.lastPing = NoPing
       \/ Tick
    /\ Held(mnodeman.entry) => mnodeman'.entry.nActiveState = POSE_BAN \/ StartAlias

\* Only the entry changes, and not its broadcast.
LEMMA EntryChanges ==
  ASSUME NEW n, NEW m, Sound(m, n), m.entry # None,
         NEW e \in Entries, e.mnb = m.entry.mnb,
         e.nActiveState = OUTPOINT_SPENT => m.entry.nActiveState = OUTPOINT_SPENT \/ ~Funded
  PROVE  LET r == [m EXCEPT !.entry = e] IN Sound(r, n) /\ r.entry = e
<1> DEFINE r == [m EXCEPT !.entry = e]
<1>1. r \in Managers /\ r.entry = e /\ SameRecovery(m, r)
  BY ManagerFields DEF Sound
<1> HIDE DEF r
<1>2. Sound(r, n)
  BY <1>1 DEF Sound, SameRecovery, AnswersAreBounded, AreSigned, SpentIsUnfunded
<1> QED
  BY <1>1, <1>2 DEF r

LEMMA PrimedSound ==
  ASSUME UNCHANGED chain, Sound(mnodeman', Len(signed'))
  PROVE  Sound(mnodeman, Len(signed))'
BY DEF Sound, AnswersAreBounded, AreSigned, SpentIsUnfunded, Funded, chain

\* The common part of the actions that leave the network and the chain alone.
LEMMA NodeStep ==
  ASSUME MasternodeInv, UNCHANGED <<network, chain>>,
         sync' \in {LIST, WINNERS, FINISHED}, faults' \in 0 .. MaxFaults,
         Sound(mnodeman', Len(signed))
  PROVE  MasternodeInv'
<1>1. Sound(mnodeman, Len(signed))'
  BY PrimedSound DEF network
<1>2. TypeOK'
  BY DEF MasternodeInv, TypeOK, Sound, network, chain
<1> QED
  BY <1>1, <1>2 DEF MasternodeInv

LEMMA DisturbanceType ==
  ASSUME TypeOK, NEW is \in BOOLEAN, Disturbance(is)
  PROVE  faults' \in 0 .. MaxFaults
BY Numbers DEF Disturbance, TypeOK

LEMMA Length ==
  ASSUME TypeOK
  PROVE  /\ Len(signed) \in Nat /\ DOMAIN signed = 1 .. Len(signed)
         /\ DOMAIN signed \subseteq Broadcasts
<1> DEFINE S == [age : 0 .. OldBroadcast, confirmed : BOOLEAN]
<1>1. signed \in Seq(S) /\ Len(signed) <= MaxBroadcasts /\ MaxBroadcasts \in Nat
  BY Numbers DEF TypeOK
<1> HIDE DEF S
<1>2. Len(signed) \in Nat /\ DOMAIN signed = 1 .. Len(signed)
  BY <1>1
<1> QED
  BY <1>1, <1>2 DEF Broadcasts

LEMMA ReceiveBroadcastStep ==
  ASSUME MasternodeInv, NEW b \in DOMAIN signed, NEW p \in pings \cup {NoPing},
         NEW asked \in BOOLEAN, ReceiveBroadcast(b, p, asked)
  PROVE  MasternodeInv' /\ StepAdvances
<1> DEFINE m == mnodeman
           n == Len(signed)
<1>1. TypeOK /\ Sound(m, n)
  BY DEF MasternodeInv
<1>2. n \in Nat /\ b \in Broadcasts /\ b <= n
  BY <1>1, Length
<1>3. p \in LastPings
  BY <1>1 DEF TypeOK, LastPings
<1>4. asked => b \in DOMAIN m.requests /\ m.requests[b].asked > 0
  BY DEF ReceiveBroadcast
<1>5. mnodeman' = CheckMnbAndUpdateMasternodeList(m, b, p, asked, FALSE)
  BY DEF ReceiveBroadcast
<1> HIDE DEF m, n
<1>6. /\ Sound(mnodeman', n)
      /\ m.entry # None => Advanced(m.entry, mnodeman'.entry)
  BY Zenon, <1>1, <1>2, <1>3, <1>4, <1>5, CheckMnbSound
<1>7. faults' \in 0 .. MaxFaults
  BY Zenon, <1>1, DisturbanceType DEF ReceiveBroadcast
<1>8. MasternodeInv'
  BY <1>1, <1>6, <1>7, NodeStep DEF ReceiveBroadcast, TypeOK, n
<1> QED
  BY <1>6, <1>8 DEF StepAdvances, Advanced, Held, m

LEMMA ReceivePingStep ==
  ASSUME MasternodeInv, NEW p \in pings, NEW fSentinelIsCurrent \in BOOLEAN,
         ReceivePing(p, fSentinelIsCurrent)
  PROVE  MasternodeInv' /\ StepAdvances
<1> DEFINE m == mnodeman
           n == Len(signed)
           seen == [m EXCEPT !.seenMnp = @ \cup {p}]
           voted == IF fSentinelIsCurrent THEN Voted(seen, p) ELSE seen
<1>1. TypeOK /\ Sound(m, n) /\ m \in Managers /\ p \in PingAges /\ p \in LastPings
  BY DEF MasternodeInv, Sound, TypeOK, LastPings
<1>2. /\ m.entry = None => mnodeman' = seen
      /\ m.entry # None =>
           mnodeman' = IF Accepts(voted.entry, p, FALSE) THEN StorePing(voted, p) ELSE voted
      /\ Disturbance(Late(p) \/ ~fSentinelIsCurrent) /\ UNCHANGED <<sync, network, chain>>
  BY Zenon DEF ReceivePing
<1>3. faults' \in 0 .. MaxFaults /\ sync' \in {LIST, WINNERS, FINISHED}
  BY Zenon, <1>1, <1>2, DisturbanceType DEF Late, TypeOK
<1> HIDE DEF m, n
<1>4. Sound(seen, n) /\ seen \in Managers /\ seen.entry = m.entry
  <2>1. m.seenMnp \cup {p} \in SUBSET PingAges
    BY <1>1, ManagerFields
  <2>2. seen \in Managers /\ seen.entry = m.entry /\ SameRecovery(m, seen)
    BY <1>1, <2>1, ManagerFields
  <2> HIDE DEF seen
  <2> QED
    BY <1>1, <2>2 DEF Sound, SameRecovery, AnswersAreBounded, AreSigned, SpentIsUnfunded
<1> HIDE DEF seen
<1>5. CASE m.entry = None
  <2>1. MasternodeInv'
    BY <1>2, <1>3, <1>4, <1>5, NodeStep DEF n
  <2> QED
    BY <1>5, <2>1 DEF StepAdvances, m
<1>6. CASE m.entry # None
  <2>1. m.entry \in Entries
    BY <1>1, <1>6, ManagerFields
  <2>2. /\ Sound(voted, n) /\ voted.entry \in Entries /\ voted.entry.mnb = m.entry.mnb
        /\ voted.entry.lastPing = m.entry.lastPing /\ voted.entry.banLeft = m.entry.banLeft
        /\ voted.entry.nActiveState = m.entry.nActiveState
    <3> DEFINE e == [m.entry EXCEPT !.watchdogVote = Capped(p, NoVote)]
    <3>1. Capped(p, NoVote) \in 0 .. NoVote
      BY <1>1, Numbers DEF Capped, NoVote, PingAges
    <3>2. /\ e \in Entries /\ e.mnb = m.entry.mnb /\ e.lastPing = m.entry.lastPing
          /\ e.banLeft = m.entry.banLeft /\ e.nActiveState = m.entry.nActiveState
      BY <2>1, <3>1 DEF Entries
    <3>3. Voted(seen, p) = [seen EXCEPT !.entry = e]
      BY <1>4 DEF Voted, Managers
    <3> HIDE DEF e
    <3>4. Sound(Voted(seen, p), n) /\ Voted(seen, p).entry = e
      BY <1>4, <1>6, <3>2, <3>3, EntryChanges
    <3> QED
      BY <1>4, <2>1, <3>2, <3>4
  <2> HIDE DEF voted
  <2>3. CASE mnodeman' = voted
    <3>1. MasternodeInv'
      BY <1>2, <1>3, <2>2, <2>3, NodeStep DEF n
    <3>2. m.entry.mnb <= m.entry.mnb /\ m.entry.lastPing <= m.entry.lastPing
      BY <2>1, Pings
    <3> QED
      BY <2>2, <2>3, <3>1, <3>2 DEF StepAdvances, Held, m
  <2>4. CASE mnodeman' = StorePing(voted, p) /\ Accepts(voted.entry, p, FALSE)
    <3> DEFINE f == [voted.entry EXCEPT !.lastPing = p]
               d == Check(f, TRUE)
    <3>1. /\ f \in Entries /\ f.mnb = m.entry.mnb /\ f.lastPing = p
          /\ f.nActiveState = m.entry.nActiveState /\ f.banLeft = m.entry.banLeft
      BY <1>1, <2>2, PingedEntry
    <3>2. /\ mnodeman' \in Managers /\ mnodeman'.entry = d /\ SameRecovery(voted, mnodeman')
      BY Zenon, <1>1, <2>2, <2>4, StorePingManager DEF Sound
    <3> HIDE DEF f
    <3>3. /\ d \in Entries /\ d.mnb = m.entry.mnb /\ d.lastPing = p
          /\ Held(m.entry) /\ Funded => Held(d)
          /\ d.nActiveState = OUTPOINT_SPENT => m.entry.nActiveState = OUTPOINT_SPENT \/ ~Funded
      BY Zenon, <3>1, CheckEntry DEF Held
    <3> HIDE DEF d
    <3>4. Sound(mnodeman', n)
      BY <1>1, <1>6, <2>2, <3>2, <3>3
         DEF Sound, SameRecovery, AnswersAreBounded, AreSigned, SpentIsUnfunded
    <3>5. MasternodeInv'
      BY <1>2, <1>3, <3>4, NodeStep DEF n
    <3>6. m.entry.lastPing = NoPing \/ p <= m.entry.lastPing
      <4>1. m.entry.lastPing = NoPing \/ m.entry.lastPing - p >= PING_GAP
        BY <2>2, <2>4 DEF Accepts
      <4>2. m.entry.lastPing \in Int /\ p \in Int /\ PING_GAP \in Nat
        BY <1>1, <2>1, Pings, Numbers DEF PingAges
      <4> QED
        BY <4>1, <4>2
    <3>7. m.entry.mnb <= m.entry.mnb
      BY <2>1, Pings
    <3> QED
      BY <3>2, <3>3, <3>5, <3>6, <3>7 DEF StepAdvances, Held, m
  <2> QED
    BY Zenon, <1>2, <1>6, <2>3, <2>4
<1> QED
  BY <1>5, <1>6

LEMMA ReceiveDsegStep ==
  ASSUME MasternodeInv, ReceiveDseg
  PROVE  MasternodeInv' /\ StepAdvances
<1> DEFINE m == mnodeman
           n == Len(signed)
           seen == [m EXCEPT !.seenMnb = Insert(@, m.entry.mnb, SeenAs(m.entry.lastPing))]
           pinged == m.seenMnp \cup ({m.entry.lastPing} \ {NoPing, NEW_START_REQUIRED})
<1>1. TypeOK /\ Sound(m, n) /\ m \in Managers /\ m.entry \in Entries
  BY ManagerFields DEF MasternodeInv, Sound, ReceiveDseg
<1>2. m.entry.mnb \in Broadcasts /\ m.entry.lastPing \in LastPings
  BY <1>1 DEF Entries
<1>3. pinged \in SUBSET PingAges
  BY <1>1, <1>2, ManagerFields DEF LastPings
<1>4. mnodeman' = [seen EXCEPT !.seenMnp = pinged]
  BY <1>1 DEF ReceiveDseg, Managers
<1> HIDE DEF m, n, pinged
<1>5. Sound(seen, n) /\ seen \in Managers /\ seen.entry = m.entry
  BY <1>1, <1>2, SeenAsSound
<1> HIDE DEF seen
<1>6. mnodeman' \in Managers /\ mnodeman'.entry = m.entry /\ SameRecovery(seen, mnodeman')
  BY <1>3, <1>4, <1>5, ManagerFields
<1>7. Sound(mnodeman', n)
  BY <1>5, <1>6 DEF Sound, SameRecovery, AnswersAreBounded, AreSigned, SpentIsUnfunded
<1>8. MasternodeInv'
  BY <1>1, <1>7, NodeStep DEF ReceiveDseg, TypeOK, n
<1>9. m.entry.mnb <= m.entry.mnb /\ m.entry.lastPing <= m.entry.lastPing
  BY <1>1, Pings
<1> QED
  BY <1>6, <1>8, <1>9 DEF StepAdvances, Held, m

\* The actions that change fields of the entry other than the broadcast and the ping, and
\* end no ban before its block.
LEMMA EntryStep ==
  ASSUME MasternodeInv, mnodeman.entry # None, NEW e \in Entries,
         mnodeman' = [mnodeman EXCEPT !.entry = e],
         e.mnb = mnodeman.entry.mnb, e.lastPing = mnodeman.entry.lastPing,
         e.nActiveState = OUTPOINT_SPENT =>
           mnodeman.entry.nActiveState = OUTPOINT_SPENT \/ ~Funded,
         Held(mnodeman.entry) /\ Funded => e.nActiveState = POSE_BAN,
         faults' \in 0 .. MaxFaults, UNCHANGED <<sync, network, chain>>
  PROVE  MasternodeInv' /\ StepAdvances
<1>1. TypeOK /\ Sound(mnodeman, Len(signed))
  BY DEF MasternodeInv
<1>2. Sound(mnodeman', Len(signed)) /\ mnodeman'.entry = e
  BY <1>1, EntryChanges
<1>3. MasternodeInv'
  BY <1>1, <1>2, NodeStep DEF TypeOK
<1>4. e.mnb <= e.mnb /\ e.lastPing <= e.lastPing
  BY Pings
<1> QED
  BY <1>2, <1>3, <1>4 DEF StepAdvances

LEMMA EntryActions ==
  ASSUME MasternodeInv,
         \/ \E itself \in BOOLEAN : ReceiveVerification(itself)
         \/ PoSeBan
         \/ CheckAll
         \/ \E duplicate \in BOOLEAN : UpdatedBlockTip(duplicate)
         \/ SecondsPass
  PROVE  MasternodeInv' /\ StepAdvances
<1> DEFINE d == mnodeman.entry
<1>1. TypeOK /\ mnodeman \in Managers /\ faults \in 0 .. MaxFaults
  BY DEF MasternodeInv, TypeOK
<1>2. d # None => d \in Entries
  BY <1>1, ManagerFields
<1>3. ASSUME NEW itself \in BOOLEAN, ReceiveVerification(itself)
      PROVE  MasternodeInv' /\ StepAdvances
  <2> DEFINE e == Verified(d, itself)
  <2>1. /\ e \in Entries /\ e.mnb = d.mnb /\ e.lastPing = d.lastPing
        /\ e.nActiveState = d.nActiveState
    BY <1>2, <1>3, VerifiedEntry DEF ReceiveVerification, Verified
  <2>2. /\ d # None /\ mnodeman' = [mnodeman EXCEPT !.entry = e]
        /\ UNCHANGED <<sync, network, chain>> /\ faults' \in 0 .. MaxFaults
    BY Zenon, <1>1, <1>3, DisturbanceType DEF ReceiveVerification
  <2> HIDE DEF e
  <2> QED
    BY <2>1, <2>2, EntryStep DEF Held
<1>4. CASE PoSeBan
  <2> DEFINE e == [d EXCEPT !.nPoSeBanScore = POSE_BAN_MAX_SCORE]
  <2>1. POSE_BAN_MAX_SCORE \in -POSE_BAN_MAX_SCORE .. POSE_BAN_MAX_SCORE
    BY Numbers
  <2>2. /\ e \in Entries /\ e.mnb = d.mnb /\ e.lastPing = d.lastPing
        /\ e.nActiveState = d.nActiveState
    BY <1>2, <1>4, <2>1, ScoreEntry DEF PoSeBan
  <2>3. /\ d # None /\ mnodeman' = [mnodeman EXCEPT !.entry = e]
        /\ UNCHANGED <<sync, network, chain>> /\ faults' \in 0 .. MaxFaults
    BY Zenon, <1>1, <1>4, DisturbanceType DEF PoSeBan, Managers
  <2> HIDE DEF e
  <2> QED
    BY <2>2, <2>3, EntryStep DEF Held
<1>5. CASE CheckAll
  <2> DEFINE e == Check(d, FALSE)
  <2>1. /\ e \in Entries /\ e.mnb = d.mnb /\ e.lastPing = d.lastPing
        /\ Held(d) /\ Funded => Held(e)
        /\ e.nActiveState = OUTPOINT_SPENT => d.nActiveState = OUTPOINT_SPENT \/ ~Funded
    BY Zenon, <1>2, <1>5, CheckEntry DEF CheckAll
  <2>2. /\ d # None /\ mnodeman' = [mnodeman EXCEPT !.entry = e]
        /\ UNCHANGED <<sync, network, chain>> /\ faults' \in 0 .. MaxFaults
    BY <1>1, <1>5 DEF CheckAll
  <2> HIDE DEF e
  <2> QED
    BY <2>1, <2>2, EntryStep DEF Held
<1>6. ASSUME NEW duplicate \in BOOLEAN, UpdatedBlockTip(duplicate)
      PROVE  MasternodeInv' /\ StepAdvances
  <2> DEFINE c == CheckSameAddr(d, duplicate)
             e == [c EXCEPT !.banLeft = IF @ > 0 THEN @ - 1 ELSE 0]
  <2>1. /\ c \in Entries /\ c.mnb = d.mnb /\ c.lastPing = d.lastPing
        /\ c.nActiveState = d.nActiveState
    BY <1>2, <1>6, VerifiedEntry DEF UpdatedBlockTip, CheckSameAddr
  <2>2. /\ d # None /\ mnodeman' = [mnodeman EXCEPT !.entry = e]
        /\ UNCHANGED <<sync, network, chain>> /\ faults' \in 0 .. MaxFaults
    BY <1>1, <1>6, DisturbanceType DEF UpdatedBlockTip
  <2> HIDE DEF c
  <2>3. c.banLeft \in 0 .. ListSize
    BY <2>1 DEF Entries
  <2>4. (IF c.banLeft > 0 THEN c.banLeft - 1 ELSE 0) \in 0 .. ListSize
    BY <2>3, Numbers
  <2>5. /\ e \in Entries /\ e.mnb = d.mnb /\ e.lastPing = d.lastPing
        /\ e.nActiveState = d.nActiveState
    BY <2>1, <2>4 DEF Entries
  <2> HIDE DEF e
  <2> QED
    BY <2>2, <2>5, EntryStep DEF Held
<1>7. CASE SecondsPass
  <2> DEFINE e == [d EXCEPT !.justChecked = FALSE]
  <2>1. /\ e \in Entries /\ e.mnb = d.mnb /\ e.lastPing = d.lastPing
        /\ e.nActiveState = d.nActiveState
    BY Zenon, <1>2, <1>7 DEF SecondsPass, Entries
  <2>2. /\ d # None /\ mnodeman' = [mnodeman EXCEPT !.entry = e]
        /\ UNCHANGED <<sync, network, chain>> /\ faults' \in 0 .. MaxFaults
    BY <1>1, <1>7 DEF SecondsPass, Managers
  <2> HIDE DEF e
  <2> QED
    BY <2>1, <2>2, EntryStep DEF Held
<1> QED
  BY <1>3, <1>4, <1>5, <1>6, <1>7

LEMMA RemovedSound ==
  ASSUME NEW n, NEW m, Sound(m, n)
  PROVE  Sound(Removed(m), n) /\ Removed(m).entry = None
<1> DEFINE seen == Without(m.seenMnb, {m.entry.mnb})
           r == Removed(m)
<1>1. m \in Managers /\ seen \in Maps(SeenMnb)
  BY ManagerFields, WithoutMaps DEF Sound
<1>2. r = [m EXCEPT !.entry = None, !.seenMnb = seen]
  BY DEF Removed
<1> HIDE DEF seen
<1>3. r \in Managers /\ r.entry = None /\ SameRecovery(m, r)
  BY Zenon, <1>1, <1>2 DEF Managers, SeenMnb, SameRecovery
<1> HIDE DEF r
<1>4. Sound(r, n)
  BY <1>3 DEF Sound, SameRecovery, AnswersAreBounded, AreSigned, SpentIsUnfunded
<1> QED
  BY <1>3, <1>4 DEF r

\* A request is made only for a broadcast that has none, so no answer to it is left.
LEMMA RemovedOrAskedSound ==
  ASSUME NEW n, NEW m, Sound(m, n), NEW k \in 0 .. QUORUM_TOTAL
  PROVE  LET r == RemovedOrAsked(m, k)
         IN  /\ Sound(r, n)
             /\ r.entry = m.entry \/ r.entry = None
             /\ m.entry # None /\ Funded => r.entry = m.entry
<1> DEFINE request == [open |-> TRUE, age |-> 0, asked |-> k]
           requests == Insert(m.requests, m.entry.mnb, request)
           asks == [m EXCEPT !.requests = requests]
           r == RemovedOrAsked(m, k)
<1>1. \/ r = m
      \/ m.entry # None /\ m.entry.nActiveState = OUTPOINT_SPENT /\ r = Removed(m)
      \/ m.entry # None /\ r = asks
  BY DEF RemovedOrAsked
<1>2. CASE r = m
  BY <1>2
<1>3. CASE m.entry # None /\ m.entry.nActiveState = OUTPOINT_SPENT /\ r = Removed(m)
  BY <1>3, RemovedSound DEF Sound, SpentIsUnfunded
<1>4. CASE m.entry # None /\ r = asks
  <2>1. m \in Managers /\ m.requests \in Maps(Request) /\ m.entry.mnb \in Broadcasts
    BY Zenon, <1>4, ManagerFields, RecoveryFields, Pings DEF Sound
  <2>2. request \in Request
    BY Numbers DEF Request
  <2> HIDE DEF request
  <2>3. requests \in Maps(Request)
    BY <2>1, <2>2, InsertMaps
  <2>4. /\ DOMAIN m.requests \subseteq DOMAIN requests
        /\ \A x \in DOMAIN m.requests : requests[x] = m.requests[x]
    BY DEF Insert, Put
  <2> HIDE DEF requests
  <2>5. asks \in Managers /\ asks.entry = m.entry /\ asks.requests = requests
        /\ asks.replies = m.replies
    BY <2>1, <2>3 DEF Managers, Request
  <2> HIDE DEF asks
  <2>6. AnswersAreBounded(asks)
    BY <2>4, <2>5 DEF Sound, AnswersAreBounded
  <2>7. Sound(asks, n)
    BY <2>5, <2>6 DEF Sound, AreSigned, SpentIsUnfunded
  <2> QED
    BY <1>4, <2>5, <2>7
<1> QED
  BY <1>1, <1>2, <1>3, <1>4

\* Once the ripe answers are gone, no request that is forgotten has one.
LEMMA ForgottenSound ==
  ASSUME NEW n, NEW m, Sound(m, n), Ripe(m) = {}
  PROVE  Sound(Forgotten(m), n) /\ Forgotten(m).entry = m.entry
<1> DEFINE old == {b \in DOMAIN m.requests :
                     ~m.requests[b].open /\ m.requests[b].age > RECOVERY_RETRY}
           requests == Without(m.requests, old)
           r == Forgotten(m)
<1>1. r = [m EXCEPT !.requests = requests]
  BY DEF Forgotten
<1>2. m \in Managers /\ m.requests \in Maps(Request)
  BY Zenon, RecoveryFields DEF Sound
<1>3. requests \in Maps(Request)
  BY <1>2, WithoutMaps
<1>4. \A b \in DOMAIN m.replies : b \in DOMAIN m.requests /\ b \notin old
  BY DEF Ripe, Sound, AnswersAreBounded
<1>5. \A b \in DOMAIN m.requests \ old : b \in DOMAIN requests /\ requests[b] = m.requests[b]
  BY DEF Without
<1> HIDE DEF requests, old
<1>6. r \in Managers /\ r.entry = m.entry /\ r.requests = requests /\ r.replies = m.replies
  BY <1>1, <1>2, <1>3 DEF Managers, Request
<1> HIDE DEF r
<1>7. AnswersAreBounded(r)
  BY <1>4, <1>5, <1>6 DEF Sound, AnswersAreBounded
<1>8. Sound(r, n)
  BY <1>6, <1>7 DEF Sound, AreSigned, SpentIsUnfunded
<1> QED
  BY <1>6, <1>8 DEF r

LEMMA CheckAndRemoveStep ==
  ASSUME MasternodeInv, NEW k \in 0 .. QUORUM_TOTAL, CheckAndRemove(k)
  PROVE  MasternodeInv' /\ StepAdvances
<1> DEFINE m == mnodeman
           n == Len(signed)
           checked == IF m.entry = None THEN m ELSE [m EXCEPT !.entry = Check(@, FALSE)]
           asked == RemovedOrAsked(checked, k)
<1>1. TypeOK /\ Sound(m, n) /\ m \in Managers /\ n \in Nat
  BY Length DEF MasternodeInv, Sound
<1>2. PICK answered \in AfterReplies(asked) : mnodeman' = Forgotten(answered)
  BY Zenon DEF CheckAndRemove
<1> HIDE DEF m, n
<1>3. /\ Sound(checked, n)
      /\ m.entry # None =>
           /\ checked.entry # None /\ Advanced(m.entry, checked.entry)
           /\ checked.entry.lastPing = m.entry.lastPing
  <2>1. CASE m.entry = None
    BY <1>1, <2>1
  <2>2. CASE m.entry # None
    <3>1. m.entry \in Entries
      BY <1>1, <2>2, ManagerFields
    <3>2. /\ Handled(m, checked) /\ checked.entry.mnb = m.entry.mnb
          /\ checked.entry.lastPing = m.entry.lastPing
          /\ Held(m.entry) /\ Funded => Held(checked.entry)
      BY Zenon, <1>1, <2>2, <3>1, CheckManager
    <3> HIDE DEF checked
    <3>3. Sound(checked, n) /\ checked.entry # None
      BY <1>1, <2>2, <3>2, HandledSound, NoneAssumption DEF Sound, AreSigned, Handled
    <3> QED
      BY <3>1, <3>2, <3>3, Pings DEF Advanced
  <2> QED
    BY Zenon, <2>1, <2>2
<1> HIDE DEF checked
<1>4. Sound(asked, n) /\ (checked.entry # None /\ Funded => asked.entry = checked.entry)
  BY <1>3, RemovedOrAskedSound
<1> HIDE DEF asked
<1>5. /\ Sound(answered, n) /\ Answers(asked, answered)
      /\ DOMAIN answered.replies = DOMAIN asked.replies \ Ripe(asked)
  BY <1>1, <1>2, <1>4, AfterRepliesSound
<1>6. Ripe(answered) = {}
  BY <1>5 DEF Ripe, Answers, Sound, AnswersAreBounded
<1>7. Sound(mnodeman', n) /\ mnodeman'.entry = answered.entry
  BY <1>2, <1>5, <1>6, ForgottenSound
<1>8. MasternodeInv'
  BY <1>1, <1>7, NodeStep DEF CheckAndRemove, TypeOK, n
<1>9. ASSUME m.entry # None, Funded PROVE Advanced(m.entry, answered.entry)
  <2>1. /\ Advanced(m.entry, asked.entry) /\ Advanced(asked.entry, answered.entry)
        /\ asked.entry.lastPing = m.entry.lastPing /\ asked.entry # None
        /\ answered.entry # None
    BY <1>3, <1>4, <1>5, <1>9 DEF Answers
  <2>2. m.entry \in Entries /\ asked.entry \in Entries /\ answered.entry \in Entries
    BY <1>1, <1>4, <1>5, <1>9, <2>1, ManagerFields DEF Sound
  <2>3. {m.entry.mnb, asked.entry.mnb, answered.entry.mnb} \subseteq Nat
    BY <2>2, Pings
  <2> QED
    BY <2>1, <2>3 DEF Advanced
<1> QED
  BY <1>7, <1>8, <1>9 DEF StepAdvances, Advanced, Held, m

LEMMA NoManagerSound == \A n : Sound(NoManager, n)
<1>1. DOMAIN Empty = {} /\ \A S : Empty \in Maps(S)
  BY EmptyMaps
<1>2. NoManager \in Managers
  BY <1>1 DEF NoManager, Managers
<1> QED
  BY Zenon, <1>1, <1>2 DEF Sound, NoManager, AnswersAreBounded, AreSigned, SpentIsUnfunded

LEMMA OtherNodeSteps ==
  ASSUME MasternodeInv,
         RemoveExcess \/ SwitchToNextAsset \/ \E kept \in BOOLEAN : Restart(kept)
  PROVE  MasternodeInv' /\ StepAdvances
<1>1. /\ TypeOK /\ Sound(mnodeman, Len(signed))
      /\ sync \in {LIST, WINNERS, FINISHED} /\ faults \in 0 .. MaxFaults
  BY DEF MasternodeInv, TypeOK
<1>2. mnodeman.entry # None => /\ mnodeman.entry.mnb <= mnodeman.entry.mnb
                               /\ mnodeman.entry.lastPing <= mnodeman.entry.lastPing
  BY <1>1, ManagerFields, Pings DEF Sound
<1>3. CASE RemoveExcess
  <2>1. Sound(mnodeman', Len(signed)) /\ mnodeman'.entry = None
    BY <1>1, <1>3, RemovedSound DEF RemoveExcess
  <2>2. faults' \in 0 .. MaxFaults
    BY Zenon, <1>1, <1>3, DisturbanceType DEF RemoveExcess
  <2> QED
    BY <1>1, <1>3, <2>1, <2>2, NodeStep DEF RemoveExcess, StepAdvances
<1>4. CASE SwitchToNextAsset
  <2>1. MasternodeInv'
    BY <1>1, <1>4, NodeStep DEF SwitchToNextAsset
  <2> QED
    BY <1>2, <1>4, <2>1 DEF SwitchToNextAsset, StepAdvances, Held
<1>5. ASSUME NEW kept \in BOOLEAN, Restart(kept) PROVE MasternodeInv' /\ StepAdvances
  <2>1. Sound(mnodeman', Len(signed)) /\ (mnodeman' = mnodeman \/ mnodeman'.entry = None)
    BY Zenon, <1>1, <1>5, NoManagerSound DEF Restart, NoManager
  <2>2. faults' \in 0 .. MaxFaults
    BY Zenon, <1>1, <1>5, DisturbanceType DEF Restart
  <2>3. MasternodeInv'
    BY <1>5, <2>1, <2>2, NodeStep DEF Restart
  <2> QED
    BY <1>2, <2>1, <2>3 DEF StepAdvances, Held
<1> QED
  BY <1>3, <1>4, <1>5

-----------------------------------------------------------------------------
(* The world around the node. *)

SignedType == [age : 0 .. OldBroadcast, confirmed : BOOLEAN]

LEMMA SignedAre ==
  ASSUME TypeOK
  PROVE  /\ \A b \in DOMAIN signed : signed[b] \in SignedType
         /\ \A u \in [DOMAIN signed -> SignedType] :
              u \in Seq(SignedType) /\ Len(u) = Len(signed)
<1>1. /\ signed \in Seq(SignedType) /\ Len(signed) \in Nat
      /\ DOMAIN signed = 1 .. Len(signed)
  BY Length DEF TypeOK, SignedType
<1>2. \A b \in DOMAIN signed : signed[b] \in SignedType
  BY <1>1
<1>3. \A u \in [DOMAIN signed -> SignedType] : u \in Seq(SignedType) /\ Len(u) = Len(signed)
  BY <1>1
<1> QED
  BY <1>2, <1>3

\* More broadcasts are signed, and nothing else happens to the manager.
LEMMA SignsMore ==
  ASSUME NEW n \in Nat, NEW m, Sound(m, n)
  PROVE  Sound(m, n + 1)
<1>1. m.replies \in Maps(Reply)
  BY Zenon, RecoveryFields DEF Sound
<1>2. DOMAIN m.replies \subseteq Broadcasts
  BY <1>1, MapsAre
<1>3. DOMAIN m.replies \subseteq Nat
  BY <1>2, Numbers DEF Broadcasts
<1>4. m.entry # None => m.entry.mnb \in Nat
  BY ManagerFields, Pings DEF Sound
<1>5. AreSigned(m, n + 1)
  BY <1>3, <1>4 DEF Sound, AreSigned
<1> QED
  BY <1>5 DEF Sound

LEMMA SigningType ==
  ASSUME TypeOK, Len(signed) < MaxBroadcasts, signed' = Append(signed, Signed)
  PROVE  /\ signed' \in Seq([age : 0 .. OldBroadcast, confirmed : BOOLEAN])
         /\ Len(signed') = Len(signed) + 1 /\ Len(signed') <= MaxBroadcasts
         /\ Len(signed) + 1 \in Broadcasts
<1> DEFINE S == [age : 0 .. OldBroadcast, confirmed : BOOLEAN]
<1>1. signed \in Seq(S) /\ Len(signed) \in Nat /\ MaxBroadcasts \in Nat
  BY Length, Numbers DEF TypeOK
<1>2. Signed \in S
  <2>1. 0 \in 0 .. OldBroadcast
    <3>1. NEW_START_REQUIRED \in Nat \ {0} /\ MIN_MNP \in Nat
      BY MasternodeAssumption, Zenon
    <3> QED
      BY <3>1, SMT DEF OldBroadcast
  <2> QED
    BY <2>1 DEF Signed
<1> HIDE DEF S
<1>3. signed' \in Seq(S) /\ Len(signed') = Len(signed) + 1
  BY <1>1, <1>2
<1> QED
  BY <1>1, <1>3 DEF S, Broadcasts

LEMMA SigningSteps ==
  ASSUME MasternodeInv, SignBroadcast \/ StartAlias \/ SignPing
  PROVE  MasternodeInv' /\ StepAdvances
<1> DEFINE n == Len(signed)
<1>1. TypeOK /\ Sound(mnodeman, n) /\ n \in Nat
  BY Length DEF MasternodeInv
<1>2. mnodeman.entry # None => /\ mnodeman.entry.mnb <= mnodeman.entry.mnb
                               /\ mnodeman.entry.lastPing <= mnodeman.entry.lastPing
  BY <1>1, ManagerFields, Pings DEF Sound
<1>3. pings \cup {0} \subseteq PingAges
  BY <1>1, Numbers DEF TypeOK, PingAges
<1>4. CASE SignBroadcast
  <2>1. Sound(mnodeman, n + 1) /\ Len(signed') = n + 1
    BY <1>1, <1>4, SignsMore, SigningType DEF SignBroadcast
  <2>2. Sound(mnodeman', Len(signed'))
    BY <1>4, <2>1 DEF SignBroadcast
  <2>3. Sound(mnodeman, Len(signed))'
    BY <1>4, <2>2, PrimedSound DEF SignBroadcast
  <2>4. TypeOK'
    BY <1>1, <1>3, <1>4, SigningType DEF SignBroadcast, TypeOK, chain
  <2> QED
    BY <1>2, <1>4, <2>3, <2>4 DEF SignBroadcast, MasternodeInv, StepAdvances, Held
<1>5. CASE StartAlias
  <2>1. n + 1 \in Broadcasts /\ Len(signed') = n + 1
    BY <1>1, <1>5, SigningType DEF StartAlias
  <2>2. mnodeman' = UpdateMasternodeList(mnodeman, n + 1, 0)
    BY <1>5 DEF StartAlias
  <2>3. /\ Sound(mnodeman', n + 1)
        /\ mnodeman.entry # None => /\ mnodeman.entry.mnb <= mnodeman'.entry.mnb
                                    /\ PingAdvances(mnodeman.entry, mnodeman'.entry, 0)
    BY <1>1, <2>1, <2>2, UpdateMasternodeListSound
  <2>4. Sound(mnodeman, Len(signed))'
    BY <1>5, <2>1, <2>3, PrimedSound DEF StartAlias
  <2>5. TypeOK'
    BY <1>1, <1>3, <1>5, <2>3, SigningType DEF StartAlias, TypeOK, Sound, chain
  <2> QED
    BY <1>5, <2>3, <2>4, <2>5 DEF MasternodeInv, StepAdvances, PingAdvances
<1>6. CASE SignPing
  <2>1. Sound(mnodeman, Len(signed))'
    BY <1>1, <1>6, PrimedSound DEF SignPing
  <2>2. TypeOK'
    BY <1>1, <1>3, <1>6 DEF SignPing, TypeOK, chain
  <2> QED
    BY <1>2, <1>6, <2>1, <2>2 DEF SignPing, MasternodeInv, StepAdvances, Held
<1> QED
  BY <1>4, <1>5, <1>6

\* An unfunded masternode stays so.
LEMMA ChainSteps ==
  ASSUME MasternodeInv,
         \/ ConfirmCollateral
         \/ \E to \in {"spent", "young"} : LoseCollateral(to)
         \/ ExpireBurnFund
  PROVE  MasternodeInv' /\ StepAdvances
<1> DEFINE S == [age : 0 .. OldBroadcast, confirmed : BOOLEAN]
<1>1. TypeOK /\ Sound(mnodeman, Len(signed))
  BY DEF MasternodeInv
<1>2. mnodeman.entry # None => /\ mnodeman.entry.mnb <= mnodeman.entry.mnb
                               /\ mnodeman.entry.lastPing <= mnodeman.entry.lastPing
  BY <1>1, ManagerFields, Pings DEF Sound
<1>3. mnodeman' = mnodeman
  BY Zenon DEF ConfirmCollateral, LoseCollateral, ExpireBurnFund
<1>4. Funded' => Funded
  BY Zenon DEF ConfirmCollateral, LoseCollateral, ExpireBurnFund, Funded
<1>5. signed' \in Seq(S) /\ Len(signed') = Len(signed)
  <2>1. signed \in Seq(S)
    BY <1>1 DEF TypeOK
  <2>2. CASE signed' = signed
    BY <2>1, <2>2
  <2>3. CASE ConfirmCollateral
    <3> DEFINE u == [b \in DOMAIN signed |-> [signed[b] EXCEPT !.confirmed = FALSE]]
    <3>1. \A b \in DOMAIN signed : signed[b] \in SignedType
      BY <1>1, SignedAre
    <3>2. \A b \in DOMAIN signed : [signed[b] EXCEPT !.confirmed = FALSE] \in SignedType
      BY Zenon, <3>1 DEF SignedType
    <3>3. u \in Seq(SignedType) /\ Len(u) = Len(signed)
      <4>1. u \in [DOMAIN signed -> SignedType]
        BY <3>2
      <4> QED
        BY <1>1, <4>1, SignedAre
    <3> QED
      BY <2>3, <3>3 DEF ConfirmCollateral, SignedType
  <2> QED
    BY Zenon, <2>2, <2>3 DEF LoseCollateral, ExpireBurnFund, network
<1>6. Sound(mnodeman, Len(signed))'
  BY <1>1, <1>3, <1>4, <1>5 DEF Sound, AnswersAreBounded, AreSigned, SpentIsUnfunded
<1>7. faults' \in 0 .. MaxFaults
  BY Zenon, <1>1, DisturbanceType DEF ConfirmCollateral, LoseCollateral, ExpireBurnFund, TypeOK
<1>8. collateral' \in {"spent", "young", "confirmed"} /\ burnFund' \in BOOLEAN
  BY Zenon, <1>1 DEF ConfirmCollateral, LoseCollateral, ExpireBurnFund, TypeOK
<1>9. pings' = pings /\ sync' = sync
  BY Zenon DEF ConfirmCollateral, LoseCollateral, ExpireBurnFund, network
<1>10. TypeOK'
  BY <1>1, <1>3, <1>5, <1>7, <1>8, <1>9 DEF TypeOK
<1> QED
  BY <1>2, <1>3, <1>6, <1>10 DEF MasternodeInv, StepAdvances, Held

LEMMA OlderPings ==
  /\ \A p \in PingAges : Older(p) \in PingAges
  /\ \A p \in LastPings : Older(p) \in LastPings
BY Numbers DEF Older, Capped, PingAges, LastPings, NoPing

LEMMA TickStep ==
  ASSUME MasternodeInv, Tick
  PROVE  MasternodeInv' /\ StepAdvances
<1> DEFINE m == mnodeman
           e == IF m.entry = None THEN None
                ELSE [m.entry EXCEPT !.lastPing = Older(@),
                                     !.watchdogVote = Capped(@ + 1, NoVote),
                                     !.justChecked = FALSE]
           seenMnb == [b \in DOMAIN m.seenMnb |-> [m.seenMnb[b] EXCEPT !.lastPing = Older(@)]]
           seenMnp == {Older(p) : p \in m.seenMnp} \ {NEW_START_REQUIRED}
           requests == [b \in DOMAIN m.requests |->
                          [m.requests[b] EXCEPT
                             !.open = FALSE, !.age = Capped(@ + 1, RECOVERY_RETRY + 1)]]
           replies == [b \in DOMAIN m.replies |-> [m.replies[b] EXCEPT !.lastPing = Older(@)]]
           ages == [b \in DOMAIN signed |-> [signed[b] EXCEPT !.age = Capped(@ + 1, OldBroadcast)]]
<1>1. TypeOK /\ Sound(m, Len(signed)) /\ m \in Managers
  BY DEF MasternodeInv, Sound
<1>2. /\ m.entry \in Entries \cup {None}
      /\ m.seenMnb \in Maps(SeenMnb) /\ m.seenMnp \subseteq PingAges
      /\ m.requests \in Maps(Request) /\ m.replies \in Maps(Reply)
  BY Zenon, <1>1, ManagerFields, RecoveryFields
<1>3. /\ DOMAIN m.seenMnb \subseteq Broadcasts /\ m.seenMnb \in [DOMAIN m.seenMnb -> SeenMnb]
      /\ DOMAIN m.requests \subseteq Broadcasts /\ m.requests \in [DOMAIN m.requests -> Request]
      /\ DOMAIN m.replies \subseteq Broadcasts /\ m.replies \in [DOMAIN m.replies -> Reply]
  BY <1>2, MapsAre
<1>4. /\ mnodeman' = [entry |-> e, seenMnb |-> seenMnb, seenMnp |-> seenMnp,
                      requests |-> requests, replies |-> replies]
      /\ signed' = ages /\ pings' = {Older(p) : p \in pings}
  BY Zenon DEF Tick
<1> HIDE DEF m
<1>5. /\ e \in Entries \cup {None}
      /\ m.entry = None => e = None
      /\ m.entry # None => /\ e.mnb = m.entry.mnb /\ e \in Entries
                           /\ e.nActiveState = m.entry.nActiveState
  <2>1. CASE m.entry = None
    BY <2>1
  <2>2. CASE m.entry # None
    <3>1. m.entry \in Entries
      BY <1>2, <2>2
    <3>2. m.entry.lastPing \in LastPings /\ m.entry.watchdogVote \in 0 .. NoVote
      BY <3>1 DEF Entries
    <3>3. Older(m.entry.lastPing) \in LastPings
      BY <3>2, OlderPings
    <3>4. Capped(m.entry.watchdogVote + 1, NoVote) \in 0 .. NoVote
      BY <3>2, Numbers DEF Capped, NoVote
    <3>5. /\ e \in Entries /\ e.mnb = m.entry.mnb /\ e.nActiveState = m.entry.nActiveState
      BY Zenon, <2>2, <3>1, <3>3, <3>4 DEF Entries
    <3> HIDE DEF e
    <3> QED
      BY <2>2, <3>5
  <2> QED
    BY <2>1, <2>2
<1>6. seenMnb \in Maps(SeenMnb)
  <2>1. \A b \in DOMAIN m.seenMnb : [m.seenMnb[b] EXCEPT !.lastPing = Older(@)] \in SeenMnb
    BY <1>3, OlderPings DEF SeenMnb
  <2>2. DOMAIN seenMnb \subseteq Broadcasts /\ seenMnb \in [DOMAIN seenMnb -> SeenMnb]
    BY <1>3, <2>1
  <2> HIDE DEF seenMnb
  <2> QED
    BY <2>2, MapsAre
<1>7. seenMnp \subseteq PingAges
  BY <1>2, OlderPings
<1>8. /\ requests \in Maps(Request) /\ DOMAIN requests = DOMAIN m.requests
      /\ \A b \in DOMAIN requests : requests[b].asked = m.requests[b].asked
  <2>1. ASSUME NEW b \in DOMAIN m.requests
        PROVE  LET r == [m.requests[b] EXCEPT
                           !.open = FALSE, !.age = Capped(@ + 1, RECOVERY_RETRY + 1)]
               IN  r \in Request /\ r.asked = m.requests[b].asked
    <3>1. m.requests[b] \in Request
      BY <1>3
    <3>2. m.requests[b].age \in 0 .. RECOVERY_RETRY + 1
      BY <3>1 DEF Request
    <3>3. Capped(m.requests[b].age + 1, RECOVERY_RETRY + 1) \in 0 .. RECOVERY_RETRY + 1
      BY <3>2, Numbers DEF Capped
    <3> QED
      BY Zenon, <3>1, <3>3 DEF Request
  <2>2. DOMAIN requests \subseteq Broadcasts /\ requests \in [DOMAIN requests -> Request]
    BY Zenon, <1>3, <2>1
  <2>3. \A b \in DOMAIN requests : requests[b].asked = m.requests[b].asked
    BY Zenon, <2>1
  <2>4. DOMAIN requests = DOMAIN m.requests
    OBVIOUS
  <2> HIDE DEF requests
  <2> QED
    BY <2>2, <2>3, <2>4, MapsAre
<1>9. /\ replies \in Maps(Reply) /\ DOMAIN replies = DOMAIN m.replies
      /\ \A b \in DOMAIN replies : replies[b].count = m.replies[b].count
  <2>1. ASSUME NEW b \in DOMAIN m.replies
        PROVE  LET r == [m.replies[b] EXCEPT !.lastPing = Older(@)]
               IN  r \in Reply /\ r.count = m.replies[b].count
    BY <1>3, OlderPings DEF Reply
  <2>2. DOMAIN replies \subseteq Broadcasts /\ replies \in [DOMAIN replies -> Reply]
    BY <1>3, <2>1
  <2>3. \A b \in DOMAIN replies : replies[b].count = m.replies[b].count
    BY <2>1
  <2>4. DOMAIN replies = DOMAIN m.replies
    OBVIOUS
  <2> HIDE DEF replies
  <2> QED
    BY <2>2, <2>3, <2>4, MapsAre
<1>10. signed' \in Seq(SignedType) /\ Len(signed') = Len(signed)
  <2>1. ASSUME NEW b \in DOMAIN signed
        PROVE  [signed[b] EXCEPT !.age = Capped(@ + 1, OldBroadcast)] \in SignedType
    <3>1. signed[b] \in SignedType
      BY <1>1, SignedAre
    <3>2. signed[b].age \in 0 .. OldBroadcast
      BY <3>1 DEF SignedType
    <3>3. Capped(signed[b].age + 1, OldBroadcast) \in 0 .. OldBroadcast
      BY <3>2, Numbers DEF Capped, OldBroadcast
    <3> QED
      BY <3>1, <3>3 DEF SignedType
  <2>2. ages \in [DOMAIN signed -> SignedType]
    BY <2>1
  <2> QED
    BY Zenon, <1>1, <1>4, <2>2, SignedAre
<1> HIDE DEF e, seenMnb, seenMnp, requests, replies, ages
<1>11. /\ mnodeman' \in Managers /\ mnodeman'.entry = e
       /\ mnodeman'.requests = requests /\ mnodeman'.replies = replies
  BY <1>4, <1>5, <1>6, <1>7, <1>8, <1>9 DEF Managers, SeenMnb, Request, Reply
<1>12. Sound(mnodeman', Len(signed'))
  <2>1. AnswersAreBounded(mnodeman')
    BY <1>1, <1>8, <1>9, <1>11 DEF Sound, AnswersAreBounded
  <2>2. AreSigned(mnodeman', Len(signed')) /\ SpentIsUnfunded(mnodeman')
    BY <1>1, <1>5, <1>9, <1>10, <1>11 DEF Sound, AreSigned, SpentIsUnfunded
  <2> QED
    BY <1>11, <2>1, <2>2 DEF Sound
<1>13. Sound(mnodeman, Len(signed))'
  BY Zenon, <1>12, PrimedSound DEF Tick
<1>14. TypeOK'
  <2>1. pings' \subseteq PingAges
    BY <1>1, <1>4, OlderPings DEF TypeOK
  <2> QED
    BY Zenon, <1>1, <1>10, <1>11, <2>1 DEF Tick, TypeOK, chain, SignedType
<1>15. ASSUME m.entry # None
       PROVE  m.entry.mnb <= e.mnb /\ e.nActiveState = m.entry.nActiveState
  BY <1>5, <1>15, Pings
<1> QED
  BY <1>11, <1>13, <1>14, <1>15 DEF MasternodeInv, StepAdvances, Held, m

LEMMA RecoveryWaitEndsStep ==
  ASSUME MasternodeInv, RecoveryWaitEnds
  PROVE  MasternodeInv' /\ StepAdvances
<1> DEFINE m == mnodeman
           e == IF m.entry = None THEN None ELSE [m.entry EXCEPT !.justChecked = FALSE]
           requests == [b \in DOMAIN m.requests |-> [m.requests[b] EXCEPT !.open = FALSE]]
<1>1. /\ TypeOK /\ Sound(m, Len(signed)) /\ m \in Managers
      /\ m.entry \in Entries \cup {None} /\ m.requests \in Maps(Request)
  BY Zenon, ManagerFields, RecoveryFields DEF MasternodeInv, Sound
<1>2. mnodeman' = [m EXCEPT !.requests = requests, !.entry = e]
  BY <1>1 DEF RecoveryWaitEnds, Managers
<1> HIDE DEF m
<1>3. /\ e \in Entries \cup {None}
      /\ m.entry = None => e = None
      /\ m.entry # None => /\ e.mnb = m.entry.mnb /\ e.lastPing = m.entry.lastPing
                           /\ e.nActiveState = m.entry.nActiveState
  <2>1. CASE m.entry = None
    BY <2>1
  <2>2. CASE m.entry # None
    <3>1. m.entry \in Entries
      BY <1>1, <2>2
    <3> QED
      BY Zenon, <2>2, <3>1 DEF Entries
  <2> QED
    BY <2>1, <2>2
<1>4. /\ requests \in Maps(Request) /\ DOMAIN requests = DOMAIN m.requests
      /\ \A b \in DOMAIN requests : requests[b].asked = m.requests[b].asked
  <2>1. DOMAIN m.requests \subseteq Broadcasts /\ m.requests \in [DOMAIN m.requests -> Request]
    BY <1>1, MapsAre
  <2>2. ASSUME NEW b \in DOMAIN m.requests
        PROVE  LET r == [m.requests[b] EXCEPT !.open = FALSE]
               IN  r \in Request /\ r.asked = m.requests[b].asked
    BY Zenon, <2>1 DEF Request
  <2>3. DOMAIN requests \subseteq Broadcasts /\ requests \in [DOMAIN requests -> Request]
    BY <2>1, <2>2
  <2>4. \A b \in DOMAIN requests : requests[b].asked = m.requests[b].asked
    BY <2>2
  <2>5. DOMAIN requests = DOMAIN m.requests
    OBVIOUS
  <2> HIDE DEF requests
  <2> QED
    BY <2>3, <2>4, <2>5, MapsAre
<1> HIDE DEF e, requests
<1>5. /\ mnodeman' \in Managers /\ mnodeman'.entry = e
      /\ mnodeman'.requests = requests /\ mnodeman'.replies = m.replies
  BY Zenon, <1>1, <1>2, <1>3, <1>4 DEF Managers, Request
<1>6. Sound(mnodeman', Len(signed))
  <2>1. AnswersAreBounded(mnodeman')
    BY <1>1, <1>4, <1>5 DEF Sound, AnswersAreBounded
  <2>2. AreSigned(mnodeman', Len(signed)) /\ SpentIsUnfunded(mnodeman')
    BY <1>1, <1>3, <1>5 DEF Sound, AreSigned, SpentIsUnfunded
  <2> QED
    BY <1>5, <2>1, <2>2 DEF Sound
<1>7. MasternodeInv'
  BY <1>1, <1>6, NodeStep DEF RecoveryWaitEnds, TypeOK
<1>8. ASSUME m.entry # None
      PROVE  m.entry.mnb <= m.entry.mnb /\ m.entry.lastPing <= m.entry.lastPing
  BY <1>1, <1>8, Pings
<1> QED
  BY <1>3, <1>5, <1>7, <1>8 DEF StepAdvances, Held, m

-----------------------------------------------------------------------------
(* The invariant and the theorems. *)

LEMMA MasternodeInvInit == Init => MasternodeInv
<1> SUFFICES ASSUME Init PROVE MasternodeInv
  OBVIOUS
<1>1. Sound(mnodeman, Len(signed))
  BY NoManagerSound DEF Init
<1>2. TypeOK
  BY <1>1, Numbers DEF Init, TypeOK, Sound, PingAges
<1> QED
  BY <1>1, <1>2 DEF MasternodeInv

LEMMA MasternodeInvStep ==
  ASSUME MasternodeInv, [Next]_vars
  PROVE  MasternodeInv' /\ (StepAdvances \/ UNCHANGED vars)
<1>1. CASE UNCHANGED vars
  BY <1>1 DEF vars, network, chain, MasternodeInv, TypeOK, Sound, AnswersAreBounded, AreSigned,
     SpentIsUnfunded, Funded
<1>2. CASE Messages
  BY <1>2, ReceiveBroadcastStep, ReceivePingStep, ReceiveDsegStep, EntryActions DEF Messages
<1>3. CASE Node
  BY <1>3, EntryActions, CheckAndRemoveStep, OtherNodeSteps DEF Node
<1>4. CASE World
  BY <1>4, SigningSteps, TickStep, EntryActions, RecoveryWaitEndsStep, ChainSteps DEF World
<1> QED
  BY <1>1, <1>2, <1>3, <1>4 DEF Next

LEMMA MasternodeInvAlways == Spec => []MasternodeInv
<1>1. MasternodeInv /\ [Next]_vars => MasternodeInv'
  BY MasternodeInvStep
<1> QED
  BY <1>1, MasternodeInvInit, PTL DEF Spec

\* For any timeouts, scores and quorum: the entry, the maps and the requests keep their
\* types, whatever broadcasts, pings and answers come; in particular no more answers to a
\* recovery request are counted than peers were asked, also when requests are forgotten
\* and made again.
THEOREM TypeCorrect == Spec => []TypeOK
<1>1. MasternodeInv => TypeOK
  BY DEF MasternodeInv
<1> QED
  BY <1>1, MasternodeInvAlways, PTL

\* For any constants: while a funded masternode stays in the list, no handler, also no loop
\* over answers in any order, makes its entry from an older broadcast or gives it an older
\* ping.
THEOREM EntriesAdvance == Spec => EntryAdvances
<1>1. MasternodeInv /\ [Next]_vars =>
        [mnodeman.entry # None /\ mnodeman'.entry # None /\ Funded =>
           /\ mnodeman.entry.mnb <= mnodeman'.entry.mnb
           /\ \/ mnodeman'.entry.lastPing <= mnodeman.entry.lastPing
              \/ mnodeman.entry.lastPing = NoPing
              \/ Tick]_vars
  BY MasternodeInvStep DEF StepAdvances
<1> QED
  BY <1>1, MasternodeInvAlways, PTL DEF Spec, EntryAdvances

\* For any constants: only its owner, from this node, ends the ban of a funded masternode
\* before its block.
THEOREM BansAreKept == Spec => BansHold
<1>1. MasternodeInv /\ [Next]_vars =>
        [(/\ mnodeman.entry # None /\ mnodeman'.entry # None
          /\ mnodeman.entry.nActiveState = POSE_BAN
          /\ mnodeman.entry.banLeft > 0
          /\ Funded) =>
           mnodeman'.entry.nActiveState = POSE_BAN \/ StartAlias]_vars
  BY MasternodeInvStep DEF StepAdvances, Held
<1> QED
  BY <1>1, MasternodeInvAlways, PTL DEF Spec, BansHold
=============================================================================
