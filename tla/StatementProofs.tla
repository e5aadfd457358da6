-------------------------- MODULE StatementProofs ---------------------------
(***************************************************************************)
(* Type correctness of InfinityNode, and that its statements leave no gap, *)
(* for any chain, any tiers, and any number of nodes, failures, restarts   *)
(* and resets.  A set of numbers stands for what a loop keeps, where a     *)
(* library theorem has an operator.                                        *)
(***************************************************************************)
EXTENDS InfinityNodeProofs, FiniteSetTheorems

-----------------------------------------------------------------------------
(* The natural numbers. *)

\* A set of numbers that is not empty has a smallest one: what the search for the first entry
\* of a vector finds.
LEMMA SmallestNat ==
  ASSUME NEW S \in SUBSET Nat, S # {}
  PROVE  \E k \in S : \A j \in S : k <= j
<1> DEFINE R == OpToRel(<, Nat)
<1>1. \A j, k \in Nat : j < k => <<j, k>> \in R
  BY DEF OpToRel
<1>2. IsWellFoundedOn(R, Nat)
  BY NatLessThanWellFounded, Zenon
<1> HIDE DEF R
<1>3. PICK k \in S : \A j \in S : ~ (<<j, k>> \in R)
  BY <1>2, WFMin, Zenon
<1>4. \A j \in S : j \in Nat /\ k \in Nat /\ ~ (j < k)
  BY <1>1, <1>3, Zenon
<1>5. \A j \in S : k <= j
  BY <1>4
<1> QED
  BY <1>5

\* Induction up to n: what holds before the first turn of a loop and is kept by each turn
\* holds after the last.
LEMMA UpTo ==
  ASSUME NEW n \in Nat, NEW P, 0 \in P, \A i \in 0 .. n - 1 : i \in P => i + 1 \in P
  PROVE  \A i \in 0 .. n : i \in P
<1> DEFINE bad == {i \in 0 .. n : i \notin P}
<1> SUFFICES ASSUME bad # {} PROVE FALSE
  OBVIOUS
<1>1. bad \in SUBSET Nat
  OBVIOUS
<1> HIDE DEF bad
<1>2. PICK k \in bad : \A j \in bad : k <= j
  BY <1>1, SmallestNat
<1>3. k \in 0 .. n /\ k \notin P /\ k # 0
  BY DEF bad
<1>4. k - 1 \in 0 .. n - 1 /\ k - 1 \notin bad
  BY <1>2, <1>3, SMT
<1>5. k - 1 \in P
  BY <1>3, <1>4 DEF bad
<1> QED
  BY <1>3, <1>4, <1>5

-----------------------------------------------------------------------------
(* The nodes of the list and of the file. *)

\* No scan reads a block below both.
Reached(h) == FIRST <= h \/ BEGIN - MATURED_LIMIT <= h

NodesTyped(nodes) ==
  \A b \in DOMAIN nodes : /\ b \in Burns
                          /\ nodes[b] \in Nodes
                          /\ Reached(nodes[b].nHeight)

LastTyped(last) == last = 0 \/ BEGIN - MATURED_LIMIT <= last

NodesInv ==
  /\ nCachedBlockHeight \in 0 .. MaxHeight
  /\ NodesTyped(mapInfinitynodes)
  /\ NodesTyped(disk.nodes)
  /\ LastTyped(nLastScanHeight)
  /\ LastTyped(disk.last)
  /\ scan # NoScan => Reached(scan.low)

\* The participants of a statement are finitely many, and so are those before one of them.
LEMMA ParticipantsFinite ==
  ASSUME NodesTyped(mapInfinitynodes), NEW t, NEW h, NEW S \in SUBSET Participants(t, h)
  PROVE  /\ IsFiniteSet(S)
         /\ Cardinality(S) \in 0 .. Cardinality(Burns)
         /\ Cardinality(S) \in Nat
<1>1. S \in SUBSET Burns
  BY DEF Participants, NodesTyped
<1>2. IsFiniteSet(Burns)
  BY TierAssumption
<1>3. IsFiniteSet(S) /\ Cardinality(S) <= Cardinality(Burns)
  BY <1>1, <1>2, FS_Subset
<1>4. Cardinality(S) \in Nat /\ Cardinality(Burns) \in Nat
  BY <1>2, <1>3, FS_CardinalityType
<1> QED
  BY <1>3, <1>4, SMT

\* Ranks are numbers.
LEMMA RankTyped ==
  ASSUME NodesTyped(mapInfinitynodes), NEW b, NEW t, NEW h
  PROVE  RankAt(b, t, h) \in Nat
BY ParticipantsFinite DEF RankAt

\* Whatever rank a node gets, it stays a node.
LEMMA RankedTyped ==
  ASSUME NodesTyped(mapInfinitynodes), NEW t, NEW h
  PROVE  NodesTyped(Ranked(mapInfinitynodes, t, h))
<1> DEFINE R(b) == IF b \in Participants(t, h) THEN RankAt(b, t, h) ELSE 0
<1>1. \A b : R(b) \in Nat
  BY RankTyped
<1> HIDE DEF R
<1>2. Ranked(mapInfinitynodes, t, h) =
        [b \in DOMAIN mapInfinitynodes |->
           IF Tier[b] # t THEN mapInfinitynodes[b]
           ELSE [mapInfinitynodes[b] EXCEPT !.nRank = R(b)]]
  BY DEF Ranked, R
<1> QED
  BY <1>1, <1>2, SMT DEF NodesTyped, Nodes

\* CInfinitynodeMan::Add
LEMMA AddTyped ==
  ASSUME NEW nodes, NodesTyped(nodes), NEW b \in Burns, NEW h \in Heights, Reached(h)
  PROVE  NodesTyped(Add(nodes, b, h))
<1> DEFINE new == [nHeight |-> h, metadata |-> None, nRank |-> 0]
           g == Add(nodes, b, h)
<1>1. DOMAIN g = DOMAIN nodes \cup {b}
  BY SMT DEF Add, Put, Over
<1>2. \A c \in DOMAIN nodes : g[c] = nodes[c]
  BY SMT DEF Add, Put, Over
<1>3. b \notin DOMAIN nodes => g[b] = new
  BY SMT DEF Add, Put, Over
<1>4. new \in Nodes /\ new.nHeight = h
  BY SMT DEF Nodes
<1> HIDE DEF g, new
<1> QED
  BY <1>1, <1>2, <1>3, <1>4 DEF NodesTyped, g

\* updateMetadata
LEMMA MetadataTyped ==
  ASSUME NEW nodes, NodesTyped(nodes), NEW m \in Metas, NEW h
  PROVE  NodesTyped(updateMetadata(nodes, m, h))
BY SMT DEF NodesTyped, Nodes, updateMetadata

\* The first state.
LEMMA NodesInvInit == Init => NodesInv
<1> SUFFICES ASSUME Init PROVE NodesInv
  OBVIOUS
<1>1. disk.nodes = Empty /\ disk.last = 0
  BY SMT DEF Init, Saved
<1>2. NodesTyped(Empty)
  BY DEF NodesTyped, Empty
<1>3. 0 \in 0 .. MaxHeight
  BY DepthAssumption, SMT
<1> QED
  BY <1>1, <1>2, <1>3 DEF Init, NodesInv, LastTyped

\* The call of buildInfinitynodeList.
LEMMA BuildNodes ==
  ASSUME NodesInv, NEW H, NEW L,
         L = BEGIN \/ (L = nLastScanHeight /\ nLastScanHeight # 0),
         Build(H, L), UNCHANGED <<nCachedBlockHeight, disk>>
  PROVE  NodesInv'
<1>1. NodesTyped(mapInfinitynodes') /\ LastTyped(nLastScanHeight')
  <2>1. NodesTyped(Empty)
    BY DEF NodesTyped, Empty
  <2>2. LastTyped(0)
    BY DEF LastTyped
  <2> QED
    BY <2>1, <2>2 DEF Build, NodesInv
<1>2. ASSUME scan' # NoScan PROVE Reached(scan'.low)
  <2>1. scan'.low = IF L = BEGIN THEN FIRST ELSE nLastScanHeight
    BY <1>2, SMT DEF Build
  <2>2. Reached(FIRST)
    BY DepthAssumption, SMT DEF Reached
  <2> QED
    BY <2>1, <2>2 DEF NodesInv, LastTyped, Reached
<1> QED
  BY <1>1, <1>2 DEF NodesInv

\* Every step keeps the invariant.
LEMMA NodesInvStep ==
  ASSUME ListInv, VotesInv, NodesInv, [Next]_vars
  PROVE  NodesInv'
<1> DEFINE Kept == UNCHANGED <<nCachedBlockHeight, nLastScanHeight, disk>>
<1>1. ASSUME Kept, NodesTyped(mapInfinitynodes'), scan' = scan \/ scan' = NoScan
      PROVE  NodesInv'
  BY <1>1 DEF NodesInv
<1>2. NodesTyped(mapInfinitynodes)
  BY DEF NodesInv
<1>3. ASSUME NEW o \in Outputs \cup {None}, ConnectBlock(o) PROVE NodesInv'
  BY <1>1, <1>2, <1>3 DEF ConnectBlock, list
<1>4. ASSUME NEW fork \in Heights, NEW h \in Heights, NEW o \in Outputs \cup {None},
             Reorganise(fork, h, o)
      PROVE  NodesInv'
  BY <1>1, <1>2, <1>4 DEF Reorganise, list
<1>5. ASSUME NEW th \in Threads, ScanBlock(th) PROVE NodesInv'
  <2> DEFINE o == scan.branch[scan.at]
  <2>1. scan \in ScanType /\ Scanning(chain, tip, mapInfinitynodes, scan)
    BY <1>5 DEF ScanBlock, ListInv
  <2>2. /\ scan.at >= scan.low
        /\ scan # NoScan
        /\ scan' = [scan EXCEPT !.at = scan.at - 1]
        /\ \/ o \in Burns /\ mapInfinitynodes' = Add(mapInfinitynodes, o, scan.at)
           \/ o \in Metas /\ mapInfinitynodes' = updateMetadata(mapInfinitynodes, o, scan.at)
           \/ mapInfinitynodes' = mapInfinitynodes
        /\ Kept
    BY <1>5, Zenon DEF ScanBlock
  <2>3. scan.at \in Heights /\ Reached(scan.at)
    BY <2>1, <2>2, DepthAssumption, SMT DEF NodesInv, Reached, ScanType, Scanning, Heights
  <2>4. NodesTyped(mapInfinitynodes')
    BY <1>2, <2>2, <2>3, AddTyped, MetadataTyped, Zenon
  <2>5. scan'.low = scan.low
    BY <2>1, <2>2, SMT DEF ScanType
  <2> QED
    BY <2>2, <2>4, <2>5 DEF NodesInv
<1>6. ASSUME NEW th \in Threads, ScanFails(th) PROVE NodesInv'
  BY <1>1, <1>2, <1>6 DEF ScanFails, list
<1>7. ASSUME NEW th \in Threads, FinishScan(th) PROVE NodesInv'
  <2>1. scan \in ScanType /\ Scanning(chain, tip, mapInfinitynodes, scan)
    BY <1>7 DEF FinishScan, ListInv
  <2>2. LastTyped(scan.height - MATURED_LIMIT)
    BY <2>1, DepthAssumption, SMT DEF LastTyped, ScanType, Scanning, Heights
  <2>3. /\ disk'.nodes = mapInfinitynodes
        /\ disk'.last = scan.height - MATURED_LIMIT
    BY <1>7, SMT DEF FinishScan, VotesInv
  <2>4. /\ nLastScanHeight' = scan.height - MATURED_LIMIT
        /\ scan' = NoScan
        /\ UNCHANGED <<mapInfinitynodes, nCachedBlockHeight>>
    BY <1>7 DEF FinishScan
  <2> QED
    BY <1>2, <2>2, <2>3, <2>4 DEF NodesInv
<1>8. ASSUME NEW th \in Threads, DumpVotes(th) PROVE NodesInv'
  <2>1. disk'.nodes = disk.nodes /\ disk'.last = disk.last
    BY <1>8, SMT DEF DumpVotes, VotesInv
  <2> QED
    BY <1>8, <2>1 DEF DumpVotes, NodesInv, list
<1>9. CASE CheckAndRemove \/ AppInit \/ \E h \in Heights : UpdateList(h)
  <2>1. /\ Called \/ UNCHANGED <<list, scan>>
        /\ UNCHANGED <<nCachedBlockHeight, disk>>
    BY <1>9, Callers
  <2>2. CASE Called
    BY <2>1, <2>2, BuildNodes DEF Called
  <2>3. CASE UNCHANGED <<list, scan>>
    BY <1>1, <1>2, <2>1, <2>3 DEF list
  <2> QED
    BY <2>1, <2>2, <2>3
<1>10. CASE NewStatement
  <2>1. /\ Kept
        /\ UNCHANGED scan
        /\ \/ mapInfinitynodes' = mapInfinitynodes
           \/ \E t, h : mapInfinitynodes' = Ranked(mapInfinitynodes, t, h)
    BY <1>10, Zenon DEF NewStatement
  <2> QED
    BY <1>1, <1>2, <2>1, RankedTyped
<1>11. CASE RankAll
  <2>1. mapInfinitynodes' = [b \in DOMAIN mapInfinitynodes |->
          Ranked(mapInfinitynodes, Tier[b], lastStm[Tier[b]][1])[b]]
    BY <1>11 DEF RankAll
  <2>2. ASSUME NEW b \in DOMAIN mapInfinitynodes, NEW t, NEW h
        PROVE  /\ Ranked(mapInfinitynodes, t, h)[b] \in Nodes
               /\ Reached(Ranked(mapInfinitynodes, t, h)[b].nHeight)
               /\ b \in Burns
    <3>1. b \in DOMAIN Ranked(mapInfinitynodes, t, h)
      BY DEF Ranked
    <3> QED
      BY <1>2, <3>1, RankedTyped DEF NodesTyped
  <2>3. NodesTyped(mapInfinitynodes')
    BY <2>1, <2>2, Zenon DEF NodesTyped
  <2>4. Kept /\ UNCHANGED scan
    BY <1>11 DEF RankAll
  <2> QED
    BY <1>1, <2>3, <2>4
<1>12. ASSUME NEW t \in Tiers, NEW h \in Heights, ShowCandidate(t, h) PROVE NodesInv'
  <2>1. mapInfinitynodes' = [b \in DOMAIN mapInfinitynodes |->
          IF Tier[b] = t THEN [mapInfinitynodes[b] EXCEPT !.nRank = 0]
          ELSE mapInfinitynodes[b]]
    BY <1>12 DEF ShowCandidate
  <2>2. NodesTyped(mapInfinitynodes')
    BY <1>2, <2>1, SMT DEF NodesTyped, Nodes
  <2> QED
    BY <1>1, <1>12, <2>2 DEF ShowCandidate
<1>13. ASSUME NEW h \in Heights, UpdatedBlockTip(h) PROVE NodesInv'
  <2>1. h \in 0 .. MaxHeight
    BY SMT DEF Heights
  <2> QED
    BY <1>13, <2>1 DEF UpdatedBlockTip, NodesInv, list
<1>14. CASE ClearStatement \/ FillStatement \/ Reset
  BY <1>1, <1>2, <1>14, Zenon DEF ClearStatement, FillStatement, Reset, list
<1>15. ASSUME NEW clean \in BOOLEAN, Restart(clean) PROVE NodesInv'
  <2> DEFINE saved == IF clean THEN Saved(mapInfinitynodes, nLastScanHeight, statements,
                                          mapProposalVotes)
                      ELSE disk
  <2>1. /\ disk' = saved
        /\ mapInfinitynodes' =
             [b \in DOMAIN saved.nodes |-> [saved.nodes[b] EXCEPT !.nRank = 0]]
        /\ nLastScanHeight' = saved.last
        /\ nCachedBlockHeight' = 0
        /\ scan' = NoScan
    BY <1>15 DEF Restart
  <2>2. NodesTyped(saved.nodes) /\ LastTyped(saved.last)
    <3>1. /\ clean => saved.nodes = mapInfinitynodes /\ saved.last = nLastScanHeight
          /\ ~clean => saved.nodes = disk.nodes /\ saved.last = disk.last
      BY SMT DEF Saved
    <3> QED
      BY <3>1, Zenon DEF NodesInv
  <2> HIDE DEF saved
  <2>3. NodesTyped(mapInfinitynodes')
    BY <2>1, <2>2, SMT DEF NodesTyped, Nodes
  <2>4. 0 \in 0 .. MaxHeight
    BY DepthAssumption, SMT
  <2> QED
    BY <2>1, <2>2, <2>3, <2>4 DEF NodesInv
<1>16. CASE UNCHANGED vars
  BY <1>1, <1>2, <1>16 DEF vars, list
<1> QED
  BY <1>3, <1>4, <1>5, <1>6, <1>7, <1>8, <1>9, <1>10, <1>11, <1>12, <1>13, <1>14, <1>15,
     <1>16, Zenon DEF Next

-----------------------------------------------------------------------------
(* The loop of deterministicRewardStatement. *)

Size(t, h) == Cardinality(Participants(t, h))

\* What the loop adds to f at height h.
Turn(t, f, h) ==
  IF h >= nCachedBlockHeight THEN Empty
  ELSE IF Size(t, h) = 0 THEN Put(Empty, nCachedBlockHeight, 0)
  ELSE Put(f[h + Size(t, h)], h, Size(t, h))

\* The loop ends: its height grows until it comes to nCachedBlockHeight.
LEMMA RewardStatementsUnfold ==
  ASSUME nCachedBlockHeight \in Nat, NodesTyped(mapInfinitynodes), NEW t
  PROVE  \E F : F = [h \in Nat |-> Turn(t, F, h)] /\ RewardStatements(t) = F[GENESIS]
<1> DEFINE n == nCachedBlockHeight
           From(k) == {h \in Nat : n <= h + k}
           Loop(k, F) == F = [h \in From(k) |-> Turn(t, F, h)]
           P == {k \in 0 .. n : \E F : Loop(k, F)}
<1>1. \A h \in Nat : Size(t, h) \in Nat
  BY ParticipantsFinite DEF Size
<1>2. 0 \in P
  <2> DEFINE F == [h \in From(0) |-> Empty]
  <2>1. \A h \in From(0) : Turn(t, F, h) = Empty
    BY SMT DEF Turn
  <2>2. Loop(0, F)
    BY <2>1, Zenon
  <2>3. \E f : Loop(0, f)
    BY <2>2, Zenon
  <2>4. 0 \in 0 .. n
    BY SMT
  <2> QED
    BY <2>3, <2>4
<1>3. ASSUME NEW k \in 0 .. n - 1, k \in P PROVE k + 1 \in P
  <2>1. PICK F : Loop(k, F)
    BY <1>3
  <2> DEFINE G == [h \in From(k + 1) |-> Turn(t, F, h)]
  <2>2. ASSUME NEW h \in From(k + 1) PROVE Turn(t, F, h) = Turn(t, G, h)
    <3>1. CASE Size(t, h) = 0
      BY <3>1, Zenon DEF Turn
    <3>2. CASE Size(t, h) # 0
      <4> DEFINE g == h + Size(t, h)
      <4>1. g \in From(k) /\ g \in From(k + 1)
        BY <1>1, <3>2, SMT
      <4>2. F[g] = Turn(t, F, g)
        BY <2>1, <4>1, Zenon
      <4>3. G[g] = Turn(t, F, g)
        BY <4>1, Zenon
      <4> HIDE DEF G
      <4> QED
        BY <4>2, <4>3, Zenon DEF Turn
    <3> QED
      BY <3>1, <3>2
  <2>3. Loop(k + 1, G)
    BY <2>2, Zenon
  <2>4. \E f : Loop(k + 1, f)
    BY <2>3, Zenon
  <2>5. k + 1 \in 0 .. n
    BY SMT
  <2> QED
    BY <2>4, <2>5
<1>4. n \in P
  <2> HIDE DEF P
  <2>1. n \in 0 .. n
    BY SMT
  <2> QED
    BY <1>2, <1>3, <2>1, UpTo, Zenon
<1>5. From(n) = Nat
  BY SMT
<1> DEFINE All(F) == F = [h \in Nat |-> Turn(t, F, h)]
           a == CHOOSE F : All(F)
<1>6. \E F : All(F)
  <2> HIDE DEF From, Loop
  <2>1. PICK F : Loop(n, F)
    BY <1>4, Zenon
  <2> USE DEF Loop
  <2>2. All(F)
    BY <1>5, <2>1
  <2> QED
    BY <2>2, Zenon
<1>7. All(a)
  BY <1>6, Zenon
<1>8. RewardStatements(t) = a[GENESIS]
  BY Zenon DEF RewardStatements, Turn, Size
<1> HIDE DEF a
<1> QED
  BY <1>7, <1>8

\* What the loop computes from height g on: statements at heights up to nCachedBlockHeight,
\* each of the size of its participants or 0, that leave no gap and do not overlap.
TiledFrom(t, f, g) ==
  /\ f = [s \in DOMAIN f |-> f[s]]
  /\ DOMAIN f \subseteq {s \in Nat : g <= s /\ s <= nCachedBlockHeight}
  /\ \A s \in DOMAIN f : f[s] = 0 \/ f[s] = Size(t, s)
  /\ \A s \in DOMAIN f : s = g \/ f[s] = 0 \/ \E r \in DOMAIN f : r + f[r] = s
  /\ \A r, s \in DOMAIN f : r < s => r + f[r] <= s

\* Nothing is computed at nCachedBlockHeight and above, and an empty statement ends the map.
LEMMA TiledEnd ==
  ASSUME nCachedBlockHeight \in Nat, NEW t, NEW g \in Nat
  PROVE  /\ TiledFrom(t, Empty, g)
         /\ g < nCachedBlockHeight => TiledFrom(t, Put(Empty, nCachedBlockHeight, 0), g)
<1>1. TiledFrom(t, Empty, g)
  BY SMT DEF TiledFrom, Empty
<1>2. ASSUME g < nCachedBlockHeight
      PROVE  TiledFrom(t, Put(Empty, nCachedBlockHeight, 0), g)
  <2> DEFINE f == Put(Empty, nCachedBlockHeight, 0)
  <2>1. f = [s \in {nCachedBlockHeight} |-> 0]
    BY SMT DEF Put, Over, Empty
  <2> HIDE DEF f
  <2> QED
    BY <1>2, <2>1, SMT DEF TiledFrom, f
<1> QED
  BY <1>1, <1>2

\* A statement is put before the ones that follow it.
LEMMA TiledPut ==
  ASSUME nCachedBlockHeight \in Nat, NEW t, NEW g \in Nat, g < nCachedBlockHeight,
         Size(t, g) \in Nat \ {0}, \A s \in Nat : Size(t, s) \in Nat,
         NEW f, TiledFrom(t, f, g + Size(t, g))
  PROVE  TiledFrom(t, Put(f, g, Size(t, g)), g)
<1> DEFINE k == Size(t, g)
           new == Put(f, g, k)
<1>1. /\ new = [s \in DOMAIN f \cup {g} |-> IF s = g THEN k ELSE f[s]]
  BY SMT DEF Put, Over
<1>2. DOMAIN f \subseteq {s \in Nat : g + k <= s /\ s <= nCachedBlockHeight}
  BY DEF TiledFrom
<1> HIDE DEF k, new
<1>3. /\ DOMAIN new = DOMAIN f \cup {g}
      /\ g \notin DOMAIN f
      /\ new[g] = k
      /\ k \in Nat \ {0}
      /\ \A s \in DOMAIN f : s # g /\ new[s] = f[s]
  BY <1>1, <1>2, SMT DEF k
<1>4. \A s \in DOMAIN f : f[s] \in Nat
  BY SMT DEF TiledFrom
<1>5. new = [s \in DOMAIN new |-> new[s]]
  BY <1>1
<1>6. DOMAIN new \subseteq {s \in Nat : g <= s /\ s <= nCachedBlockHeight}
  BY <1>2, <1>3, SMT
<1>7. \A s \in DOMAIN new : new[s] = 0 \/ new[s] = Size(t, s)
  BY <1>3 DEF TiledFrom, k
<1>8. ASSUME NEW s \in DOMAIN new
      PROVE  s = g \/ new[s] = 0 \/ \E r \in DOMAIN new : r + new[r] = s
  <2>1. CASE s = g + k
    BY <1>3, <2>1
  <2>2. CASE s \in DOMAIN f /\ s # g + k
    BY <1>3, <2>2 DEF TiledFrom, k
  <2> QED
    BY <1>3, <2>1, <2>2
<1>9. ASSUME NEW r \in DOMAIN new, NEW s \in DOMAIN new, r < s
      PROVE  r + new[r] <= s
  <2>1. CASE r = g
    <3>1. s \in DOMAIN f
      BY <1>3, <1>9, <2>1, SMT
    <3> QED
      BY <1>2, <1>3, <2>1, <3>1
  <2>2. CASE r # g
    <3>1. r \in DOMAIN f
      BY <1>3, <2>2
    <3>2. s \in DOMAIN f
      BY <1>2, <1>3, <1>9, <3>1, SMT
    <3> QED
      BY <1>3, <1>9, <3>1, <3>2 DEF TiledFrom
  <2> QED
    BY <2>1, <2>2
<1> QED
  BY <1>5, <1>6, <1>7, <1>8, <1>9 DEF TiledFrom, new, k

\* What deterministicRewardStatement computes.
LEMMA RewardStatementsTiled ==
  ASSUME nCachedBlockHeight \in Nat, NodesTyped(mapInfinitynodes), NEW t
  PROVE  TiledFrom(t, RewardStatements(t), GENESIS)
<1> DEFINE n == nCachedBlockHeight
<1>1. PICK F : F = [h \in Nat |-> Turn(t, F, h)] /\ RewardStatements(t) = F[GENESIS]
  BY RewardStatementsUnfold
<1>2. \A h \in Nat : F[h] = Turn(t, F, h)
  BY <1>1
<1>3. \A h \in Nat : Size(t, h) \in Nat
  BY ParticipantsFinite DEF Size
<1> DEFINE P == {k \in 0 .. n : \A h \in Nat : n <= h + k => TiledFrom(t, F[h], h)}
<1>4. 0 \in P
  <2>1. ASSUME NEW h \in Nat, n <= h + 0 PROVE TiledFrom(t, F[h], h)
    <3>1. h >= n
      BY <2>1, SMT
    <3>2. F[h] = Empty
      BY <1>2, <3>1, Zenon DEF Turn
    <3> QED
      BY <3>2, TiledEnd
  <2>2. 0 \in 0 .. n
    BY SMT
  <2> QED
    BY <2>1, <2>2
<1>5. ASSUME NEW k \in 0 .. n - 1, k \in P PROVE k + 1 \in P
  <2>1. ASSUME NEW h \in Nat, n <= h + (k + 1) PROVE TiledFrom(t, F[h], h)
    <3>1. CASE h >= n
      <4>1. F[h] = Empty
        BY <1>2, <3>1, Zenon DEF Turn
      <4> QED
        BY <4>1, TiledEnd
    <3>2. CASE ~(h >= n) /\ Size(t, h) = 0
      <4>1. F[h] = Put(Empty, n, 0)
        BY <1>2, <3>2, Zenon DEF Turn
      <4>2. h < n
        BY <3>2, SMT
      <4> QED
        BY <4>1, <4>2, TiledEnd
    <3>3. CASE ~(h >= n) /\ Size(t, h) # 0
      <4> DEFINE g == h + Size(t, h)
      <4>1. F[h] = Put(F[g], h, Size(t, h))
        BY <1>2, <3>3, Zenon DEF Turn
      <4>2. h < n /\ Size(t, h) \in Nat \ {0} /\ g \in Nat /\ n <= g + k
        BY <1>3, <2>1, <3>3, SMT
      <4>3. TiledFrom(t, F[g], g)
        BY <1>5, <4>2
      <4> QED
        BY <1>3, <4>1, <4>2, <4>3, TiledPut
    <3> QED
      BY <3>1, <3>2, <3>3
  <2>2. k + 1 \in 0 .. n
    BY SMT
  <2> QED
    BY <2>1, <2>2
<1>6. n \in P
  <2> HIDE DEF P
  <2>1. n \in 0 .. n
    BY SMT
  <2> QED
    BY <1>4, <1>5, <2>1, UpTo, Zenon
<1>7. GENESIS \in Nat /\ n <= GENESIS + n
  BY TierAssumption, SMT
<1>8. TiledFrom(t, F[GENESIS], GENESIS)
  BY <1>6, <1>7
<1> QED
  BY <1>1, <1>8

\* A set of heights that is not empty has a last one: the one that LastOf takes.
LEMMA LastOfIs ==
  ASSUME NEW f, NEW n \in Nat, DOMAIN f \subseteq {s \in Nat : s <= n}, DOMAIN f # {}
  PROVE  LastOf(f) \in DOMAIN f /\ \A g \in DOMAIN f : g <= LastOf(f)
<1> DEFINE S == {k \in 0 .. n : n - k \in DOMAIN f}
<1>1. S \in SUBSET Nat
  BY SMT
<1>2. S # {}
  <2>1. PICK h \in DOMAIN f : TRUE
    OBVIOUS
  <2>2. h \in Nat /\ h <= n
    BY <2>1
  <2>3. n - h \in 0 .. n /\ n - (n - h) = h
    BY <2>2, SMT
  <2> QED
    BY <2>3
<1> HIDE DEF S
<1>3. PICK k \in S : \A j \in S : k <= j
  BY <1>1, <1>2, SmallestNat
<1>4. \A g \in DOMAIN f : g \in Nat /\ n - g \in S
  <2>1. ASSUME NEW g \in DOMAIN f PROVE g \in Nat /\ n - g \in S
    <3>1. g \in Nat /\ g <= n
      OBVIOUS
    <3>2. n - g \in 0 .. n /\ n - (n - g) = g
      BY <3>1, SMT
    <3> QED
      BY <3>1, <3>2 DEF S
  <2> QED
    BY <2>1
<1>5. n - k \in DOMAIN f /\ k \in 0 .. n
  BY DEF S
<1>6. \A g \in DOMAIN f : g <= n - k
  BY <1>3, <1>4, <1>5, SMT
<1>7. \E h \in DOMAIN f : \A g \in DOMAIN f : g <= h
  BY <1>5, <1>6, Zenon
<1> QED
  BY <1>7, Zenon DEF LastOf

-----------------------------------------------------------------------------
(* Where the scheduler thread goes. *)

\* The steps that do not enter, go through or leave the computation of statements, and the
\* one that enters it.
Elsewhere ==
  \/ pc'["scheduler"] = pc["scheduler"] /\ tier'["scheduler"] = tier["scheduler"]
  \/ pc["scheduler"] \notin Updating /\ pc'["scheduler"] \notin Updating
  \/ /\ pc["scheduler"] \notin Updating
     /\ pc'["scheduler"] = "clear"
     /\ tier'["scheduler"] = 1

\* A thread that goes from one label outside the computation to another.
LEMMA Moves ==
  ASSUME LockInv, NEW th \in Threads, pc[th] \notin Updating,
         \/ /\ \E l \in Holding \cup {"init", "idle"} : pc' = [pc EXCEPT ![th] = l]
            /\ tier' = tier \/ \E i : tier' = [tier EXCEPT ![th] = i]
         \/ /\ th = "scheduler"
            /\ pc' = [pc EXCEPT ![th] = "clear"]
            /\ tier' = [tier EXCEPT ![th] = 1]
  PROVE  Elsewhere
BY SMT DEF LockInv, Elsewhere, Threads, Holding, Updating

\* Returning from buildInfinitynodeList is such a step.
LEMMA ReturnElsewhere ==
  ASSUME LockInv, NEW th \in Threads, pc[th] \notin Updating, NEW label, NEW result,
         Return(th, label, result)
  PROVE  Elsewhere
<1>1. \/ /\ pc' = [pc EXCEPT ![th] = "idle"] \/ pc' = [pc EXCEPT ![th] = "statement"]
         /\ tier' = tier \/ tier' = [tier EXCEPT ![th] = 1]
      \/ /\ th = "scheduler"
         /\ pc' = [pc EXCEPT ![th] = "clear"]
         /\ tier' = [tier EXCEPT ![th] = 1]
  BY Zenon DEF Return, Goto, Threads
<1>2. "idle" \in Holding \cup {"init", "idle"} /\ "statement" \in Holding \cup {"init", "idle"}
  BY DEF Holding
<1> QED
  BY <1>1, <1>2, Moves, Zenon

\* All the steps.
LEMMA SchedulerSteps ==
  ASSUME ControlInv, [Next]_vars
  PROVE  Elsewhere \/ ClearStatement \/ FillStatement \/ RankAll
         \/ \E clean \in BOOLEAN : Restart(clean)
<1> DEFINE Labels == Holding \cup {"init", "idle"}
<1>1. LockInv /\ "maintenance" \in Threads /\ "scheduler" \in Threads
  BY DEF ControlInv, Threads
<1>2. /\ {"idle", "scan", "scanOnly", "dump", "dumpOnly", "statement"} \subseteq Labels
      /\ \A l \in Labels : l \notin Updating
  BY SMT DEF Holding, Updating
<1> HIDE DEF Labels
<1>3. ASSUME NEW th \in Threads, pc[th] \notin Updating,
             NEW l \in Labels, pc' = [pc EXCEPT ![th] = l],
             tier' = tier \/ \E i : tier' = [tier EXCEPT ![th] = i]
      PROVE  Elsewhere
  BY <1>1, <1>3, Moves, Zenon DEF Labels
<1>4. ASSUME UNCHANGED threads PROVE Elsewhere
  BY <1>4 DEF threads, Elsewhere
<1>5. ASSUME NEW o \in Outputs \cup {None}, ConnectBlock(o) PROVE Elsewhere
  BY <1>4, <1>5 DEF ConnectBlock
<1>6. ASSUME NEW fork \in Heights, NEW h \in Heights, NEW o \in Outputs \cup {None},
             Reorganise(fork, h, o)
      PROVE  Elsewhere
  BY <1>4, <1>6 DEF Reorganise
<1>7. ASSUME NEW th \in Threads, ScanBlock(th) PROVE Elsewhere
  BY <1>4, <1>7 DEF ScanBlock
<1>8. ASSUME NEW th \in Threads, cs = th PROVE pc[th] \notin Updating
  BY <1>1, <1>8, SMT DEF LockInv, Holding, Updating
<1>9. ASSUME NEW th \in Threads, ScanFails(th) PROVE Elsewhere
  BY <1>1, <1>8, <1>9, ReturnElsewhere, Zenon DEF ScanFails
<1>10. ASSUME NEW th \in Threads, FinishScan(th) PROVE Elsewhere
  <2>1. /\ cs = th
        /\ pc' = [pc EXCEPT ![th] = "dump"] \/ pc' = [pc EXCEPT ![th] = "dumpOnly"]
        /\ tier' = tier
    BY <1>10, Zenon DEF FinishScan, Goto
  <2> QED
    BY <1>2, <1>3, <1>8, <2>1
<1>11. ASSUME NEW th \in Threads, DumpVotes(th) PROVE Elsewhere
  <2>1. pc[th] \notin Updating
    BY <1>11, SMT DEF DumpVotes, Updating
  <2> QED
    BY <1>1, <1>11, <2>1, ReturnElsewhere, Zenon DEF DumpVotes
<1>12. CASE CheckAndRemove
  <2>1. /\ pc["maintenance"] = "idle"
        /\ \/ UNCHANGED threads
           \/ /\ \E l \in {"scan", "scanOnly", "statement"} :
                   pc' = [pc EXCEPT !["maintenance"] = l]
              /\ tier' = tier \/ tier' = [tier EXCEPT !["maintenance"] = 1]
    BY <1>12, Zenon DEF CheckAndRemove, Goto
  <2>2. "idle" \notin Updating
    BY <1>2
  <2> QED
    BY <1>1, <1>2, <1>3, <1>4, <2>1, <2>2
<1>13. CASE NewStatement
  <2>1. /\ pc["maintenance"] = "statement"
        /\ \/ pc' = pc /\ tier' = [tier EXCEPT !["maintenance"] = tier["maintenance"] + 1]
           \/ pc' = [pc EXCEPT !["maintenance"] = "idle"] /\ tier' = tier
    BY <1>13, Zenon DEF NewStatement, Goto
  <2> QED
    BY <1>1, <2>1, SMT DEF Elsewhere, LockInv, Threads
<1>14. ASSUME NEW h \in Heights, UpdateList(h) PROVE Elsewhere
  <2>1. /\ pc["scheduler"] = "idle"
        /\ \/ UNCHANGED threads
           \/ pc' = [pc EXCEPT !["scheduler"] = "scan"] /\ tier' = tier
           \/ Return("scheduler", "scan", BuildReturns(h))
    BY <1>14, Zenon DEF UpdateList, Goto
  <2>2. pc["scheduler"] \notin Updating
    BY <1>2, <2>1
  <2>3. CASE Return("scheduler", "scan", BuildReturns(h))
    BY <1>1, <2>2, <2>3, ReturnElsewhere, Zenon
  <2> QED
    BY <1>1, <1>2, <1>3, <1>4, <2>1, <2>2, <2>3
<1>15. CASE AppInit
  <2>1. /\ pc["scheduler"] = "init"
        /\ \/ pc' = [pc EXCEPT !["scheduler"] = "idle"]
           \/ pc' = [pc EXCEPT !["scheduler"] = "scanOnly"]
        /\ tier' = tier
    BY <1>15, Zenon DEF AppInit, Goto
  <2>2. pc["scheduler"] \notin Updating
    BY <2>1, SMT DEF Updating
  <2>3. Elsewhere
    BY <1>1, <1>2, <1>3, <2>1, <2>2
  <2> QED
    BY <2>3
<1>16. ASSUME NEW t \in Tiers, NEW h \in Heights, ShowCandidate(t, h) PROVE Elsewhere
  BY <1>4, <1>16 DEF ShowCandidate
<1>17. ASSUME NEW h \in Heights, UpdatedBlockTip(h) PROVE Elsewhere
  BY <1>4, <1>17 DEF UpdatedBlockTip
<1>18. CASE Reset
  BY <1>4, <1>18, Zenon DEF Reset
<1>19. CASE UNCHANGED vars
  BY <1>4, <1>19 DEF vars, threads
<1> QED
  BY <1>5, <1>6, <1>7, <1>9, <1>10, <1>11, <1>12, <1>13, <1>14, <1>15, <1>16, <1>17, <1>18,
     <1>19, Zenon DEF Next

-----------------------------------------------------------------------------
(* Statements leave no gap. *)

\* The statements f of a tier and the last of them.
Tiles(f, last) ==
  \/ f = Empty
  \/ /\ DOMAIN f \subseteq Heights
     /\ \A s \in DOMAIN f : f[s] \in 0 .. Cardinality(Burns)
     /\ \A s \in DOMAIN f : s = GENESIS \/ f[s] = 0 \/ \E r \in DOMAIN f : r + f[r] = s
     /\ \A r, s \in DOMAIN f : r < s => r + f[r] <= s
     /\ last[1] \in DOMAIN f
     /\ \A s \in DOMAIN f : s <= last[1]
     /\ last[2] = f[last[1]]

LastType == (0 .. MaxHeight) \X (0 .. Cardinality(Burns))

StatementsTiled(stm, last) ==
  /\ DOMAIN stm = Tiers
  /\ last \in [Tiers -> LastType]
  /\ \A t \in Tiers : Tiles(stm[t], last[t])

\* Memory and file have such statements, and the map that the scheduler thread has emptied
\* is empty still when it comes to fill it.
StatementsInv ==
  /\ StatementsTiled(mapStatement, lastStm)
  /\ StatementsTiled(disk.statements[1], disk.statements[2])
  /\ pc["scheduler"] = "fill" => mapStatement[TierSeq[tier["scheduler"]]] = Empty

\* New statements of one tier, with the last of them.
LEMMA NewTiles ==
  ASSUME NodesInv, NEW t, RewardStatements(t) # Empty
  PROVE  LET new == RewardStatements(t)
             last == <<LastOf(new), new[LastOf(new)]>>
         IN Tiles(new, last) /\ last \in LastType
<1> DEFINE new == RewardStatements(t)
           last == <<LastOf(new), new[LastOf(new)]>>
<1>1. /\ nCachedBlockHeight \in Nat
      /\ nCachedBlockHeight <= MaxHeight
      /\ NodesTyped(mapInfinitynodes)
      /\ GENESIS \in Nat \ {0}
      /\ MaxHeight \in Nat
  BY DepthAssumption, TierAssumption, SMT DEF NodesInv
<1>2. TiledFrom(t, new, GENESIS)
  BY <1>1, RewardStatementsTiled
<1> HIDE DEF new
<1>3. DOMAIN new # {}
  <2>1. new = [s \in DOMAIN new |-> new[s]]
    BY <1>2 DEF TiledFrom
  <2>2. new # Empty
    BY DEF new
  <2> QED
    BY <2>1, <2>2 DEF Empty
<1>4. DOMAIN new \subseteq {s \in Nat : s <= nCachedBlockHeight}
  BY <1>2 DEF TiledFrom
<1>5. LastOf(new) \in DOMAIN new /\ \A g \in DOMAIN new : g <= LastOf(new)
  BY <1>1, <1>3, <1>4, LastOfIs
<1>6. DOMAIN new \subseteq Heights
  BY <1>1, <1>2, SMT DEF TiledFrom, Heights
<1>7. ASSUME NEW s \in DOMAIN new PROVE new[s] \in 0 .. Cardinality(Burns)
  <2>1. Size(t, s) \in 0 .. Cardinality(Burns)
    BY <1>1, ParticipantsFinite DEF Size
  <2>2. new[s] = 0 \/ new[s] = Size(t, s)
    BY <1>2 DEF TiledFrom
  <2>3. Cardinality(Burns) \in Nat
    BY TierAssumption, FS_CardinalityType
  <2> QED
    BY <2>1, <2>2, <2>3, SMT
<1>8. last[1] = LastOf(new) /\ last[2] = new[LastOf(new)]
  OBVIOUS
<1>9. last \in LastType
  <2>1. LastOf(new) \in 0 .. MaxHeight
    BY <1>1, <1>4, <1>5, SMT
  <2> QED
    BY <1>5, <1>7, <2>1 DEF LastType
<1> HIDE DEF last
<1>10. Tiles(new, last)
  BY <1>2, <1>5, <1>6, <1>7, <1>8 DEF Tiles, TiledFrom
<1> QED
  BY <1>9, <1>10 DEF new, last

\* deterministicRewardStatement on an empty map.
LEMMA FillTiles ==
  ASSUME NodesInv, StatementsTiled(mapStatement, lastStm), NEW t \in Tiers, Fill(t, Empty)
  PROVE  /\ StatementsTiled(mapStatement', lastStm')
         /\ mapStatement' = [mapStatement EXCEPT ![t] = RewardStatements(t)]
<1> DEFINE new == RewardStatements(t)
           last == <<LastOf(new), new[LastOf(new)]>>
<1>1. TiledFrom(t, new, GENESIS)
  BY RewardStatementsTiled, SMT DEF NodesInv
<1>2. new = [s \in DOMAIN new |-> new[s]]
  BY <1>1 DEF TiledFrom
<1>3. new # Empty => Tiles(new, last) /\ last \in LastType
  BY NewTiles
<1>4. /\ mapStatement' = [mapStatement EXCEPT ![t] = Over(new, Empty)]
      /\ lastStm' = IF new = Empty THEN lastStm ELSE [lastStm EXCEPT ![t] = last]
  BY DEF Fill
<1> HIDE DEF new, last
<1>5. Over(new, Empty) = new
  <2>1. Over(new, Empty) = [s \in DOMAIN new |-> new[s]]
    BY DEF Over, Empty
  <2> QED
    BY <1>2, <2>1
<1>6. Tiles(Empty, lastStm[t])
  BY DEF Tiles
<1>7. CASE new = Empty
  BY <1>4, <1>5, <1>6, <1>7, SMT DEF StatementsTiled, new
<1>8. CASE new # Empty
  BY <1>3, <1>4, <1>5, <1>8, SMT DEF StatementsTiled, new
<1> QED
  BY <1>7, <1>8

\* What a step does to the statements in memory and in the file.
LEMMA StatementSteps ==
  ASSUME ListInv, VotesInv, [Next]_vars
  PROVE  \/ /\ UNCHANGED statements
            /\ disk'.statements = disk.statements \/ disk'.statements = statements
         \/ NewStatement \/ ClearStatement \/ FillStatement
         \/ \E clean \in BOOLEAN : Restart(clean)
<1> DEFINE Goal == /\ UNCHANGED statements
                   /\ disk'.statements = disk.statements \/ disk'.statements = statements
<1>1. ASSUME UNCHANGED statements, UNCHANGED disk PROVE Goal
  BY <1>1
<1>2. ASSUME NEW o \in Outputs \cup {None}, ConnectBlock(o) PROVE Goal
  BY <1>1, <1>2 DEF ConnectBlock
<1>3. ASSUME NEW fork \in Heights, NEW h \in Heights, NEW o \in Outputs \cup {None},
             Reorganise(fork, h, o)
      PROVE  Goal
  BY <1>1, <1>3 DEF Reorganise
<1>4. ASSUME NEW th \in Threads, ScanBlock(th) \/ ScanFails(th) PROVE Goal
  BY <1>1, <1>4, Zenon DEF ScanBlock, ScanFails
<1>5. ASSUME NEW th \in Threads, FinishScan(th) PROVE Goal
  <2>1. disk'.statements = statements
    BY <1>5, SMT DEF FinishScan, VotesInv
  <2> QED
    BY <1>5, <2>1 DEF FinishScan
<1>6. ASSUME NEW th \in Threads, DumpVotes(th) PROVE Goal
  <2>1. disk'.statements = disk.statements
    BY <1>6, SMT DEF DumpVotes, VotesInv
  <2> QED
    BY <1>6, <2>1 DEF DumpVotes
<1>7. CASE CheckAndRemove \/ AppInit \/ \E h \in Heights : UpdateList(h)
  <2>1. UNCHANGED <<disk, statements>>
    BY <1>7, Callers
  <2> QED
    BY <2>1
<1>8. ASSUME NEW t \in Tiers, NEW h \in Heights, ShowCandidate(t, h) PROVE Goal
  BY <1>1, <1>8 DEF ShowCandidate
<1>9. ASSUME NEW h \in Heights, UpdatedBlockTip(h) PROVE Goal
  BY <1>1, <1>9 DEF UpdatedBlockTip
<1>10. CASE RankAll \/ Reset \/ UNCHANGED vars
  BY <1>1, <1>10, Zenon DEF RankAll, Reset, vars
<1> QED
  BY <1>2, <1>3, <1>4, <1>5, <1>6, <1>7, <1>8, <1>9, <1>10, Zenon DEF Next

\* The statements that a restart takes up.
LEMMA RestartStatements ==
  ASSUME VotesInv, NEW clean \in BOOLEAN, Restart(clean)
  PROVE  /\ mapStatement' = disk'.statements[1]
         /\ lastStm' = disk'.statements[2]
         /\ scannedTo' = disk'.statements[3]
         /\ disk'.statements = disk.statements \/ disk'.statements = statements
<1> DEFINE saved == IF clean THEN Saved(mapInfinitynodes, nLastScanHeight, statements,
                                        mapProposalVotes)
                    ELSE disk
<1>1. /\ disk' = saved
      /\ mapStatement' = saved.statements[1]
      /\ lastStm' = saved.statements[2]
      /\ scannedTo' = saved.statements[3]
  BY DEF Restart
<1>2. saved.statements = disk.statements \/ saved.statements = statements
  <2>1. Saved(mapInfinitynodes, nLastScanHeight, statements, mapProposalVotes).statements
        = statements
    BY SMT DEF Saved
  <2> QED
    BY <2>1, Zenon
<1> HIDE DEF saved
<1> QED
  BY <1>1, <1>2

\* The components of what a file holds.
LEMMA StatementParts ==
  /\ statements[1] = mapStatement
  /\ statements[2] = lastStm
  /\ statements[3] = scannedTo
BY DEF statements

\* The tiers that the threads come to.
LEMMA TierIs ==
  ASSUME LockInv, NEW th \in Threads
  PROVE  TierSeq[tier[th]] \in Tiers
BY DEF LockInv, Tiers

\* The first state.
LEMMA StatementsInvInit == Init => StatementsInv
<1> SUFFICES ASSUME Init PROVE StatementsInv
  OBVIOUS
<1>1. /\ mapStatement = NoStatements
      /\ lastStm = NoLast
      /\ disk.statements = statements
      /\ pc["scheduler"] # "fill"
  BY SMT DEF Init, Saved, Threads
<1>2. Cardinality(Burns) \in Nat
  BY TierAssumption, FS_CardinalityType
<1>3. <<0, 0>> \in LastType
  BY <1>2, DepthAssumption, SMT DEF LastType
<1>4. StatementsTiled(NoStatements, NoLast)
  BY <1>3 DEF StatementsTiled, NoStatements, NoLast, Tiles
<1> QED
  BY <1>1, <1>4, StatementParts DEF StatementsInv

\* Every step keeps the invariant.
LEMMA StatementsInvStep ==
  ASSUME ListInv, ControlInv, VotesInv, NodesInv, StatementsInv, [Next]_vars
  PROVE  StatementsInv'
<1>1. LockInv /\ "maintenance" \in Threads /\ "scheduler" \in Threads
  BY DEF ControlInv, Threads
<1>2. StatementsTiled(mapStatement, lastStm)
  BY DEF StatementsInv
<1>3. StatementsTiled(statements[1], statements[2])
  BY <1>2, StatementParts
<1>4. ASSUME Elsewhere PROVE pc'["scheduler"] = "fill" =>
        pc["scheduler"] = "fill" /\ tier'["scheduler"] = tier["scheduler"]
  BY <1>4, SMT DEF Elsewhere, Updating
<1>5. CASE /\ UNCHANGED statements
           /\ disk'.statements = disk.statements \/ disk'.statements = statements
  <2>1. UNCHANGED <<mapStatement, lastStm>>
    BY <1>5 DEF statements
  <2>2. StatementsTiled(disk'.statements[1], disk'.statements[2])
    BY <1>3, <1>5 DEF StatementsInv
  <2>3. pc'["scheduler"] = "fill" => Elsewhere \/ ClearStatement
    <3>1. ASSUME FillStatement \/ RankAll PROVE pc'["scheduler"] # "fill"
      <4>1. \E l \in {"clear", "rank", "idle"} : pc' = [pc EXCEPT !["scheduler"] = l]
        BY <3>1, Zenon DEF FillStatement, RankAll, Goto
      <4> QED
        BY <1>1, <4>1, SMT DEF LockInv
    <3>2. ASSUME NEW clean \in BOOLEAN, Restart(clean) PROVE pc'["scheduler"] # "fill"
      BY <1>1, <3>2, SMT DEF Restart
    <3> QED
      BY <3>1, <3>2, SchedulerSteps
  <2>4. CASE ClearStatement
    <3>1. mapStatement'[TierSeq[tier["scheduler"]]] = Empty /\ tier' = tier
      BY <1>1, <1>2, <2>4, TierIs DEF ClearStatement, StatementsTiled
    <3> QED
      BY <1>2, <2>1, <2>2, <3>1 DEF StatementsInv
  <2>5. CASE Elsewhere
    BY <1>2, <1>4, <2>1, <2>2, <2>5 DEF StatementsInv
  <2> QED
    BY <1>2, <2>1, <2>2, <2>3, <2>4, <2>5 DEF StatementsInv
<1>6. CASE NewStatement
  <2> DEFINE t == TierSeq[tier["maintenance"]]
  <2>1. /\ pc["maintenance"] = "statement"
        /\ disk' = disk
        /\ Fill(t, Empty) \/ UNCHANGED statements
        /\ pc' = pc \/ pc' = [pc EXCEPT !["maintenance"] = "idle"]
    BY <1>6, Zenon DEF NewStatement, Goto
  <2>2. pc'["scheduler"] # "fill"
    BY <1>1, <2>1, SMT DEF LockInv, Updating
  <2>3. t \in Tiers
    BY <1>1, TierIs
  <2>4. StatementsTiled(mapStatement', lastStm')
    <3>1. CASE Fill(t, Empty)
      BY <1>2, <2>3, <3>1, FillTiles
    <3>2. CASE UNCHANGED statements
      BY <1>2, <3>2 DEF statements
    <3> QED
      BY <2>1, <3>1, <3>2
  <2> QED
    BY <2>1, <2>2, <2>4 DEF StatementsInv
<1>7. CASE ClearStatement
  <2> DEFINE t == TierSeq[tier["scheduler"]]
  <2>1. /\ mapStatement' = [mapStatement EXCEPT ![t] = Empty]
        /\ UNCHANGED <<lastStm, disk, tier>>
    BY <1>7 DEF ClearStatement
  <2>2. t \in Tiers
    BY <1>1, TierIs
  <2>3. StatementsTiled(mapStatement', lastStm') /\ mapStatement'[t] = Empty
    <3>1. Tiles(Empty, lastStm[t])
      BY DEF Tiles
    <3> QED
      BY <1>2, <2>1, <2>2, <3>1, SMT DEF StatementsTiled
  <2> QED
    BY <2>1, <2>3 DEF StatementsInv
<1>8. CASE FillStatement
  <2> DEFINE t == TierSeq[tier["scheduler"]]
  <2>1. /\ pc["scheduler"] = "fill"
        /\ Fill(t, mapStatement[t])
        /\ UNCHANGED disk
        /\ pc' = [pc EXCEPT !["scheduler"] = "clear"]
           \/ pc' = [pc EXCEPT !["scheduler"] = "rank"]
    BY <1>8, Zenon DEF FillStatement, Goto
  <2>2. mapStatement[t] = Empty
    BY <2>1 DEF StatementsInv
  <2>3. pc'["scheduler"] # "fill"
    BY <1>1, <2>1, SMT DEF LockInv
  <2>4. t \in Tiers
    BY <1>1, TierIs
  <2>5. Fill(t, Empty)
    BY <2>1, <2>2
  <2>6. StatementsTiled(mapStatement', lastStm')
    BY <1>2, <2>4, <2>5, FillTiles
  <2> QED
    BY <2>1, <2>3, <2>6 DEF StatementsInv
<1>9. ASSUME NEW clean \in BOOLEAN, Restart(clean) PROVE StatementsInv'
  <2>1. pc'["scheduler"] # "fill"
    BY <1>1, <1>9, SMT DEF Restart
  <2> QED
    BY <1>3, <1>9, <2>1, RestartStatements DEF StatementsInv
<1> QED
  BY <1>5, <1>6, <1>7, <1>8, <1>9, StatementSteps

\* All of it is invariant.
Statements == ListInv /\ ControlInv /\ VotesInv /\ NodesInv /\ StatementsInv

LEMMA StatementsInvariant == Spec => []Statements
<1>1. Init => Statements
  BY ListInvInit, ControlInvInit, VotesInvInit, NodesInvInit, StatementsInvInit DEF Statements
<1>2. Statements /\ [Next]_vars => Statements'
  <2> SUFFICES ASSUME Statements, [Next]_vars PROVE Statements'
    OBVIOUS
  <2>1. ListInv /\ ControlInv /\ VotesInv /\ NodesInv /\ StatementsInv
    BY DEF Statements
  <2>2. ListInv' /\ ControlInv'
    BY <2>1, ListInvStep, ControlInvStep
  <2>3. VotesInv'
    BY <2>1, <2>2, VotesInvStep
  <2>4. NodesInv'
    BY <2>1, NodesInvStep
  <2>5. StatementsInv'
    BY <2>1, StatementsInvStep
  <2> QED
    BY <2>2, <2>3, <2>4, <2>5 DEF Statements
<1> QED
  BY <1>1, <1>2, PTL DEF Spec

\* Type correctness, with any chain and tiers: the list holds burns at heights of the chain,
\* every statement and every last statement lies on the chain and is no larger than there are
\* burns, and a loop that runs belongs to the thread that holds cs.
THEOREM TypeCorrect == Spec => []TypeOK
<1>1. Statements => TypeOK
  <2> SUFFICES ASSUME Statements PROVE TypeOK
    OBVIOUS
  <2>1. ListInv /\ LockInv /\ FlagInv /\ VotesInv /\ NodesInv /\ StatementsInv
    BY DEF Statements, ControlInv
  <2>2. chain \in [Heights -> Outputs \cup {None}] /\ tip \in 0 .. MaxHeight
    BY <2>1 DEF ListInv, Chains
  <2>3. \A b \in DOMAIN mapInfinitynodes : b \in Burns /\ mapInfinitynodes[b] \in Nodes
    BY <2>1 DEF NodesInv, NodesTyped
  <2>4. nLastScanHeight \in 0 .. MaxHeight
    BY <2>1, <2>2, DepthAssumption, SMT DEF ListInv, Settled
  <2>5. mapProposalVotes \subseteq Ballots \X Heights
    BY <2>1 DEF VotesInv, VotesSound
  <2>6. ASSUME NEW t \in Tiers
        PROVE  DOMAIN mapStatement[t] \subseteq Heights /\ lastStm[t] \in LastType
    BY <2>1 DEF StatementsInv, StatementsTiled, Tiles, Empty
  <2>7. nCachedBlockHeight \in 0 .. MaxHeight
    BY <2>1 DEF NodesInv
  <2>8. ASSUME scan # NoScan
        PROVE  /\ cs \in Threads
               /\ pc[cs] \in {"scan", "scanOnly"}
               /\ scan.height \in Heights
               /\ scan.at \in 0 .. scan.height
    <3>1. scan \in ScanType /\ Scanning(chain, tip, mapInfinitynodes, scan)
      BY <2>1, <2>8 DEF ListInv
    <3>2. scan.height \in Heights /\ scan.at \in 0 .. scan.height
      BY <3>1, SMT DEF ScanType, Scanning, Heights
    <3> QED
      BY <2>1, <2>8, <3>2 DEF LockInv
  <2>9. /\ cs \in Threads \cup {Free}
        /\ pc \in [Threads -> {"init", "idle", "scan", "scanOnly", "dump", "dumpOnly",
                               "statement", "clear", "fill", "rank"}]
        /\ tier \in [Threads -> 1 .. Len(TierSeq)]
    <3>1. Holding \cup Updating \cup {"init", "idle"} =
            {"init", "idle", "scan", "scanOnly", "dump", "dumpOnly", "statement", "clear",
             "fill", "rank"}
      BY DEF Holding, Updating
    <3> QED
      BY <2>1, <3>1 DEF LockInv
  <2>10. synced \in BOOLEAN /\ torn \in BOOLEAN
    BY <2>1 DEF FlagInv
  <2> QED
    BY <2>2, <2>3, <2>4, <2>5, <2>6, <2>7, <2>8, <2>9, <2>10, Zenon DEF TypeOK, LastType
<1> QED
  BY <1>1, StatementsInvariant, PTL

\* The statements of a tier leave no gap and do not overlap, and lastStm is the last of them:
\* whichever thread computed them, from whichever list, and whatever a crash or a shutdown
\* left in the file.
THEOREM StatementsAreTiled == Spec => []StatementsTile
<1>1. Statements => StatementsTile
  <2> SUFFICES ASSUME Statements, NEW t \in Tiers, mapStatement[t] # Empty
               PROVE  LET f == mapStatement[t]
                      IN /\ \A s \in DOMAIN f : \/ s = GENESIS
                                                \/ f[s] = 0
                                                \/ \E r \in DOMAIN f : r + f[r] = s
                         /\ \A r, s \in DOMAIN f : r < s => r + f[r] <= s
                         /\ LastOf(f) = lastStm[t][1]
    BY Zenon DEF StatementsTile
  <2> DEFINE f == mapStatement[t]
             last == lastStm[t][1]
  <2>1. /\ DOMAIN f \subseteq Heights
        /\ \A s \in DOMAIN f : s = GENESIS \/ f[s] = 0 \/ \E r \in DOMAIN f : r + f[r] = s
        /\ \A r, s \in DOMAIN f : r < s => r + f[r] <= s
        /\ last \in DOMAIN f
        /\ \A s \in DOMAIN f : s <= last
    BY DEF Statements, StatementsInv, StatementsTiled, Tiles
  <2> HIDE DEF f, last
  <2>2. DOMAIN f \subseteq {s \in Nat : s <= MaxHeight} /\ DOMAIN f # {} /\ MaxHeight \in Nat
    BY <2>1, DepthAssumption, SMT DEF Heights
  <2>3. LastOf(f) \in DOMAIN f /\ \A g \in DOMAIN f : g <= LastOf(f)
    BY <2>2, LastOfIs
  <2>4. LastOf(f) = last
    BY <2>1, <2>2, <2>3, SMT
  <2> QED
    BY <2>1, <2>4 DEF f, last
<1> QED
  BY <1>1, StatementsInvariant, PTL

-----------------------------------------------------------------------------
(* Counting. *)

\* A function that takes no value twice.
LEMMA CountInjection ==
  ASSUME NEW S, NEW T, IsFiniteSet(T), NEW f \in [S -> T],
         \A x, y \in S : f[x] = f[y] => x = y
  PROVE  /\ IsFiniteSet(S)
         /\ Cardinality(S) <= Cardinality(T)
         /\ Cardinality(S) = Cardinality(T) <=> \A z \in T : \E x \in S : f[x] = z
<1>1. f \in Injection(S, T)
  BY DEF Injection, IsInjective
<1>2. (f \in Surjection(S, T)) <=> \A z \in T : \E x \in S : f[x] = z
  BY DEF Surjection
<1> QED
  BY <1>1, <1>2, FS_Injection

\* The members of a finite set S that come up to b, when f puts them in order.
UpToMember(S, f, b) == {c \in S : f[c] <= f[b]}

Numbered(S, f) ==
  /\ \A b \in S : Cardinality(UpToMember(S, f, b)) \in 1 .. Cardinality(S)
  /\ \A b, c \in S : Cardinality(UpToMember(S, f, b)) = Cardinality(UpToMember(S, f, c))
                     => b = c
  /\ \A i \in 1 .. Cardinality(S) : \E b \in S : Cardinality(UpToMember(S, f, b)) = i

\* Counting the members up to each one numbers them from 1, each number once.
LEMMA CountUpTo ==
  ASSUME NEW S, IsFiniteSet(S), NEW f \in [S -> Nat], \A x, y \in S : f[x] = f[y] => x = y
  PROVE  Numbered(S, f)
<1> DEFINE U(b) == UpToMember(S, f, b)
           N == Cardinality(S)
<1>1. N \in Nat
  BY FS_CardinalityType
<1>2. ASSUME NEW b \in S
      PROVE  IsFiniteSet(U(b)) /\ b \in U(b) /\ Cardinality(U(b)) \in 1 .. N
  <2>1. U(b) \in SUBSET S /\ b \in U(b)
    BY SMT DEF UpToMember
  <2> HIDE DEF U
  <2>2. IsFiniteSet(U(b)) /\ Cardinality(U(b)) <= N
    BY <2>1, FS_Subset
  <2>3. Cardinality(U(b)) \in Nat
    BY <2>2, FS_CardinalityType
  <2>4. Cardinality(U(b)) # 0
    BY <2>1, <2>2, FS_EmptySet
  <2> QED
    BY <1>1, <2>1, <2>2, <2>3, <2>4, SMT
<1>3. ASSUME NEW b \in S, NEW c \in S, f[b] < f[c]
      PROVE  Cardinality(U(b)) # Cardinality(U(c))
  <2>1. U(b) \in SUBSET U(c) /\ c \in U(c) /\ c \notin U(b)
    BY <1>3, SMT DEF UpToMember
  <2>2. IsFiniteSet(U(c))
    BY <1>2
  <2> HIDE DEF U
  <2> QED
    BY <2>1, <2>2, FS_Subset
<1>4. ASSUME NEW b \in S, NEW c \in S, Cardinality(U(b)) = Cardinality(U(c)) PROVE b = c
  <2>1. ~(f[b] < f[c]) /\ ~(f[c] < f[b])
    BY <1>3, <1>4
  <2>2. f[b] = f[c]
    BY <2>1, SMT
  <2> QED
    BY <2>2
<1> DEFINE g == [b \in S |-> Cardinality(U(b))]
<1>5. g \in [S -> 1 .. N] /\ \A b, c \in S : g[b] = g[c] => b = c
  BY <1>2, <1>4, Zenon
<1>6. IsFiniteSet(1 .. N) /\ Cardinality(S) = Cardinality(1 .. N)
  BY <1>1, FS_Interval, SMT
<1> DEFINE T == 1 .. N
<1>7. g \in [S -> T] /\ IsFiniteSet(T) /\ Cardinality(S) = Cardinality(T)
  BY <1>5, <1>6
<1> HIDE DEF g, T
<1>8. \A i \in T : \E b \in S : g[b] = i
  <2>1. \A x, y \in S : g[x] = g[y] => x = y
    BY <1>5
  <2>2. (Cardinality(S) = Cardinality(T)) <=> \A z \in T : \E x \in S : g[x] = z
    BY <1>7, <2>1, CountInjection
  <2> QED
    BY <1>7, <2>2
<1> QED
  BY <1>2, <1>4, <1>8, Zenon DEF g, T, Numbered

=============================================================================
