---------------------------- MODULE RewardProofs ----------------------------
(***************************************************************************)
(* What the statements and ranks of InfinityNode promise, for any chain,   *)
(* any tiers, and any number of nodes, failures, restarts and resets.      *)
(*                                                                         *)
(* A statement is computed from the list of that time and is kept while    *)
(* the list grows.  The invariants say what of the list a statement rests  *)
(* on: settled burns, which stay, and of which none is missing below       *)
(* scannedTo.                                                              *)
(***************************************************************************)
EXTENDS StatementProofs

-----------------------------------------------------------------------------
(* The chain under the statements. *)

\* An output is at one height.
Distinct(c) == \A g, h \in Heights : c[g] = c[h] /\ c[g] # None => g = h

\* No burn lies at the heights where a scan from nLastScanHeight may begin and the first scan
\* does not come.
NoEarlyBurn ==
  \A h \in Heights : BEGIN - MATURED_LIMIT <= h /\ h < FIRST => chain[h] \notin Burns

\* Nothing but a block or a branch changes the chain.
LEMMA ChainMoves ==
  ASSUME [Next]_vars
  PROVE  \/ UNCHANGED <<chain, tip>>
         \/ \E o \in Outputs \cup {None} : ConnectBlock(o)
         \/ \E fork, h \in Heights, o \in Outputs \cup {None} : Reorganise(fork, h, o)
<1>1. CASE \E th \in Threads : ScanBlock(th) \/ ScanFails(th) \/ FinishScan(th) \/ DumpVotes(th)
  BY <1>1, Zenon DEF ScanBlock, ScanFails, FinishScan, DumpVotes
<1>2. CASE CheckAndRemove \/ AppInit \/ \E h \in Heights : UpdateList(h)
  BY <1>2, Zenon DEF CheckAndRemove, AppInit, UpdateList
<1>3. CASE \/ NewStatement \/ ClearStatement \/ FillStatement \/ RankAll \/ Reset
           \/ UNCHANGED vars
  BY <1>3, Zenon DEF NewStatement, ClearStatement, FillStatement, RankAll, Reset, vars
<1>4. CASE \/ \E h \in Heights : UpdatedBlockTip(h)
           \/ \E t \in Tiers, h \in Heights : ShowCandidate(t, h)
           \/ \E clean \in BOOLEAN : Restart(clean)
  BY <1>4, Zenon DEF UpdatedBlockTip, ShowCandidate, Restart
<1> QED
  BY <1>1, <1>2, <1>3, <1>4, Zenon DEF Next

\* And such a step leaves settled blocks, and all the rest, alone.
LEMMA ChainSteps ==
  ASSUME ListInv, [Next]_vars
  PROVE  \/ UNCHANGED <<chain, tip>>
         \/ /\ Grows(chain, tip, chain', tip')
            /\ UNCHANGED <<list, statements, nCachedBlockHeight, scan, threads, disk>>
<1>1. ASSUME NEW o \in Outputs \cup {None}, ConnectBlock(o)
      PROVE  /\ Grows(chain, tip, chain', tip')
             /\ UNCHANGED <<list, statements, nCachedBlockHeight, scan, threads, disk>>
  <2>1. Grows(chain, tip, chain', tip')
    BY <1>1, ConnectGrows
  <2> QED
    BY <1>1, <2>1 DEF ConnectBlock
<1>2. ASSUME NEW fork \in Heights, NEW h \in Heights, NEW o \in Outputs \cup {None},
             Reorganise(fork, h, o)
      PROVE  /\ Grows(chain, tip, chain', tip')
             /\ UNCHANGED <<list, statements, nCachedBlockHeight, scan, threads, disk>>
  <2>1. Grows(chain, tip, chain', tip')
    BY <1>2, ReorganiseGrows
  <2> QED
    BY <1>2, <2>1 DEF Reorganise
<1> QED
  BY <1>1, <1>2, ChainMoves, Zenon

\* A block has outputs that its chain does not have yet.
LEMMA DistinctStep ==
  ASSUME ListInv, Distinct(chain), [Next]_vars
  PROVE  Distinct(chain')
<1>1. ASSUME NEW o \in Outputs \cup {None}, ConnectBlock(o) PROVE Distinct(chain')
  <2>1. /\ chain' = [chain EXCEPT ![tip + 1] = o]
        /\ o # None => \A h \in Heights : chain[h] # o
    BY <1>1 DEF ConnectBlock, OnChain
  <2>2. DOMAIN chain = Heights
    BY DEF ListInv, Chains
  <2> QED
    BY <2>1, <2>2, SMT DEF Distinct
<1>2. ASSUME NEW fork \in Heights, NEW k \in Heights, NEW o \in Outputs \cup {None},
             Reorganise(fork, k, o)
      PROVE  Distinct(chain')
  <2> DEFINE kept == [g \in Heights |-> IF g <= fork THEN chain[g] ELSE None]
  <2>1. /\ chain' = [kept EXCEPT ![k] = o]
        /\ o # None => \A h \in Heights : kept[h] # o
    BY <1>2 DEF Reorganise, OnChain
  <2>2. Distinct(kept) /\ DOMAIN kept = Heights
    BY SMT DEF Distinct
  <2> HIDE DEF kept
  <2> QED
    BY <2>1, <2>2, SMT DEF Distinct
<1>3. CASE UNCHANGED chain
  BY <1>3 DEF Distinct
<1> QED
  BY <1>1, <1>2, <1>3, ChainMoves, Zenon

-----------------------------------------------------------------------------
(* What a statement counts. *)

\* The heights of the burns of tier t below s, on chain c, that have not expired at s; and the
\* settled ones among them, when tp is the tip.
Due(c, t, s) == {h \in FIRST .. s - 1 : c[h] \in Burns /\ Tier[c[h]] = t /\ s <= h + LIFE}
Living(c, tp, t, s) == {h \in Due(c, t, s) : h < tp - MATURED_LIMIT}

\* Both are finite.
LEMMA DueFinite ==
  ASSUME NEW c, NEW t, NEW s \in Heights, NEW S \in SUBSET Due(c, t, s)
  PROVE  IsFiniteSet(S) /\ Cardinality(S) \in Nat
<1> DEFINE I == FIRST .. s - 1
<1>1. S \in SUBSET I
  BY DEF Due
<1>2. FIRST \in Int /\ s - 1 \in Int
  BY DepthAssumption, SMT DEF Heights
<1>3. IsFiniteSet(I)
  BY <1>2, FS_Interval
<1> HIDE DEF I
<1>4. IsFiniteSet(S)
  BY <1>1, <1>3, FS_Subset
<1> QED
  BY <1>4, FS_CardinalityType

\* A node takes part by the height of its burn, which it shares with no other.
LEMMA ParticipantsDistinct ==
  ASSUME ListInv, NEW t, NEW s
  PROVE  \A b, c \in Participants(t, s) :
           mapInfinitynodes[b].nHeight = mapInfinitynodes[c].nHeight => b = c
BY DEF Participants, ListInv, Settled, Sound

\* Every participant is a settled burn that has not expired.
LEMMA ParticipantsLive ==
  ASSUME ListInv, NodesInv, NoEarlyBurn, NEW t, NEW s \in Heights
  PROVE  /\ \A b \in Participants(t, s) :
              mapInfinitynodes[b].nHeight \in Living(chain, tip, t, s)
         /\ Size(t, s) <= Cardinality(Living(chain, tip, t, s))
<1>1. ASSUME NEW b \in Participants(t, s)
      PROVE  mapInfinitynodes[b].nHeight \in Living(chain, tip, t, s)
  <2> DEFINE h == mapInfinitynodes[b].nHeight
  <2>1. /\ b \in Burns
        /\ Reached(h)
        /\ h \in Heights
        /\ h < tip - MATURED_LIMIT
        /\ chain[h] = b
        /\ Tier[b] = t
        /\ h < s
        /\ s <= h + LIFE
    BY Zenon DEF Participants, TakesPart, ListInv, Settled, Sound, NodesInv, NodesTyped
  <2> HIDE DEF h
  <2>2. FIRST <= h
    BY <2>1, DepthAssumption, SMT DEF Reached, NoEarlyBurn, Heights
  <2>3. h \in FIRST .. s - 1
    BY <2>1, <2>2, DepthAssumption, SMT DEF Heights
  <2> QED
    BY <2>1, <2>3 DEF Living, Due, h
<1> DEFINE P == Participants(t, s)
           T == Living(chain, tip, t, s)
           f == [b \in P |-> mapInfinitynodes[b].nHeight]
<1>2. f \in [P -> T] /\ \A b, c \in P : f[b] = f[c] => b = c
  BY <1>1, ParticipantsDistinct
<1>3. IsFiniteSet(T)
  BY DueFinite DEF Living
<1> HIDE DEF f, P, T
<1>4. Cardinality(P) <= Cardinality(T)
  BY <1>2, <1>3, CountInjection
<1> QED
  BY <1>1, <1>4 DEF P, T, Size

\* And below nLastScanHeight every such burn takes part.
LEMMA ParticipantsAll ==
  ASSUME ListInv, NodesInv, NoEarlyBurn, Distinct(chain), NEW t, NEW s \in Heights,
         s <= nLastScanHeight
  PROVE  /\ \A h \in Due(chain, t, s) : /\ chain[h] \in Participants(t, s)
                                        /\ mapInfinitynodes[chain[h]].nHeight = h
         /\ Size(t, s) = Cardinality(Due(chain, t, s))
<1>1. ASSUME NEW h \in Due(chain, t, s)
      PROVE  /\ chain[h] \in Participants(t, s)
             /\ mapInfinitynodes[chain[h]].nHeight = h
  <2>1. /\ h \in FIRST .. s - 1
        /\ chain[h] \in Burns
        /\ Tier[chain[h]] = t
        /\ s <= h + LIFE
    BY DEF Due
  <2>2. h \in Heights /\ FIRST <= h /\ h < nLastScanHeight /\ h < s
    BY <2>1, DepthAssumption, SMT DEF Heights, ListInv, Settled
  <2>3. chain[h] \in DOMAIN mapInfinitynodes
    BY <2>1, <2>2 DEF ListInv, Settled, Has
  <2>4. chain[h] # None
    BY <2>1, DepthAssumption DEF Outputs
  <2>5. mapInfinitynodes[chain[h]].nHeight = h
    BY <2>2, <2>3, <2>4 DEF ListInv, Settled, Sound, Distinct
  <2> QED
    BY <2>1, <2>2, <2>3, <2>5 DEF Participants, TakesPart
<1> DEFINE P == Participants(t, s)
           T == Due(chain, t, s)
           f == [b \in P |-> mapInfinitynodes[b].nHeight]
<1>2. f \in [P -> T] /\ \A b, c \in P : f[b] = f[c] => b = c
  <2>1. \A b \in P : mapInfinitynodes[b].nHeight \in Living(chain, tip, t, s)
    BY ParticipantsLive
  <2>2. \A b \in P : mapInfinitynodes[b].nHeight \in T
    BY <2>1 DEF Living
  <2> QED
    BY <2>2, ParticipantsDistinct
<1>3. \A h \in T : \E b \in P : f[b] = h
  BY <1>1
<1>4. IsFiniteSet(T)
  BY DueFinite
<1> HIDE DEF f, P, T
<1>5. Cardinality(P) = Cardinality(T)
  BY <1>2, <1>3, <1>4, CountInjection
<1> QED
  BY <1>1, <1>5 DEF P, T, Size

\* The statements f of tier t, computed when nLastScanHeight was to: each counts settled burns,
\* and below to all that are due.
Counted(c, tp, t, f, to) ==
  /\ to \in Nat
  /\ to # 0 => to <= tp - MATURED_LIMIT
  /\ \A s \in DOMAIN f : f[s] <= Cardinality(Living(c, tp, t, s))
  /\ \A s \in DOMAIN f : s <= to /\ f[s] # 0 => f[s] = Cardinality(Due(c, t, s))

AllCounted(c, tp, stm, to) ==
  /\ DOMAIN to = Tiers
  /\ \A t \in Tiers : Counted(c, tp, t, stm[t], to[t])

\* Memory and file have such statements.
CountInv ==
  /\ Distinct(chain)
  /\ AllCounted(chain, tip, mapStatement, scannedTo)
  /\ AllCounted(chain, tip, disk.statements[1], disk.statements[3])

\* Settled burns stay due, and none is added below them.
LEMMA CountedGrows ==
  ASSUME NEW c, NEW tp \in 0 .. MaxHeight, NEW d, NEW u, Grows(c, tp, d, u), NEW t, NEW f, NEW to,
         DOMAIN f \subseteq Heights, \A s \in DOMAIN f : f[s] \in Nat, Counted(c, tp, t, f, to)
  PROVE  Counted(d, u, t, f, to)
<1>1. u \in 0 .. MaxHeight /\ tp <= u
  BY DEF Grows
<1>2. to \in Nat /\ (to # 0 => to <= tp - MATURED_LIMIT)
  BY DEF Counted
<1>3. to # 0 => to <= u - MATURED_LIMIT
  BY <1>1, <1>2, DepthAssumption, SMT
<1>4. ASSUME NEW s \in DOMAIN f PROVE f[s] <= Cardinality(Living(d, u, t, s))
  <2> DEFINE A == Living(c, tp, t, s)
             B == Living(d, u, t, s)
  <2>1. s \in Heights /\ f[s] \in Nat /\ f[s] <= Cardinality(A)
    BY DEF Counted
  <2>2. ASSUME NEW h \in A PROVE h \in B
    <3>1. /\ h \in FIRST .. s - 1
          /\ c[h] \in Burns
          /\ Tier[c[h]] = t
          /\ s <= h + LIFE
          /\ h < tp - MATURED_LIMIT
      BY DEF Living, Due
    <3>2. h \in Heights /\ h <= tp - MATURED_LIMIT /\ h < u - MATURED_LIMIT
      BY <1>1, <2>1, <3>1, DepthAssumption, SMT DEF Heights
    <3>3. d[h] = c[h]
      BY <3>2 DEF Grows
    <3> QED
      BY <3>1, <3>2, <3>3 DEF Living, Due
  <2>3. /\ IsFiniteSet(B)
        /\ Cardinality(B) \in Nat
        /\ Cardinality(A) \in Nat
    BY <2>1, DueFinite DEF Living
  <2> HIDE DEF A, B
  <2>4. Cardinality(A) <= Cardinality(B)
    BY <2>2, <2>3, FS_Subset
  <2>5. f[s] <= Cardinality(B)
    BY <2>1, <2>3, <2>4, SMT
  <2> QED
    BY <2>5 DEF B
<1>5. ASSUME NEW s \in DOMAIN f, s <= to PROVE Due(c, t, s) = Due(d, t, s)
  <2>1. \A h \in FIRST .. s - 1 : h \in Heights /\ h <= tp - MATURED_LIMIT
    BY <1>2, <1>5, DepthAssumption, SMT DEF Heights
  <2>2. \A h \in FIRST .. s - 1 : d[h] = c[h]
    BY <2>1 DEF Grows
  <2> QED
    BY <2>2 DEF Due
<1> QED
  BY <1>2, <1>3, <1>4, <1>5 DEF Counted

\* What deterministicRewardStatement computes from the list.
LEMMA NewCounted ==
  ASSUME ListInv, NodesInv, NoEarlyBurn, Distinct(chain), NEW t
  PROVE  Counted(chain, tip, t, RewardStatements(t), nLastScanHeight)
<1> DEFINE f == RewardStatements(t)
<1>1. TiledFrom(t, f, GENESIS)
  BY RewardStatementsTiled, SMT DEF NodesInv
<1>2. nLastScanHeight \in Nat /\ (nLastScanHeight # 0 => nLastScanHeight <= tip - MATURED_LIMIT)
  BY DEF ListInv, Settled
<1> HIDE DEF f
<1>3. DOMAIN f \subseteq Heights
  BY <1>1, DepthAssumption, TierAssumption, SMT DEF TiledFrom, Heights, NodesInv
<1>4. \A s \in DOMAIN f : f[s] = 0 \/ f[s] = Size(t, s)
  BY <1>1 DEF TiledFrom
<1>5. ASSUME NEW s \in DOMAIN f PROVE f[s] <= Cardinality(Living(chain, tip, t, s))
  <2>1. Cardinality(Living(chain, tip, t, s)) \in Nat
    BY <1>3, DueFinite DEF Living
  <2>2. Size(t, s) <= Cardinality(Living(chain, tip, t, s))
    BY <1>3, ParticipantsLive
  <2> QED
    BY <1>4, <2>1, <2>2, SMT
<1>6. ASSUME NEW s \in DOMAIN f, s <= nLastScanHeight, f[s] # 0
      PROVE  f[s] = Cardinality(Due(chain, t, s))
  BY <1>3, <1>4, <1>6, ParticipantsAll
<1> QED
  BY <1>2, <1>5, <1>6 DEF Counted, f

\* The first state.
LEMMA CountInvInit == Init => CountInv
<1> SUFFICES ASSUME Init PROVE CountInv
  OBVIOUS
<1>1. /\ mapStatement = NoStatements
      /\ scannedTo = [t \in Tiers |-> 0]
      /\ disk.statements = statements
      /\ chain = [h \in Heights |-> None]
  BY SMT DEF Init, Saved
<1>2. Distinct(chain)
  BY <1>1 DEF Distinct
<1>3. \A t : Counted(chain, tip, t, Empty, 0)
  BY DEF Counted, Empty
<1>4. AllCounted(chain, tip, mapStatement, scannedTo)
  BY <1>1, <1>3 DEF AllCounted, NoStatements
<1> QED
  BY <1>1, <1>2, <1>4, StatementParts DEF CountInv

\* New statements of one tier, computed on an empty map.
LEMMA FillCounted ==
  ASSUME Statements, CountInv, NoEarlyBurn, NEW t \in Tiers, Fill(t, Empty),
         UNCHANGED <<chain, tip>>
  PROVE  AllCounted(chain', tip', mapStatement', scannedTo')
<1>1. ListInv /\ NodesInv /\ StatementsInv /\ Distinct(chain)
      /\ AllCounted(chain, tip, mapStatement, scannedTo)
  BY DEF Statements, CountInv
<1>2. /\ mapStatement' = [mapStatement EXCEPT ![t] = RewardStatements(t)]
      /\ DOMAIN mapStatement = Tiers
  BY <1>1, FillTiles DEF StatementsInv, StatementsTiled
<1>3. scannedTo' = [scannedTo EXCEPT ![t] = nLastScanHeight]
  BY DEF Fill
<1>4. Counted(chain, tip, t, RewardStatements(t), nLastScanHeight)
  BY <1>1, NewCounted
<1>5. ASSUME NEW u \in Tiers PROVE Counted(chain, tip, u, mapStatement'[u], scannedTo'[u])
  <2>1. CASE u = t
    BY <1>1, <1>2, <1>3, <1>4, <2>1 DEF AllCounted
  <2>2. CASE u # t
    BY <1>1, <1>2, <1>3, <2>2 DEF AllCounted
  <2> QED
    BY <2>1, <2>2
<1>6. DOMAIN scannedTo' = Tiers
  BY <1>1, <1>3 DEF AllCounted
<1> QED
  BY <1>5, <1>6 DEF AllCounted

\* Every step keeps the invariant.
LEMMA CountInvStep ==
  ASSUME Statements, CountInv, NoEarlyBurn, [Next]_vars
  PROVE  CountInv'
<1>1. ListInv /\ LockInv /\ VotesInv /\ NodesInv /\ StatementsInv
  BY DEF Statements, ControlInv
<1>2. /\ AllCounted(chain, tip, mapStatement, scannedTo)
      /\ AllCounted(chain, tip, disk.statements[1], disk.statements[3])
      /\ AllCounted(chain, tip, statements[1], statements[3])
  BY StatementParts DEF CountInv
<1>3. Distinct(chain')
  BY <1>1, DistinctStep DEF CountInv
<1>4. CASE /\ Grows(chain, tip, chain', tip')
           /\ UNCHANGED <<list, statements, nCachedBlockHeight, scan, threads, disk>>
  <2>1. tip \in 0 .. MaxHeight
    BY <1>1 DEF ListInv
  <2>2. ASSUME NEW stm, NEW last, NEW to, StatementsTiled(stm, last),
               AllCounted(chain, tip, stm, to)
        PROVE  AllCounted(chain', tip', stm, to)
    <3>1. ASSUME NEW t \in Tiers PROVE Counted(chain', tip', t, stm[t], to[t])
      <4>1. Tiles(stm[t], last[t])
        BY <2>2 DEF StatementsTiled
      <4>2. DOMAIN stm[t] \subseteq Heights /\ \A s \in DOMAIN stm[t] : stm[t][s] \in Nat
        BY <4>1, SMT DEF Tiles, Empty
      <4>3. Counted(chain, tip, t, stm[t], to[t])
        BY <2>2 DEF AllCounted
      <4> QED
        BY <1>4, <2>1, <4>2, <4>3, CountedGrows
    <3> QED
      BY <2>2, <3>1 DEF AllCounted
  <2>3. /\ UNCHANGED <<mapStatement, scannedTo, disk>>
        /\ StatementsTiled(mapStatement, lastStm)
        /\ StatementsTiled(disk.statements[1], disk.statements[2])
    BY <1>1, <1>4 DEF StatementsInv, statements
  <2>4. /\ AllCounted(chain', tip', mapStatement, scannedTo)
        /\ AllCounted(chain', tip', disk.statements[1], disk.statements[3])
    BY <1>2, <2>2, <2>3
  <2> QED
    BY <1>3, <2>3, <2>4 DEF CountInv
<1>5. ASSUME UNCHANGED <<chain, tip>>,
             AllCounted(chain', tip', mapStatement', scannedTo'),
             disk'.statements = disk.statements \/ disk'.statements = statements
      PROVE  CountInv'
  <2>1. AllCounted(chain', tip', disk'.statements[1], disk'.statements[3])
    BY <1>2, <1>5
  <2> QED
    BY <1>3, <1>5, <2>1 DEF CountInv
<1>6. CASE UNCHANGED <<chain, tip>>
  <2>1. CASE /\ UNCHANGED statements
             /\ disk'.statements = disk.statements \/ disk'.statements = statements
    BY <1>2, <1>5, <1>6, <2>1 DEF statements
  <2>2. CASE NewStatement
    <3> DEFINE t == TierSeq[tier["maintenance"]]
    <3>1. disk' = disk /\ (Fill(t, Empty) \/ UNCHANGED statements)
      BY <2>2, Zenon DEF NewStatement
    <3>2. t \in Tiers
      BY <1>1, TierIs DEF Threads
    <3>3. CASE Fill(t, Empty)
      BY <1>5, <1>6, <3>1, <3>2, <3>3, FillCounted
    <3> QED
      BY <1>2, <1>5, <1>6, <3>1, <3>3 DEF statements
  <2>3. CASE ClearStatement
    <3> DEFINE t == TierSeq[tier["scheduler"]]
    <3>1. /\ mapStatement' = [mapStatement EXCEPT ![t] = Empty]
          /\ UNCHANGED <<scannedTo, disk>>
      BY <2>3 DEF ClearStatement
    <3>2. t \in Tiers /\ DOMAIN mapStatement = Tiers
      BY <1>1, TierIs DEF Threads, StatementsInv, StatementsTiled
    <3>3. Counted(chain, tip, t, Empty, scannedTo[t])
      BY <1>2, <3>2, Zenon DEF AllCounted, Counted, Empty
    <3>4. AllCounted(chain, tip, mapStatement', scannedTo)
      BY <1>2, <3>1, <3>2, <3>3, Zenon DEF AllCounted
    <3> QED
      BY <1>5, <1>6, <3>1, <3>4
  <2>4. CASE FillStatement
    <3> DEFINE t == TierSeq[tier["scheduler"]]
    <3>1. /\ pc["scheduler"] = "fill"
          /\ Fill(t, mapStatement[t])
          /\ UNCHANGED disk
      BY <2>4, Zenon DEF FillStatement
    <3>2. Fill(t, Empty)
      BY <1>1, <3>1 DEF StatementsInv
    <3>3. t \in Tiers
      BY <1>1, TierIs DEF Threads
    <3> QED
      BY <1>5, <1>6, <3>1, <3>2, <3>3, FillCounted
  <2>5. ASSUME NEW clean \in BOOLEAN, Restart(clean) PROVE CountInv'
    <3>1. /\ mapStatement' = disk'.statements[1]
          /\ scannedTo' = disk'.statements[3]
          /\ disk'.statements = disk.statements \/ disk'.statements = statements
      BY <1>1, <2>5, RestartStatements
    <3> QED
      BY <1>2, <1>5, <1>6, <3>1
  <2> QED
    BY <1>1, <2>1, <2>2, <2>3, <2>4, <2>5, StatementSteps
<1> QED
  BY <1>1, <1>4, <1>6, ChainSteps

LEMMA CountInvariant == Spec /\ []NoEarlyBurn => [](Statements /\ CountInv)
<1>1. Init => CountInv
  BY CountInvInit
<1>2. Statements /\ CountInv /\ NoEarlyBurn /\ [Next]_vars => CountInv'
  BY CountInvStep
<1> QED
  BY <1>1, <1>2, StatementsInvariant, PTL DEF Spec

\* A statement that was computed with every earlier burn in the list has the size the chain
\* gives it, for ever, whatever the list, the chain and the files went through since.  The
\* premise holds by itself where the first scan goes back at least to where a later one may
\* begin, as on testnet.
THEOREM StatementsAreOfTheChain == Spec /\ []NoEarlyBurn => []StatementsMatchChain
<1>1. CountInv => StatementsMatchChain
  BY Zenon DEF CountInv, AllCounted, Counted, StatementsMatchChain, Due
<1> QED
  BY <1>1, CountInvariant, PTL

-----------------------------------------------------------------------------
(* Rewards. *)

\* calculInfinityNodeRank numbers the participants from 1, each number once.
LEMMA RanksNumber ==
  ASSUME ListInv, NodesInv, NEW t, NEW s
  PROVE  /\ \A b \in Participants(t, s) : RankAt(b, t, s) \in 1 .. Size(t, s)
         /\ \A b, c \in Participants(t, s) : RankAt(b, t, s) = RankAt(c, t, s) => b = c
         /\ \A i \in 1 .. Size(t, s) : \E b \in Participants(t, s) : RankAt(b, t, s) = i
<1> DEFINE P == Participants(t, s)
           f == [b \in P |-> mapInfinitynodes[b].nHeight]
<1>1. IsFiniteSet(P)
  BY ParticipantsFinite DEF NodesInv
<1>2. f \in [P -> Nat]
  <2>1. \A b \in P : mapInfinitynodes[b].nHeight \in Nat
    BY DepthAssumption, SMT DEF Participants, ListInv, Settled, Sound, Heights
  <2> QED
    BY <2>1
<1>3. \A b, c \in P : f[b] = f[c] => b = c
  BY ParticipantsDistinct
<1>4. ASSUME NEW b \in P PROVE RankAt(b, t, s) = Cardinality(UpToMember(P, f, b))
  <2>1. {c \in P : mapInfinitynodes[c].nHeight <= mapInfinitynodes[b].nHeight} =
        UpToMember(P, f, b)
    BY Zenon DEF UpToMember
  <2> QED
    BY <2>1 DEF RankAt
<1> HIDE DEF f, P
<1>5. Numbered(P, f)
  BY <1>1, <1>2, <1>3, CountUpTo, Zenon
<1> QED
  BY <1>4, <1>5, Zenon DEF P, Size, Numbered

\* The statements of a tier, and the last of them.
LEMMA StatementsAre ==
  ASSUME StatementsInv, NEW t \in Tiers
  PROVE  /\ \A s \in DOMAIN mapStatement[t] :
              s \in Heights /\ s \in Nat /\ mapStatement[t][s] \in Nat
         /\ \A s, r \in DOMAIN mapStatement[t] : s < r => s + mapStatement[t][s] <= r
         /\ lastStm[t][1] \in DOMAIN mapStatement[t] =>
              lastStm[t][2] = mapStatement[t][lastStm[t][1]]
BY SMT DEF StatementsInv, StatementsTiled, Tiles, Empty, Heights

\* A height in a statement belongs to no other.
LEMMA StatementForIs ==
  ASSUME StatementsInv, NEW t \in Tiers, NEW s \in DOMAIN mapStatement[t],
         NEW i \in 1 .. mapStatement[t][s]
  PROVE  StatementFor(t, s + i) = {s}
<1> DEFINE f == mapStatement[t]
<1>1. /\ DOMAIN f \subseteq Heights
      /\ \A r \in DOMAIN f : f[r] \in Nat
      /\ \A r, q \in DOMAIN f : r < q => r + f[r] <= q
  BY StatementsAre, Zenon
<1> HIDE DEF f
<1>2. s \in DOMAIN f /\ i \in 1 .. f[s] /\ s \in Nat /\ i \in Nat
  BY <1>1, SMT DEF f, Heights
<1>3. s < s + i /\ (s + i) - s <= f[s]
  BY <1>1, <1>2, SMT
<1>4. ASSUME NEW r \in DOMAIN f, r < s + i, (s + i) - r <= f[r] PROVE r <= s
  BY <1>1, <1>2, <1>4, SMT DEF Heights
<1>5. ASSUME NEW r \in DOMAIN f, s <= r, r < s + i, (s + i) - r <= f[r] PROVE r = s
  BY <1>1, <1>2, <1>4, <1>5, SMT DEF Heights
<1> QED
  BY <1>2, <1>3, <1>4, <1>5 DEF StatementFor, f

\* The node that the statement at s rewards at its i-th height is the one with rank i.
LEMMA RewardAtIs ==
  ASSUME StatementsInv, NEW t \in Tiers, NEW s \in DOMAIN mapStatement[t],
         NEW i \in 1 .. mapStatement[t][s]
  PROVE  RewardAt(t, s + i) = {b \in Participants(t, s) : RankAt(b, t, s) = i}
<1>1. StatementFor(t, s + i) = {s}
  BY StatementForIs
<1>2. RewardAt(t, s + i) = {b \in Participants(t, s) : RankAt(b, t, s) = (s + i) - s}
  BY <1>1 DEF RewardAt
<1>3. s \in Nat /\ mapStatement[t][s] \in Nat
  BY StatementsAre, Zenon
<1>4. (s + i) - s = i
  BY <1>3, SMT
<1> QED
  BY <1>2, <1>4

\* Every height of a statement up to nLastScanHeight has one node to reward, and no node has
\* two of them: a statement never grows beyond the nodes that turn out to take part in it,
\* also when the list was not complete when it was computed and nodes matured since.
THEOREM RewardsStayFair == Spec /\ []NoEarlyBurn => []RewardsAreFair
<1>1. Statements /\ CountInv /\ NoEarlyBurn => RewardsAreFair
  <2> SUFFICES ASSUME Statements, CountInv, NoEarlyBurn, NEW t \in Tiers,
                      NEW s \in DOMAIN mapStatement[t], s <= nLastScanHeight
               PROVE  LET heights == s + 1 .. s + mapStatement[t][s]
                      IN /\ \A h \in heights : Cardinality(RewardAt(t, h)) = 1
                         /\ \A g, h \in heights :
                              g # h => RewardAt(t, g) \cap RewardAt(t, h) = {}
    BY Zenon DEF RewardsAreFair
  <2> DEFINE k == mapStatement[t][s]
  <2>1. ListInv /\ NodesInv /\ StatementsInv /\ Distinct(chain)
        /\ Counted(chain, tip, t, mapStatement[t], scannedTo[t])
    BY Zenon DEF Statements, CountInv, AllCounted
  <2>2. s \in Heights /\ k \in Nat
    BY <2>1, StatementsAre, Zenon
  <2>3. k <= Size(t, s) /\ Size(t, s) \in Nat
    <3> DEFINE A == Living(chain, tip, t, s)
               B == Due(chain, t, s)
    <3>1. k <= Cardinality(A)
      BY <2>1 DEF Counted
    <3>2. A \in SUBSET B
      BY DEF Living
    <3>3. IsFiniteSet(B) /\ Cardinality(B) \in Nat /\ Cardinality(A) \in Nat
      BY <2>2, <3>2, DueFinite
    <3>4. Size(t, s) = Cardinality(B)
      BY <2>1, <2>2, ParticipantsAll
    <3> HIDE DEF A, B, k
    <3>5. Cardinality(A) <= Cardinality(B)
      BY <3>2, <3>3, FS_Subset
    <3> QED
      BY <2>2, <3>1, <3>3, <3>4, <3>5, SMT
  <2>4. ASSUME NEW h \in s + 1 .. s + k
        PROVE  /\ h - s \in 1 .. k
               /\ h - s \in 1 .. Size(t, s)
               /\ h = s + (h - s)
    <3> HIDE DEF k
    <3> QED
      BY <2>2, <2>3, SMT DEF Heights
  <2>5. ASSUME NEW h \in s + 1 .. s + k
        PROVE  RewardAt(t, h) = {b \in Participants(t, s) : RankAt(b, t, s) = h - s}
    <3>1. RewardAt(t, s + (h - s)) =
            {b \in Participants(t, s) : RankAt(b, t, s) = h - s}
      BY <2>1, <2>4, RewardAtIs, Zenon
    <3> QED
      BY <2>4, <3>1
  <2>6. ASSUME NEW h \in s + 1 .. s + k PROVE Cardinality(RewardAt(t, h)) = 1
    <3>1. PICK b \in Participants(t, s) : RankAt(b, t, s) = h - s
      BY <2>1, <2>4, RanksNumber
    <3>2. \A c \in Participants(t, s) : RankAt(c, t, s) = h - s => c = b
      BY <2>1, <3>1, RanksNumber, Zenon
    <3>3. RewardAt(t, h) = {b}
      BY <2>5, <3>1, <3>2
    <3>4. Cardinality({b}) = 1
      BY FS_Singleton, Zenon
    <3> QED
      BY <3>3, <3>4
  <2>7. ASSUME NEW g \in s + 1 .. s + k, NEW h \in s + 1 .. s + k, g # h
        PROVE  RewardAt(t, g) \cap RewardAt(t, h) = {}
    <3>1. g - s # h - s
      <4> HIDE DEF k
      <4> QED
        BY <2>2, <2>7, SMT DEF Heights
    <3> QED
      BY <2>5, <3>1
  <2> QED
    BY <2>6, <2>7
<1> QED
  BY <1>1, CountInvariant, PTL

-----------------------------------------------------------------------------
(* Ranks. *)

\* The participants of a list, and the rank of b among them.
Part(nodes, t, s) ==
  {b \in DOMAIN nodes : /\ Tier[b] = t
                        /\ nodes[b].nHeight < s
                        /\ s <= nodes[b].nHeight + LIFE}
RankOf(nodes, b, t, s) ==
  Cardinality({c \in Part(nodes, t, s) : nodes[c].nHeight <= nodes[b].nHeight})

\* Node b has its rank in the last statement, when that is in the map f and was computed, when
\* nLastScanHeight was to, with every earlier burn in the list.
InTurn(nodes, t, f, last, to, b) ==
  last <= to /\ last \in DOMAIN f =>
    b \in Part(nodes, t, last) /\ nodes[b].nRank = RankOf(nodes, b, t, last)

\* The ranks of a tier go with its last statement, and the list still has what the statement
\* was computed from, also while the ranks are to be computed.
RankInv ==
  /\ \A b \in DOMAIN mapInfinitynodes :
       LET t == Tier[b]
       IN mapInfinitynodes[b].nRank # 0 /\ ~Stale(t) =>
            /\ Has(chain, mapInfinitynodes, FIRST, scannedTo[t])
            /\ InTurn(mapInfinitynodes, t, mapStatement[t], lastStm[t][1], scannedTo[t], b)
  /\ \A t \in Tiers : Stale(t) => Has(chain, mapInfinitynodes, FIRST, scannedTo[t])

\* They are what the model's operators compute from the list in memory.
LEMMA PartIs ==
  ASSUME NEW b, NEW t, NEW s
  PROVE  /\ Participants(t, s) = Part(mapInfinitynodes, t, s)
         /\ RankAt(b, t, s) = RankOf(mapInfinitynodes, b, t, s)
BY DEF Participants, TakesPart, Part, RankAt, RankOf

\* Ranks are equal in lists with the same participants at the same heights.
LEMMA SameRank ==
  ASSUME NEW f, NEW g, NEW t, NEW s, Part(f, t, s) = Part(g, t, s),
         \A b \in Part(f, t, s) : f[b].nHeight = g[b].nHeight,
         NEW b \in Part(f, t, s)
  PROVE  RankOf(f, b, t, s) = RankOf(g, b, t, s)
<1>1. {c \in Part(f, t, s) : f[c].nHeight <= f[b].nHeight} =
      {c \in Part(g, t, s) : g[c].nHeight <= g[b].nHeight}
  OBVIOUS
<1> QED
  BY <1>1, Zenon DEF RankOf

\* A tier becomes stale, or stops being so, only in the computation of the statements.
LEMMA StaleElsewhere ==
  ASSUME Elsewhere, NEW t
  PROVE  Stale(t)' <=> Stale(t)
BY SMT DEF Elsewhere, Stale, Updating

\* A list without ranks while no tier is stale.
LEMMA NoRanks ==
  ASSUME \A b \in DOMAIN mapInfinitynodes' : mapInfinitynodes'[b].nRank = 0,
         \A t \in Tiers : ~Stale(t)'
  PROVE  RankInv'
BY DEF RankInv

\* Ranks stay right while the list keeps the participants of the statements.
LEMMA RanksStay ==
  ASSUME NodesInv', StatementsInv, RankInv, UNCHANGED statements,
         \A t \in Tiers : Stale(t)' <=> Stale(t),
         \A b \in DOMAIN mapInfinitynodes' : mapInfinitynodes'[b].nRank # 0 =>
           b \in DOMAIN mapInfinitynodes /\ mapInfinitynodes'[b].nRank = mapInfinitynodes[b].nRank,
         \A b \in DOMAIN mapInfinitynodes :
           b \in DOMAIN mapInfinitynodes' =>
             mapInfinitynodes'[b].nHeight = mapInfinitynodes[b].nHeight,
         \A t \in Tiers : Has(chain, mapInfinitynodes, FIRST, scannedTo[t]) =>
           /\ Has(chain', mapInfinitynodes', FIRST, scannedTo[t])
           /\ \A s \in Heights : s <= scannedTo[t] =>
                Part(mapInfinitynodes', t, s) = Part(mapInfinitynodes, t, s)
  PROVE  RankInv'
<1>1. UNCHANGED <<mapStatement, lastStm, scannedTo>>
  BY DEF statements
<1>2. ASSUME NEW b \in DOMAIN mapInfinitynodes', mapInfinitynodes'[b].nRank # 0,
             ~Stale(Tier[b])'
      PROVE  /\ Has(chain', mapInfinitynodes', FIRST, scannedTo[Tier[b]])
             /\ InTurn(mapInfinitynodes', Tier[b], mapStatement[Tier[b]], lastStm[Tier[b]][1],
                       scannedTo[Tier[b]], b)
  <2> DEFINE t == Tier[b]
             L == lastStm[t][1]
             old == mapInfinitynodes
             new == mapInfinitynodes'
  <2>1. t \in Tiers
    BY TierAssumption, Zenon DEF NodesInv, NodesTyped
  <2>2. b \in DOMAIN old /\ new[b].nRank = old[b].nRank
    BY <1>2
  <2>3. Has(chain, old, FIRST, scannedTo[t]) /\ InTurn(old, t, mapStatement[t], L, scannedTo[t], b)
    BY <1>2, <2>1, <2>2, Zenon DEF RankInv
  <2>4. Has(chain', new, FIRST, scannedTo[t])
    BY <2>1, <2>3, Zenon
  <2>5. ASSUME L <= scannedTo[t], L \in DOMAIN mapStatement[t]
        PROVE  b \in Part(new, t, L) /\ new[b].nRank = RankOf(new, b, t, L)
    <3>1. L \in Heights
      BY <2>1, <2>5, StatementsAre, Zenon
    <3>2. Part(new, t, L) = Part(old, t, L)
      BY <2>1, <2>3, <2>5, <3>1, Zenon
    <3>3. b \in Part(old, t, L) /\ old[b].nRank = RankOf(old, b, t, L)
      BY <2>3, <2>5, Zenon DEF InTurn
    <3>4. \A c \in Part(new, t, L) : new[c].nHeight = old[c].nHeight
      BY <3>2 DEF Part
    <3> HIDE DEF new, old, t, L
    <3>5. RankOf(new, b, t, L) = RankOf(old, b, t, L)
      BY <3>2, <3>3, <3>4, SameRank
    <3> QED
      BY <2>2, <3>2, <3>3, <3>5, Zenon
  <2> QED
    BY <2>4, <2>5, Zenon DEF InTurn
<1>3. ASSUME NEW t \in Tiers, Stale(t)' PROVE Has(chain', mapInfinitynodes', FIRST, scannedTo[t])
  BY <1>3, Zenon DEF RankInv
<1> QED
  BY <1>1, <1>2, <1>3, Zenon DEF RankInv

\* The same heights make the same participants.
LEMMA SameHeightsPart ==
  ASSUME NEW f, NEW g, SameHeights(f, g), NEW t, NEW s
  PROVE  Part(f, t, s) = Part(g, t, s)
BY DEF SameHeights, Part

\* Steps that keep the heights of the list, and give no new rank.
LEMMA SameHeightsRanks ==
  ASSUME NodesInv', StatementsInv, RankInv, UNCHANGED <<chain, statements>>, Elsewhere,
         SameHeights(mapInfinitynodes', mapInfinitynodes),
         \A b \in DOMAIN mapInfinitynodes :
           \/ mapInfinitynodes'[b].nRank = 0
           \/ mapInfinitynodes'[b].nRank = mapInfinitynodes[b].nRank
  PROVE  RankInv'
<1>1. \A t \in Tiers : Stale(t)' <=> Stale(t)
  BY StaleElsewhere
<1>2. \A t, s : Part(mapInfinitynodes', t, s) = Part(mapInfinitynodes, t, s)
  BY SameHeightsPart
<1>3. ASSUME NEW to, Has(chain, mapInfinitynodes, FIRST, to)
      PROVE  Has(chain', mapInfinitynodes', FIRST, to)
  BY <1>3 DEF Has, SameHeights
<1>4. \A b \in DOMAIN mapInfinitynodes' : mapInfinitynodes'[b].nRank # 0 =>
        b \in DOMAIN mapInfinitynodes /\ mapInfinitynodes'[b].nRank = mapInfinitynodes[b].nRank
  BY DEF SameHeights
<1>5. \A b \in DOMAIN mapInfinitynodes :
        b \in DOMAIN mapInfinitynodes' =>
          mapInfinitynodes'[b].nHeight = mapInfinitynodes[b].nHeight
  BY DEF SameHeights
<1> QED
  BY <1>1, <1>2, <1>3, <1>4, <1>5, RanksStay, Zenon

\* The list is as it was.
LEMMA SameListRanks ==
  ASSUME ListInv, NodesInv', StatementsInv, RankInv, UNCHANGED <<chain, statements>>,
         Elsewhere, UNCHANGED mapInfinitynodes
  PROVE  RankInv'
<1>1. SameHeights(mapInfinitynodes', mapInfinitynodes)
  BY Zenon DEF SameHeights, ListInv, Settled, Sound
<1> QED
  BY <1>1, SameHeightsRanks

\* Blocks come: what a statement rests on is settled.
LEMMA GrowsRanks ==
  ASSUME ListInv, NodesInv', StatementsInv, CountInv, RankInv,
         Grows(chain, tip, chain', tip'),
         UNCHANGED <<list, statements, nCachedBlockHeight, scan, threads, disk>>
  PROVE  RankInv'
<1>1. UNCHANGED mapInfinitynodes /\ Elsewhere
  BY DEF list, threads, Elsewhere
<1>2. ASSUME NEW t \in Tiers, Has(chain, mapInfinitynodes, FIRST, scannedTo[t])
      PROVE  Has(chain', mapInfinitynodes', FIRST, scannedTo[t])
  <2>1. /\ scannedTo[t] \in Nat
        /\ scannedTo[t] # 0 => scannedTo[t] <= tip - MATURED_LIMIT
        /\ tip \in 0 .. MaxHeight
    BY Zenon DEF CountInv, AllCounted, Counted, ListInv
  <2>2. \A h \in Heights : h < scannedTo[t] => h <= tip - MATURED_LIMIT
    BY <2>1, DepthAssumption, SMT DEF Heights
  <2>3. \A h \in Heights : h < scannedTo[t] => chain'[h] = chain[h]
    BY <2>2 DEF Grows
  <2> QED
    BY <1>1, <1>2, <2>3 DEF Has
<1>3. \A t \in Tiers : Stale(t)' <=> Stale(t)
  BY <1>1, StaleElsewhere
<1> QED
  BY <1>1, <1>2, <1>3, RanksStay

\* A burn that a scan adds to the list takes part in no statement that was computed with every
\* earlier burn.
LEMMA AddRanks ==
  ASSUME ListInv, NodesInv, NodesInv', StatementsInv, CountInv, RankInv, NoEarlyBurn,
         UNCHANGED <<chain, statements>>, Elsewhere,
         NEW h \in Heights, Reached(h), chain[h] \in Burns,
         mapInfinitynodes' = Add(mapInfinitynodes, chain[h], h)
  PROVE  RankInv'
<1> DEFINE b == chain[h]
           old == mapInfinitynodes
           new == mapInfinitynodes'
           node == [nHeight |-> h, metadata |-> None, nRank |-> 0]
<1>1. CASE b \in DOMAIN old
  <2>1. UNCHANGED mapInfinitynodes
    BY <1>1 DEF Add
  <2> QED
    BY <2>1, SameListRanks
<1>2. CASE b \notin DOMAIN old
  <2>1. DOMAIN new = DOMAIN old \cup {b}
    BY <1>2, SMT DEF Add, Put, Over
  <2>2. \A c \in DOMAIN old : new[c] = old[c]
    BY <1>2, SMT DEF Add, Put, Over
  <2>3. new[b] = node
    BY <1>2, SMT DEF Add, Put, Over
  <2>4. new[b].nHeight = h /\ new[b].nRank = 0
    BY <2>3, SMT
  <2>5. FIRST <= h
    BY DepthAssumption, SMT DEF Reached, NoEarlyBurn, Heights
  <2>6. ASSUME NEW t \in Tiers, Has(chain, old, FIRST, scannedTo[t]),
               NEW s \in Heights, s <= scannedTo[t]
        PROVE  Part(new, t, s) = Part(old, t, s)
    <3>1. ~(h < scannedTo[t])
      BY <1>2, <2>5, <2>6 DEF Has
    <3>2. scannedTo[t] \in Nat
      BY Zenon DEF CountInv, AllCounted, Counted
    <3>3. ~(h < s)
      BY <2>6, <3>1, <3>2, SMT DEF Heights
    <3> QED
      BY <2>1, <2>2, <2>4, <3>3, SMT DEF Part
  <2>7. ASSUME NEW t \in Tiers, Has(chain, old, FIRST, scannedTo[t])
        PROVE  Has(chain', new, FIRST, scannedTo[t])
    BY <2>1, <2>7 DEF Has
  <2>8. \A t \in Tiers : Stale(t)' <=> Stale(t)
    BY StaleElsewhere
  <2>9. \A c \in DOMAIN new : new[c].nRank # 0 =>
          c \in DOMAIN old /\ new[c].nRank = old[c].nRank
    BY <2>1, <2>2, <2>4
  <2>10. \A c \in DOMAIN old : c \in DOMAIN new => new[c].nHeight = old[c].nHeight
    BY <2>2
  <2> QED
    BY <2>6, <2>7, <2>8, <2>9, <2>10, RanksStay, Zenon
<1> QED
  BY <1>1, <1>2

\* calculInfinityNodeRank
LEMMA RankedIs ==
  ASSUME NodesInv, NEW t, NEW s, NEW b \in DOMAIN mapInfinitynodes
  PROVE  LET new == Ranked(mapInfinitynodes, t, s)[b]
         IN /\ Tier[b] # t => new = mapInfinitynodes[b]
            /\ Tier[b] = t => new.nRank = IF b \in Part(mapInfinitynodes, t, s)
                                          THEN RankOf(mapInfinitynodes, b, t, s) ELSE 0
<1> DEFINE R == IF b \in Part(mapInfinitynodes, t, s) THEN RankOf(mapInfinitynodes, b, t, s) ELSE 0
           new == Ranked(mapInfinitynodes, t, s)[b]
<1>1. /\ Tier[b] # t => new = mapInfinitynodes[b]
      /\ Tier[b] = t => new = [mapInfinitynodes[b] EXCEPT !.nRank = R]
  BY PartIs, Zenon DEF Ranked
<1>2. "nRank" \in DOMAIN mapInfinitynodes[b]
  BY SMT DEF NodesInv, NodesTyped, Nodes
<1> HIDE DEF R, new
<1>3. Tier[b] = t => new.nRank = R
  BY <1>1, <1>2
<1> QED
  BY <1>1, <1>3 DEF R, new

\* A node that has just been ranked has its rank in the last statement.
LEMMA RankedInTurn ==
  ASSUME NEW old, NEW new, SameHeights(new, old), NEW t, NEW f, NEW last, NEW to,
         NEW b \in DOMAIN old, new[b].nRank # 0,
         new[b].nRank = IF b \in Part(old, t, last) THEN RankOf(old, b, t, last) ELSE 0
  PROVE  InTurn(new, t, f, last, to, b)
<1>1. b \in Part(old, t, last) /\ new[b].nRank = RankOf(old, b, t, last)
  BY Zenon
<1>2. Part(new, t, last) = Part(old, t, last)
  BY SameHeightsPart
<1>3. \A c \in Part(new, t, last) : new[c].nHeight = old[c].nHeight
  BY DEF Part, SameHeights
<1>4. RankOf(new, b, t, last) = RankOf(old, b, t, last)
  BY <1>1, <1>2, <1>3, SameRank
<1> QED
  BY <1>1, <1>2, <1>4 DEF InTurn

\* CheckAndRemove computes the statements of a tier and ranks its nodes.
LEMMA NewStatementRanks ==
  ASSUME ListInv, ControlInv, NodesInv, NodesInv', StatementsInv, CountInv, RankInv, Elsewhere,
         NewStatement
  PROVE  RankInv'
<1> DEFINE t == TierSeq[tier["maintenance"]]
           L == lastStm'[t][1]
           old == mapInfinitynodes
           new == mapInfinitynodes'
<1>1. /\ pc["maintenance"] = "statement"
      /\ \/ Fill(t, Empty) /\ mapInfinitynodes' = Ranked(mapInfinitynodes, t, L)
         \/ UNCHANGED <<statements, mapInfinitynodes>>
      /\ UNCHANGED chain
  BY Zenon DEF NewStatement
<1>2. CASE UNCHANGED <<statements, mapInfinitynodes>>
  BY <1>1, <1>2, SameListRanks
<1>3. CASE Fill(t, Empty) /\ mapInfinitynodes' = Ranked(mapInfinitynodes, t, L)
  <2>1. t \in Tiers
    BY TierIs DEF ControlInv, Threads
  <2>2. \A u : ~Stale(u)'
    <3>1. pc["scheduler"] \notin Updating
      BY <1>1, SMT DEF ControlInv, LockInv
    <3>2. \A u : ~Stale(u)
      BY <3>1 DEF Stale, Updating
    <3> QED
      BY <3>2, StaleElsewhere
  <2>3. /\ scannedTo' = [scannedTo EXCEPT ![t] = nLastScanHeight]
        /\ mapStatement' = [mapStatement EXCEPT ![t] = RewardStatements(t)]
        /\ lastStm' = lastStm \/ \E x : lastStm' = [lastStm EXCEPT ![t] = x]
    BY <1>3, <2>1, FillTiles, Zenon DEF Fill, StatementsInv
  <2>4. DOMAIN scannedTo = Tiers /\ DOMAIN mapStatement = Tiers /\ DOMAIN lastStm = Tiers
    BY Zenon DEF CountInv, AllCounted, StatementsInv, StatementsTiled
  <2>5. scannedTo'[t] = nLastScanHeight
    BY <2>1, <2>3, <2>4
  <2>6. \A u \in Tiers : u # t => /\ scannedTo'[u] = scannedTo[u]
                                  /\ mapStatement'[u] = mapStatement[u]
                                  /\ lastStm'[u] = lastStm[u]
    BY <2>1, <2>3, <2>4
  <2>7. SameHeights(new, old)
    BY <1>3, RankHeights, Zenon DEF ListInv, Settled
  <2>8. ASSUME NEW to, Has(chain, old, FIRST, to) PROVE Has(chain', new, FIRST, to)
    BY <1>1, <2>7, <2>8 DEF Has, SameHeights
  <2>9. ASSUME NEW b \in DOMAIN new, new[b].nRank # 0
        PROVE  /\ Has(chain', new, FIRST, scannedTo'[Tier[b]])
               /\ InTurn(new, Tier[b], mapStatement'[Tier[b]], lastStm'[Tier[b]][1],
                         scannedTo'[Tier[b]], b)
    <3>1. b \in DOMAIN old /\ Tier[b] \in Tiers
      BY <2>7, TierAssumption DEF SameHeights, NodesInv, NodesTyped
    <3>2. CASE Tier[b] = t
      <4>1. Has(chain', new, FIRST, nLastScanHeight)
        BY <2>8 DEF ListInv, Settled
      <4>2. new[b].nRank = IF b \in Part(old, t, L) THEN RankOf(old, b, t, L) ELSE 0
        <5> HIDE DEF t, L
        <5>1. Ranked(mapInfinitynodes, t, L)[b].nRank =
                IF b \in Part(mapInfinitynodes, t, L) THEN RankOf(mapInfinitynodes, b, t, L)
                ELSE 0
          BY <3>1, <3>2, RankedIs
        <5> QED
          BY <1>3, <5>1, Zenon
      <4> HIDE DEF t, L, old, new
      <4>3. InTurn(new, t, mapStatement'[t], L, scannedTo'[t], b)
        BY <2>7, <2>9, <3>1, <4>2, RankedInTurn, Zenon
      <4> QED
        BY <2>5, <3>2, <4>1, <4>3, Zenon DEF L
    <3>3. CASE Tier[b] # t
      <4>1. new[b] = old[b]
        BY <1>3, <3>1, <3>3, RankedIs
      <4>2. ~Stale(Tier[b])
        BY <2>2, StaleElsewhere
      <4>3. /\ Has(chain, old, FIRST, scannedTo[Tier[b]])
            /\ InTurn(old, Tier[b], mapStatement[Tier[b]], lastStm[Tier[b]][1],
                      scannedTo[Tier[b]], b)
        BY <2>9, <3>1, <4>1, <4>2, Zenon DEF RankInv
      <4>4. \A s : Part(new, Tier[b], s) = Part(old, Tier[b], s)
        BY <2>7, SameHeightsPart
      <4>5. \A s : b \in Part(old, Tier[b], s) =>
              RankOf(new, b, Tier[b], s) = RankOf(old, b, Tier[b], s)
        <5>1. \A c \in DOMAIN new : new[c].nHeight = old[c].nHeight
          BY <2>7 DEF SameHeights
        <5>2. \A s : \A c \in Part(new, Tier[b], s) : new[c].nHeight = old[c].nHeight
          BY <5>1 DEF Part
        <5> HIDE DEF new, old
        <5> QED
          BY <4>4, <5>2, SameRank
      <4>6. InTurn(new, Tier[b], mapStatement[Tier[b]], lastStm[Tier[b]][1],
                   scannedTo[Tier[b]], b)
        BY <4>1, <4>3, <4>4, <4>5, Zenon DEF InTurn
      <4> QED
        BY <2>6, <2>8, <3>1, <3>3, <4>3, <4>6, Zenon
    <3> QED
      BY <3>2, <3>3, Zenon
  <2> QED
    BY <2>2, <2>9, Zenon DEF RankInv
<1> QED
  BY <1>1, <1>2, <1>3

\* A map of statements is emptied.
LEMMA ClearRanks ==
  ASSUME ControlInv, NodesInv, StatementsInv, RankInv, ClearStatement
  PROVE  RankInv'
<1> DEFINE t == TierSeq[tier["scheduler"]]
<1>1. /\ mapStatement' = [mapStatement EXCEPT ![t] = Empty]
      /\ pc["scheduler"] = "clear"
      /\ pc' = [pc EXCEPT !["scheduler"] = "fill"]
      /\ UNCHANGED <<chain, mapInfinitynodes, lastStm, scannedTo, tier>>
  BY DEF ClearStatement, Goto, list
<1>2. \A u : Stale(u)' <=> Stale(u)
  <2>1. pc'["scheduler"] = "fill"
    BY <1>1 DEF ControlInv, LockInv, Threads
  <2> QED
    BY <1>1, <2>1, SMT DEF Stale
<1>3. t \in Tiers /\ DOMAIN mapStatement = Tiers
  BY TierIs DEF ControlInv, Threads, StatementsInv, StatementsTiled
<1>4. \A u \in Tiers : mapStatement'[u] = Empty \/ mapStatement'[u] = mapStatement[u]
  BY <1>1, <1>3
<1>5. ASSUME NEW b \in DOMAIN mapInfinitynodes, mapInfinitynodes[b].nRank # 0, ~Stale(Tier[b])
      PROVE  /\ Has(chain, mapInfinitynodes, FIRST, scannedTo[Tier[b]])
             /\ InTurn(mapInfinitynodes, Tier[b], mapStatement'[Tier[b]], lastStm[Tier[b]][1],
                       scannedTo[Tier[b]], b)
  <2>1. Tier[b] \in Tiers
    BY TierAssumption DEF NodesInv, NodesTyped
  <2>2. /\ Has(chain, mapInfinitynodes, FIRST, scannedTo[Tier[b]])
        /\ InTurn(mapInfinitynodes, Tier[b], mapStatement[Tier[b]], lastStm[Tier[b]][1],
                  scannedTo[Tier[b]], b)
    BY <1>5, Zenon DEF RankInv
  <2>3. InTurn(mapInfinitynodes, Tier[b], Empty, lastStm[Tier[b]][1], scannedTo[Tier[b]], b)
    BY Zenon DEF InTurn, Empty
  <2>4. CASE mapStatement'[Tier[b]] = Empty
    BY <2>2, <2>3, <2>4
  <2>5. CASE mapStatement'[Tier[b]] = mapStatement[Tier[b]]
    BY <2>2, <2>5, Zenon
  <2> QED
    BY <1>4, <2>1, <2>4, <2>5, Zenon
<1>6. \A u \in Tiers : Stale(u) => Has(chain, mapInfinitynodes, FIRST, scannedTo[u])
  BY DEF RankInv
<1> QED
  BY <1>1, <1>2, <1>5, <1>6, Zenon DEF RankInv

\* And filled: the tier becomes stale.
LEMMA FillRanks ==
  ASSUME ListInv, ControlInv, NodesInv, StatementsInv, CountInv, RankInv, FillStatement
  PROVE  RankInv'
<1> DEFINE i == tier["scheduler"]
           t == TierSeq[i]
<1>1. /\ pc["scheduler"] = "fill"
      /\ Fill(t, mapStatement[t])
      /\ \/ /\ i < Len(TierSeq)
            /\ pc' = [pc EXCEPT !["scheduler"] = "clear"]
            /\ tier' = [tier EXCEPT !["scheduler"] = i + 1]
         \/ /\ ~(i < Len(TierSeq))
            /\ pc' = [pc EXCEPT !["scheduler"] = "rank"]
            /\ tier' = tier
      /\ UNCHANGED <<chain, mapInfinitynodes>>
  BY Zenon DEF FillStatement, Goto, list
<1>2. /\ i \in 1 .. Len(TierSeq)
      /\ Len(TierSeq) \in Nat
      /\ t \in Tiers
      /\ "scheduler" \in DOMAIN pc
      /\ "scheduler" \in DOMAIN tier
  BY TierIs, TierAssumption DEF ControlInv, LockInv, Threads
<1>3. \/ pc'["scheduler"] = "clear" /\ tier'["scheduler"] = i + 1
      \/ pc'["scheduler"] = "rank" /\ i = Len(TierSeq)
  BY <1>1, <1>2, SMT
<1>4. \A u \in Tiers : Stale(u)' <=> u = t \/ Stale(u)
  <2> SUFFICES ASSUME NEW u \in Tiers PROVE Stale(u)' <=> u = t \/ Stale(u)
    OBVIOUS
  <2>1. Stale(u) <=> \E j \in 1 .. i - 1 : TierSeq[j] = u
    BY <1>1 DEF Stale
  <2>2. (\E j \in 1 .. i : TierSeq[j] = u) <=> u = t \/ \E j \in 1 .. i - 1 : TierSeq[j] = u
    BY <1>2, SMT
  <2>3. CASE pc'["scheduler"] = "clear" /\ tier'["scheduler"] = i + 1
    <3>1. (i + 1) - 1 = i
      BY <1>2, SMT
    <3>2. Stale(u)' <=> \E j \in 1 .. i : TierSeq[j] = u
      BY <2>3, <3>1 DEF Stale
    <3> QED
      BY <2>1, <2>2, <3>2
  <2>4. CASE pc'["scheduler"] = "rank" /\ i = Len(TierSeq)
    <3>1. Stale(u)'
      BY <2>4 DEF Stale
    <3>2. \E j \in 1 .. i : TierSeq[j] = u
      BY <2>4 DEF Tiers
    <3> QED
      BY <2>1, <2>2, <3>1, <3>2
  <2> QED
    BY <1>3, <2>3, <2>4
<1>5. /\ scannedTo' = [scannedTo EXCEPT ![t] = nLastScanHeight]
      /\ \E x : mapStatement' = [mapStatement EXCEPT ![t] = x]
      /\ lastStm' = lastStm \/ \E x : lastStm' = [lastStm EXCEPT ![t] = x]
  BY <1>1, Zenon DEF Fill
<1>6. DOMAIN scannedTo = Tiers /\ DOMAIN mapStatement = Tiers /\ DOMAIN lastStm = Tiers
  BY Zenon DEF CountInv, AllCounted, StatementsInv, StatementsTiled
<1>7. scannedTo'[t] = nLastScanHeight
  BY <1>2, <1>5, <1>6
<1>8. \A u \in Tiers : u # t => /\ scannedTo'[u] = scannedTo[u]
                                /\ mapStatement'[u] = mapStatement[u]
                                /\ lastStm'[u] = lastStm[u]
  BY <1>2, <1>5, <1>6
<1> HIDE DEF t, i
<1>9. ASSUME NEW b \in DOMAIN mapInfinitynodes, mapInfinitynodes[b].nRank # 0, ~Stale(Tier[b])'
      PROVE  /\ Has(chain, mapInfinitynodes, FIRST, scannedTo'[Tier[b]])
             /\ InTurn(mapInfinitynodes, Tier[b], mapStatement'[Tier[b]], lastStm'[Tier[b]][1],
                       scannedTo'[Tier[b]], b)
  <2>1. Tier[b] \in Tiers
    BY TierAssumption DEF NodesInv, NodesTyped
  <2>2. Tier[b] # t /\ ~Stale(Tier[b])
    BY <1>4, <1>9, <2>1
  <2>3. /\ Has(chain, mapInfinitynodes, FIRST, scannedTo[Tier[b]])
        /\ InTurn(mapInfinitynodes, Tier[b], mapStatement[Tier[b]], lastStm[Tier[b]][1],
                  scannedTo[Tier[b]], b)
    BY <1>9, <2>2, Zenon DEF RankInv
  <2> QED
    BY <1>8, <2>1, <2>2, <2>3, Zenon
<1>10. ASSUME NEW u \in Tiers, Stale(u)' PROVE Has(chain, mapInfinitynodes, FIRST, scannedTo'[u])
  <2>1. CASE u = t
    BY <1>7, <2>1 DEF ListInv, Settled
  <2>2. CASE u # t
    BY <1>4, <1>8, <1>10, <2>2, Zenon DEF RankInv
  <2> QED
    BY <2>1, <2>2
<1> QED
  BY <1>1, <1>9, <1>10, Zenon DEF RankInv

\* calculAllInfinityNodesRankAtLastStm ranks the nodes of every tier.
LEMMA RankAllRanks ==
  ASSUME ListInv, ControlInv, NodesInv, StatementsInv, RankInv, RankAll
  PROVE  RankInv'
<1> DEFINE old == mapInfinitynodes
           new == mapInfinitynodes'
<1>1. /\ pc["scheduler"] = "rank"
      /\ new = [b \in DOMAIN old |-> Ranked(old, Tier[b], lastStm[Tier[b]][1])[b]]
      /\ pc' = [pc EXCEPT !["scheduler"] = "idle"]
      /\ UNCHANGED <<chain, statements>>
  BY Zenon DEF RankAll, Goto
<1>2. \A u : ~Stale(u)'
  <2>1. pc'["scheduler"] = "idle"
    BY <1>1 DEF ControlInv, LockInv, Threads
  <2> QED
    BY <2>1 DEF Stale
<1>3. \A u \in Tiers : Has(chain, old, FIRST, scannedTo[u])
  BY <1>1, Zenon DEF RankInv, Stale
<1>4. SameHeights(new, old)
  <2>1. ASSUME NEW b \in DOMAIN old
        PROVE  "nHeight" \in DOMAIN new[b] /\ new[b].nHeight = old[b].nHeight
    <3>1. SameHeights(Ranked(old, Tier[b], lastStm[Tier[b]][1]), old)
      BY RankHeights, Zenon DEF ListInv, Settled
    <3>2. new[b] = Ranked(old, Tier[b], lastStm[Tier[b]][1])[b]
      BY <1>1
    <3> QED
      BY <3>1, <3>2, Zenon DEF SameHeights
  <2>2. DOMAIN new = DOMAIN old
    BY <1>1
  <2> QED
    BY <2>1, <2>2 DEF SameHeights
<1>5. UNCHANGED <<mapStatement, lastStm, scannedTo>>
  BY <1>1 DEF statements
<1>6. ASSUME NEW b \in DOMAIN new, new[b].nRank # 0
      PROVE  /\ Has(chain', new, FIRST, scannedTo[Tier[b]])
             /\ InTurn(new, Tier[b], mapStatement[Tier[b]], lastStm[Tier[b]][1],
                       scannedTo[Tier[b]], b)
  <2> DEFINE t == Tier[b]
             L == lastStm[t][1]
  <2>1. b \in DOMAIN old /\ t \in Tiers
    BY <1>4, TierAssumption DEF SameHeights, NodesInv, NodesTyped
  <2>2. Has(chain', new, FIRST, scannedTo[t])
    BY <1>1, <1>3, <1>4, <2>1 DEF Has, SameHeights
  <2>3. new[b] = Ranked(old, t, L)[b]
    BY <1>1, <2>1
  <2>4. new[b].nRank = IF b \in Part(old, t, L) THEN RankOf(old, b, t, L) ELSE 0
    <3>1. Ranked(mapInfinitynodes, t, L)[b].nRank =
            IF b \in Part(mapInfinitynodes, t, L) THEN RankOf(mapInfinitynodes, b, t, L) ELSE 0
      BY <2>1, RankedIs
    <3> QED
      BY <2>3, <3>1, Zenon
  <2> HIDE DEF L, old, new
  <2>5. InTurn(new, t, mapStatement[t], L, scannedTo[t], b)
    BY <1>4, <1>6, <2>1, <2>4, RankedInTurn, Zenon
  <2> QED
    BY <2>2, <2>5, Zenon DEF L
<1> QED
  BY <1>2, <1>5, <1>6, Zenon DEF RankInv

\* A scan reads a block.
LEMMA ScanBlockRanks ==
  ASSUME ListInv, NodesInv, NodesInv', StatementsInv, CountInv, RankInv, NoEarlyBurn,
         Elsewhere, NEW th \in Threads, ScanBlock(th)
  PROVE  RankInv'
<1> DEFINE o == scan.branch[scan.at]
<1>1. scan \in ScanType /\ Scanning(chain, tip, mapInfinitynodes, scan)
  BY DEF ScanBlock, ListInv
<1>2. /\ scan.at >= scan.low
      /\ scan # NoScan
      /\ \/ /\ o \in Burns
            /\ IsMatured(scan.at, scan.height)
            /\ mapInfinitynodes' = Add(mapInfinitynodes, o, scan.at)
         \/ o \in Metas /\ mapInfinitynodes' = updateMetadata(mapInfinitynodes, o, scan.at)
         \/ mapInfinitynodes' = mapInfinitynodes
      /\ UNCHANGED <<chain, statements>>
  BY Zenon DEF ScanBlock
<1>3. scan.at \in Heights /\ Reached(scan.at)
  <2>1. Reached(scan.low) /\ scan.at >= scan.low /\ scan.at <= scan.height
    BY <1>1, <1>2, Zenon DEF NodesInv, Scanning
  <2>2. scan.at \in Nat /\ scan.low \in Heights /\ scan.height \in Heights
    BY <1>1, Zenon DEF ScanType
  <2> QED
    BY <2>1, <2>2, DepthAssumption, SMT DEF Reached, Heights
<1>4. CASE /\ o \in Burns
           /\ IsMatured(scan.at, scan.height)
           /\ mapInfinitynodes' = Add(mapInfinitynodes, o, scan.at)
  <2>1. o = chain[scan.at]
    BY <1>1, <1>3, <1>4, Zenon DEF Scanning, IsMatured
  <2> QED
    BY <1>2, <1>3, <1>4, <2>1, AddRanks, Zenon
<1>5. CASE mapInfinitynodes' = updateMetadata(mapInfinitynodes, o, scan.at)
  <2>1. SameHeights(mapInfinitynodes', mapInfinitynodes)
    BY <1>5, MetadataHeights, Zenon DEF ListInv, Settled
  <2>2. \A b \in DOMAIN mapInfinitynodes :
          mapInfinitynodes'[b].nRank = mapInfinitynodes[b].nRank
    BY <1>5, SMT DEF updateMetadata, NodesInv, NodesTyped, Nodes
  <2> QED
    BY <1>2, <2>1, <2>2, SameHeightsRanks, Zenon
<1>6. CASE mapInfinitynodes' = mapInfinitynodes
  BY <1>2, <1>6, SameListRanks, Zenon
<1> QED
  BY <1>2, <1>4, <1>5, <1>6

\* buildInfinitynodeList is called, and empties the list or leaves it alone; the scheduler
\* thread is not between statements and ranks.
LEMMA CallersRanks ==
  ASSUME ListInv, ControlInv, NodesInv', StatementsInv, RankInv, Elsewhere,
         CheckAndRemove \/ AppInit \/ \E h \in Heights : UpdateList(h)
  PROVE  RankInv'
<1>1. /\ Called \/ UNCHANGED <<list, scan>>
      /\ UNCHANGED <<chain, statements>>
  BY Callers
<1>2. \A u : ~Stale(u)'
  <2>1. pc["scheduler"] \notin Updating
    <3>1. CASE CheckAndRemove
      <4>1. synced
        BY <3>1, Zenon DEF CheckAndRemove
      <4> QED
        BY <4>1, Zenon DEF ControlInv, FlagInv
    <3>2. CASE AppInit \/ \E h \in Heights : UpdateList(h)
      BY <3>2, SMT DEF AppInit, UpdateList, Updating
    <3> QED
      BY <3>1, <3>2
  <2>2. \A u : ~Stale(u)
    BY <2>1 DEF Stale, Updating
  <2> QED
    BY <2>2, StaleElsewhere
<1>3. mapInfinitynodes' = Empty \/ mapInfinitynodes' = mapInfinitynodes
  BY <1>1 DEF Called, Build, list
<1>4. CASE mapInfinitynodes' = Empty
  BY <1>2, <1>4, NoRanks DEF Empty
<1>5. CASE mapInfinitynodes' = mapInfinitynodes
  BY <1>1, <1>5, SameListRanks
<1> QED
  BY <1>3, <1>4, <1>5

\* Every step keeps the invariant.
LEMMA RankInvStep ==
  ASSUME Statements, Statements', CountInv, RankInv, NoEarlyBurn, [Next]_vars
  PROVE  RankInv'
<1>1. ListInv /\ ControlInv /\ VotesInv /\ NodesInv /\ StatementsInv /\ NodesInv'
  BY DEF Statements
<1>2. CASE ClearStatement \/ FillStatement \/ RankAll
  BY <1>1, <1>2, ClearRanks, FillRanks, RankAllRanks
<1>3. ASSUME NEW clean \in BOOLEAN, Restart(clean) PROVE RankInv'
  <2> DEFINE saved == IF clean THEN Saved(mapInfinitynodes, nLastScanHeight, statements,
                                          mapProposalVotes)
                      ELSE disk
  <2>1. /\ mapInfinitynodes' =
             [b \in DOMAIN saved.nodes |-> [saved.nodes[b] EXCEPT !.nRank = 0]]
        /\ pc' = [th \in Threads |-> IF th = "scheduler" THEN "init" ELSE "idle"]
    BY <1>3 DEF Restart
  <2>2. NodesTyped(saved.nodes)
    <3>1. Saved(mapInfinitynodes, nLastScanHeight, statements, mapProposalVotes).nodes
          = mapInfinitynodes
      BY SMT DEF Saved
    <3> QED
      BY <1>1, <3>1, Zenon DEF NodesInv
  <2> HIDE DEF saved
  <2>3. \A b \in DOMAIN mapInfinitynodes' : mapInfinitynodes'[b].nRank = 0
    BY <2>1, <2>2, SMT DEF NodesTyped, Nodes
  <2>4. \A u : ~Stale(u)'
    BY <2>1 DEF Stale, Threads
  <2> QED
    BY <2>3, <2>4, NoRanks
<1>4. CASE Elsewhere
  <2>1. ASSUME UNCHANGED <<chain, statements, mapInfinitynodes>> PROVE RankInv'
    BY <1>1, <1>4, <2>1, SameListRanks
  <2>2. CASE /\ Grows(chain, tip, chain', tip')
             /\ UNCHANGED <<list, statements, nCachedBlockHeight, scan, threads, disk>>
    BY <1>1, <2>2, GrowsRanks
  <2>3. ASSUME NEW th \in Threads, ScanBlock(th) PROVE RankInv'
    BY <1>1, <1>4, <2>3, ScanBlockRanks
  <2>4. CASE \E th \in Threads : ScanFails(th) \/ FinishScan(th) \/ DumpVotes(th)
    BY <2>1, <2>4, Zenon DEF ScanFails, FinishScan, DumpVotes, list
  <2>5. CASE CheckAndRemove \/ AppInit \/ \E h \in Heights : UpdateList(h)
    BY <1>1, <1>4, <2>5, CallersRanks
  <2>6. CASE NewStatement
    BY <1>1, <1>4, <2>6, NewStatementRanks
  <2>7. ASSUME NEW t \in Tiers, NEW h \in Heights, ShowCandidate(t, h) PROVE RankInv'
    <3>1. /\ mapInfinitynodes' = [b \in DOMAIN mapInfinitynodes |->
               IF Tier[b] = t THEN [mapInfinitynodes[b] EXCEPT !.nRank = 0]
               ELSE mapInfinitynodes[b]]
          /\ UNCHANGED <<chain, statements>>
      BY <2>7 DEF ShowCandidate
    <3>2. SameHeights(mapInfinitynodes', mapInfinitynodes)
      BY <1>1, <3>1, SMT DEF SameHeights, ListInv, Settled, Sound
    <3>3. \A b \in DOMAIN mapInfinitynodes :
            \/ mapInfinitynodes'[b].nRank = 0
            \/ mapInfinitynodes'[b].nRank = mapInfinitynodes[b].nRank
      BY <1>1, <3>1, SMT DEF NodesInv, NodesTyped, Nodes
    <3> QED
      BY <1>1, <1>4, <3>1, <3>2, <3>3, SameHeightsRanks
  <2>8. CASE (\E h \in Heights : UpdatedBlockTip(h)) \/ Reset \/ UNCHANGED vars
    BY <2>1, <2>8, Zenon DEF UpdatedBlockTip, Reset, vars, list
  <2>9. CASE \/ \E o \in Outputs \cup {None} : ConnectBlock(o)
             \/ \E fork, h \in Heights, o \in Outputs \cup {None} : Reorganise(fork, h, o)
    <3>1. Grows(chain, tip, chain', tip')
      BY <1>1, <2>9, ConnectGrows, ReorganiseGrows, Zenon
    <3>2. UNCHANGED <<list, statements, nCachedBlockHeight, scan, threads, disk>>
      BY <2>9, Zenon DEF ConnectBlock, Reorganise
    <3> QED
      BY <2>2, <3>1, <3>2
  <2> QED
    BY <1>2, <1>3, <2>3, <2>4, <2>5, <2>6, <2>7, <2>8, <2>9, Zenon DEF Next
<1> QED
  BY <1>1, <1>2, <1>3, <1>4, SchedulerSteps

\* A node has the rank at which the last statement rewards it, except while
\* updateInfinitynodeList is between the statements of its tier and the ranks: also when
\* newer nodes have matured, the file was loaded again, or the ranks were set to 0 by a
\* command since the statement was computed.
THEOREM RanksAreRewards == Spec /\ []NoEarlyBurn => []RanksFollowRewards
<1>1. Init => RankInv
  <2>1. Init => mapInfinitynodes = Empty /\ \A u : ~Stale(u)
    BY DEF Init, Stale, Threads
  <2> QED
    BY <2>1, Zenon DEF RankInv, Empty
<1>2. /\ Statements /\ Statements' /\ CountInv /\ RankInv /\ NoEarlyBurn /\ [Next]_vars
      => RankInv'
  BY RankInvStep
<1>3. Statements /\ RankInv => RanksFollowRewards
  <2> SUFFICES ASSUME Statements, RankInv, NEW b \in DOMAIN mapInfinitynodes,
                      ~Stale(Tier[b]),
                      mapInfinitynodes[b].nRank # 0,
                      mapInfinitynodes[b].nRank <= lastStm[Tier[b]][2],
                      lastStm[Tier[b]][1] <= scannedTo[Tier[b]],
                      lastStm[Tier[b]][1] \in DOMAIN mapStatement[Tier[b]]
               PROVE  RewardAt(Tier[b], lastStm[Tier[b]][1] + mapInfinitynodes[b].nRank) = {b}
    BY Zenon DEF RanksFollowRewards
  <2> DEFINE t == Tier[b]
             L == lastStm[t][1]
             rank == mapInfinitynodes[b].nRank
  <2>1. ListInv /\ NodesInv /\ StatementsInv
    BY Zenon DEF Statements
  <2>2. t \in Tiers /\ rank \in Nat
    <3>1. b \in Burns /\ mapInfinitynodes[b] \in Nodes
      BY <2>1 DEF NodesInv, NodesTyped
    <3> QED
      BY <3>1, TierAssumption, SMT DEF Nodes
  <2>3. b \in Part(mapInfinitynodes, t, L) /\ rank = RankOf(mapInfinitynodes, b, t, L)
    BY Zenon DEF RankInv, InTurn
  <2>4. b \in Participants(t, L) /\ rank = RankAt(b, t, L)
    BY <2>3, PartIs, Zenon
  <2>5. lastStm[t][2] = mapStatement[t][L] /\ mapStatement[t][L] \in Nat
    BY <2>1, <2>2, StatementsAre, Zenon
  <2>6. rank # 0 /\ rank <= lastStm[t][2] /\ L \in DOMAIN mapStatement[t]
    BY Zenon
  <2> SUFFICES RewardAt(t, L + rank) = {b}
    BY Zenon
  <2> HIDE DEF t, L, rank
  <2>7. rank \in 1 .. mapStatement[t][L]
    BY <2>2, <2>5, <2>6, SMT
  <2>8. RewardAt(t, L + rank) = {c \in Participants(t, L) : RankAt(c, t, L) = rank}
    BY <2>1, <2>2, <2>6, <2>7, RewardAtIs, Zenon
  <2>9. \A c, d \in Participants(t, L) : RankAt(c, t, L) = RankAt(d, t, L) => c = d
    BY <2>1, RanksNumber
  <2> QED
    BY <2>4, <2>8, <2>9, Zenon
<1> QED
  BY <1>1, <1>2, <1>3, CountInvariant, PTL DEF Spec
=============================================================================
