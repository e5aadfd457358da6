---------------------------- MODULE InfinityNode ----------------------------
(***************************************************************************)
(* CInfinitynodeMan (infinitynodeman.cpp) with the proposal votes of       *)
(* CInfinitynodersv (infinitynodersv.cpp): both are read off the chain,    *)
(* saved to flat files, and loaded again at the next start.                *)
(*                                                                         *)
(* Two threads work on them under the lock cs.  The maintenance thread     *)
(* calls CheckAndRemove.  The scheduler thread starts the node, delivers   *)
(* the new tips, and rebuilds the list when the blocks are synced.  The    *)
(* scan of buildInfinitynodeList does not hold cs_main: it walks back, one *)
(* action per block, on the branch it started from while the chain goes on *)
(* growing and reorganising.                                               *)
(*                                                                         *)
(* Addresses, amounts and scripts are abstracted to what the outputs of a  *)
(* block are: one value stands for them, which is a burn of some tier by   *)
(* some owner, a vote on some question (proposal and voter), or both, or   *)
(* metadata of some owner.  Votes are those at the governance address.     *)
(***************************************************************************)
EXTENDS Integers, FiniteSets, Sequences

CONSTANTS
  Burns,             \* blocks that burn the collateral of a node
  Ballots,           \* blocks that vote
  Metas,             \* blocks with metadata
  TierSeq,           \* the tiers in the order of the code
  Tier,              \* Tier[b]: the tier of burn b
  Owner,             \* Owner[o]: who made burn or metadata o
  Question,          \* Question[v]: proposal and voter of ballot v
  BEGIN,             \* nInfinityNodeBeginHeight
  FIRST,             \* where the first scan ends: 1 on testnet, BEGIN elsewhere
  GENESIS,           \* nInfinityNodeGenesisStatement
  MATURED_LIMIT,     \* INF_MATURED_LIMIT
  LIFE,              \* blocks until a node expires
  MAX_REORG,         \* MaxReorganizationDepth
  MaxHeight,         \* bound on the chain
  MaxFaults,         \* bound on failed scans, restarts and resets together
  None               \* a block without any of them

Outputs == Burns \cup Ballots \cup Metas
Tiers == {TierSeq[i] : i \in 1 .. Len(TierSeq)}
Heights == 1 .. MaxHeight

\* "make sure that this value is sup than chain reorg limit" (infinitynodeman.h), and a
\* scan never reaches below the first block.
ASSUME DepthAssumption ==
  /\ MATURED_LIMIT \in Nat
  /\ MAX_REORG \in Nat
  /\ MAX_REORG <= MATURED_LIMIT
  /\ BEGIN \in Nat
  /\ BEGIN > MATURED_LIMIT
  /\ FIRST \in 1 .. BEGIN
  /\ MaxHeight \in Nat
  /\ None \notin Outputs
  /\ Burns \cap Metas = {}

\* There is a tier, every burn has one, and the statements begin above the first block.
ASSUME TierAssumption ==
  /\ IsFiniteSet(Burns)
  /\ Len(TierSeq) \in Nat \ {0}
  /\ Tier \in [Burns -> Tiers]
  /\ GENESIS \in Nat \ {0}
  /\ LIFE \in Nat

VARIABLES
  chain,             \* the active chain: the outputs at each height
  tip,               \* its height
  mapInfinitynodes,  \* matured nodes: height, metadata and rank
  nLastScanHeight,
  mapProposalVotes,  \* pairs of ballot and height
  mapStatement,      \* per tier, the size of the statement at each height
  lastStm,           \* per tier, height and size of the last statement
  scannedTo,         \* history: per tier, nLastScanHeight when the map was computed
  nCachedBlockHeight,
  scan,              \* the loop of buildInfinitynodeList, or NoScan
  cs,                \* which thread holds cs
  pc,                \* where each thread is
  tier,              \* which tier each thread has come to
  synced,            \* the synchronisation is past the blocks
  disk,              \* infinitynode.dat and infinitynodersv.dat
  torn,              \* history: a crash fell between the writes of the two files
  faults             \* how many failed scans, restarts and resets there were

list == <<mapInfinitynodes, nLastScanHeight, mapProposalVotes>>
statements == <<mapStatement, lastStm, scannedTo>>
threads == <<cs, pc, tier>>
vars == <<chain, tip, list, statements, nCachedBlockHeight, scan, threads, synced, disk,
          torn, faults>>

Threads == {"maintenance", "scheduler"}
Free == "free"
NoScan == [height |-> 0]
Empty == [x \in {} |-> x]
Over(f, g) == [x \in DOMAIN f \cup DOMAIN g |-> IF x \in DOMAIN f THEN f[x] ELSE g[x]]
Put(f, x, y) == Over([z \in {x} |-> y], f)

Nodes == [nHeight : Heights, metadata : Metas \cup {None}, nRank : Nat]

TypeOK ==
  /\ chain \in [Heights -> Outputs \cup {None}]
  /\ tip \in 0 .. MaxHeight
  /\ DOMAIN mapInfinitynodes \subseteq Burns
  /\ \A b \in DOMAIN mapInfinitynodes : mapInfinitynodes[b] \in Nodes
  /\ nLastScanHeight \in 0 .. MaxHeight
  /\ mapProposalVotes \subseteq Ballots \X Heights
  /\ \A t \in Tiers : /\ DOMAIN mapStatement[t] \subseteq Heights
                      /\ lastStm[t] \in (0 .. MaxHeight) \X (0 .. Cardinality(Burns))
  /\ nCachedBlockHeight \in 0 .. MaxHeight
  /\ cs \in Threads \cup {Free}
  /\ (scan # NoScan) => /\ cs \in Threads
                        /\ pc[cs] \in {"scan", "scanOnly"}
                        /\ scan.height \in Heights
                        /\ scan.at \in 0 .. scan.height
  /\ pc \in [Threads -> {"init", "idle", "scan", "scanOnly", "dump", "dumpOnly",
                         "statement", "clear", "fill", "rank"}]
  /\ tier \in [Threads -> 1 .. Len(TierSeq)]
  /\ synced \in BOOLEAN
  /\ torn \in BOOLEAN

-----------------------------------------------------------------------------
(* The chain (external). *)

OnChain(c, o) == \E h \in Heights : c[h] = o

\* A block is connected.
ConnectBlock(o) ==
  /\ tip < MaxHeight
  /\ o # None => ~OnChain(chain, o)
  /\ chain' = [chain EXCEPT ![tip + 1] = o]
  /\ tip' = tip + 1
  /\ UNCHANGED <<list, statements, nCachedBlockHeight, scan, threads, synced, disk, torn,
                 faults>>

\* A longer branch replaces the chain from below the tip.  Less than MAX_REORG blocks
\* are replaced; here the branch is one block longer, and o at height h is all it has.
Reorganise(fork, h, o) ==
  /\ tip < MaxHeight
  /\ fork < tip
  /\ tip - fork < MAX_REORG
  /\ h \in fork + 1 .. tip + 1
  /\ LET kept == [g \in Heights |-> IF g <= fork THEN chain[g] ELSE None]
     IN /\ o # None => ~OnChain(kept, o)
        /\ chain' = [kept EXCEPT ![h] = o]
  /\ tip' = tip + 1
  /\ UNCHANGED <<list, statements, nCachedBlockHeight, scan, threads, synced, disk, torn,
                 faults>>

-----------------------------------------------------------------------------
(* buildInfinitynodeList; thread th holds cs. *)

Goto(th, label) == pc' = [pc EXCEPT ![th] = label]

\* Mutant: a list that was scanned once is not scanned again.
BuildOnce(nBlockHeight, nLowHeight) ==
  /\ UNCHANGED list
  /\ scan' = IF nLastScanHeight # 0 \/ nBlockHeight < BEGIN \/ nBlockHeight > tip
             THEN NoScan
             ELSE [height |-> nBlockHeight, low |-> FIRST, at |-> nBlockHeight,
                   branch |-> chain]

\* From the call to the loop.
Build(nBlockHeight, nLowHeight) ==
  LET first == nLowHeight = BEGIN
      clears == first \/ nBlockHeight < BEGIN
  IN /\ mapInfinitynodes' = IF clears THEN Empty ELSE mapInfinitynodes
     /\ mapProposalVotes' = IF clears THEN {} ELSE mapProposalVotes
     /\ nLastScanHeight' = IF clears THEN 0 ELSE nLastScanHeight
     /\ scan' = IF nBlockHeight < BEGIN \/ nBlockHeight > tip
                THEN NoScan
                ELSE [height |-> nBlockHeight,
                      low |-> IF first THEN FIRST ELSE nLastScanHeight,
                      at |-> nBlockHeight,
                      branch |-> [h \in Heights |-> IF h <= nBlockHeight THEN chain[h]
                                                    ELSE None]]

\* What it returns when it does not come to the loop.
BuildReturns(nBlockHeight) == nBlockHeight < BEGIN

\* Mutant: burns and votes count at once.
IsMaturedAtOnce(h, nBlockHeight) == h <= nBlockHeight

IsMatured(h, nBlockHeight) == h < nBlockHeight - MATURED_LIMIT

\* CInfinitynodeMan::Add
Add(nodes, b, h) ==
  IF b \in DOMAIN nodes THEN nodes
  ELSE Put(nodes, b, [nHeight |-> h, metadata |-> None, nRank |-> 0])

\* Mutant: the vote that is read last wins, which in a scan is the oldest.
AddVoteLast(votes, v, h) ==
  {w \in votes : Question[w[1]] # Question[v]} \cup {<<v, h>>}

\* CInfinitynodersv::Add
AddVote(votes, v, h) ==
  LET same == {w \in votes : Question[w[1]] = Question[v]}
  IN IF \E w \in same : w[2] >= h THEN votes ELSE (votes \ same) \cup {<<v, h>>}

\* nMetadataHeight is 0 for ever: nothing sets it.
updateMetadata(nodes, m, h) ==
  [b \in DOMAIN nodes |-> IF Owner[b] = Owner[m] /\ 0 < h
                          THEN [nodes[b] EXCEPT !.metadata = m] ELSE nodes[b]]

\* One iteration of the loop.
ScanBlock(th) ==
  /\ cs = th
  /\ scan # NoScan
  /\ scan.at >= scan.low
  /\ LET o == scan.branch[scan.at]
         matured == IsMatured(scan.at, scan.height)
     IN /\ mapInfinitynodes' =
             IF o \in Burns /\ matured THEN Add(mapInfinitynodes, o, scan.at)
             ELSE IF o \in Metas THEN updateMetadata(mapInfinitynodes, o, scan.at)
             ELSE mapInfinitynodes
        /\ mapProposalVotes' = IF o \in Ballots /\ matured
                               THEN AddVote(mapProposalVotes, o, scan.at)
                               ELSE mapProposalVotes
  /\ scan' = [scan EXCEPT !.at = @ - 1]
  /\ UNCHANGED <<chain, tip, nLastScanHeight, statements, nCachedBlockHeight, threads,
                 synced, disk, torn, faults>>

\* The caller of buildInfinitynodeList goes on with its result.
Return(th, label, result) ==
  IF label \in {"scanOnly", "dumpOnly"}
  THEN /\ cs' = Free
       /\ Goto(th, "idle")
       /\ UNCHANGED <<tier, synced>>
  ELSE IF th = "maintenance"
  THEN /\ cs' = th
       /\ Goto(th, "statement")
       /\ tier' = [tier EXCEPT ![th] = 1]
       /\ UNCHANGED synced
  ELSE /\ cs' = Free
       /\ Goto(th, IF result THEN "clear" ELSE "idle")
       /\ tier' = [tier EXCEPT ![th] = 1]
       /\ synced' = ~result

\* Mutant: the loop is not left.
ScanFailsOn(th) ==
  /\ cs = th
  /\ scan # NoScan
  /\ faults < MaxFaults
  /\ faults' = faults + 1
  /\ Return(th, pc[th], FALSE)
  /\ UNCHANGED <<chain, tip, list, statements, nCachedBlockHeight, scan, disk, torn>>

\* ReadBlockFromDisk or GetTransaction fails.
ScanFails(th) ==
  /\ cs = th
  /\ scan # NoScan
  /\ scan.at >= scan.low
  /\ faults < MaxFaults
  /\ faults' = faults + 1
  /\ scan' = NoScan
  /\ Return(th, pc[th], FALSE)
  /\ UNCHANGED <<chain, tip, list, statements, nCachedBlockHeight, disk, torn>>

\* After the loop, up to the dump of infinitynode.dat.
FinishScan(th) ==
  /\ cs = th
  /\ scan # NoScan
  /\ scan.at < scan.low
  /\ nLastScanHeight' = scan.height - MATURED_LIMIT
  /\ disk' = [disk EXCEPT !.nodes = mapInfinitynodes,
                          !.last = scan.height - MATURED_LIMIT,
                          !.statements = statements]
  /\ scan' = NoScan
  /\ Goto(th, IF pc[th] = "scan" THEN "dump" ELSE "dumpOnly")
  /\ UNCHANGED <<chain, tip, mapInfinitynodes, mapProposalVotes, statements,
                 nCachedBlockHeight, cs, tier, synced, torn, faults>>

\* The dump of infinitynodersv.dat.
DumpVotes(th) ==
  /\ pc[th] \in {"dump", "dumpOnly"}
  /\ disk' = [disk EXCEPT !.votes = mapProposalVotes]
  /\ Return(th, pc[th], TRUE)
  /\ UNCHANGED <<chain, tip, list, statements, nCachedBlockHeight, scan, torn, faults>>

-----------------------------------------------------------------------------
(* Statements and ranks. *)

\* Mutant: a node expires one block early.
TakesPartBefore(b, t, h) ==
  /\ Tier[b] = t
  /\ mapInfinitynodes[b].nHeight < h
  /\ h < mapInfinitynodes[b].nHeight + LIFE - 1

\* A node takes part in a statement at height h.
TakesPart(b, t, h) ==
  /\ Tier[b] = t
  /\ mapInfinitynodes[b].nHeight < h
  /\ h <= mapInfinitynodes[b].nHeight + LIFE

Participants(t, h) == {b \in DOMAIN mapInfinitynodes : TakesPart(b, t, h)}

\* Mutant: a statement begins at every block.
RewardStatementsEach(t) ==
  LET From[h \in Nat] ==
        IF h >= nCachedBlockHeight THEN Empty
        ELSE Put(From[h + 1], h, Cardinality(Participants(t, h)))
  IN From[GENESIS]

\* The loop of deterministicRewardStatement from height h on.
RewardStatements(t) ==
  LET From[h \in Nat] ==
        LET size == Cardinality(Participants(t, h))
        IN IF h >= nCachedBlockHeight THEN Empty
           ELSE IF size = 0 THEN Put(Empty, nCachedBlockHeight, 0)
           ELSE Put(From[h + size], h, size)
  IN From[GENESIS]

LastOf(f) == CHOOSE h \in DOMAIN f : \A g \in DOMAIN f : g <= h

\* Mutant: nothing is computed where a statement is known.
FillUnknown(t, f) ==
  /\ mapStatement' = [mapStatement EXCEPT ![t] =
       IF lastStm[t][1] # 0 THEN f ELSE RewardStatements(t)]
  /\ lastStm' = IF lastStm[t][1] # 0 \/ RewardStatements(t) = Empty THEN lastStm
                ELSE [lastStm EXCEPT ![t] = <<LastOf(RewardStatements(t)), 0>>]
  /\ UNCHANGED scannedTo

\* The part of deterministicRewardStatement under cs; f is the map it finds.
Fill(t, f) ==
  LET new == RewardStatements(t)
  IN /\ mapStatement' = [mapStatement EXCEPT ![t] = Over(new, f)]
     /\ lastStm' = IF new = Empty THEN lastStm
                   ELSE [lastStm EXCEPT ![t] = <<LastOf(new), new[LastOf(new)]>>]
     /\ scannedTo' = [scannedTo EXCEPT ![t] = nLastScanHeight]

\* Mutant: ranks from 0.
RankAtFromZero(b, t, h) ==
  Cardinality({c \in Participants(t, h) :
                 mapInfinitynodes[c].nHeight < mapInfinitynodes[b].nHeight})

\* calculInfinityNodeRank: nodes by height of their burn, from 1.
RankAt(b, t, h) ==
  Cardinality({c \in Participants(t, h) :
                 mapInfinitynodes[c].nHeight <= mapInfinitynodes[b].nHeight})

\* Mutant: the youngest node comes first.
RankedYoungest(nodes, t, h) ==
  [b \in DOMAIN nodes |->
     IF b \notin Participants(t, h) THEN nodes[b]
     ELSE [nodes[b] EXCEPT !.nRank = Cardinality(Participants(t, h)) + 1 - RankAt(b, t, h)]]

Ranked(nodes, t, h) ==
  [b \in DOMAIN nodes |->
     IF Tier[b] # t THEN nodes[b]
     ELSE [nodes[b] EXCEPT !.nRank = IF b \in Participants(t, h) THEN RankAt(b, t, h)
                                     ELSE 0]]

\* deterministicRewardAtHeight: the nodes with the right rank in the last statement
\* before h, if it reaches to h.
StatementFor(t, h) ==
  {s \in DOMAIN mapStatement[t] :
     /\ s < h
     /\ h - s <= mapStatement[t][s]
     /\ \A r \in DOMAIN mapStatement[t] : r < h /\ h - r <= mapStatement[t][r] => r <= s}

RewardAt(t, h) ==
  UNION {{b \in Participants(t, s) : RankAt(b, t, s) = h - s} : s \in StatementFor(t, h)}

-----------------------------------------------------------------------------
(* The maintenance thread: CheckAndRemove, once the node is synced. *)

CheckAndRemove ==
  /\ pc["maintenance"] = "idle"
  /\ pc["scheduler"] # "init"
  /\ synced
  /\ cs = Free
  /\ \/ /\ nLastScanHeight = 0
        /\ nCachedBlockHeight > BEGIN
        /\ Build(nCachedBlockHeight, BEGIN)
        /\ IF scan' = NoScan THEN UNCHANGED threads
           ELSE /\ cs' = "maintenance"
                /\ Goto("maintenance", "scanOnly")
                /\ UNCHANGED tier
     \/ /\ nLastScanHeight > 0
        /\ nCachedBlockHeight > nLastScanHeight
        /\ Build(nCachedBlockHeight, nLastScanHeight)
        /\ cs' = "maintenance"
        /\ Goto("maintenance", IF scan' = NoScan THEN "statement" ELSE "scan")
        /\ tier' = [tier EXCEPT !["maintenance"] = 1]
     \/ /\ \/ nLastScanHeight = 0 /\ nCachedBlockHeight <= BEGIN
           \/ nLastScanHeight > 0 /\ nCachedBlockHeight <= nLastScanHeight
        /\ cs' = "maintenance"
        /\ Goto("maintenance", "statement")
        /\ tier' = [tier EXCEPT !["maintenance"] = 1]
        /\ UNCHANGED <<list, scan>>
  /\ UNCHANGED <<chain, tip, statements, nCachedBlockHeight, synced, disk, torn, faults>>

\* The new statement of one tier, when the last one nears its end.
NewStatement ==
  /\ pc["maintenance"] = "statement"
  /\ LET t == TierSeq[tier["maintenance"]]
     IN IF lastStm[t][1] + lastStm[t][2] - nCachedBlockHeight < MATURED_LIMIT
        THEN /\ Fill(t, Empty)
             /\ mapInfinitynodes' = Ranked(mapInfinitynodes, t, lastStm'[t][1])
        ELSE UNCHANGED <<statements, mapInfinitynodes>>
  /\ IF tier["maintenance"] < Len(TierSeq)
     THEN /\ tier' = [tier EXCEPT !["maintenance"] = @ + 1]
          /\ UNCHANGED <<cs, pc>>
     ELSE /\ cs' = Free
          /\ Goto("maintenance", "idle")
          /\ UNCHANGED tier
  /\ UNCHANGED <<chain, tip, nLastScanHeight, mapProposalVotes, nCachedBlockHeight, scan,
                 synced, disk, torn, faults>>

-----------------------------------------------------------------------------
(* The scheduler thread. *)

\* infnodeman.UpdatedBlockTip: tips are delivered late and in order.
UpdatedBlockTip(h) ==
  /\ pc["scheduler"] = "idle"
  /\ nCachedBlockHeight < h
  /\ h <= tip
  /\ nCachedBlockHeight' = h
  /\ UNCHANGED <<chain, tip, list, statements, scan, threads, synced, disk, torn, faults>>

\* CMasternodeSync::UpdatedBlockTip at the best header, whose block may not be there yet:
\* updateInfinitynodeList.
UpdateList(nBlockHeight) ==
  /\ pc["scheduler"] = "idle"
  /\ ~synced
  /\ cs = Free
  /\ nCachedBlockHeight < nBlockHeight
  /\ nBlockHeight \in {tip, tip + 1} \cap Heights
  /\ IF nLastScanHeight # 0 /\ nBlockHeight < nLastScanHeight
     THEN /\ synced' = TRUE
          /\ UNCHANGED <<list, scan, threads>>
     ELSE /\ Build(nBlockHeight, IF nLastScanHeight = 0 THEN BEGIN ELSE nLastScanHeight)
          /\ IF scan' # NoScan
             THEN /\ cs' = "scheduler"
                  /\ Goto("scheduler", "scan")
                  /\ UNCHANGED <<tier, synced>>
             ELSE Return("scheduler", "scan", BuildReturns(nBlockHeight))
  /\ UNCHANGED <<chain, tip, statements, nCachedBlockHeight, disk, torn, faults>>

\* deterministicRewardStatement empties the map before it locks cs.
ClearStatement ==
  /\ pc["scheduler"] = "clear"
  /\ mapStatement' = [mapStatement EXCEPT ![TierSeq[tier["scheduler"]]] = Empty]
  /\ Goto("scheduler", "fill")
  /\ UNCHANGED <<chain, tip, list, lastStm, scannedTo, nCachedBlockHeight, scan, cs, tier, synced,
                 disk, torn, faults>>

FillStatement ==
  /\ pc["scheduler"] = "fill"
  /\ cs = Free
  /\ LET i == tier["scheduler"]
     IN /\ Fill(TierSeq[i], mapStatement[TierSeq[i]])
        /\ IF i < Len(TierSeq)
           THEN Goto("scheduler", "clear") /\ tier' = [tier EXCEPT !["scheduler"] = i + 1]
           ELSE Goto("scheduler", "rank") /\ UNCHANGED tier
  /\ UNCHANGED <<chain, tip, list, nCachedBlockHeight, scan, cs, synced, disk, torn, faults>>

\* calculAllInfinityNodesRankAtLastStm
RankAll ==
  /\ pc["scheduler"] = "rank"
  /\ cs = Free
  /\ mapInfinitynodes' = [b \in DOMAIN mapInfinitynodes |->
       Ranked(mapInfinitynodes, Tier[b], lastStm[Tier[b]][1])[b]]
  /\ Goto("scheduler", "idle")
  /\ synced' = TRUE
  /\ UNCHANGED <<chain, tip, nLastScanHeight, mapProposalVotes, statements,
                 nCachedBlockHeight, scan, cs, tier, disk, torn, faults>>

\* The call of infinitynode show-candidate: deterministicRewardAtHeight sets the ranks of
\* the tier to 0 also when it is only asked for the ranks.
ShowCandidate(t, h) ==
  /\ pc["scheduler"] # "init"
  /\ cs = Free
  /\ StatementFor(t, h) # {}
  /\ \E b \in DOMAIN mapInfinitynodes : Tier[b] = t /\ mapInfinitynodes[b].nRank # 0
  /\ mapInfinitynodes' = [b \in DOMAIN mapInfinitynodes |->
       IF Tier[b] = t THEN [mapInfinitynodes[b] EXCEPT !.nRank = 0] ELSE mapInfinitynodes[b]]
  /\ UNCHANGED <<chain, tip, nLastScanHeight, mapProposalVotes, statements,
                 nCachedBlockHeight, scan, threads, synced, disk, torn, faults>>

\* The synchronisation starts again.
Reset ==
  /\ pc["scheduler"] # "init"
  /\ synced
  /\ faults < MaxFaults
  /\ faults' = faults + 1
  /\ synced' = FALSE
  /\ UNCHANGED <<chain, tip, list, statements, nCachedBlockHeight, scan, threads, disk, torn>>

-----------------------------------------------------------------------------
(* Stopping and starting. *)

Saved(nodes, last, stm, votes) ==
  [nodes |-> nodes, last |-> last, statements |-> stm, votes |-> votes]

\* The process ends and starts again.  A clean shutdown saves both objects first; ranks
\* are not saved.
Restart(clean) ==
  /\ faults < MaxFaults
  /\ pc["scheduler"] # "init"
  /\ clean => cs = Free /\ pc["scheduler"] = "idle"
  /\ faults' = faults + 1
  /\ LET saved == IF clean THEN Saved(mapInfinitynodes, nLastScanHeight, statements,
                                      mapProposalVotes)
                  ELSE disk
     IN /\ disk' = saved
        /\ mapInfinitynodes' =
             [b \in DOMAIN saved.nodes |-> [saved.nodes[b] EXCEPT !.nRank = 0]]
        /\ nLastScanHeight' = saved.last
        /\ mapStatement' = saved.statements[1]
        /\ lastStm' = saved.statements[2]
        /\ scannedTo' = saved.statements[3]
        /\ mapProposalVotes' = saved.votes
  /\ torn' = (torn \/ \E th \in Threads : pc[th] \in {"dump", "dumpOnly"})
  /\ nCachedBlockHeight' = 0
  /\ scan' = NoScan
  /\ cs' = Free
  /\ pc' = [th \in Threads |-> IF th = "scheduler" THEN "init" ELSE "idle"]
  /\ tier' = [th \in Threads |-> 1]
  /\ synced' = FALSE
  /\ UNCHANGED <<chain, tip>>

\* AppInitMain: the list is brought up to the chain.
AppInit ==
  /\ pc["scheduler"] = "init"
  /\ IF \/ nLastScanHeight = 0 /\ tip < BEGIN
        \/ nLastScanHeight # 0 /\ tip < nLastScanHeight
     THEN /\ Goto("scheduler", "idle")
          /\ UNCHANGED <<list, scan, cs, tier>>
     ELSE /\ Build(tip, IF nLastScanHeight = 0 THEN BEGIN ELSE nLastScanHeight)
          /\ IF scan' = NoScan
             THEN Goto("scheduler", "idle") /\ UNCHANGED cs
             ELSE Goto("scheduler", "scanOnly") /\ cs' = "scheduler"
          /\ UNCHANGED tier
  /\ UNCHANGED <<chain, tip, statements, nCachedBlockHeight, synced, disk, torn, faults>>

-----------------------------------------------------------------------------
(* Specification. *)

NoStatements == [t \in Tiers |-> Empty]
NoLast == [t \in Tiers |-> <<0, 0>>]

Init ==
  /\ chain = [h \in Heights |-> None]
  /\ tip = 0
  /\ mapInfinitynodes = Empty
  /\ nLastScanHeight = 0
  /\ mapProposalVotes = {}
  /\ mapStatement = NoStatements
  /\ lastStm = NoLast
  /\ scannedTo = [t \in Tiers |-> 0]
  /\ nCachedBlockHeight = 0
  /\ scan = NoScan
  /\ cs = Free
  /\ pc = [th \in Threads |-> IF th = "scheduler" THEN "init" ELSE "idle"]
  /\ tier = [th \in Threads |-> 1]
  /\ synced = FALSE
  /\ disk = Saved(Empty, 0, statements, {})
  /\ torn = FALSE
  /\ faults = 0

Next ==
  \/ \E o \in Outputs \cup {None} : ConnectBlock(o)
  \/ \E fork, h \in Heights, o \in Outputs \cup {None} : Reorganise(fork, h, o)
  \/ \E th \in Threads : ScanBlock(th)
  \/ \E th \in Threads : ScanFails(th)
  \/ \E th \in Threads : FinishScan(th)
  \/ \E th \in Threads : DumpVotes(th)
  \/ CheckAndRemove
  \/ NewStatement
  \/ \E h \in Heights : UpdatedBlockTip(h)
  \/ \E h \in Heights : UpdateList(h)
  \/ ClearStatement
  \/ FillStatement
  \/ RankAll
  \/ \E t \in Tiers, h \in Heights : ShowCandidate(t, h)
  \/ Reset
  \/ \E clean \in BOOLEAN : Restart(clean)
  \/ AppInit

\* Threads go on while they can, and the queue of notifications is worked off.
Fairness ==
  /\ \A th \in Threads : WF_vars(ScanBlock(th) \/ FinishScan(th) \/ DumpVotes(th))
  /\ WF_vars(CheckAndRemove)
  /\ WF_vars(NewStatement)
  /\ WF_vars(AppInit)
  /\ WF_vars(ClearStatement)
  /\ SF_vars(FillStatement)
  /\ SF_vars(RankAll)
  /\ WF_vars(UpdatedBlockTip(tip))

Spec == Init /\ [][Next]_vars /\ Fairness

-----------------------------------------------------------------------------
(* Properties. *)

\* The matured list is the chain's, whatever was scanned when: a listed node is a burn of
\* the active chain at the height recorded for it, also after a reorganisation, and every
\* burn below nLastScanHeight is listed, also after failed scans and crashes.
ListMatchesChain ==
  /\ \A b \in DOMAIN mapInfinitynodes : chain[mapInfinitynodes[b].nHeight] = b
  /\ \A h \in FIRST .. nLastScanHeight - 1 :
       chain[h] \in Burns => chain[h] \in DOMAIN mapInfinitynodes

\* The votes are the chain's: each is on the active chain, a voter has one for each
\* proposal, and none is older than the newest below nLastScanHeight, unless a crash has
\* separated the two files.
VotesMatchChain ==
  /\ \A w \in mapProposalVotes : chain[w[2]] = w[1]
  /\ \A v, w \in mapProposalVotes : Question[v[1]] = Question[w[1]] => v = w
  /\ ~torn => \A h \in FIRST .. nLastScanHeight - 1 :
       chain[h] \in Ballots =>
         \E w \in mapProposalVotes : Question[w[1]] = Question[chain[h]] /\ w[2] >= h

\* The statements that are listed leave no gap and do not overlap: each begins where the
\* one before it ends, the first at GENESIS, and the last is the one in lastStm.
StatementsTile ==
  \A t \in Tiers :
    LET f == mapStatement[t]
        Follows(s) == \/ s = GENESIS
                      \/ f[s] = 0
                      \/ \E r \in DOMAIN f : r + f[r] = s
    IN f # Empty => /\ \A s \in DOMAIN f : Follows(s)
                    /\ \A r, s \in DOMAIN f : r < s => r + f[r] <= s
                    /\ LastOf(f) = lastStm[t][1]

\* Every height of a statement up to nLastScanHeight has its one node to reward, and the
\* statement rewards no node twice, also while newer nodes mature.
RewardsAreFair ==
  \A t \in Tiers : \A s \in DOMAIN mapStatement[t] : s <= nLastScanHeight =>
    LET heights == s + 1 .. s + mapStatement[t][s]
    IN /\ \A h \in heights : Cardinality(RewardAt(t, h)) = 1
       /\ \A g, h \in heights : g # h => RewardAt(t, g) \cap RewardAt(t, h) = {}

\* A statement computed with every earlier burn in the list has the size the chain gives
\* it: nodes with one chain agree on it, whenever they computed it, and for ever.
StatementsMatchChain ==
  \A t \in Tiers : \A s \in DOMAIN mapStatement[t] :
    s <= scannedTo[t] /\ mapStatement[t][s] # 0 =>
      mapStatement[t][s] = Cardinality({h \in FIRST .. s - 1 :
        chain[h] \in Burns /\ Tier[chain[h]] = t /\ s <= h + LIFE})

\* Tier t has new statements, and its nodes have not been ranked again yet.
Stale(t) ==
  \/ pc["scheduler"] = "rank"
  \/ /\ pc["scheduler"] \in {"clear", "fill"}
     /\ \E i \in 1 .. tier["scheduler"] - 1 : TierSeq[i] = t

\* A node has the rank at which the last statement rewards it, but while updateInfinitynodeList
\* is between the statements of its tier and the ranks.
RanksFollowRewards ==
  \A b \in DOMAIN mapInfinitynodes :
    LET t == Tier[b]
        rank == mapInfinitynodes[b].nRank
    IN /\ ~Stale(t)
       /\ rank # 0
       /\ rank <= lastStm[t][2]
       /\ lastStm[t][1] <= scannedTo[t]
       /\ lastStm[t][1] \in DOMAIN mapStatement[t]
       =>
         RewardAt(t, lastStm[t][1] + rank) = {b}

\* While the node is synced the list catches up with the chain: once no block comes any
\* more, every matured block has been scanned.
ListCatchesUp ==
  <>[]synced => []<>(tip > BEGIN => nLastScanHeight = tip - MATURED_LIMIT)

\* Start-up empties the map of statements, for nothing is computed before the first tip
\* is delivered.  While the node is synced a map does not stay empty: its statements are
\* back at the latest when the last one nears its end.
StatementsComeBack ==
  <>[]synced => []<>(\A t \in Tiers :
    \/ nCachedBlockHeight <= GENESIS
    \/ lastStm[t][1] \in DOMAIN mapStatement[t]
    \/ lastStm[t][1] + lastStm[t][2] - nCachedBlockHeight >= MATURED_LIMIT)

\* "Update node metadata if nHeight is bigger" (infinitynodeman.cpp): between scans a node
\* does not go by metadata at height g when its owner has sent newer metadata in the part of
\* the chain that has been scanned.
MetadataIsNewest ==
  scan = NoScan => \A b \in DOMAIN mapInfinitynodes :
    \A g, h \in mapInfinitynodes[b].nHeight + 1 .. nLastScanHeight - 1 :
      /\ g < h
      /\ {chain[g], chain[h]} \subseteq Metas
      /\ Owner[chain[h]] = Owner[b]
      => mapInfinitynodes[b].metadata # chain[g]
=============================================================================
