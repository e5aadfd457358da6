------------------------- MODULE InfinityNodeProofs -------------------------
(***************************************************************************)
(* ListMatchesChain and VotesMatchChain for any chain, any number of       *)
(* outputs, failures, restarts and resets, as long as no reorganisation    *)
(* reaches MATURED_LIMIT blocks deep (DepthAssumption).                    *)
(*                                                                         *)
(* The invariant is about what is settled: every block that a list or the  *)
(* files rest on is MATURED_LIMIT blocks below the tip, where the chain    *)
(* does not change any more.  During a scan it adds how far the loop has   *)
(* come on its own copy of the branch.  The votes need besides who holds   *)
(* cs, and which thread rests meanwhile (ControlInv).                      *)
(***************************************************************************)
EXTENDS InfinityNode, TLAPS

Chains == [Heights -> Outputs \cup {None}]

\* Every node of the list is a settled burn of the chain c with tip t.
Sound(c, t, nodes) ==
  \A b \in DOMAIN nodes : /\ "nHeight" \in DOMAIN nodes[b]
                          /\ nodes[b].nHeight \in Heights
                          /\ nodes[b].nHeight < t - MATURED_LIMIT
                          /\ c[nodes[b].nHeight] = b

\* The list has every burn from height low up to, not including, top.
Has(c, nodes, low, top) ==
  \A h \in Heights : low <= h /\ h < top /\ c[h] \in Burns => c[h] \in DOMAIN nodes

Settled(c, t, nodes, last) ==
  /\ Sound(c, t, nodes)
  /\ Has(c, nodes, FIRST, last)
  /\ last \in Nat
  /\ last # 0 => last <= t - MATURED_LIMIT

ScanType == [height : Heights, low : Heights, at : Nat, branch : Chains]

\* The loop: its branch is settled below what matures, and the list has what lies below
\* low and what the loop has passed.
Scanning(c, t, nodes, s) ==
  /\ BEGIN <= s.height
  /\ s.height <= t
  /\ s.at <= s.height
  /\ s.low = FIRST \/ s.low <= t - MATURED_LIMIT
  /\ \A h \in Heights : h < s.height - MATURED_LIMIT => s.branch[h] = c[h]
  /\ Has(c, nodes, FIRST, s.low)
  /\ \A h \in Heights : /\ s.at < h
                        /\ s.low <= h
                        /\ h < s.height - MATURED_LIMIT
                        /\ c[h] \in Burns
                        => c[h] \in DOMAIN nodes

ListInv ==
  /\ chain \in Chains
  /\ tip \in 0 .. MaxHeight
  /\ nCachedBlockHeight \in Nat
  /\ Settled(chain, tip, mapInfinitynodes, nLastScanHeight)
  /\ Settled(chain, tip, disk.nodes, disk.last)
  /\ {"nodes", "last"} \subseteq DOMAIN disk
  /\ scan = NoScan \/ (scan \in ScanType /\ Scanning(chain, tip, mapInfinitynodes, scan))

-----------------------------------------------------------------------------
(* Lemmas. *)

\* The chain goes from c with tip t to d with tip u and keeps its settled blocks.
Grows(c, t, d, u) ==
  /\ d \in Chains
  /\ u \in 0 .. MaxHeight
  /\ t <= u
  /\ \A h \in Heights : h <= t - MATURED_LIMIT => d[h] = c[h]

\* A connected block leaves settled blocks alone.
LEMMA ConnectGrows ==
  ASSUME ListInv, NEW o \in Outputs \cup {None}, ConnectBlock(o)
  PROVE  Grows(chain, tip, chain', tip')
BY DepthAssumption, SMT DEF ListInv, ConnectBlock, Grows, Heights, Chains

\* So does a reorganisation of less than MAX_REORG blocks.
LEMMA ReorganiseGrows ==
  ASSUME ListInv, NEW fork \in Heights, NEW h \in Heights, NEW o \in Outputs \cup {None},
         Reorganise(fork, h, o)
  PROVE  Grows(chain, tip, chain', tip')
<1> DEFINE kept == [g \in Heights |-> IF g <= fork THEN chain[g] ELSE None]
<1>1. chain' = [kept EXCEPT ![h] = o] /\ h > fork /\ tip' = tip + 1 /\ tip < MaxHeight
  BY SMT DEF Reorganise, ListInv, Heights
<1>2. kept \in Chains
  BY DEF ListInv, Chains
<1>3. chain' \in Chains
  BY <1>1, <1>2, SMT DEF Chains
<1>4. tip - fork < MAX_REORG
  BY DEF Reorganise
<1>5. ASSUME NEW g \in Heights, g <= tip - MATURED_LIMIT
      PROVE  chain'[g] = chain[g]
  <2>1. g <= fork
    BY <1>4, <1>5, DepthAssumption, SMT DEF Heights, ListInv
  <2> QED
    BY <1>1, <2>1, SMT DEF Heights
<1> QED
  BY <1>1, <1>3, <1>5, DepthAssumption, SMT DEF Grows, ListInv

\* What is settled stays settled while the chain grows.
LEMMA SettledGrows ==
  ASSUME NEW c, NEW t \in 0 .. MaxHeight, NEW d, NEW u, Grows(c, t, d, u),
         NEW nodes, NEW last, Settled(c, t, nodes, last)
  PROVE  Settled(d, u, nodes, last)
<1>1. Sound(d, u, nodes)
  BY DepthAssumption, SMT DEF Grows, Settled, Sound, Heights
<1>2. Has(d, nodes, FIRST, last)
  BY DepthAssumption, SMT DEF Grows, Settled, Has, Heights
<1> QED
  BY <1>1, <1>2, DepthAssumption, SMT DEF Grows, Settled

\* And so does what a scan rests on.
LEMMA ScanningGrows ==
  ASSUME NEW c, NEW t \in 0 .. MaxHeight, NEW d, NEW u, Grows(c, t, d, u),
         NEW nodes, NEW s \in ScanType, Scanning(c, t, nodes, s)
  PROVE  Scanning(d, u, nodes, s)
<1>1. \A h \in Heights : h < s.height - MATURED_LIMIT => d[h] = c[h]
  BY DepthAssumption, SMT DEF Grows, Scanning, ScanType, Heights
<1>2. Has(d, nodes, FIRST, s.low)
  BY DepthAssumption, SMT DEF Grows, Scanning, ScanType, Has, Heights
<1>3. /\ BEGIN <= s.height
      /\ s.height <= u
      /\ s.at <= s.height
      /\ s.low = FIRST \/ s.low <= u - MATURED_LIMIT
  BY DepthAssumption, SMT DEF Grows, Scanning, ScanType, Heights
<1> QED
  BY <1>1, <1>2, <1>3, SMT DEF Scanning

\* The call of buildInfinitynodeList, from the first block or from nLastScanHeight.
LEMMA BuildSettles ==
  ASSUME ListInv, NEW H \in Nat, NEW L \in Nat,
         L = BEGIN \/ (L = nLastScanHeight /\ nLastScanHeight # 0),
         Build(H, L), UNCHANGED <<chain, tip, nCachedBlockHeight, disk>>
  PROVE  ListInv'
<1> USE DepthAssumption
<1> DEFINE clears == L = BEGIN \/ H < BEGIN
           new == [height |-> H, low |-> IF L = BEGIN THEN FIRST ELSE nLastScanHeight,
                   at |-> H,
                   branch |-> [h \in Heights |-> IF h <= H THEN chain[h] ELSE None]]
<1>1. Settled(chain, tip, mapInfinitynodes, nLastScanHeight)
  BY DEF ListInv
<1>2. Settled(chain, tip, mapInfinitynodes', nLastScanHeight')
  <2>1. CASE clears
    <3>1. mapInfinitynodes' = Empty /\ nLastScanHeight' = 0
      BY <2>1 DEF Build
    <3> QED
      BY <3>1, SMT DEF Settled, Sound, Has, Empty, Heights
  <2>2. CASE ~clears
    BY <1>1, <2>2 DEF Build
  <2> QED
    BY <2>1, <2>2
<1>3. CASE scan' = NoScan
  BY <1>2, <1>3 DEF ListInv
<1>4. CASE scan' # NoScan
  <2>1. scan' = new /\ BEGIN <= H /\ H <= tip
    BY <1>4, SMT DEF Build, ListInv
  <2>2. H \in Heights
    BY <2>1, SMT DEF ListInv, Heights
  <2>3. new.low \in Heights
    BY <1>1, <2>2, <2>1, SMT DEF ListInv, Heights, Settled
  <2>4. new.branch \in Chains
    BY DEF ListInv, Chains
  <2>5. new \in ScanType
    BY <2>2, <2>3, <2>4, SMT DEF ScanType, Heights
  <2>6. Has(chain, mapInfinitynodes', FIRST, new.low)
    <3>1. CASE L = BEGIN
      BY <3>1, SMT DEF Has, Heights
    <3>2. CASE L # BEGIN
      <4>1. mapInfinitynodes' = mapInfinitynodes /\ new.low = nLastScanHeight
        BY <2>1, <3>2, SMT DEF Build
      <4> QED
        BY <1>1, <4>1 DEF Settled
    <3> QED
      BY <3>1, <3>2
  <2>7. new.low = FIRST \/ new.low <= tip - MATURED_LIMIT
    BY <1>1 DEF Settled
  <2>8. Scanning(chain, tip, mapInfinitynodes', new)
    BY <2>1, <2>2, <2>6, <2>7, SMT DEF Scanning, Heights
  <2> QED
    BY <1>2, <2>1, <2>5, <2>8 DEF ListInv
<1> QED
  BY <1>3, <1>4

\* Ranks and metadata leave the heights of a list alone.
SameHeights(f, g) ==
  /\ DOMAIN f = DOMAIN g
  /\ \A b \in DOMAIN f : "nHeight" \in DOMAIN f[b] /\ f[b].nHeight = g[b].nHeight

\* A step that keeps the listed nodes and their heights keeps the list settled.
LEMMA SameHeightsSettled ==
  ASSUME NEW c, NEW t, NEW f, NEW g, NEW last, Settled(c, t, g, last), SameHeights(f, g)
  PROVE  Settled(c, t, f, last)
BY SMT DEF Settled, Sound, Has, SameHeights

\* The same for what a scan has read so far.
LEMMA SameHeightsScanning ==
  ASSUME NEW c, NEW t, NEW f, NEW g, NEW s, Scanning(c, t, g, s), SameHeights(f, g)
  PROVE  Scanning(c, t, f, s)
BY SMT DEF Scanning, Has, SameHeights

\* What leaves the heights of the list, and all else it rests on, alone.
LEMMA SameHeightsInv ==
  ASSUME ListInv, SameHeights(mapInfinitynodes', mapInfinitynodes),
         UNCHANGED <<chain, tip, nLastScanHeight, nCachedBlockHeight, scan, disk>>
  PROVE  ListInv'
<1>1. Settled(chain, tip, mapInfinitynodes', nLastScanHeight)
  BY SameHeightsSettled DEF ListInv
<1>2. scan # NoScan => Scanning(chain, tip, mapInfinitynodes', scan)
  BY SameHeightsScanning DEF ListInv
<1> QED
  BY <1>1, <1>2 DEF ListInv

\* Metadata and ranks are such changes.
LEMMA MetadataHeights ==
  ASSUME NEW c, NEW t, NEW f, Sound(c, t, f), NEW m, NEW h
  PROVE  SameHeights(updateMetadata(f, m, h), f)
BY SMT DEF SameHeights, updateMetadata, Sound

\* Ranking changes no height.
LEMMA RankHeights ==
  ASSUME NEW c, NEW t, Sound(c, t, mapInfinitynodes), NEW ty, NEW h
  PROVE  SameHeights(Ranked(mapInfinitynodes, ty, h), mapInfinitynodes)
<1> DEFINE R(b) == IF b \in Participants(ty, h) THEN RankAt(b, ty, h) ELSE 0
<1> HIDE DEF R
<1>1. Ranked(mapInfinitynodes, ty, h) =
        [b \in DOMAIN mapInfinitynodes |->
           IF Tier[b] # ty THEN mapInfinitynodes[b]
           ELSE [mapInfinitynodes[b] EXCEPT !.nRank = R(b)]]
  BY DEF Ranked, R
<1> QED
  BY <1>1, SMT DEF SameHeights, Sound

\* CInfinitynodeMan::Add of a settled burn.
LEMMA AddSettles ==
  ASSUME NEW c, NEW t, NEW f, NEW last, Settled(c, t, f, last), NEW h \in Heights,
         h < t - MATURED_LIMIT
  PROVE  Settled(c, t, Add(f, c[h], h), last)
<1> DEFINE new == [nHeight |-> h, metadata |-> None, nRank |-> 0]
           g == Add(f, c[h], h)
<1>1. DOMAIN g = DOMAIN f \cup {c[h]}
  BY SMT DEF Add, Put, Over
<1>2. \A b \in DOMAIN f : g[b] = f[b]
  BY SMT DEF Add, Put, Over
<1>3. c[h] \notin DOMAIN f => g[c[h]] = new
  BY SMT DEF Add, Put, Over
<1> HIDE DEF g
<1>4. "nHeight" \in DOMAIN new /\ new.nHeight = h
  BY SMT
<1> HIDE DEF new
<1>5. Sound(c, t, g)
  <2> SUFFICES ASSUME NEW b \in DOMAIN g
               PROVE  /\ "nHeight" \in DOMAIN g[b]
                      /\ g[b].nHeight \in Heights
                      /\ g[b].nHeight < t - MATURED_LIMIT
                      /\ c[g[b].nHeight] = b
    BY DEF Sound
  <2>1. CASE b \in DOMAIN f
    BY <1>2, <2>1 DEF Settled, Sound
  <2>2. CASE b \notin DOMAIN f
    BY <1>1, <1>3, <1>4, <2>2
  <2> QED
    BY <2>1, <2>2
<1>6. Has(c, g, FIRST, last)
  BY <1>1 DEF Settled, Has
<1> QED
  BY <1>5, <1>6 DEF Settled, g

\* One block of the scan.
LEMMA ScanBlockInv ==
  ASSUME ListInv, NEW th \in Threads, ScanBlock(th)
  PROVE  ListInv'
<1> USE DepthAssumption
<1> DEFINE s == scan
           o == scan.branch[scan.at]
           matured == IsMatured(scan.at, scan.height)
           Passed(at, nodes) == \A h \in Heights :
              /\ at < h
              /\ s.low <= h
              /\ h < s.height - MATURED_LIMIT
              /\ chain[h] \in Burns
              => chain[h] \in DOMAIN nodes
<1>1. /\ scan \in ScanType
      /\ Scanning(chain, tip, mapInfinitynodes, scan)
      /\ Settled(chain, tip, mapInfinitynodes, nLastScanHeight)
      /\ scan.at >= scan.low
      /\ scan' = [scan EXCEPT !.at = scan.at - 1]
  BY DEF ListInv, ScanBlock
<1>2. UNCHANGED <<chain, tip, nLastScanHeight, nCachedBlockHeight, disk>>
  BY DEF ScanBlock
<1>3. scan.at \in Heights /\ tip \in 0 .. MaxHeight
  BY <1>1, SMT DEF ListInv, ScanType, Scanning, Heights
<1>4. matured => scan.at < tip - MATURED_LIMIT /\ o = chain[scan.at]
  BY <1>1, <1>3, SMT DEF ScanType, Scanning, Heights, IsMatured
<1>5. /\ Settled(chain, tip, mapInfinitynodes', nLastScanHeight)
      /\ DOMAIN mapInfinitynodes \subseteq DOMAIN mapInfinitynodes'
      /\ matured /\ o \in Burns => o \in DOMAIN mapInfinitynodes'
  <2>1. CASE o \in Burns /\ matured
    <3>1. mapInfinitynodes' = Add(mapInfinitynodes, chain[scan.at], scan.at)
      BY <1>4, <2>1 DEF ScanBlock
    <3>2. /\ Settled(chain, tip, mapInfinitynodes', nLastScanHeight)
          /\ DOMAIN mapInfinitynodes' = DOMAIN mapInfinitynodes \cup {chain[scan.at]}
      <4>1. scan.at \in Heights /\ scan.at < tip - MATURED_LIMIT
        BY <1>3, <1>4, <2>1
      <4>2. Settled(chain, tip, mapInfinitynodes, nLastScanHeight)
        BY <1>1
      <4> DEFINE new == Add(mapInfinitynodes, chain[scan.at], scan.at)
      <4>3. Settled(chain, tip, new, nLastScanHeight)
        BY <4>1, <4>2, AddSettles, ZenonT(30)
      <4>4. DOMAIN new = DOMAIN mapInfinitynodes \cup {chain[scan.at]}
        BY SMT DEF Add, Put, Over
      <4> QED
        BY <3>1, <4>3, <4>4
    <3> QED
      BY <1>4, <2>1, <3>2
  <2>2. CASE ~(o \in Burns /\ matured) /\ o \in Metas
    <3>1. mapInfinitynodes' = updateMetadata(mapInfinitynodes, o, scan.at)
      BY <2>2 DEF ScanBlock
    <3>2. SameHeights(mapInfinitynodes', mapInfinitynodes)
      BY <1>1, <3>1, MetadataHeights DEF Settled
    <3> QED
      BY <1>1, <2>2, <3>2, SameHeightsSettled DEF SameHeights
  <2>3. CASE ~(o \in Burns /\ matured) /\ o \notin Metas
    BY <1>1, <2>3 DEF ScanBlock
  <2> QED
    BY <2>1, <2>2, <2>3
<1> HIDE DEF matured
<1>6. scan' \in ScanType
  BY <1>1, <1>3, SMT DEF ScanType, Heights
<1>7. /\ scan'.height = s.height
      /\ scan'.low = s.low
      /\ scan'.branch = s.branch
      /\ scan'.at = s.at - 1
  BY <1>1, SMT DEF ScanType
<1>8. Passed(s.at, mapInfinitynodes)
  BY <1>1 DEF Scanning
<1>9. Passed(s.at - 1, mapInfinitynodes')
  <2> SUFFICES ASSUME NEW h \in Heights, s.at - 1 < h, s.low <= h,
                      h < s.height - MATURED_LIMIT, chain[h] \in Burns
               PROVE  chain[h] \in DOMAIN mapInfinitynodes'
    OBVIOUS
  <2>1. CASE h = s.at
    <3>1. matured /\ o = chain[h]
      BY <1>4, <2>1 DEF matured, IsMatured
    <3> QED
      BY <1>5, <3>1
  <2>2. CASE h # s.at
    <3>1. s.at < h
      BY <1>3, <2>2, SMT DEF Heights
    <3> QED
      BY <1>5, <1>8, <3>1
  <2> QED
    BY <2>1, <2>2
<1>10. Has(chain, mapInfinitynodes', FIRST, s.low)
  BY <1>1, <1>5 DEF Scanning, Has
<1>11. Scanning(chain, tip, mapInfinitynodes', scan')
  <2>1. s.at - 1 <= s.height
    BY <1>1, <1>3, SMT DEF ScanType, Scanning, Heights
  <2> QED
    BY <1>1, <1>7, <1>9, <1>10, <2>1 DEF Scanning
<1> QED
  BY <1>2, <1>5, <1>6, <1>11 DEF ListInv

\* The end of the scan: what is below the new nLastScanHeight is in the list.
LEMMA FinishScanInv ==
  ASSUME ListInv, NEW th \in Threads, FinishScan(th)
  PROVE  ListInv'
<1> USE DepthAssumption
<1> DEFINE last == scan.height - MATURED_LIMIT
<1>1. /\ scan \in ScanType
      /\ Scanning(chain, tip, mapInfinitynodes, scan)
      /\ Settled(chain, tip, mapInfinitynodes, nLastScanHeight)
      /\ scan.at < scan.low
      /\ tip \in 0 .. MaxHeight
  BY DEF ListInv, FinishScan
<1>2. Has(chain, mapInfinitynodes, FIRST, last)
  <2> SUFFICES ASSUME NEW h \in Heights, FIRST <= h, h < last, chain[h] \in Burns
               PROVE  chain[h] \in DOMAIN mapInfinitynodes
    BY DEF Has
  <2>1. CASE h < scan.low
    BY <1>1, <2>1 DEF Scanning, Has
  <2>2. CASE scan.low <= h
    <3>1. scan.at < h
      BY <1>1, <2>2, SMT DEF ScanType, Heights
    <3> QED
      BY <1>1, <2>2, <3>1 DEF Scanning
  <2> QED
    BY <1>1, <2>1, <2>2, SMT DEF ScanType, Heights
<1>3. last \in Nat /\ last <= tip - MATURED_LIMIT
  BY <1>1, SMT DEF ScanType, Scanning, Heights
<1>4. Settled(chain, tip, mapInfinitynodes, last)
  BY <1>1, <1>2, <1>3 DEF Settled
<1>5. /\ nLastScanHeight' = last
      /\ scan' = NoScan
      /\ UNCHANGED <<chain, tip, mapInfinitynodes, nCachedBlockHeight>>
  BY DEF FinishScan
<1>6. /\ disk'.nodes = mapInfinitynodes
      /\ disk'.last = last
      /\ {"nodes", "last"} \subseteq DOMAIN disk'
  BY SMT DEF FinishScan, ListInv
<1> QED
  BY <1>4, <1>5, <1>6 DEF ListInv

\* A restart takes up the files, which are settled like the list.
LEMMA RestartInv ==
  ASSUME ListInv, NEW clean \in BOOLEAN, Restart(clean)
  PROVE  ListInv'
<1> DEFINE saved == IF clean THEN Saved(mapInfinitynodes, nLastScanHeight, statements,
                                        mapProposalVotes)
                    ELSE disk
<1>1. /\ Settled(chain, tip, saved.nodes, saved.last)
      /\ {"nodes", "last"} \subseteq DOMAIN saved
  <2>1. CASE clean = TRUE
    <3>1. saved = Saved(mapInfinitynodes, nLastScanHeight, statements, mapProposalVotes)
      BY <2>1
    <3>2. saved.nodes = mapInfinitynodes /\ saved.last = nLastScanHeight
      BY <3>1, SMT DEF Saved
    <3>3. {"nodes", "last"} \subseteq DOMAIN saved
      BY <3>1, SMT DEF Saved
    <3> QED
      BY <3>2, <3>3 DEF ListInv
  <2>2. CASE clean = FALSE
    <3>1. saved = disk
      BY <2>2
    <3> QED
      BY <3>1 DEF ListInv
  <2> HIDE DEF saved
  <2> QED
    BY <2>1, <2>2, Zenon
<1>2. /\ disk' = saved
      /\ mapInfinitynodes' =
           [b \in DOMAIN saved.nodes |-> [saved.nodes[b] EXCEPT !.nRank = 0]]
      /\ nLastScanHeight' = saved.last
      /\ nCachedBlockHeight' = 0
      /\ scan' = NoScan
      /\ UNCHANGED <<chain, tip>>
  BY DEF Restart
<1> HIDE DEF saved
<1>3. SameHeights(mapInfinitynodes', saved.nodes)
  BY <1>1, <1>2, SMT DEF SameHeights, Settled, Sound
<1>4. Settled(chain, tip, mapInfinitynodes', nLastScanHeight')
  BY <1>1, <1>2, <1>3, SameHeightsSettled
<1> QED
  BY <1>1, <1>2, <1>4, 0 \in Nat DEF ListInv

\* A call of buildInfinitynodeList, from the first block or from nLastScanHeight.
Called ==
  \E H, L \in Nat : /\ L = BEGIN \/ (L = nLastScanHeight /\ nLastScanHeight # 0)
                    /\ Build(H, L)

\* The two entrances of the scheduler thread to buildInfinitynodeList and that of the
\* maintenance thread.
LEMMA Callers ==
  ASSUME ListInv, CheckAndRemove \/ AppInit \/ \E h \in Heights : UpdateList(h)
  PROVE  /\ Called \/ UNCHANGED <<list, scan>>
         /\ UNCHANGED <<chain, tip, nCachedBlockHeight, disk, torn, statements>>
<1>1. nLastScanHeight \in Nat /\ nCachedBlockHeight \in Nat /\ tip \in Nat /\ BEGIN \in Nat
  BY DepthAssumption, SMT DEF ListInv, Settled
<1>2. ASSUME CheckAndRemove PROVE Called \/ UNCHANGED <<list, scan>>
  <2>1. \/ Build(nCachedBlockHeight, BEGIN)
        \/ Build(nCachedBlockHeight, nLastScanHeight) /\ nLastScanHeight > 0
        \/ UNCHANGED <<list, scan>>
    BY <1>2, Zenon DEF CheckAndRemove
  <2>2. nLastScanHeight > 0 => nLastScanHeight # 0
    BY <1>1, SMT
  <2> QED
    BY <1>1, <2>1, <2>2, Zenon DEF Called
<1>3. ASSUME AppInit PROVE Called \/ UNCHANGED <<list, scan>>
  BY <1>1, <1>3, Zenon DEF AppInit, Called
<1>4. ASSUME NEW h \in Heights, UpdateList(h) PROVE Called \/ UNCHANGED <<list, scan>>
  <2>1. h \in Nat
    BY SMT DEF Heights
  <2> QED
    BY <1>1, <1>4, <2>1, Zenon DEF UpdateList, Called
<1>5. UNCHANGED <<chain, tip, nCachedBlockHeight, disk, torn, statements>>
  BY Zenon DEF CheckAndRemove, AppInit, UpdateList
<1> QED
  BY <1>2, <1>3, <1>4, <1>5

\* They keep the invariant.
LEMMA CallersInv ==
  ASSUME ListInv, CheckAndRemove \/ AppInit \/ \E h \in Heights : UpdateList(h)
  PROVE  ListInv'
<1>1. UNCHANGED <<chain, tip, nCachedBlockHeight, disk>>
  BY Callers
<1>2. CASE UNCHANGED <<list, scan>>
  BY <1>1, <1>2 DEF ListInv, list
<1>3. CASE Called
  BY <1>1, <1>3, BuildSettles DEF Called
<1> QED
  BY <1>2, <1>3, Callers

\* The invariant holds in the first state.
LEMMA ListInvInit == Init => ListInv
<1> SUFFICES ASSUME Init PROVE ListInv
  OBVIOUS
<1> USE DepthAssumption
<1>1. Settled(chain, tip, Empty, 0)
  BY SMT DEF Settled, Sound, Has, Empty, Heights
<1>2. /\ disk.nodes = Empty
      /\ disk.last = 0
      /\ {"nodes", "last"} \subseteq DOMAIN disk
  BY SMT DEF Init, Saved
<1>3. chain \in Chains /\ tip \in 0 .. MaxHeight
  BY SMT DEF Init, Chains
<1> QED
  BY <1>1, <1>2, <1>3, 0 \in Nat DEF Init, ListInv

\* Every step keeps it.
LEMMA ListInvStep == ListInv /\ [Next]_vars => ListInv'
<1> SUFFICES ASSUME ListInv, [Next]_vars PROVE ListInv'
  OBVIOUS
<1> USE DepthAssumption
<1>1. ASSUME Grows(chain, tip, chain', tip'),
             UNCHANGED <<list, nCachedBlockHeight, scan, disk>>
      PROVE  ListInv'
  <2>1. Settled(chain', tip', mapInfinitynodes, nLastScanHeight)
    BY <1>1, SettledGrows DEF ListInv
  <2>2. Settled(chain', tip', disk.nodes, disk.last)
    BY <1>1, SettledGrows DEF ListInv
  <2>3. scan = NoScan \/ (scan \in ScanType /\ Scanning(chain', tip', mapInfinitynodes, scan))
    BY <1>1, ScanningGrows DEF ListInv
  <2> QED
    BY <1>1, <2>1, <2>2, <2>3 DEF ListInv, Grows, list
<1>2. ASSUME NEW o \in Outputs \cup {None}, ConnectBlock(o) PROVE ListInv'
  <2>1. Grows(chain, tip, chain', tip')
    BY <1>2, ConnectGrows
  <2> QED
    BY <1>1, <1>2, <2>1 DEF ConnectBlock
<1>3. ASSUME NEW fork \in Heights, NEW h \in Heights, NEW o \in Outputs \cup {None},
             Reorganise(fork, h, o)
      PROVE  ListInv'
  BY <1>1, <1>3, ReorganiseGrows DEF Reorganise
<1>4. ASSUME NEW th \in Threads, ScanFails(th) PROVE ListInv'
  BY <1>4 DEF ScanFails, ListInv, list
<1>5. ASSUME NEW th \in Threads, DumpVotes(th) PROVE ListInv'
  <2>1. /\ disk'.nodes = disk.nodes
        /\ disk'.last = disk.last
        /\ {"nodes", "last"} \subseteq DOMAIN disk'
    BY <1>5, SMT DEF DumpVotes, ListInv
  <2>2. UNCHANGED <<chain, tip, list, nCachedBlockHeight, scan>>
    BY <1>5 DEF DumpVotes
  <2> QED
    BY <2>1, <2>2 DEF ListInv, list
<1>6. Sound(chain, tip, mapInfinitynodes)
  BY DEF ListInv, Settled
<1>7. CASE NewStatement
  <2>1. SameHeights(mapInfinitynodes', mapInfinitynodes)
    <3>1. SameHeights(mapInfinitynodes, mapInfinitynodes)
      BY <1>6 DEF SameHeights, Sound
    <3>2. \/ mapInfinitynodes' = mapInfinitynodes
          \/ \E t, h : mapInfinitynodes' = Ranked(mapInfinitynodes, t, h)
      BY <1>7, Zenon DEF NewStatement
    <3> QED
      BY <1>6, <3>1, <3>2, RankHeights
  <2>2. UNCHANGED <<chain, tip, nLastScanHeight, nCachedBlockHeight, scan, disk>>
    BY <1>7 DEF NewStatement
  <2> QED
    BY <2>1, <2>2, SameHeightsInv
<1>8. CASE RankAll
  <2>1. \A b \in DOMAIN mapInfinitynodes :
          mapInfinitynodes'[b] = Ranked(mapInfinitynodes, Tier[b], lastStm[Tier[b]][1])[b]
    BY <1>8 DEF RankAll
  <2>2. DOMAIN mapInfinitynodes' = DOMAIN mapInfinitynodes
    BY <1>8 DEF RankAll
  <2>3. SameHeights(mapInfinitynodes', mapInfinitynodes)
    BY <1>6, <2>1, <2>2, RankHeights DEF SameHeights
  <2>4. UNCHANGED <<chain, tip, nLastScanHeight, nCachedBlockHeight, scan, disk>>
    BY <1>8 DEF RankAll
  <2> QED
    BY <2>3, <2>4, SameHeightsInv
<1>9. ASSUME NEW t \in Tiers, NEW h \in Heights, ShowCandidate(t, h) PROVE ListInv'
  <2>1. SameHeights(mapInfinitynodes', mapInfinitynodes)
    <3>1. mapInfinitynodes' = [b \in DOMAIN mapInfinitynodes |->
            IF Tier[b] = t THEN [mapInfinitynodes[b] EXCEPT !.nRank = 0]
            ELSE mapInfinitynodes[b]]
      BY <1>9 DEF ShowCandidate
    <3> QED
      BY <1>6, <3>1, SMT DEF SameHeights, Sound
  <2>2. UNCHANGED <<chain, tip, nLastScanHeight, nCachedBlockHeight, scan, disk>>
    BY <1>9 DEF ShowCandidate
  <2> QED
    BY <2>1, <2>2, SameHeightsInv
<1>10. ASSUME NEW h \in Heights, UpdatedBlockTip(h) PROVE ListInv'
  <2>1. h \in Nat
    BY SMT DEF Heights
  <2> QED
    BY <1>10, <2>1 DEF UpdatedBlockTip, ListInv, list
<1>11. CASE ClearStatement
  BY <1>11 DEF ClearStatement, ListInv, list
<1>12. CASE FillStatement
  BY <1>12 DEF FillStatement, ListInv, list
<1>13. CASE Reset
  BY <1>13 DEF Reset, ListInv, list
<1>14. CASE UNCHANGED vars
  BY <1>14 DEF vars, ListInv, list
<1> QED
  BY <1>2, <1>3, <1>4, <1>5, <1>7, <1>8, <1>9, <1>10, <1>11, <1>12, <1>13, <1>14,
     ScanBlockInv, FinishScanInv, RestartInv, CallersInv, Zenon DEF Next

\* The matured list is that of the active chain: what it has is on the chain at the height
\* recorded for it, and it lacks no burn below nLastScanHeight.  For every number of blocks,
\* nodes, failed scans, restarts and resets, and with reorganisations of less than
\* MAX_REORG <= MATURED_LIMIT blocks at any time, also in the middle of a scan.
THEOREM ListIsSettled == Spec => []ListMatchesChain
<1>1. ListInv => ListMatchesChain
  <2> SUFFICES ASSUME ListInv PROVE ListMatchesChain
    OBVIOUS
  <2>1. Settled(chain, tip, mapInfinitynodes, nLastScanHeight) /\ tip \in 0 .. MaxHeight
    BY DEF ListInv
  <2>2. \A b \in DOMAIN mapInfinitynodes : chain[mapInfinitynodes[b].nHeight] = b
    BY <2>1 DEF Settled, Sound
  <2>3. ASSUME NEW h \in FIRST .. nLastScanHeight - 1, chain[h] \in Burns
        PROVE  chain[h] \in DOMAIN mapInfinitynodes
    <3>1. h \in Heights /\ FIRST <= h /\ h < nLastScanHeight
      BY <2>1, DepthAssumption, SMT DEF Settled, Heights
    <3> QED
      BY <2>1, <2>3, <3>1 DEF Settled, Has
  <2> QED
    BY <2>2, <2>3 DEF ListMatchesChain
<1> QED
  BY <1>1, ListInvInit, ListInvStep, PTL DEF Spec

-----------------------------------------------------------------------------
(* The threads and the lock cs. *)

Holding == {"scan", "scanOnly", "dump", "dumpOnly", "statement"}
Updating == {"clear", "fill", "rank"}

\* A thread holds cs in the middle of a call of buildInfinitynodeList or of CheckAndRemove.
\* The maintenance thread rests while the node starts and while updateInfinitynodeList
\* computes statements.
LockInv ==
  /\ cs \in Threads \cup {Free}
  /\ pc \in [Threads -> Holding \cup Updating \cup {"init", "idle"}]
  /\ tier \in [Threads -> 1 .. Len(TierSeq)]
  /\ \A th \in Threads : cs = th <=> pc[th] \in Holding
  /\ scan # NoScan => cs \in Threads /\ pc[cs] \in {"scan", "scanOnly"}
  /\ pc["maintenance"] \in Holding \cup {"idle"}
  /\ pc["scheduler"] # "statement"
  /\ pc["scheduler"] \in Updating \cup {"init"} => pc["maintenance"] = "idle"

\* It rests because the node counts as not synced for that time.
FlagInv ==
  /\ synced \in BOOLEAN
  /\ torn \in BOOLEAN
  /\ pc["scheduler"] \in Updating => synced = FALSE

ControlInv == LockInv /\ FlagInv

\* The invariant holds in the first state.
LEMMA ControlInvInit == Init => ControlInv
<1> SUFFICES ASSUME Init PROVE ControlInv
  OBVIOUS
<1>1. LockInv
  <2>1. /\ cs = Free
        /\ scan = NoScan
        /\ pc = [th \in Threads |-> IF th = "scheduler" THEN "init" ELSE "idle"]
        /\ tier = [th \in Threads |-> 1]
    BY DEF Init
  <2> QED
    BY <2>1, TierAssumption, SMT DEF LockInv, Holding, Updating, Threads, Free
<1>2. FlagInv
  <2>1. synced = FALSE /\ torn = FALSE
    BY DEF Init
  <2> QED
    BY <2>1, Zenon DEF FlagInv
<1> QED
  BY <1>1, <1>2 DEF ControlInv

\* The return to the caller of buildInfinitynodeList.
LEMMA ReturnLocks ==
  ASSUME LockInv, NEW th \in Threads, cs = th, scan' = NoScan,
         pc[th] \in {"scan", "scanOnly", "dump", "dumpOnly"}, NEW result,
         Return(th, pc[th], result)
  PROVE  LockInv'
<1>1. /\ pc' \in {[pc EXCEPT ![th] = "idle"], [pc EXCEPT ![th] = "clear"],
                  [pc EXCEPT ![th] = "statement"]}
      /\ pc' = [pc EXCEPT ![th] = "statement"] => cs' = th /\ th = "maintenance"
      /\ pc' # [pc EXCEPT ![th] = "statement"] => cs' = Free
      /\ pc' = [pc EXCEPT ![th] = "clear"] => th = "scheduler"
      /\ tier' = tier \/ tier' = [tier EXCEPT ![th] = 1]
  BY DEF Return, Goto, Threads, LockInv
<1> QED
  BY <1>1, TierAssumption, SMT DEF LockInv, Holding, Updating, Threads, Free

\* Where the flags stand after it.
LEMMA ReturnFlags ==
  ASSUME FlagInv, LockInv, NEW th \in Threads, torn' = torn, NEW result \in BOOLEAN,
         pc[th] \in Holding, Return(th, pc[th], result)
  PROVE  FlagInv'
<1>1. CASE th = "maintenance"
  <2>1. synced' = synced
    BY <1>1, Zenon DEF Return
  <2>2. pc'["scheduler"] = pc["scheduler"]
    BY <1>1, SMT DEF Return, Goto, LockInv, Threads
  <2> QED
    BY <2>1, <2>2 DEF FlagInv
<1>2. CASE th = "scheduler"
  <2>1. \/ synced' = synced /\ pc' = [pc EXCEPT ![th] = "idle"]
        \/ synced' = ~result /\ pc' = [pc EXCEPT ![th] = IF result THEN "clear" ELSE "idle"]
    BY <1>2, Zenon DEF Return, Goto
  <2>2. ASSUME pc' = [pc EXCEPT ![th] = "idle"] PROVE pc'["scheduler"] \notin Updating
    BY <1>2, <2>2, SMT DEF LockInv, Updating, Threads
  <2>3. CASE result = TRUE
    BY <2>1, <2>2, <2>3, Zenon DEF FlagInv
  <2>4. CASE result = FALSE
    BY <2>1, <2>2, <2>4, Zenon DEF FlagInv
  <2> QED
    BY <2>3, <2>4, Zenon
<1> QED
  BY <1>1, <1>2 DEF Threads

\* A step that leaves the threads alone and begins no scan.
LEMMA SameControl ==
  ASSUME ControlInv, UNCHANGED threads, scan' # NoScan => scan # NoScan,
         synced' = synced \/ synced' = FALSE, torn' = torn
  PROVE  ControlInv'
<1>1. LockInv'
  BY DEF ControlInv, LockInv, threads
<1>2. FlagInv'
  BY Zenon DEF ControlInv, FlagInv, threads
<1> QED
  BY <1>1, <1>2 DEF ControlInv

\* The scan and the dumps.
LEMMA ScanControl ==
  ASSUME ControlInv, NEW th \in Threads,
         ScanBlock(th) \/ ScanFails(th) \/ FinishScan(th) \/ DumpVotes(th)
  PROVE  ControlInv'
<1> USE DEF ControlInv
<1>1. CASE ScanBlock(th)
  BY <1>1, SameControl DEF ScanBlock
<1>2. CASE ScanFails(th)
  <2>1. /\ Return(th, pc[th], FALSE)
        /\ cs = th
        /\ pc[th] \in {"scan", "scanOnly"}
        /\ scan' = NoScan
        /\ torn' = torn
    BY <1>2, Zenon DEF ScanFails, LockInv
  <2>2. pc[th] \in {"scan", "scanOnly", "dump", "dumpOnly"} /\ pc[th] \in Holding
    BY <2>1 DEF Holding
  <2>3. LockInv'
    BY <2>1, <2>2, ReturnLocks, Zenon
  <2>4. FlagInv'
    BY <2>1, <2>2, ReturnFlags, Zenon
  <2> QED
    BY <2>3, <2>4
<1>3. CASE FinishScan(th)
  <2>1. /\ pc' = [pc EXCEPT ![th] = "dump"] \/ pc' = [pc EXCEPT ![th] = "dumpOnly"]
        /\ cs = th
        /\ scan' = NoScan
        /\ UNCHANGED <<cs, tier, synced, torn>>
    BY <1>3, Zenon DEF FinishScan, Goto
  <2>2. LockInv'
    BY <2>1, SMT DEF LockInv, Holding, Updating, Threads, Free
  <2>3. pc'["scheduler"] \in Updating => pc["scheduler"] \in Updating
    BY <2>1, SMT DEF LockInv, Updating, Threads
  <2> QED
    BY <2>1, <2>2, <2>3 DEF FlagInv
<1>4. CASE DumpVotes(th)
  <2>1. /\ Return(th, pc[th], TRUE)
        /\ pc[th] \in {"dump", "dumpOnly"}
        /\ scan' = scan
        /\ torn' = torn
    BY <1>4, Zenon DEF DumpVotes
  <2>2. pc[th] \in {"scan", "scanOnly", "dump", "dumpOnly"} /\ pc[th] \in Holding
    BY <2>1 DEF Holding
  <2>3. cs = th /\ scan' = NoScan
    BY <2>1, <2>2, SMT DEF LockInv
  <2>4. LockInv'
    BY <2>1, <2>2, <2>3, ReturnLocks, Zenon
  <2>5. FlagInv'
    BY <2>1, <2>2, ReturnFlags, Zenon
  <2> QED
    BY <2>4, <2>5
<1> QED
  BY <1>1, <1>2, <1>3, <1>4

\* The calls of buildInfinitynodeList.
LEMMA CallersControl ==
  ASSUME ControlInv, CheckAndRemove \/ AppInit \/ \E h \in Heights : UpdateList(h)
  PROVE  ControlInv'
<1> USE DEF ControlInv
<1>1. CASE CheckAndRemove
  <2>1. /\ pc["maintenance"] = "idle"
        /\ pc["scheduler"] # "init"
        /\ synced
        /\ cs = Free
        /\ UNCHANGED <<synced, torn>>
        /\ \/ scan' = NoScan /\ UNCHANGED threads
           \/ /\ cs' = "maintenance"
              /\ pc' = [pc EXCEPT !["maintenance"] = "scanOnly"]
              /\ tier' = tier
           \/ /\ cs' = "maintenance"
              /\ pc' = [pc EXCEPT !["maintenance"] = IF scan' = NoScan THEN "statement"
                                                     ELSE "scan"]
              /\ tier' = [tier EXCEPT !["maintenance"] = 1]
           \/ /\ cs' = "maintenance"
              /\ pc' = [pc EXCEPT !["maintenance"] = "statement"]
              /\ tier' = [tier EXCEPT !["maintenance"] = 1]
              /\ scan' = scan
    BY <1>1, Zenon DEF CheckAndRemove, Goto
  <2>2. pc["scheduler"] \notin Updating
    BY <2>1, Zenon DEF FlagInv
  <2>3. scan = NoScan
    BY <2>1, SMT DEF LockInv, Threads, Free
  <2>4. LockInv'
    BY <2>1, <2>2, <2>3, TierAssumption, SMT
       DEF LockInv, Holding, Updating, Threads, Free, threads
  <2>5. pc'["scheduler"] = pc["scheduler"]
    BY <2>1, SMT DEF LockInv, Threads, threads
  <2> QED
    BY <2>1, <2>4, <2>5, Zenon DEF FlagInv
<1>2. CASE AppInit
  <2>1. /\ pc["scheduler"] = "init"
        /\ UNCHANGED <<tier, synced, torn>>
        /\ \/ pc' = [pc EXCEPT !["scheduler"] = "idle"] /\ UNCHANGED <<scan, cs>>
           \/ pc' = [pc EXCEPT !["scheduler"] = "idle"] /\ scan' = NoScan /\ cs' = cs
           \/ pc' = [pc EXCEPT !["scheduler"] = "scanOnly"] /\ cs' = "scheduler"
    BY <1>2, Zenon DEF AppInit, Goto
  <2>2. cs = Free
    BY <2>1, SMT DEF LockInv, Holding, Threads, Free
  <2>3. LockInv'
    BY <2>1, <2>2, SMT DEF LockInv, Holding, Updating, Threads, Free
  <2>4. pc'["scheduler"] \notin Updating
    BY <2>1, SMT DEF LockInv, Updating, Threads
  <2> QED
    BY <2>1, <2>3, <2>4, Zenon DEF FlagInv
<1>3. ASSUME NEW h \in Heights, UpdateList(h) PROVE ControlInv'
  <2>1. /\ pc["scheduler"] = "idle"
        /\ cs = Free
        /\ torn' = torn
        /\ \/ UNCHANGED <<scan, threads>> /\ synced' = TRUE
           \/ /\ cs' = "scheduler"
              /\ pc' = [pc EXCEPT !["scheduler"] = "scan"]
              /\ UNCHANGED <<tier, synced>>
           \/ scan' = NoScan /\ Return("scheduler", "scan", BuildReturns(h))
    BY <1>3, Zenon DEF UpdateList, Goto
  <2>2. CASE UNCHANGED <<scan, threads>> /\ synced' = TRUE
    <3>1. LockInv'
      BY <2>2 DEF LockInv, threads
    <3>2. pc'["scheduler"] \notin Updating
      BY <2>1, <2>2, SMT DEF Updating, threads
    <3> QED
      BY <2>1, <2>2, <3>1, <3>2, Zenon DEF FlagInv
  <2>3. CASE /\ cs' = "scheduler"
             /\ pc' = [pc EXCEPT !["scheduler"] = "scan"]
             /\ UNCHANGED <<tier, synced>>
    <3>1. LockInv'
      BY <2>1, <2>3, SMT DEF LockInv, Holding, Updating, Threads, Free
    <3>2. pc'["scheduler"] \notin Updating
      BY <2>3, SMT DEF Updating, LockInv, Threads
    <3> QED
      BY <2>1, <2>3, <3>1, <3>2, Zenon DEF FlagInv
  <2>4. CASE scan' = NoScan /\ Return("scheduler", "scan", BuildReturns(h))
    <3>1. /\ cs' = Free
          /\ tier' = [tier EXCEPT !["scheduler"] = 1]
          /\ \/ pc' = [pc EXCEPT !["scheduler"] = "clear"] /\ synced' = FALSE
             \/ pc' = [pc EXCEPT !["scheduler"] = "idle"] /\ synced' = TRUE
      <4>1. "scheduler" # "maintenance" /\ "scan" \notin {"scanOnly", "dumpOnly"}
        BY SMT
      <4>2. /\ cs' = Free
            /\ tier' = [tier EXCEPT !["scheduler"] = 1]
            /\ pc' = [pc EXCEPT !["scheduler"] = IF BuildReturns(h) THEN "clear" ELSE "idle"]
            /\ synced' = ~BuildReturns(h)
        BY <2>4, <4>1, Zenon DEF Return, Goto
      <4>3. CASE BuildReturns(h)
        BY <4>2, <4>3, Zenon
      <4>4. CASE ~BuildReturns(h)
        BY <4>2, <4>4, Zenon
      <4> QED
        BY <4>3, <4>4, Zenon
    <3>2. LockInv'
      BY <2>1, <2>4, <3>1, TierAssumption, SMT
         DEF LockInv, Holding, Updating, Threads, Free
    <3>3. pc' = [pc EXCEPT !["scheduler"] = "idle"] => pc'["scheduler"] \notin Updating
      BY SMT DEF Updating, LockInv, Threads
    <3> QED
      BY <2>1, <3>1, <3>2, <3>3, Zenon DEF FlagInv
  <2> QED
    BY <2>1, <2>2, <2>3, <2>4, Zenon
<1> QED
  BY <1>1, <1>2, <1>3

\* Every step keeps the invariant.
LEMMA ControlInvStep == ControlInv /\ [Next]_vars => ControlInv'
<1> SUFFICES ASSUME ControlInv, [Next]_vars PROVE ControlInv'
  OBVIOUS
<1>1. ASSUME NEW o \in Outputs \cup {None}, ConnectBlock(o) PROVE ControlInv'
  BY <1>1, SameControl DEF ConnectBlock
<1>2. ASSUME NEW fork \in Heights, NEW h \in Heights, NEW o \in Outputs \cup {None},
             Reorganise(fork, h, o)
      PROVE  ControlInv'
  BY <1>2, SameControl DEF Reorganise
<1>3. CASE NewStatement
  <2>1. /\ pc["maintenance"] = "statement"
        /\ UNCHANGED <<scan, synced, torn>>
        /\ \/ /\ tier["maintenance"] < Len(TierSeq)
              /\ tier' = [tier EXCEPT !["maintenance"] = tier["maintenance"] + 1]
              /\ UNCHANGED <<cs, pc>>
           \/ /\ cs' = Free
              /\ pc' = [pc EXCEPT !["maintenance"] = "idle"]
              /\ UNCHANGED tier
    BY <1>3, Zenon DEF NewStatement, Goto
  <2>2. LockInv /\ FlagInv
    BY DEF ControlInv
  <2>3. scan = NoScan
    BY <2>1, <2>2, SMT DEF LockInv, Holding, Threads, Free
  <2>4. LockInv'
    BY <2>1, <2>2, <2>3, TierAssumption, SMT DEF LockInv, Holding, Updating, Threads, Free
  <2>5. pc'["scheduler"] = pc["scheduler"]
    BY <2>1, <2>2, SMT DEF LockInv, Threads
  <2> QED
    BY <2>1, <2>2, <2>4, <2>5, Zenon DEF ControlInv, FlagInv
<1>4. CASE ClearStatement \/ FillStatement \/ RankAll
  <2>1. /\ pc["scheduler"] \in Updating
        /\ UNCHANGED <<scan, cs, torn>>
        /\ \/ /\ pc' = [pc EXCEPT !["scheduler"] = "fill"]
              /\ UNCHANGED <<tier, synced>>
           \/ /\ pc' = [pc EXCEPT !["scheduler"] = "clear"]
              /\ tier["scheduler"] < Len(TierSeq)
              /\ tier' = [tier EXCEPT !["scheduler"] = tier["scheduler"] + 1]
              /\ UNCHANGED synced
           \/ /\ pc' = [pc EXCEPT !["scheduler"] = "rank"]
              /\ UNCHANGED <<tier, synced>>
           \/ /\ pc' = [pc EXCEPT !["scheduler"] = "idle"]
              /\ synced' = TRUE
              /\ UNCHANGED tier
    BY <1>4, Zenon DEF ClearStatement, FillStatement, RankAll, Goto, Updating
  <2>2. LockInv /\ FlagInv
    BY DEF ControlInv
  <2>3. LockInv'
    BY <2>1, <2>2, TierAssumption, SMT DEF LockInv, Holding, Updating, Threads, Free
  <2>4. pc' = [pc EXCEPT !["scheduler"] = "idle"] => pc'["scheduler"] \notin Updating
    BY <2>2, SMT DEF Updating, LockInv, Threads
  <2> QED
    BY <2>1, <2>2, <2>3, <2>4, Zenon DEF ControlInv, FlagInv
<1>5. ASSUME NEW t \in Tiers, NEW h \in Heights, ShowCandidate(t, h) PROVE ControlInv'
  BY <1>5, SameControl DEF ShowCandidate
<1>6. ASSUME NEW h \in Heights, UpdatedBlockTip(h) PROVE ControlInv'
  BY <1>6, SameControl DEF UpdatedBlockTip
<1>7. CASE Reset
  BY <1>7, SameControl, Zenon DEF Reset
<1>8. ASSUME NEW clean \in BOOLEAN, Restart(clean) PROVE ControlInv'
  <2>1. /\ cs' = Free
        /\ scan' = NoScan
        /\ pc' = [th \in Threads |-> IF th = "scheduler" THEN "init" ELSE "idle"]
        /\ tier' = [th \in Threads |-> 1]
        /\ synced' = FALSE
    BY <1>8, Zenon DEF Restart
  <2>2. LockInv'
    BY <2>1, TierAssumption, SMT DEF LockInv, Holding, Updating, Threads, Free
  <2>3. torn' \in BOOLEAN
    BY <1>8, Zenon DEF Restart
  <2> QED
    BY <2>1, <2>2, <2>3, Zenon DEF ControlInv, FlagInv
<1>9. CASE UNCHANGED vars
  BY <1>9, SameControl DEF vars, threads
<1> QED
  BY <1>1, <1>2, <1>3, <1>4, <1>5, <1>6, <1>7, <1>8, <1>9, ScanControl, CallersControl,
     Zenon DEF Next

-----------------------------------------------------------------------------
(* The votes. *)

\* Every vote is a settled one of the chain c with tip t, and no question has two.
VotesSound(c, t, votes) ==
  /\ votes \subseteq Ballots \X Heights
  /\ \A w \in votes : w[2] < t - MATURED_LIMIT /\ c[w[2]] = w[1]
  /\ \A v, w \in votes : Question[v[1]] = Question[w[1]] => v = w

\* The question of the ballot at height h has a vote that is not older.
Newest(c, votes, h) ==
  c[h] \in Ballots => \E w \in votes : Question[w[1]] = Question[c[h]] /\ w[2] >= h

\* It is so for the heights from low up to, not including, top.
VotesNew(c, votes, low, top) ==
  \A h \in Heights : low <= h /\ h < top => Newest(c, votes, h)

\* And for those that the loop of a scan has passed.
VotesPassed(c, votes, s) ==
  /\ VotesNew(c, votes, FIRST, s.low)
  /\ \A h \in Heights : s.at < h /\ s.low <= h /\ h < s.height - MATURED_LIMIT
                        => Newest(c, votes, h)

Dumping == \E th \in Threads : pc[th] \in {"dump", "dumpOnly"}

\* The votes in memory are as new as the list; those in the file are as new as the list in
\* the other file, but for the time between the two dumps.
VotesInv ==
  /\ DOMAIN disk = {"nodes", "last", "statements", "votes"}
  /\ VotesSound(chain, tip, mapProposalVotes)
  /\ VotesSound(chain, tip, disk.votes)
  /\ torn = FALSE => VotesNew(chain, mapProposalVotes, FIRST, nLastScanHeight)
  /\ torn = FALSE /\ ~Dumping => VotesNew(chain, disk.votes, FIRST, disk.last)
  /\ Dumping => disk.last = nLastScanHeight
  /\ torn = FALSE /\ scan # NoScan => VotesPassed(chain, mapProposalVotes, scan)

\* A chain that grows keeps the votes.
LEMMA VotesGrow ==
  ASSUME NEW c, NEW t \in 0 .. MaxHeight, NEW d, NEW u, Grows(c, t, d, u), NEW votes
  PROVE  /\ VotesSound(c, t, votes) => VotesSound(d, u, votes)
         /\ \A h \in Heights : h <= t - MATURED_LIMIT /\ Newest(c, votes, h)
                               => Newest(d, votes, h)
<1>1. ASSUME VotesSound(c, t, votes) PROVE VotesSound(d, u, votes)
  <2>1. ASSUME NEW w \in votes
        PROVE  w[2] < u - MATURED_LIMIT /\ d[w[2]] = w[1]
    <3>1. w[2] \in Heights /\ w[2] < t - MATURED_LIMIT /\ c[w[2]] = w[1]
      BY <1>1 DEF VotesSound
    <3> QED
      BY <3>1, DepthAssumption, SMT DEF Grows, Heights
  <2> QED
    BY <1>1, <2>1 DEF VotesSound
<1>2. ASSUME NEW h \in Heights, h <= t - MATURED_LIMIT, Newest(c, votes, h)
      PROVE  Newest(d, votes, h)
  <2>1. d[h] = c[h]
    BY <1>2 DEF Grows
  <2> QED
    BY <1>2, <2>1 DEF Newest
<1> QED
  BY <1>1, <1>2

\* CInfinitynodersv::Add of a settled vote: still one for each question.
LEMMA AddVoteSound ==
  ASSUME NEW c, NEW t, NEW votes, VotesSound(c, t, votes), NEW h \in Heights,
         h < t - MATURED_LIMIT, c[h] \in Ballots
  PROVE  VotesSound(c, t, AddVote(votes, c[h], h))
<1> DEFINE v == c[h]
           same == {w \in votes : Question[w[1]] = Question[v]}
           new == (votes \ same) \cup {<<v, h>>}
<1>1. VotesSound(c, t, new)
  <2>1. new \subseteq Ballots \X Heights
    BY DEF VotesSound
  <2>2. \A w \in new : w[2] < t - MATURED_LIMIT /\ c[w[2]] = w[1]
    BY DEF VotesSound
  <2>3. \A w \in new : (w \in votes /\ Question[w[1]] # Question[v]) \/ w = <<v, h>>
    OBVIOUS
  <2>4. <<v, h>>[1] = v
    OBVIOUS
  <2> HIDE DEF v, new
  <2>5. \A x, y \in new : Question[x[1]] = Question[y[1]] => x = y
    BY <2>3, <2>4 DEF VotesSound
  <2> QED
    BY <2>1, <2>2, <2>5 DEF VotesSound
<1>2. AddVote(votes, v, h) = votes \/ AddVote(votes, v, h) = new
  BY Zenon DEF AddVote
<1> QED
  BY <1>1, <1>2

\* It leaves every question with a vote that is as new, and has the one of height h.
LEMMA AddVoteNewest ==
  ASSUME NEW c, NEW t, NEW votes, VotesSound(c, t, votes), NEW h \in Heights,
         c[h] \in Ballots
  PROVE  /\ Newest(c, AddVote(votes, c[h], h), h)
         /\ \A g \in Heights : Newest(c, votes, g) => Newest(c, AddVote(votes, c[h], h), g)
<1> DEFINE v == c[h]
           same == {w \in votes : Question[w[1]] = Question[v]}
           new == AddVote(votes, v, h)
<1>1. CASE \E w \in same : w[2] >= h
  <2>1. new = votes
    BY <1>1, Zenon DEF AddVote
  <2> QED
    BY <1>1, <2>1 DEF Newest
<1>2. CASE ~\E w \in same : w[2] >= h
  <2>1. new = (votes \ same) \cup {<<v, h>>}
    BY <1>2, Zenon DEF AddVote
  <2>2. <<v, h>> \in new /\ <<v, h>>[1] = v /\ <<v, h>>[2] = h /\ h \in Int
    BY <2>1, SMT DEF Heights
  <2>3. Newest(c, new, h)
    <3>1. h >= h
      BY <2>2
    <3> QED
      BY <2>2, <3>1 DEF Newest
  <2>4. ASSUME NEW g \in Heights, Newest(c, votes, g), c[g] \in Ballots
        PROVE  \E w \in new : Question[w[1]] = Question[c[g]] /\ w[2] >= g
    <3>1. PICK w \in votes : Question[w[1]] = Question[c[g]] /\ w[2] >= g
      BY <2>4 DEF Newest
    <3>2. CASE w \notin same
      BY <2>1, <3>1, <3>2
    <3>3. CASE w \in same
      <4>1. w[2] \in Int /\ g \in Int /\ ~(w[2] >= h)
        BY <1>2, <3>3, SMT DEF VotesSound, Heights
      <4>2. h >= g
        BY <2>2, <3>1, <4>1, SMT
      <4> QED
        BY <2>2, <3>1, <3>3, <4>2
    <3> QED
      BY <3>2, <3>3
  <2>5. \A g \in Heights : Newest(c, votes, g) => Newest(c, new, g)
    BY <2>4 DEF Newest
  <2> QED
    BY <2>3, <2>5
<1> QED
  BY <1>1, <1>2

\* The first state.
LEMMA VotesInvInit == Init => VotesInv
<1> SUFFICES ASSUME Init PROVE VotesInv
  OBVIOUS
<1>1. /\ mapProposalVotes = {}
      /\ nLastScanHeight = 0
      /\ scan = NoScan
      /\ pc = [th \in Threads |-> IF th = "scheduler" THEN "init" ELSE "idle"]
      /\ disk = Saved(Empty, 0, statements, {})
  BY DEF Init
<1>2. /\ DOMAIN disk = {"nodes", "last", "statements", "votes"}
      /\ disk.votes = {}
      /\ disk.last = 0
  BY <1>1, SMT DEF Saved
<1>3. ~Dumping
  BY <1>1, SMT DEF Dumping, Threads
<1>4. VotesSound(chain, tip, {})
  BY DEF VotesSound
<1>5. VotesNew(chain, {}, FIRST, 0)
  BY DepthAssumption, SMT DEF VotesNew, Heights
<1> QED
  BY <1>1, <1>2, <1>3, <1>4, <1>5 DEF VotesInv

\* Steps that leave alone what the invariant is about.
LEMMA SameVotes ==
  ASSUME VotesInv, UNCHANGED <<chain, tip, mapProposalVotes, nLastScanHeight, disk, torn>>,
         scan' = scan \/ scan' = NoScan, Dumping' <=> Dumping
  PROVE  VotesInv'
BY Zenon DEF VotesInv

\* Who dumps holds cs.
LEMMA DumpingHolds ==
  ASSUME LockInv
  PROVE  Dumping <=> cs \in Threads /\ pc[cs] \in {"dump", "dumpOnly"}
BY SMT DEF LockInv, Dumping, Holding

\* The chain grows.
LEMMA VotesInvGrows ==
  ASSUME ListInv, VotesInv, Grows(chain, tip, chain', tip'),
         UNCHANGED <<list, threads, scan, disk, torn>>
  PROVE  VotesInv'
<1>1. tip \in 0 .. MaxHeight
  BY DEF ListInv
<1>2. ASSUME NEW votes, NEW low, NEW top \in Nat, top = 0 \/ top <= tip - MATURED_LIMIT,
             VotesNew(chain, votes, low, top)
      PROVE  VotesNew(chain', votes, low, top)
  <2>1. \A h \in Heights : h < top => h <= tip - MATURED_LIMIT
    BY <1>1, <1>2, DepthAssumption, SMT DEF Heights
  <2> QED
    BY <1>1, <1>2, <2>1, VotesGrow DEF VotesNew
<1>3. VotesSound(chain', tip', mapProposalVotes) /\ VotesSound(chain', tip', disk.votes)
  BY <1>1, VotesGrow DEF VotesInv
<1>4. VotesNew(chain, mapProposalVotes, FIRST, nLastScanHeight)
      => VotesNew(chain', mapProposalVotes, FIRST, nLastScanHeight)
  BY <1>2 DEF ListInv, Settled
<1>5. VotesNew(chain, disk.votes, FIRST, disk.last)
      => VotesNew(chain', disk.votes, FIRST, disk.last)
  BY <1>2 DEF ListInv, Settled
<1>6. ASSUME scan # NoScan, VotesPassed(chain, mapProposalVotes, scan)
      PROVE  VotesPassed(chain', mapProposalVotes, scan)
  <2>1. scan \in ScanType /\ Scanning(chain, tip, mapInfinitynodes, scan)
    BY <1>6 DEF ListInv
  <2>2. VotesNew(chain', mapProposalVotes, FIRST, scan.low)
    <3>1. CASE scan.low = FIRST
      BY <3>1, DepthAssumption, SMT DEF VotesNew, Heights
    <3>2. CASE scan.low # FIRST
      <4>1. scan.low \in Nat /\ scan.low <= tip - MATURED_LIMIT
        BY <2>1, <3>2, SMT DEF Scanning, ScanType, Heights
      <4> QED
        BY <1>2, <1>6, <4>1 DEF VotesPassed
    <3> QED
      BY <3>1, <3>2
  <2>3. \A h \in Heights : h < scan.height - MATURED_LIMIT => h <= tip - MATURED_LIMIT
    BY <1>1, <2>1, DepthAssumption, SMT DEF Heights, Scanning, ScanType
  <2> QED
    BY <1>1, <1>6, <2>2, <2>3, VotesGrow DEF VotesPassed
<1>7. Dumping' <=> Dumping
  BY DEF Dumping, threads
<1> QED
  BY <1>3, <1>4, <1>5, <1>6, <1>7 DEF VotesInv, list

\* One block of the scan.
LEMMA ScanBlockVotes ==
  ASSUME ListInv, VotesInv, NEW th \in Threads, ScanBlock(th)
  PROVE  VotesInv'
<1> DEFINE o == scan.branch[scan.at]
           matured == IsMatured(scan.at, scan.height)
           votes == mapProposalVotes
<1>1. /\ scan \in ScanType
      /\ Scanning(chain, tip, mapInfinitynodes, scan)
      /\ scan # NoScan
      /\ scan.at >= scan.low
      /\ scan' = [scan EXCEPT !.at = scan.at - 1]
      /\ votes' = IF o \in Ballots /\ matured THEN AddVote(votes, o, scan.at) ELSE votes
      /\ UNCHANGED <<chain, tip, nLastScanHeight, threads, disk, torn>>
  BY DEF ListInv, ScanBlock
<1>2. scan.at \in Heights /\ tip \in 0 .. MaxHeight
  BY <1>1, DepthAssumption, SMT DEF ListInv, ScanType, Scanning, Heights
<1>3. matured => scan.at < tip - MATURED_LIMIT /\ o = chain[scan.at]
  BY <1>1, <1>2, DepthAssumption, SMT DEF ScanType, Scanning, Heights, IsMatured
<1>4. VotesSound(chain, tip, votes)
  BY DEF VotesInv
<1>5. /\ VotesSound(chain, tip, votes')
      /\ \A g \in Heights : Newest(chain, votes, g) => Newest(chain, votes', g)
      /\ matured => Newest(chain, votes', scan.at)
  <2>1. CASE o \in Ballots /\ matured
    <3>1. votes' = AddVote(votes, chain[scan.at], scan.at) /\ chain[scan.at] \in Ballots
      BY <1>1, <1>3, <2>1
    <3>2. VotesSound(chain, tip, AddVote(votes, chain[scan.at], scan.at))
      BY <1>2, <1>3, <1>4, <2>1, <3>1, AddVoteSound
    <3>3. /\ Newest(chain, AddVote(votes, chain[scan.at], scan.at), scan.at)
          /\ \A g \in Heights : Newest(chain, votes, g)
                => Newest(chain, AddVote(votes, chain[scan.at], scan.at), g)
      BY <1>2, <1>4, <3>1, AddVoteNewest
    <3> QED
      BY <3>1, <3>2, <3>3
  <2>2. CASE ~(o \in Ballots /\ matured)
    BY <1>1, <1>3, <1>4, <2>2 DEF Newest
  <2> QED
    BY <2>1, <2>2
<1>6. /\ scan'.height = scan.height
      /\ scan'.low = scan.low
      /\ scan'.at = scan.at - 1
  BY <1>1, SMT DEF ScanType
<1>7. ASSUME VotesPassed(chain, votes, scan) PROVE VotesPassed(chain, votes', scan')
  <2>1. VotesNew(chain, votes', FIRST, scan.low)
    BY <1>5, <1>7 DEF VotesPassed, VotesNew
  <2>2. ASSUME NEW h \in Heights, scan.at - 1 < h, scan.low <= h,
               h < scan.height - MATURED_LIMIT
        PROVE  Newest(chain, votes', h)
    <3>1. CASE h = scan.at
      BY <1>5, <2>2, <3>1 DEF IsMatured
    <3>2. CASE h # scan.at
      <4>1. scan.at < h
        BY <1>2, <2>2, <3>2, SMT DEF Heights
      <4> QED
        BY <1>5, <1>7, <2>2, <4>1 DEF VotesPassed
    <3> QED
      BY <3>1, <3>2
  <2> QED
    BY <1>6, <2>1, <2>2 DEF VotesPassed
<1>8. VotesNew(chain, votes, FIRST, nLastScanHeight)
      => VotesNew(chain, votes', FIRST, nLastScanHeight)
  BY <1>5 DEF VotesNew
<1>9. Dumping' <=> Dumping
  BY <1>1 DEF Dumping, threads
<1> QED
  BY <1>1, <1>5, <1>7, <1>8, <1>9 DEF VotesInv

\* The end of the scan, with the first of the two dumps.
LEMMA FinishScanVotes ==
  ASSUME ListInv, LockInv, VotesInv, NEW th \in Threads, FinishScan(th)
  PROVE  VotesInv'
<1> DEFINE last == scan.height - MATURED_LIMIT
<1>1. /\ scan \in ScanType
      /\ Scanning(chain, tip, mapInfinitynodes, scan)
      /\ scan # NoScan
      /\ scan.at < scan.low
      /\ tip \in 0 .. MaxHeight
      /\ scan' = NoScan
      /\ nLastScanHeight' = last
      /\ UNCHANGED <<chain, tip, mapProposalVotes, torn>>
  BY DEF ListInv, FinishScan
<1>2. /\ DOMAIN disk' = DOMAIN disk
      /\ disk'.votes = disk.votes
      /\ disk'.last = last
  BY SMT DEF FinishScan, VotesInv
<1>3. ASSUME VotesPassed(chain, mapProposalVotes, scan)
      PROVE  VotesNew(chain, mapProposalVotes, FIRST, last)
  <2> SUFFICES ASSUME NEW h \in Heights, FIRST <= h, h < last
               PROVE  Newest(chain, mapProposalVotes, h)
    BY DEF VotesNew
  <2>1. CASE h < scan.low
    BY <1>3, <2>1 DEF VotesPassed, VotesNew
  <2>2. CASE scan.low <= h
    <3>1. scan.at < h
      BY <1>1, <2>2, SMT DEF ScanType, Heights
    <3> QED
      BY <1>3, <2>2, <3>1 DEF VotesPassed
  <2> QED
    BY <1>1, <2>1, <2>2, SMT DEF ScanType, Heights
<1>4. Dumping'
  <2>1. pc' = [pc EXCEPT ![th] = "dump"] \/ pc' = [pc EXCEPT ![th] = "dumpOnly"]
    BY Zenon DEF FinishScan, Goto
  <2>2. pc'[th] \in {"dump", "dumpOnly"}
    BY <2>1, SMT DEF LockInv
  <2> QED
    BY <2>2 DEF Dumping
<1> QED
  BY <1>1, <1>2, <1>3, <1>4 DEF VotesInv

\* The second dump: the files belong together again.
LEMMA DumpVotesVotes ==
  ASSUME LockInv, LockInv', VotesInv, NEW th \in Threads, DumpVotes(th)
  PROVE  VotesInv'
<1>1. /\ pc[th] \in {"dump", "dumpOnly"}
      /\ UNCHANGED <<chain, tip, mapProposalVotes, nLastScanHeight, scan, torn>>
  BY DEF DumpVotes, list
<1>2. /\ DOMAIN disk' = DOMAIN disk
      /\ disk'.votes = mapProposalVotes
      /\ disk'.last = disk.last
  BY SMT DEF DumpVotes, VotesInv
<1>3. disk.last = nLastScanHeight
  BY <1>1 DEF VotesInv, Dumping
<1>4. ~Dumping'
  <2>1. \/ pc' = [pc EXCEPT ![th] = "idle"]
        \/ pc' = [pc EXCEPT ![th] = "statement"]
        \/ pc' = [pc EXCEPT ![th] = "clear"]
    BY Zenon DEF DumpVotes, Return, Goto
  <2>2. cs = th
    BY <1>1 DEF LockInv, Holding
  <2> QED
    BY <2>1, <2>2, SMT DEF Dumping, LockInv, Holding
<1> QED
  BY <1>1, <1>2, <1>3, <1>4, Zenon DEF VotesInv

\* The call of buildInfinitynodeList.
LEMMA BuildVotes ==
  ASSUME ListInv, ListInv', VotesInv, ~Dumping, ~Dumping', NEW H \in Nat, NEW L \in Nat,
         L = BEGIN \/ (L = nLastScanHeight /\ nLastScanHeight # 0),
         Build(H, L), UNCHANGED <<chain, tip, disk, torn>>
  PROVE  VotesInv'
<1> USE DepthAssumption
<1> DEFINE clears == L = BEGIN \/ H < BEGIN
<1>1. /\ mapProposalVotes' = IF clears THEN {} ELSE mapProposalVotes
      /\ nLastScanHeight' = IF clears THEN 0 ELSE nLastScanHeight
  BY DEF Build
<1>2. VotesSound(chain, tip, mapProposalVotes')
  <2>1. VotesSound(chain, tip, {})
    BY DEF VotesSound
  <2> QED
    BY <1>1, <2>1 DEF VotesInv
<1>3. torn = FALSE => VotesNew(chain, mapProposalVotes', FIRST, nLastScanHeight')
  <2>1. VotesNew(chain, {}, FIRST, 0)
    BY SMT DEF VotesNew, Heights
  <2> QED
    BY <1>1, <2>1, Zenon DEF VotesInv
<1>4. ASSUME scan' # NoScan, torn = FALSE
      PROVE  VotesPassed(chain, mapProposalVotes', scan')
  <2>1. /\ scan'.height = H
        /\ scan'.at = H
        /\ scan'.low = IF L = BEGIN THEN FIRST ELSE nLastScanHeight
        /\ ~(H < BEGIN)
    BY <1>4, SMT DEF Build
  <2>2. VotesNew(chain, mapProposalVotes', FIRST, scan'.low)
    <3>1. CASE L = BEGIN
      BY <2>1, <3>1, SMT DEF VotesNew, Heights
    <3>2. CASE L # BEGIN
      BY <1>1, <1>3, <1>4, <2>1, <3>2
    <3> QED
      BY <3>1, <3>2
  <2>3. \A h \in Heights : ~(H < h /\ h < H - MATURED_LIMIT)
    BY SMT DEF Heights
  <2> QED
    BY <2>1, <2>2, <2>3 DEF VotesPassed
<1> QED
  BY <1>2, <1>3, <1>4, Zenon DEF VotesInv

\* Its callers.
LEMMA CallersVotes ==
  ASSUME ListInv, ControlInv, VotesInv, ListInv', ControlInv',
         CheckAndRemove \/ AppInit \/ \E h \in Heights : UpdateList(h)
  PROVE  VotesInv'
<1>1. /\ Called \/ UNCHANGED <<list, scan>>
      /\ UNCHANGED <<chain, tip, disk, torn>>
  BY Callers
<1>2. ~Dumping /\ ~Dumping'
  <2>1. ~(cs \in Threads /\ pc[cs] \in {"dump", "dumpOnly"})
    <3>1. CASE cs = Free
      BY <3>1, SMT DEF Threads, Free
    <3>2. CASE cs # Free
      <4>1. AppInit
        BY <3>2 DEF CheckAndRemove, UpdateList
      <4>2. pc["scheduler"] = "init"
        BY <4>1 DEF AppInit
      <4> QED
        BY <4>2, SMT DEF ControlInv, LockInv, Holding, Threads
    <3> QED
      BY <3>1, <3>2
  <2>2. \A th \in Threads : pc[th] \notin {"dump", "dumpOnly"}
    BY <2>1, DumpingHolds DEF ControlInv, Dumping
  <2>3. \/ pc' = pc
        \/ \E th \in Threads : \E l \in {"scan", "scanOnly", "statement", "clear", "idle"} :
             pc' = [pc EXCEPT ![th] = l]
    <3>1. "maintenance" \in Threads /\ "scheduler" \in Threads
      BY DEF Threads
    <3>2. ASSUME CheckAndRemove PROVE <2>3!:
      BY <3>1, <3>2, Zenon DEF CheckAndRemove, Goto, threads
    <3>3. ASSUME AppInit PROVE <2>3!:
      BY <3>1, <3>3, Zenon DEF AppInit, Goto, threads
    <3>4. ASSUME NEW h \in Heights, UpdateList(h) PROVE <2>3!:
      BY <3>1, <3>4, Zenon DEF UpdateList, Goto, Return, threads
    <3> QED
      BY <3>2, <3>3, <3>4
  <2>4. ~Dumping'
    BY <2>2, <2>3, SMT DEF Dumping, ControlInv, LockInv
  <2> QED
    BY <2>2, <2>4 DEF Dumping
<1>3. CASE UNCHANGED <<list, scan>>
  BY <1>1, <1>2, <1>3, SameVotes DEF list
<1>4. CASE Called
  BY <1>1, <1>2, <1>4, BuildVotes DEF Called
<1> QED
  BY <1>1, <1>3, <1>4

\* A restart takes up the files.  Between the dumps they are not of one scan, and torn
\* records it.
LEMMA RestartVotes ==
  ASSUME ControlInv, VotesInv, NEW clean \in BOOLEAN, Restart(clean)
  PROVE  VotesInv'
<1> DEFINE saved == IF clean THEN Saved(mapInfinitynodes, nLastScanHeight, statements,
                                        mapProposalVotes)
                    ELSE disk
<1>1. /\ disk' = saved
      /\ nLastScanHeight' = saved.last
      /\ mapProposalVotes' = saved.votes
      /\ scan' = NoScan
      /\ pc' = [th \in Threads |-> IF th = "scheduler" THEN "init" ELSE "idle"]
      /\ UNCHANGED <<chain, tip>>
  BY DEF Restart
<1>2. torn' = FALSE => torn = FALSE /\ ~Dumping
  BY Zenon DEF Restart, Dumping, ControlInv, FlagInv
<1>3. ~Dumping'
  BY <1>1, SMT DEF Dumping, Threads
<1>4. /\ DOMAIN saved = {"nodes", "last", "statements", "votes"}
      /\ VotesSound(chain, tip, saved.votes)
      /\ torn' = FALSE => VotesNew(chain, saved.votes, FIRST, saved.last)
  <2>1. CASE clean = TRUE
    <3>1. saved = Saved(mapInfinitynodes, nLastScanHeight, statements, mapProposalVotes)
      BY <2>1
    <3>2. /\ DOMAIN saved = {"nodes", "last", "statements", "votes"}
          /\ saved.votes = mapProposalVotes
          /\ saved.last = nLastScanHeight
      BY <3>1, SMT DEF Saved
    <3> HIDE DEF saved
    <3> QED
      BY <1>2, <3>2, Zenon DEF VotesInv
  <2>2. CASE clean = FALSE
    <3>1. saved = disk
      BY <2>2
    <3> HIDE DEF saved
    <3> QED
      BY <1>2, <3>1, Zenon DEF VotesInv
  <2> HIDE DEF saved
  <2> QED
    BY <2>1, <2>2, Zenon
<1> HIDE DEF saved
<1> QED
  BY <1>1, <1>3, <1>4, Zenon DEF VotesInv

\* Every step keeps the invariant.
LEMMA VotesInvStep ==
  ASSUME ListInv, ControlInv, VotesInv, ListInv', ControlInv', [Next]_vars
  PROVE  VotesInv'
<1> DEFINE Kept == UNCHANGED <<chain, tip, mapProposalVotes, nLastScanHeight, disk, torn>>
<1>1. ASSUME NEW o \in Outputs \cup {None}, ConnectBlock(o) PROVE VotesInv'
  <2>1. Grows(chain, tip, chain', tip')
    BY <1>1, ConnectGrows
  <2> QED
    BY <1>1, <2>1, VotesInvGrows DEF ConnectBlock
<1>2. ASSUME NEW fork \in Heights, NEW h \in Heights, NEW o \in Outputs \cup {None},
             Reorganise(fork, h, o)
      PROVE  VotesInv'
  BY <1>2, ReorganiseGrows, VotesInvGrows DEF Reorganise
<1>3. ASSUME NEW th \in Threads, ScanFails(th) PROVE VotesInv'
  <2>1. Kept /\ scan' = NoScan /\ cs = th
    BY <1>3 DEF ScanFails, list
  <2>2. pc[th] \in {"scan", "scanOnly"}
    BY <1>3 DEF ScanFails, ControlInv, LockInv
  <2>3. \/ pc' = [pc EXCEPT ![th] = "idle"]
        \/ pc' = [pc EXCEPT ![th] = "statement"]
        \/ pc' = [pc EXCEPT ![th] = "clear"]
    BY <1>3, Zenon DEF ScanFails, Return, Goto
  <2>4. Dumping' <=> Dumping
    BY <2>1, <2>2, <2>3, SMT DEF Dumping, ControlInv, LockInv, Holding
  <2> QED
    BY <2>1, <2>4, SameVotes
<1>4. CASE NewStatement
  <2>1. /\ pc["maintenance"] = "statement"
        /\ Kept
        /\ UNCHANGED scan
        /\ pc' = pc \/ pc' = [pc EXCEPT !["maintenance"] = "idle"]
    BY <1>4, Zenon DEF NewStatement, Goto
  <2>2. Dumping' <=> Dumping
    BY <2>1, SMT DEF Dumping, ControlInv, LockInv, Threads
  <2> QED
    BY <2>1, <2>2, SameVotes
<1>5. CASE ClearStatement \/ FillStatement \/ RankAll
  <2>1. /\ pc["scheduler"] \in Updating
        /\ Kept
        /\ UNCHANGED scan
        /\ \E l \in Updating \cup {"idle"} : pc' = [pc EXCEPT !["scheduler"] = l]
    BY <1>5, Zenon DEF ClearStatement, FillStatement, RankAll, Goto, Updating, list
  <2>2. Dumping' <=> Dumping
    BY <2>1, SMT DEF Dumping, ControlInv, LockInv, Threads, Updating
  <2> QED
    BY <2>1, <2>2, SameVotes
<1>6. ASSUME Kept, UNCHANGED <<scan, threads>> PROVE VotesInv'
  <2>1. Dumping' <=> Dumping
    BY <1>6 DEF Dumping, threads
  <2> QED
    BY <1>6, <2>1, SameVotes
<1>7. ASSUME NEW t \in Tiers, NEW h \in Heights, ShowCandidate(t, h) PROVE VotesInv'
  BY <1>6, <1>7 DEF ShowCandidate
<1>8. ASSUME NEW h \in Heights, UpdatedBlockTip(h) PROVE VotesInv'
  BY <1>6, <1>8 DEF UpdatedBlockTip, list
<1>9. CASE Reset
  BY <1>6, <1>9, Zenon DEF Reset, list
<1>10. CASE UNCHANGED vars
  BY <1>6, <1>10 DEF vars, list, threads
<1>11. ASSUME NEW th \in Threads, DumpVotes(th) PROVE VotesInv'
  BY <1>11, DumpVotesVotes DEF ControlInv
<1>12. ASSUME NEW th \in Threads, FinishScan(th) PROVE VotesInv'
  BY <1>12, FinishScanVotes DEF ControlInv
<1> QED
  BY <1>1, <1>2, <1>3, <1>4, <1>5, <1>7, <1>8, <1>9, <1>10, <1>11, <1>12, ScanBlockVotes,
     CallersVotes, RestartVotes, Zenon DEF Next

\* The votes are those of the active chain: each is at its height on it, a voter has one for
\* each proposal, and unless a crash fell between the two files none is older than the newest
\* one below nLastScanHeight.  For every number of blocks, voters, failed scans, restarts and
\* resets, with reorganisations at any time.
THEOREM VotesAreSettled == Spec => []VotesMatchChain
<1> DEFINE Inv == ListInv /\ ControlInv /\ VotesInv
<1>1. Inv => VotesMatchChain
  <2> SUFFICES ASSUME Inv PROVE VotesMatchChain
    OBVIOUS
  <2>1. /\ \A w \in mapProposalVotes : chain[w[2]] = w[1]
        /\ \A v, w \in mapProposalVotes : Question[v[1]] = Question[w[1]] => v = w
    BY DEF VotesInv, VotesSound
  <2>2. ASSUME ~torn, NEW h \in FIRST .. nLastScanHeight - 1, chain[h] \in Ballots
        PROVE  \E w \in mapProposalVotes : Question[w[1]] = Question[chain[h]] /\ w[2] >= h
    <3>1. torn = FALSE
      BY <2>2, Zenon DEF ControlInv, FlagInv
    <3>2. h \in Heights /\ FIRST <= h /\ h < nLastScanHeight
      BY DepthAssumption, SMT DEF ListInv, Settled, Heights
    <3>3. Newest(chain, mapProposalVotes, h)
      BY <3>1, <3>2 DEF VotesInv, VotesNew
    <3> QED
      BY <2>2, <3>3 DEF Newest
  <2> QED
    BY <2>1, <2>2, Zenon DEF VotesMatchChain
<1>2. Init => Inv
  BY ListInvInit, ControlInvInit, VotesInvInit
<1>3. Inv /\ [Next]_vars => Inv'
  BY ListInvStep, ControlInvStep, VotesInvStep
<1> QED
  BY <1>1, <1>2, <1>3, PTL DEF Spec
=============================================================================
