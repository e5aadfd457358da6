--------------------------- MODULE PaymentsProofs ---------------------------
(***************************************************************************)
(* What CMasternodePayments counts are verified votes, each counted once,  *)
(* for any masternodes, votes and heights.  The two maps agree because a   *)
(* vote is verified and counted under one lock, because one that is        *)
(* verified is never added again, and because an old vote goes with the    *)
(* whole of its block.  The maps of the last clean stop agree as well.     *)
(*                                                                         *)
(* It follows that the best payee of a block is the plurality of its votes *)
(* and that a block filled from them stays valid.                          *)
(***************************************************************************)
EXTENDS Payments, FiniteSetTheorems, TLAPS

\* What payee counts for the block at h, with the votes f.
Counts(f, h, payee) ==
  /\ IsInjective(payee.vecVoteHashes)
  /\ \A v \in Range(payee.vecVoteHashes) :
       /\ v \in DOMAIN f
       /\ f[v] = TRUE
       /\ v.nBlockHeight = h
       /\ v.payee = payee.scriptPubKey

\* The entries of a block are of different payees, each with a vote at least and all of its
\* votes from the one type of masternode.
Elected(vec) ==
  /\ \A i, j \in DOMAIN vec : vec[i].scriptPubKey = vec[j].scriptPubKey => i = j
  /\ \A i \in DOMAIN vec :
       /\ vec[i].vecVoteHashes # <<>>
       /\ \A v \in Range(vec[i].vecVoteHashes) :
            SinType[v.vinMasternode] = vec[i].qsteestype

\* The votes f and the blocks b agree.
Agree(f, b) ==
  \A h \in DOMAIN b : /\ b[h] \in Seq(Payees)
                      /\ Elected(b[h])
                      /\ \A i \in DOMAIN b[h] : Counts(f, h, b[h][i])

CountsInv ==
  /\ Agree(mapMasternodePaymentVotes, mapMasternodeBlocks)
  /\ Agree(disk.votes, disk.blocks)
  /\ handler.step # "idle" => handler.vote \in Votes
  /\ scheduler # None => scheduler \in Votes

-----------------------------------------------------------------------------
(* Lemmas. *)

\* A set of numbers that is not empty has a smallest one: what the search for the first entry
\* of a vector finds.
LEMMA SmallestNat ==
  ASSUME NEW S \in SUBSET Nat, S # {}
  PROVE  \E k \in S : \A j \in S : k <= j
<1> DEFINE R == OpToRel(<, Nat)
<1>1. \A j, k \in Nat : j < k => <<j, k>> \in R
  BY DEF OpToRel
<1>2. IsWellFoundedOn(R, Nat)
  BY NatLessThanWellFounded, Zenon
<1> HIDE DEF R
<1>3. PICK k \in S : \A j \in S : ~ (<<j, k>> \in R)
  BY <1>2, WFMin, Zenon
<1>4. \A j \in S : j \in Nat /\ k \in Nat /\ ~ (j < k)
  BY <1>1, <1>3, Zenon
<1>5. \A j \in S : k <= j
  BY <1>4
<1> QED
  BY <1>5

\* Induction up to n: what holds before the first turn of a loop and is kept by each turn
\* holds after the last.
LEMMA UpTo ==
  ASSUME NEW n \in Nat, NEW P, 0 \in P, \A i \in 0 .. n - 1 : i \in P => i + 1 \in P
  PROVE  \A i \in 0 .. n : i \in P
<1> DEFINE bad == {i \in 0 .. n : i \notin P}
<1> SUFFICES ASSUME bad # {} PROVE FALSE
  OBVIOUS
<1>1. bad \in SUBSET Nat
  OBVIOUS
<1> HIDE DEF bad
<1>2. PICK k \in bad : \A j \in bad : k <= j
  BY <1>1, SmallestNat
<1>3. k \in 0 .. n /\ k \notin P /\ k # 0
  BY DEF bad
<1>4. k - 1 \in 0 .. n - 1 /\ k - 1 \notin bad
  BY <1>2, <1>3, SMT
<1>5. k - 1 \in P
  BY <1>3, <1>4 DEF bad
<1> QED
  BY <1>3, <1>4, <1>5

\* A loop of n turns on states S: its body, which also sees the number of the turn, and the
\* states f that it goes through from base on.
Bodies(n, S) == [S \X (1 .. n) -> S]
IsLoop(n, S, base, F, f) ==
  /\ f \in [0 .. n -> S]
  /\ f[0] = base
  /\ \A i \in 1 .. n : f[i] = F[<<f[i - 1], i>>]

\* Every loop goes through such states.
LEMMA LoopExists ==
  ASSUME NEW n \in Nat, NEW S, NEW base \in S, NEW F \in Bodies(n, S)
  PROVE  \E f : IsLoop(n, S, base, F, f)
<1> USE DEF Bodies
<1> DEFINE Runs(m, f) == f[0] = base /\ \A i \in 1 .. m : f[i] = F[<<f[i - 1], i>>]
           P == {m \in 0 .. n : \E f \in [0 .. m -> S] : Runs(m, f)}
<1>1. 0 \in P
  <2>1. [i \in 0 .. 0 |-> base] \in [0 .. 0 -> S] /\ Runs(0, [i \in 0 .. 0 |-> base])
    OBVIOUS
  <2>2. 0 \in 0 .. n
    BY SMT
  <2> HIDE DEF Runs
  <2>3. \E f \in [0 .. 0 -> S] : Runs(0, f)
    BY <2>1
  <2> QED
    BY <2>2, <2>3
<1>2. ASSUME NEW m \in 0 .. n - 1, m \in P PROVE m + 1 \in P
  <2>1. PICK f \in [0 .. m -> S] : Runs(m, f)
    BY <1>2
  <2> DEFINE g == [i \in 0 .. m + 1 |-> IF i = m + 1 THEN F[<<f[m], m + 1>>] ELSE f[i]]
  <2>2. F[<<f[m], m + 1>>] \in S
    BY SMT
  <2>3. g \in [0 .. m + 1 -> S]
    BY <2>2, SMT
  <2>4. \A i \in 0 .. m : g[i] = f[i]
    BY SMT
  <2>5. g[m + 1] = F[<<f[m], m + 1>>]
    BY SMT
  <2> HIDE DEF g
  <2>6. ASSUME NEW i \in 1 .. m + 1 PROVE g[i] = F[<<g[i - 1], i>>]
    <3>1. CASE i = m + 1
      BY <2>4, <2>5, <3>1, SMT
    <3>2. CASE i # m + 1
      <4>1. i \in 1 .. m /\ i \in 0 .. m /\ i - 1 \in 0 .. m
        BY <3>2, SMT
      <4> QED
        BY <2>1, <2>4, <4>1
    <3> QED
      BY <3>1, <3>2
  <2>7. g[0] = base
    BY <2>1, <2>4, SMT
  <2>8. m + 1 \in 0 .. n
    BY SMT
  <2> QED
    BY <2>3, <2>6, <2>7, <2>8
<1> HIDE DEF P
<1>3. n \in P
  <2>1. \A i \in 0 .. n : i \in P
    BY <1>1, <1>2, UpTo
  <2> QED
    BY <2>1, SMT
<1> QED
  BY <1>3 DEF P, IsLoop

-----------------------------------------------------------------------------
(* The votes of a payee. *)

\* A vote that is added to a payee is counted once more, the others as before.
LEMMA AppendCounts ==
  ASSUME NEW f, NEW h, NEW payee \in Payees, Counts(f, h, payee),
         NEW v \in Votes, v.nBlockHeight = h, v.payee = payee.scriptPubKey,
         ~ (v \in DOMAIN f /\ f[v] = TRUE)
  PROVE  LET more == [payee EXCEPT !.vecVoteHashes = Append(@, v)]
         IN more \in Payees /\ Counts(Put(f, v, TRUE), h, more)
<1> DEFINE old == payee.vecVoteHashes
           new == Append(old, v)
           more == [payee EXCEPT !.vecVoteHashes = new]
           g == Put(f, v, TRUE)
<1>1. old \in Seq(Votes) /\ new \in Seq(Votes)
  BY DEF Payees
<1>2. more \in Payees /\ more.vecVoteHashes = new /\ more.scriptPubKey = v.payee
  BY <1>1 DEF Payees
<1>3. v \notin Range(old)
  BY DEF Counts
<1>4. IsInjective(new)
  <2> SUFFICES ASSUME NEW i \in DOMAIN new, NEW j \in DOMAIN new, new[i] = new[j]
               PROVE  i = j
    BY DEF IsInjective
  <2>1. \A k \in DOMAIN new : \/ k = Len(old) + 1 /\ new[k] = v
                              \/ k \in DOMAIN old /\ new[k] = old[k]
    BY <1>1
  <2>2. \A k \in DOMAIN old : old[k] # v
    BY <1>3 DEF Range
  <2>3. \A k, l \in DOMAIN old : old[k] = old[l] => k = l
    BY DEF Counts, IsInjective
  <2> QED
    BY <2>1, <2>2, <2>3
<1>5. \A w \in Range(new) : w \in Range(old) \/ w = v
  BY <1>1 DEF Range
<1>6. \A w \in Range(new) : w \in DOMAIN g /\ g[w] = TRUE /\ w.nBlockHeight = h
                            /\ w.payee = v.payee
  BY <1>5 DEF Counts, Put
<1> QED
  BY <1>2, <1>4, <1>6 DEF Counts
\* A new verified vote leaves what is counted as it was.
LEMMA PutCounts ==
  ASSUME NEW f, NEW h, NEW payee, Counts(f, h, payee), NEW v
  PROVE  Counts(Put(f, v, TRUE), h, payee)
BY DEF Counts, Put

\* AddPayee.
LEMMA AddPayeeCounts ==
  ASSUME NEW f, NEW h, NEW vec \in Seq(Payees), \A i \in DOMAIN vec : Counts(f, h, vec[i]),
         NEW v \in Votes, v.nBlockHeight = h, ~ (v \in DOMAIN f /\ f[v] = TRUE)
  PROVE  /\ AddPayee(vec, v) \in Seq(Payees)
         /\ \A i \in DOMAIN AddPayee(vec, v) : Counts(Put(f, v, TRUE), h, AddPayee(vec, v)[i])
<1> DEFINE known == {i \in DOMAIN vec : vec[i].scriptPubKey = v.payee}
           i == CHOOSE i \in known : \A j \in known : i <= j
           more == [vec[i] EXCEPT !.vecVoteHashes = Append(@, v)]
           first == [scriptPubKey |-> v.payee, qsteestype |-> SinType[v.vinMasternode],
                     vecVoteHashes |-> <<v>>]
           g == Put(f, v, TRUE)
<1>1. \A k \in DOMAIN vec : vec[k] \in Payees /\ Counts(g, h, vec[k])
  <2>1. \A k \in DOMAIN vec : vec[k] \in Payees
    OBVIOUS
  <2>2. \A k \in DOMAIN vec : Counts(g, h, vec[k])
    BY PutCounts
  <2> QED
    BY <2>1, <2>2
<1>2. CASE known # {}
  <2>1. i \in known
    <3>1. known \in SUBSET Nat
      OBVIOUS
    <3>2. \E k \in known : \A j \in known : k <= j
      BY <1>2, <3>1, SmallestNat
    <3> QED
      BY <3>2
  <2>2. AddPayee(vec, v) = [vec EXCEPT ![i] = more]
    BY <1>2, <2>1 DEF AddPayee
  <2> HIDE DEF i
  <2>3. more \in Payees /\ Counts(g, h, more)
    <3>1. vec[i] \in Payees /\ Counts(f, h, vec[i]) /\ v.payee = vec[i].scriptPubKey
      BY <1>1, <2>1
    <3> QED
      BY <3>1, AppendCounts
  <2> HIDE DEF more, g, known
  <2>4. [vec EXCEPT ![i] = more] \in Seq(Payees)
    <3>1. vec \in [1 .. Len(vec) -> Payees] /\ Len(vec) \in Nat
      OBVIOUS
    <3>2. [vec EXCEPT ![i] = more] \in [1 .. Len(vec) -> Payees]
      BY <2>3, <3>1
    <3> QED
      BY <3>1, <3>2
  <2> QED
    BY <1>1, <2>2, <2>3, <2>4 DEF g
<1>3. CASE known = {} /\ v.vinMasternode \notin mapMasternodes
  <2>1. AddPayee(vec, v) = vec
    BY <1>3 DEF AddPayee
  <2> QED
    BY <1>1, <2>1
<1>4. CASE known = {} /\ v.vinMasternode \in mapMasternodes
  <2>1. AddPayee(vec, v) = Append(vec, first)
    BY <1>4 DEF AddPayee
  <2>2. first \in Payees /\ Counts(g, h, first)
    <3>1. v.payee \in DOMAIN GetHash /\ SinType[v.vinMasternode] \in Types
      BY PaymentsAssumption DEF Types
    <3>2. <<v>> \in Seq(Votes) /\ IsInjective(<<v>>) /\ Range(<<v>>) = {v}
      BY DEF IsInjective, Range
    <3>3. v \in DOMAIN g /\ g[v] = TRUE
      BY DEF Put
    <3> HIDE DEF g
    <3> QED
      BY <3>1, <3>2, <3>3 DEF Payees, Counts
  <2> HIDE DEF first, g
  <2>3. Append(vec, first) \in Seq(Payees)
    BY <2>2
  <2>4. \A k \in DOMAIN Append(vec, first) :
          \/ k \in DOMAIN vec /\ Append(vec, first)[k] = vec[k]
          \/ Append(vec, first)[k] = first
    BY <2>2
  <2> QED
    BY <1>1, <2>1, <2>2, <2>3, <2>4 DEF g
<1> QED
  BY <1>2, <1>3, <1>4

\* AddPayee makes no second entry for a payee, and a payee's votes are of one type because its
\* voters are.
LEMMA AddPayeeElected ==
  ASSUME NEW f, NEW h, NEW vec \in Seq(Payees), Elected(vec),
         \A i \in DOMAIN vec : Counts(f, h, vec[i]), NEW v \in Votes
  PROVE  Elected(AddPayee(vec, v))
<1> DEFINE known == {i \in DOMAIN vec : vec[i].scriptPubKey = v.payee}
           i == CHOOSE i \in known : \A j \in known : i <= j
           votes == Append(vec[i].vecVoteHashes, v)
           more == [vec[i] EXCEPT !.vecVoteHashes = votes]
           first == [scriptPubKey |-> v.payee, qsteestype |-> SinType[v.vinMasternode],
                     vecVoteHashes |-> <<v>>]
           new == AddPayee(vec, v)
<1>1. CASE known # {}
  <2>1. i \in known
    <3>1. known \in SUBSET Nat
      OBVIOUS
    <3>2. \E k \in known : \A j \in known : k <= j
      BY <1>1, <3>1, SmallestNat
    <3> QED
      BY <3>2
  <2>2. new = [vec EXCEPT ![i] = more]
    BY <1>1, <2>1 DEF AddPayee
  <2> HIDE DEF i
  <2>3. vec[i] \in Payees /\ Counts(f, h, vec[i]) /\ v.payee = vec[i].scriptPubKey
    BY <2>1
  <2>4. vec[i].vecVoteHashes \in Seq(Votes)
    BY <2>3 DEF Payees
  <2>5. /\ more.scriptPubKey = vec[i].scriptPubKey
        /\ more.qsteestype = vec[i].qsteestype
        /\ more.vecVoteHashes = votes
    BY <2>3 DEF Payees
  <2>6. votes # <<>> /\ \A w \in Range(votes) : w = v \/ w \in Range(vec[i].vecVoteHashes)
    BY <2>4 DEF Range
  <2>7. SinType[v.vinMasternode] = vec[i].qsteestype
    <3>1. PICK w \in Range(vec[i].vecVoteHashes) : w \in Votes
      BY <2>1, <2>4 DEF Elected, Range
    <3>2. w.payee = v.payee /\ SinType[w.vinMasternode] = vec[i].qsteestype
      BY <2>1, <2>3, <3>1 DEF Counts, Elected
    <3> QED
      BY <3>1, <3>2, PaymentsAssumption
  <2> HIDE DEF more, votes, known
  <2>8. /\ DOMAIN new = DOMAIN vec
        /\ \A k \in DOMAIN vec : new[k] = IF k = i THEN more ELSE vec[k]
    BY <2>2
  <2> HIDE DEF new
  <2>9. \A k \in DOMAIN vec : new[k].scriptPubKey = vec[k].scriptPubKey
    BY <2>5, <2>8
  <2>10. ASSUME NEW k \in DOMAIN new
         PROVE  /\ new[k].vecVoteHashes # <<>>
                /\ \A w \in Range(new[k].vecVoteHashes) :
                     SinType[w.vinMasternode] = new[k].qsteestype
    <3>1. CASE k = i
      <4>1. new[k] = more
        BY <2>8, <3>1
      <4>2. \A w \in Range(vec[i].vecVoteHashes) : SinType[w.vinMasternode] = vec[i].qsteestype
        BY <2>8, <3>1 DEF Elected
      <4> QED
        BY <2>5, <2>6, <2>7, <4>1, <4>2
    <3>2. CASE k # i
      BY <2>8, <3>2 DEF Elected
    <3> QED
      BY <3>1, <3>2
  <2> QED
    BY <2>8, <2>9, <2>10 DEF Elected, new
<1>2. CASE known = {} /\ v.vinMasternode \notin mapMasternodes
  BY <1>2 DEF AddPayee
<1>3. CASE known = {} /\ v.vinMasternode \in mapMasternodes
  <2>1. new = Append(vec, first)
    BY <1>3 DEF AddPayee
  <2>2. /\ first.scriptPubKey = v.payee
        /\ first.vecVoteHashes # <<>>
        /\ \A w \in Range(first.vecVoteHashes) : SinType[w.vinMasternode] = first.qsteestype
    BY DEF Range
  <2>3. \A k \in DOMAIN vec : vec[k].scriptPubKey # v.payee
    BY <1>3
  <2> HIDE DEF first
  <2>4. \A k \in DOMAIN new : \/ k \in DOMAIN vec /\ new[k] = vec[k]
                              \/ k = Len(vec) + 1 /\ new[k] = first
    BY <2>1
  <2> HIDE DEF new
  <2>5. \A k, j \in DOMAIN new : new[k].scriptPubKey = new[j].scriptPubKey => k = j
    BY <2>2, <2>3, <2>4 DEF Elected
  <2>6. \A k \in DOMAIN new :
          /\ new[k].vecVoteHashes # <<>>
          /\ \A w \in Range(new[k].vecVoteHashes) :
               SinType[w.vinMasternode] = new[k].qsteestype
    BY <2>2, <2>4 DEF Elected
  <2> QED
    BY <2>5, <2>6 DEF Elected, new
<1> QED
  BY <1>1, <1>2, <1>3

\* AddPaymentVote, in whichever thread.
LEMMA AddPaymentVoteAgrees ==
  ASSUME Agree(mapMasternodePaymentVotes, mapMasternodeBlocks),
         NEW v \in Votes, AddPaymentVote(v)
  PROVE  Agree(mapMasternodePaymentVotes, mapMasternodeBlocks)'
<1> DEFINE f == mapMasternodePaymentVotes
           b == mapMasternodeBlocks
           h == v.nBlockHeight
           vec == IF h \in DOMAIN b THEN b[h] ELSE <<>>
           g == Put(f, v, TRUE)
<1>1. CASE UNCHANGED maps
  BY <1>1 DEF maps
<1>2. CASE /\ ~ HasVerifiedPaymentVote(v)
           /\ f' = g
           /\ b' = Put(b, h, AddPayee(vec, v))
  <2>1. vec \in Seq(Payees) /\ \A i \in DOMAIN vec : Counts(f, h, vec[i])
    BY DEF Agree
  <2>0. Elected(vec)
    BY DEF Agree, Elected
  <2>2. ~ (v \in DOMAIN f /\ f[v] = TRUE)
    BY <1>2 DEF HasVerifiedPaymentVote
  <2> HIDE DEF vec
  <2>3. /\ AddPayee(vec, v) \in Seq(Payees)
        /\ \A i \in DOMAIN AddPayee(vec, v) : Counts(g, h, AddPayee(vec, v)[i])
        /\ Elected(AddPayee(vec, v))
    BY <2>0, <2>1, <2>2, AddPayeeCounts, AddPayeeElected
  <2>4. \A k \in DOMAIN b : /\ b[k] \in Seq(Payees)
                            /\ Elected(b[k])
                            /\ \A i \in DOMAIN b[k] : Counts(g, k, b[k][i])
    BY PutCounts DEF Agree
  <2>5. \A k \in DOMAIN b' : \/ k = h /\ b'[k] = AddPayee(vec, v)
                             \/ k \in DOMAIN b /\ b'[k] = b[k]
    BY <1>2 DEF Put
  <2> HIDE DEF g
  <2>6. \A k \in DOMAIN b' : /\ b'[k] \in Seq(Payees)
                             /\ Elected(b'[k])
                             /\ \A i \in DOMAIN b'[k] : Counts(g, k, b'[k][i])
    BY <2>3, <2>4, <2>5
  <2> QED
    BY <1>2, <2>6 DEF Agree
<1> QED
  BY <1>1, <1>2 DEF AddPaymentVote

\* CheckAndRemove: a counted vote goes only with its block.
LEMMA CheckAndRemoveAgrees ==
  ASSUME Agree(mapMasternodePaymentVotes, mapMasternodeBlocks), CheckAndRemove
  PROVE  Agree(mapMasternodePaymentVotes, mapMasternodeBlocks)'
<1> DEFINE f == mapMasternodePaymentVotes
           b == mapMasternodeBlocks
           old == {v \in DOMAIN f : Old(v)}
           gone == {v.nBlockHeight : v \in old}
<1>1. f' = Without(f, old) /\ b' = Without(b, gone)
  BY DEF CheckAndRemove
<1>2. \A v \in DOMAIN f : v \notin old => v \in DOMAIN f' /\ f'[v] = f[v]
  BY <1>1 DEF Without
<1>3. \A k \in DOMAIN b' : k \in DOMAIN b /\ k \notin gone /\ b'[k] = b[k]
  BY <1>1 DEF Without
<1>4. ASSUME NEW k \in DOMAIN b', NEW i \in DOMAIN b[k] PROVE Counts(f', k, b[k][i])
  <2>1. Counts(f, k, b[k][i])
    BY <1>3 DEF Agree
  <2>2. \A v \in Range(b[k][i].vecVoteHashes) : v \notin old
    BY <1>3, <2>1 DEF Counts
  <2> QED
    BY <1>2, <2>1, <2>2 DEF Counts
<1> QED
  BY <1>3, <1>4 DEF Agree
-----------------------------------------------------------------------------
(* GetBestPayee. *)

States == [nVotes : Int, payee : DOMAIN GetHash \cup {None}]
None0 == [nVotes |-> -1, payee |-> None]
Best(payee) == [nVotes |-> GetVoteCount(payee), payee |-> payee.scriptPubKey]

\* p beats q: it has more votes, or as many and the larger hash.
Beats(p, q) ==
  \/ GetVoteCount(p) > GetVoteCount(q)
  \/ /\ GetVoteCount(p) = GetVoteCount(q)
     /\ GetHash[p.scriptPubKey] > GetHash[q.scriptPubKey]

\* After i turns the loop holds the entry of type t that beats the others among the first i,
\* or nothing if there is none of that type.
Leads(vec, t, i, best) ==
  \/ /\ best = None0
     /\ \A j \in 1 .. i : vec[j].qsteestype # t
  \/ \E k \in 1 .. i :
       /\ vec[k].qsteestype = t
       /\ best = Best(vec[k])
       /\ \A j \in 1 .. i : j # k /\ vec[j].qsteestype = t => Beats(vec[k], vec[j])

\* One turn of the loop.
LEMMA BetterLeads ==
  ASSUME NEW vec \in Seq(Payees), Elected(vec), NEW t, NEW i \in 1 .. Len(vec), NEW best,
         Leads(vec, t, i - 1, best)
  PROVE  Leads(vec, t, i, Better(t, best, vec[i]))
<1> DEFINE p == vec[i]
           new == Better(t, best, p)
<1>1. i \in Nat /\ i - 1 \in Nat /\ \A j \in 1 .. i : j = i \/ j \in 1 .. i - 1
  BY SMT
<1>2. \A j \in 1 .. i : /\ j \in DOMAIN vec
                        /\ vec[j] \in Payees
                        /\ GetVoteCount(vec[j]) \in Nat
                        /\ GetHash[vec[j].scriptPubKey] \in Int
  <2> SUFFICES ASSUME NEW j \in 1 .. i
               PROVE  /\ j \in DOMAIN vec
                      /\ vec[j] \in Payees
                      /\ GetVoteCount(vec[j]) \in Nat
                      /\ GetHash[vec[j].scriptPubKey] \in Int
    OBVIOUS
  <2>1. j \in DOMAIN vec /\ vec[j] \in Payees
    BY SMT
  <2>2. vec[j].vecVoteHashes \in Seq(Votes) /\ vec[j].scriptPubKey \in DOMAIN GetHash
    BY <2>1 DEF Payees
  <2> QED
    BY <2>1, <2>2, PaymentsAssumption DEF GetVoteCount
<1>3. i \in 1 .. i /\ \A j \in 1 .. i - 1 : j \in 1 .. i /\ j # i
  BY SMT
<1>4. CASE p.qsteestype # t
  <2>1. new = best
    BY <1>4 DEF Better
  <2> QED
    BY <1>1, <1>3, <1>4, <2>1 DEF Leads
<1>5. CASE p.qsteestype = t /\ best = None0 /\ \A j \in 1 .. i - 1 : vec[j].qsteestype # t
  <2>1. best.nVotes = -1
    BY <1>5 DEF None0
  <2>2. new = Best(p)
    BY <1>2, <1>3, <1>5, <2>1 DEF Better, Best
  <2> QED
    BY <1>1, <1>3, <1>5, <2>2 DEF Leads
<1>6. ASSUME p.qsteestype = t, NEW k \in 1 .. i - 1, vec[k].qsteestype = t,
             best = Best(vec[k]),
             \A j \in 1 .. i - 1 : j # k /\ vec[j].qsteestype = t => Beats(vec[k], vec[j])
      PROVE  Leads(vec, t, i, new)
  <2>1. /\ best.nVotes = GetVoteCount(vec[k])
        /\ best.payee = vec[k].scriptPubKey
    BY <1>6 DEF Best
  <2>2. CASE Beats(p, vec[k])
    <3>1. new = Best(p)
      BY <1>6, <2>1, <2>2 DEF Better, Best, Beats
    <3>2. ASSUME NEW j \in 1 .. i, j # i, vec[j].qsteestype = t PROVE Beats(p, vec[j])
      <4>1. j \in 1 .. i - 1 /\ k \in 1 .. i
        BY <1>1, <1>3, <3>2
      <4>2. CASE j = k
        BY <2>2, <4>2
      <4>3. CASE j # k
        <5>1. Beats(vec[k], vec[j])
          BY <1>6, <3>2, <4>1, <4>3
        <5> QED
          BY <1>2, <1>3, <2>2, <4>1, <5>1, SMT DEF Beats
      <4> QED
        BY <4>2, <4>3
    <3> QED
      BY <1>3, <1>6, <3>1, <3>2 DEF Leads
  <2>3. CASE ~ Beats(p, vec[k])
    <3>1. new = best
      BY <1>6, <2>1, <2>3 DEF Better, Beats
    <3>2. Beats(vec[k], p)
      <4>1. vec[k].scriptPubKey # p.scriptPubKey
        BY <1>2, <1>3 DEF Elected
      <4>2. GetHash[vec[k].scriptPubKey] # GetHash[p.scriptPubKey]
        BY <1>2, <1>3, <4>1, PaymentsAssumption DEF Payees
      <4> QED
        BY <1>2, <1>3, <2>3, <4>2, SMT DEF Beats
    <3>3. \A j \in 1 .. i : j # k /\ vec[j].qsteestype = t => Beats(vec[k], vec[j])
      BY <1>1, <1>6, <3>2
    <3> QED
      BY <1>3, <1>6, <3>1, <3>3 DEF Leads
  <2> QED
    BY <2>2, <2>3
<1> QED
  BY <1>4, <1>5, <1>6 DEF Leads

\* GetBestPayee is the payee of the entry that leads after the last turn.
LEMMA BestPayeeLeads ==
  ASSUME NEW vec \in Seq(Payees), Elected(vec), NEW t
  PROVE  \E best : Leads(vec, t, Len(vec), best) /\ GetBestPayee(vec, t) = best.payee
<1> DEFINE n == Len(vec)
           F == [x \in States \X (1 .. n) |-> Better(t, x[1], vec[x[2]])]
           Loop(f) == f = [i \in 0 .. n |-> IF i = 0 THEN None0
                                            ELSE Better(t, f[i - 1], vec[i])]
           best == CHOOSE f : Loop(f)
<1>1. n \in Nat /\ None0 \in States
  BY DEF None0, States
<1>2. ASSUME NEW b \in States, NEW i \in 1 .. n PROVE Better(t, b, vec[i]) \in States
  <2>1. vec[i] \in Payees
    OBVIOUS
  <2>2. Best(vec[i]) \in States
    BY <2>1 DEF Best, States, Payees, GetVoteCount
  <2>3. Better(t, b, vec[i]) = Best(vec[i]) \/ Better(t, b, vec[i]) = b
    BY DEF Better, Best
  <2> QED
    BY <2>2, <2>3
<1>3. F \in Bodies(n, States)
  BY <1>2 DEF Bodies
<1>4. \A b \in States, i \in 1 .. n : F[<<b, i>>] = Better(t, b, vec[i])
  OBVIOUS
<1> HIDE DEF F
<1>5. PICK g : IsLoop(n, States, None0, F, g)
  BY <1>1, <1>3, LoopExists
<1>6. Loop(g)
  <2>1. \A i \in 0 .. n : g[i] = IF i = 0 THEN None0 ELSE F[<<g[i - 1], i>>]
    BY <1>1, <1>5, SMT DEF IsLoop
  <2>2. ASSUME NEW i \in 0 .. n, i # 0 PROVE F[<<g[i - 1], i>>] = Better(t, g[i - 1], vec[i])
    <3>1. i \in 1 .. n /\ i - 1 \in 0 .. n
      BY <1>1, <2>2, SMT
    <3> QED
      BY <1>4, <1>5, <3>1 DEF IsLoop
  <2> QED
    BY <1>5, <2>1, <2>2 DEF IsLoop
<1>7. Loop(best)
  BY <1>6
<1>8. GetBestPayee(vec, t) = best[n].payee
  BY DEF GetBestPayee, None0
<1> HIDE DEF best
<1>9. \A i \in 0 .. n : best[i] = IF i = 0 THEN None0 ELSE Better(t, best[i - 1], vec[i])
  BY <1>7
<1> DEFINE P == {i \in 0 .. n : Leads(vec, t, i, best[i])}
<1>10. 0 \in P
  <2>1. best[0] = None0
    BY <1>1, <1>9, SMT
  <2>2. Leads(vec, t, 0, None0)
    BY SMT DEF Leads
  <2> QED
    BY <1>1, <2>1, <2>2
<1>11. ASSUME NEW i \in 0 .. n - 1, i \in P PROVE i + 1 \in P
  <2>1. i + 1 \in 1 .. n /\ i + 1 \in 0 .. n /\ i + 1 # 0 /\ (i + 1) - 1 = i
    BY <1>1, SMT
  <2>2. best[i + 1] = Better(t, best[i], vec[i + 1])
    BY <1>9, <2>1
  <2>3. Leads(vec, t, (i + 1) - 1, best[i])
    BY <1>11, <2>1
  <2>4. Leads(vec, t, i + 1, Better(t, best[i], vec[i + 1]))
    BY <2>1, <2>3, BetterLeads
  <2> QED
    BY <2>1, <2>2, <2>4
<1> HIDE DEF P, n
<1>12. \A i \in 0 .. n : i \in P
  BY <1>1, <1>10, <1>11, UpTo
<1>13. Leads(vec, t, n, best[n])
  BY <1>1, <1>12 DEF P
<1> QED
  BY <1>8, <1>13 DEF n

\* A vector without repetition has as many elements as entries.
LEMMA InjectiveCount ==
  ASSUME NEW s \in Seq(Votes), IsInjective(s)
  PROVE  Cardinality(Range(s)) = Len(s)
<1>1. Len(s) \in Nat /\ s \in [1 .. Len(s) -> Range(s)]
  BY DEF Range
<1>2. s \in Bijection(1 .. Len(s), Range(s))
  BY <1>1 DEF Bijection, Injection, Surjection, Range
<1>3. ExistsBijection(1 .. Len(s), Range(s))
  BY <1>2 DEF ExistsBijection
<1> QED
  BY <1>1, <1>3, FS_CountingElements

\* The entry that leads has the plurality of the votes of its type: an entry counts all votes
\* for its payee, and every payee with a vote has an entry.
LEMMA LeaderIsPlurality ==
  ASSUME NEW f, NEW h, NEW vec \in Seq(Payees), Elected(vec),
         \A i \in DOMAIN vec : Counts(f, h, vec[i]), NEW t
  PROVE  GetBestPayee(vec, t) =
           Plurality({v \in UNION {Range(vec[i].vecVoteHashes) : i \in DOMAIN vec} :
                        SinType[v.vinMasternode] = t})
<1> DEFINE votes == {v \in UNION {Range(vec[i].vecVoteHashes) : i \in DOMAIN vec} :
                       SinType[v.vinMasternode] = t}
           count(p) == Cardinality({v \in votes : v.payee = p})
           payees == {v.payee : v \in votes}
           Wins(p) == \A q \in payees \ {p} : \/ count(p) > count(q)
                                              \/ count(p) = count(q) /\ GetHash[p] > GetHash[q]
<1>1. PICK best : Leads(vec, t, Len(vec), best) /\ GetBestPayee(vec, t) = best.payee
  BY BestPayeeLeads
<1>2. DOMAIN vec = 1 .. Len(vec)
  OBVIOUS
<1>3. \A i \in DOMAIN vec : \A v \in Range(vec[i].vecVoteHashes) :
        v.payee = vec[i].scriptPubKey /\ SinType[v.vinMasternode] = vec[i].qsteestype
  BY DEF Counts, Elected
<1>4. \A i \in DOMAIN vec : /\ vec[i].vecVoteHashes \in Seq(Votes)
                            /\ IsInjective(vec[i].vecVoteHashes)
                            /\ vec[i].vecVoteHashes # <<>>
                            /\ vec[i].scriptPubKey \in DOMAIN GetHash
  <2>1. \A i \in DOMAIN vec : vec[i] \in Payees
    OBVIOUS
  <2>2. \A i \in DOMAIN vec : /\ vec[i].vecVoteHashes \in Seq(Votes)
                              /\ vec[i].scriptPubKey \in DOMAIN GetHash
    BY <2>1 DEF Payees
  <2> QED
    BY <2>2 DEF Counts, Elected
<1>5. \A v \in votes : \E i \in DOMAIN vec : /\ v \in Range(vec[i].vecVoteHashes)
                                             /\ vec[i].qsteestype = t
                                             /\ v.payee = vec[i].scriptPubKey
  BY <1>3
<1>6. ASSUME NEW i \in DOMAIN vec, vec[i].qsteestype = t
      PROVE  /\ {v \in votes : v.payee = vec[i].scriptPubKey} = Range(vec[i].vecVoteHashes)
             /\ count(vec[i].scriptPubKey) = GetVoteCount(vec[i])
             /\ vec[i].scriptPubKey \in payees
  <2>1. {v \in votes : v.payee = vec[i].scriptPubKey} = Range(vec[i].vecVoteHashes)
    <3>1. ASSUME NEW v \in votes, v.payee = vec[i].scriptPubKey
          PROVE  v \in Range(vec[i].vecVoteHashes)
      BY <1>5, <3>1 DEF Elected
    <3>2. ASSUME NEW v \in Range(vec[i].vecVoteHashes)
          PROVE  v \in votes /\ v.payee = vec[i].scriptPubKey
      BY <1>3, <1>6
    <3> QED
      BY <3>1, <3>2
  <2>2. count(vec[i].scriptPubKey) = GetVoteCount(vec[i])
    BY <1>4, <2>1, InjectiveCount DEF GetVoteCount
  <2>3. PICK v : v \in Range(vec[i].vecVoteHashes)
    <3> DEFINE s == vec[i].vecVoteHashes
    <3>1. s \in Seq(Votes) /\ s # <<>>
      BY <1>4
    <3> HIDE DEF s
    <3>2. 1 \in DOMAIN s
      BY <3>1
    <3> QED
      BY <3>2 DEF Range, s
  <2> QED
    BY <2>1, <2>2, <2>3
<1>7. Plurality(votes) = IF votes = {} THEN None ELSE CHOOSE p \in payees : Wins(p)
  BY DEF Plurality
<1> HIDE DEF votes
<1>8. CASE best = None0 /\ \A j \in 1 .. Len(vec) : vec[j].qsteestype # t
  <2>1. votes = {}
    BY <1>2, <1>5, <1>8
  <2> QED
    BY <1>1, <1>7, <1>8, <2>1 DEF None0, votes
<1>9. ASSUME NEW k \in 1 .. Len(vec), vec[k].qsteestype = t, best = Best(vec[k]),
             \A j \in 1 .. Len(vec) : j # k /\ vec[j].qsteestype = t => Beats(vec[k], vec[j])
      PROVE  GetBestPayee(vec, t) = Plurality(votes)
  <2> DEFINE p == vec[k].scriptPubKey
  <2>1. p \in payees /\ votes # {} /\ GetBestPayee(vec, t) = p
    BY <1>1, <1>2, <1>6, <1>9 DEF Best
  <2>2. \A q \in payees : \E j \in DOMAIN vec : vec[j].qsteestype = t /\ q = vec[j].scriptPubKey
    BY <1>5
  <2> HIDE DEF payees
  <2>3. ASSUME NEW q \in payees, q # p
        PROVE  /\ \/ count(p) > count(q)
                  \/ count(p) = count(q) /\ GetHash[p] > GetHash[q]
               /\ ~ (\/ count(q) > count(p)
                     \/ count(q) = count(p) /\ GetHash[q] > GetHash[p])
    <3>1. PICK j \in DOMAIN vec : vec[j].qsteestype = t /\ q = vec[j].scriptPubKey
      BY <2>2
    <3>2. Beats(vec[k], vec[j])
      BY <1>2, <1>9, <2>3, <3>1
    <3>3. count(p) = GetVoteCount(vec[k]) /\ count(q) = GetVoteCount(vec[j])
      BY <1>2, <1>6, <1>9, <3>1
    <3>4. /\ GetVoteCount(vec[k]) \in Nat /\ GetVoteCount(vec[j]) \in Nat
          /\ GetHash[p] \in Int /\ GetHash[q] \in Int
      BY <1>2, <1>4, <3>1, PaymentsAssumption DEF GetVoteCount
    <3> HIDE DEF count
    <3> QED
      BY <3>1, <3>2, <3>3, <3>4, SMT DEF Beats
  <2> HIDE DEF count
  <2>4. Wins(p) /\ \A q \in payees : Wins(q) => q = p
    BY <2>1, <2>3
  <2> HIDE DEF Wins, p
  <2>5. (CHOOSE q \in payees : Wins(q)) = p
    BY <2>1, <2>4
  <2> QED
    BY <1>7, <2>1, <2>5
<1> QED
  BY <1>1, <1>8, <1>9 DEF Leads, votes

-----------------------------------------------------------------------------
(* The invariant. *)

\* It holds at the start: both maps are empty, in memory and on disk.
LEMMA CountsInvInit == Init => CountsInv
BY DEF Init, CountsInv, Agree, Empty, Idle

\* Every step preserves it.
LEMMA CountsInvStep == CountsInv /\ [Next]_vars => CountsInv'
<1> SUFFICES ASSUME CountsInv, [Next]_vars PROVE CountsInv'
  OBVIOUS
<1> DEFINE f == mapMasternodePaymentVotes
           b == mapMasternodeBlocks
<1>1. ASSUME NEW v \in Votes, ReceiveVote(v) PROVE CountsInv'
  <2>1. f' = Put(f, v, FALSE) /\ v \notin DOMAIN f /\ b' = b
    BY <1>1 DEF ReceiveVote
  <2>2. ASSUME NEW h \in DOMAIN b, NEW i \in DOMAIN b[h] PROVE Counts(f', h, b[h][i])
    <3>1. Counts(f, h, b[h][i])
      BY DEF CountsInv, Agree
    <3>2. \A w \in DOMAIN f : w \in DOMAIN f' /\ f'[w] = f[w]
      BY <2>1 DEF Put
    <3> QED
      BY <3>1, <3>2 DEF Counts
  <2>3. Agree(f, b)'
    BY <2>1, <2>2 DEF CountsInv, Agree
  <2> QED
    BY <1>1, <2>3 DEF ReceiveVote, CountsInv
<1>2. ASSUME NEW sameKey \in BOOLEAN, CheckVote(sameKey) PROVE CountsInv'
  <2>1. handler'.step # "idle" => handler'.vote = handler.vote /\ handler.step = "seen"
    BY <1>2 DEF CheckVote, Idle
  <2> QED
    BY <1>2, <2>1 DEF CheckVote, CountsInv, maps
<1>3. CASE AddReceivedVote
  <2>1. handler.vote \in Votes /\ AddPaymentVote(handler.vote)
    BY <1>3 DEF AddReceivedVote, CountsInv
  <2>2. Agree(f, b)'
    BY <2>1, AddPaymentVoteAgrees DEF CountsInv
  <2> QED
    BY <1>3, <2>2 DEF AddReceivedVote, CountsInv, Idle
<1>4. CASE UpdatedBlockTip
  <2>1. scheduler' # None => scheduler' \in Votes
    BY <1>4 DEF UpdatedBlockTip, OwnVotes
  <2> QED
    BY <1>4, <2>1 DEF UpdatedBlockTip, CountsInv, maps
<1>5. CASE AddOwnVote
  <2>1. scheduler \in Votes /\ AddPaymentVote(scheduler)
    BY <1>5 DEF AddOwnVote, CountsInv
  <2>2. Agree(f, b)'
    BY <2>1, AddPaymentVoteAgrees DEF CountsInv
  <2> QED
    BY <1>5, <2>2 DEF AddOwnVote, CountsInv
<1>6. CASE CheckAndRemove
  BY <1>6, CheckAndRemoveAgrees DEF CheckAndRemove, CountsInv
<1>7. ASSUME NEW clean \in BOOLEAN, Restart(clean) PROVE CountsInv'
  <2>1. Agree(disk'.votes, disk'.blocks)
    BY <1>7 DEF Restart, CountsInv
  <2>2. Agree(Empty, Empty)
    BY DEF Agree, Empty
  <2>3. Agree(f, b)'
    BY <1>7, <2>1, <2>2 DEF Restart
  <2> QED
    BY <1>7, <2>1, <2>3 DEF Restart, CountsInv, Idle
<1>8. CASE \/ FillBlockPayments \/ ConnectBlock \/ DisconnectBlock \/ ListSynced
           \/ \E mn \in Masternodes : MasternodeListChange(mn)
           \/ UNCHANGED vars
  BY <1>8 DEF FillBlockPayments, ConnectBlock, DisconnectBlock, ListSynced,
              MasternodeListChange, vars, maps, CountsInv
<1> QED
  BY <1>1, <1>2, <1>3, <1>4, <1>5, <1>6, <1>7, <1>8 DEF Next

-----------------------------------------------------------------------------
(* Theorem. *)

\* For any masternodes, votes, heights and storage limit: whatever peers send, in whatever
\* order the message, scheduler and maintenance threads work, and however the node stops and
\* starts, a vote is counted for a payee only if it is a verified vote for that payee and
\* that block, and is counted once.
THEOREM VotesAreCountedOnce == Spec => []CountsAreVotes
<1>1. CountsInv => CountsAreVotes
  BY DEF CountsInv, Agree, Counts, CountsAreVotes, HasVerifiedPaymentVote
<1> QED
  BY <1>1, CountsInvInit, CountsInvStep, PTL DEF Spec

\* Whatever the votes and the order in which the threads counted them, and whoever entered or
\* left the list meanwhile, GetBestPayee finds for each type the payee with most of the votes
\* that are counted, the larger hash in a tie: its result depends on the set of counted votes
\* alone.
THEOREM BestPayeeIsElected == Spec => []BestPayeeIsPlurality
<1>1. CountsInv => BestPayeeIsPlurality
  <2> SUFFICES ASSUME CountsInv, NEW h \in DOMAIN mapMasternodeBlocks, NEW t \in Types
               PROVE  GetBestPayee(mapMasternodeBlocks[h], t) =
                        Plurality({v \in Counted(h) : SinType[v.vinMasternode] = t})
    BY DEF BestPayeeIsPlurality
  <2> DEFINE vec == mapMasternodeBlocks[h]
  <2>1. /\ vec \in Seq(Payees)
        /\ Elected(vec)
        /\ \A i \in DOMAIN vec : Counts(mapMasternodePaymentVotes, h, vec[i])
    BY DEF CountsInv, Agree
  <2>2. Counted(h) = UNION {Range(vec[i].vecVoteHashes) : i \in DOMAIN vec}
    BY DEF Counted
  <2> QED
    BY <2>1, <2>2, LeaderIsPlurality
<1> QED
  BY <1>1, CountsInvInit, CountsInvStep, PTL DEF Spec

-----------------------------------------------------------------------------
(* Type correctness. *)

\* The types of the two maps f and b.
MapsOK(f, b) ==
  /\ DOMAIN f \subseteq Votes
  /\ \A v \in DOMAIN f : f[v] \in BOOLEAN
  /\ DOMAIN b \subseteq Heights

TypeInv ==
  /\ MapsOK(mapMasternodePaymentVotes, mapMasternodeBlocks)
  /\ MapsOK(disk.votes, disk.blocks)
  /\ mapMasternodesLastVote \in [Masternodes -> Heights \cup {0}]
  /\ nCachedBlockHeight \in 0 .. MaxHeight
  /\ tip \in 0 .. MaxHeight
  /\ mapMasternodes \subseteq Masternodes
  /\ listSynced \in BOOLEAN
  /\ handler \in [step : {"idle", "seen", "checked"}, vote : Votes \cup {None}]
  /\ scheduler \in Votes \cup {None}

\* A stored vote, and the block it is for.
LEMMA PutMapsOK ==
  ASSUME NEW f, NEW b, MapsOK(f, b), NEW v \in Votes, NEW verified \in BOOLEAN, NEW vec
  PROVE  /\ MapsOK(Put(f, v, verified), b)
         /\ MapsOK(Put(f, v, verified), Put(b, v.nBlockHeight, vec))
BY DEF MapsOK, Put, Heights

\* AddPaymentVote, in whichever thread.
LEMMA AddPaymentVoteMapsOK ==
  ASSUME MapsOK(mapMasternodePaymentVotes, mapMasternodeBlocks), NEW v \in Votes,
         AddPaymentVote(v)
  PROVE  MapsOK(mapMasternodePaymentVotes, mapMasternodeBlocks)'
<1> DEFINE f == mapMasternodePaymentVotes
           b == mapMasternodeBlocks
<1>1. CASE UNCHANGED maps
  BY <1>1 DEF maps
<1>2. CASE \E vec : f' = Put(f, v, TRUE) /\ b' = Put(b, v.nBlockHeight, vec)
  BY <1>2, PutMapsOK, TRUE \in BOOLEAN
<1> QED
  BY <1>1, <1>2, Zenon DEF AddPaymentVote

\* The first state has the types.
LEMMA TypeInvInit == Init => TypeInv
<1> SUFFICES ASSUME Init PROVE TypeInv
  OBVIOUS
<1>1. MapsOK(Empty, Empty)
  BY DEF MapsOK, Empty
<1>2. disk.votes = Empty /\ disk.blocks = Empty
  BY DEF Init
<1>3. mapMasternodesLastVote \in [Masternodes -> Heights \cup {0}]
  BY DEF Init
<1>4. handler \in [step : {"idle", "seen", "checked"}, vote : Votes \cup {None}]
  BY DEF Init, Idle
<1> QED
  BY <1>1, <1>2, <1>3, <1>4, PaymentsAssumption DEF Init, TypeInv

\* Every step keeps the types; that votes in progress are votes comes from CountsInv.
LEMMA TypeInvStep == TypeInv /\ CountsInv /\ [Next]_vars => TypeInv'
<1> SUFFICES ASSUME TypeInv, CountsInv, [Next]_vars PROVE TypeInv'
  OBVIOUS
<1> USE PaymentsAssumption
<1> DEFINE f == mapMasternodePaymentVotes
           b == mapMasternodeBlocks
           Handlers == [step : {"idle", "seen", "checked"}, vote : Votes \cup {None}]
<1>0. Idle \in Handlers
  BY DEF Idle
<1>1. ASSUME NEW v \in Votes, ReceiveVote(v) PROVE TypeInv'
  <2>1. MapsOK(f, b)'
    <3>1. f' = Put(f, v, FALSE) /\ b' = b
      BY <1>1 DEF ReceiveVote
    <3> QED
      BY <3>1, PutMapsOK, FALSE \in BOOLEAN DEF TypeInv
  <2>2. handler' \in Handlers
    BY <1>1 DEF ReceiveVote
  <2> QED
    BY <1>1, <2>1, <2>2 DEF ReceiveVote, TypeInv, node
<1>2. ASSUME NEW sameKey \in BOOLEAN, CheckVote(sameKey) PROVE TypeInv'
  <2>1. handler.vote \in Votes
    BY <1>2 DEF CheckVote, CountsInv
  <2>2. handler' \in Handlers
    <3>1. handler' = Idle \/ handler' = [handler EXCEPT !.step = "checked"]
      BY <1>2 DEF CheckVote
    <3> QED
      BY <1>0, <3>1 DEF TypeInv
  <2>3. mapMasternodesLastVote' \in [Masternodes -> Heights \cup {0}]
    <3>1. \/ mapMasternodesLastVote' = mapMasternodesLastVote
          \/ mapMasternodesLastVote' = [mapMasternodesLastVote EXCEPT
                                          ![handler.vote.vinMasternode] = handler.vote.nBlockHeight]
      BY <1>2 DEF CheckVote
    <3>2. handler.vote.nBlockHeight \in Heights
      BY <2>1 DEF Heights
    <3> QED
      BY <3>1, <3>2 DEF TypeInv
  <2> QED
    BY <1>2, <2>2, <2>3 DEF CheckVote, TypeInv, maps, node
<1>3. CASE AddReceivedVote
  <2>1. handler.vote \in Votes /\ AddPaymentVote(handler.vote)
    BY <1>3 DEF AddReceivedVote, CountsInv
  <2>2. MapsOK(f, b)'
    BY <2>1, AddPaymentVoteMapsOK DEF TypeInv
  <2> QED
    BY <1>0, <1>3, <2>2 DEF AddReceivedVote, TypeInv, node
<1>4. CASE UpdatedBlockTip
  <2>1. scheduler' \in Votes \cup {None}
    BY <1>4 DEF UpdatedBlockTip, OwnVotes
  <2> QED
    BY <1>4, <2>1 DEF UpdatedBlockTip, TypeInv, maps, node
<1>5. CASE AddOwnVote
  <2>1. scheduler \in Votes /\ AddPaymentVote(scheduler)
    BY <1>5 DEF AddOwnVote, CountsInv
  <2>2. MapsOK(f, b)'
    BY <2>1, AddPaymentVoteMapsOK DEF TypeInv
  <2> QED
    BY <1>5, <2>2 DEF AddOwnVote, TypeInv, node
<1>6. CASE CheckAndRemove
  <2>1. MapsOK(f, b)'
    <3>1. \E old, gone : f' = Without(f, old) /\ b' = Without(b, gone)
      BY <1>6 DEF CheckAndRemove
    <3> QED
      BY <3>1 DEF Without, MapsOK, TypeInv
  <2> QED
    BY <1>6, <2>1 DEF CheckAndRemove, TypeInv, node
<1>7. ASSUME NEW clean \in BOOLEAN, Restart(clean) PROVE TypeInv'
  <2>1. MapsOK(disk'.votes, disk'.blocks)
    BY <1>7 DEF Restart, TypeInv
  <2>2. MapsOK(Empty, Empty)
    BY DEF MapsOK, Empty
  <2>3. MapsOK(f, b)'
    BY <1>7, <2>1, <2>2 DEF Restart
  <2>4. mapMasternodesLastVote' \in [Masternodes -> Heights \cup {0}]
    BY <1>7 DEF Restart
  <2> QED
    BY <1>0, <1>7, <2>1, <2>3, <2>4 DEF Restart, TypeInv
<1>8. CASE ConnectBlock \/ DisconnectBlock
  <2>1. tip' \in 0 .. MaxHeight
    BY <1>8, SMT DEF ConnectBlock, DisconnectBlock, TypeInv
  <2> QED
    BY <1>8, <2>1 DEF ConnectBlock, DisconnectBlock, TypeInv, maps, node
<1>9. ASSUME NEW mn \in Masternodes, MasternodeListChange(mn) PROVE TypeInv'
  <2>1. mapMasternodes' \subseteq Masternodes
    BY <1>9 DEF MasternodeListChange, TypeInv
  <2> QED
    BY <1>9, <2>1 DEF MasternodeListChange, TypeInv, maps
<1>10. CASE ListSynced
  BY <1>10 DEF ListSynced, TypeInv, maps
<1>11. CASE FillBlockPayments \/ UNCHANGED vars
  BY <1>11 DEF FillBlockPayments, vars, maps, node, TypeInv
<1> QED
  BY <1>1, <1>2, <1>3, <1>4, <1>5, <1>6, <1>7, <1>8, <1>9, <1>10, <1>11 DEF Next

\* The maps hold votes and the blocks they are for, in memory and after every restart, and each
\* thread is at a vote whenever it is about to add one.
THEOREM TypeCorrect == Spec => []TypeOK
<1>1. CountsInv /\ TypeInv => TypeOK
  BY DEF CountsInv, Agree, TypeInv, MapsOK, TypeOK
<1> QED
  BY <1>1, CountsInvInit, CountsInvStep, TypeInvInit, TypeInvStep, PTL DEF Spec

-----------------------------------------------------------------------------
(* The miner's template. *)

\* The block at h has an entry for payee p.
Listed(b, h, p) == h \in DOMAIN b /\ \E j \in DOMAIN b[h] : b[h][j].scriptPubKey = p

\* Each output of the template goes to the burn address or to a payee that has votes.
TemplateInv ==
  coinbase # None =>
    /\ coinbase.nBlockHeight = tip + 1
    /\ DOMAIN coinbase.vout = DOMAIN Tiers
    /\ \A i \in DOMAIN Tiers : \/ coinbase.vout[i] = BURN
                               \/ Listed(mapMasternodeBlocks, tip + 1, coinbase.vout[i])

\* The chain has not been cut back so far that the votes for its next block are old.
Shallow == nCachedBlockHeight - (tip + 1) <= LIMIT

\* What was voted for stays in the block when a vote is added.
LEMMA AddPaymentVoteKeeps ==
  ASSUME CountsInv, NEW v \in Votes, AddPaymentVote(v), NEW h, NEW p,
         Listed(mapMasternodeBlocks, h, p)
  PROVE  Listed(mapMasternodeBlocks, h, p)'
<1> DEFINE b == mapMasternodeBlocks
           vec == b[h]
           new == AddPayee(vec, v)
<1>1. CASE UNCHANGED maps
  BY <1>1 DEF maps, Listed
<1>2. CASE ~ UNCHANGED maps /\ h # v.nBlockHeight
  <2>1. \E w : b' = Put(b, v.nBlockHeight, w)
    BY <1>2 DEF AddPaymentVote
  <2> QED
    BY <1>2, <2>1 DEF Put, Listed
<1>3. CASE ~ UNCHANGED maps /\ h = v.nBlockHeight
  <2>1. h \in DOMAIN b' /\ b'[h] = new
    BY <1>3 DEF AddPaymentVote, Put, Listed
  <2>2. vec \in Seq(Payees)
    BY DEF CountsInv, Agree, Listed
  <2> HIDE DEF vec
  <2>3. \A j \in DOMAIN vec : j \in DOMAIN new /\ new[j].scriptPubKey = vec[j].scriptPubKey
    <3> DEFINE known == {i \in DOMAIN vec : vec[i].scriptPubKey = v.payee}
               i == CHOOSE i \in known : \A j \in known : i <= j
               more == [vec[i] EXCEPT !.vecVoteHashes = Append(@, v)]
    <3>1. CASE known # {}
      <4>1. i \in known
        <5>1. known \in SUBSET Nat
          BY <2>2
        <5> QED
          BY <3>1, <5>1, SmallestNat
      <4>2. new = [vec EXCEPT ![i] = more]
        BY <3>1, <4>1, <2>2 DEF AddPayee
      <4>3. more.scriptPubKey = vec[i].scriptPubKey
        <5>1. vec[i] \in Payees
          BY <2>2, <4>1
        <5> QED
          BY <5>1 DEF Payees
      <4> HIDE DEF i, more
      <4> QED
        BY <4>2, <4>3
    <3>2. CASE known = {}
      BY <2>2, <3>2 DEF AddPayee
    <3> QED
      BY <3>1, <3>2
  <2> HIDE DEF new
  <2> QED
    BY <2>1, <2>3 DEF Listed, vec
<1> QED
  BY <1>1, <1>2, <1>3

\* FillBlockPayments takes its payees from the votes.
LEMMA OutputsAreListed ==
  ASSUME CountsInv, NEW h, NEW i \in DOMAIN Tiers
  PROVE  Outputs(h)[i] = BURN \/ Listed(mapMasternodeBlocks, h, Outputs(h)[i])
<1> DEFINE vec == mapMasternodeBlocks[h]
           best == GetBestPayee(vec, Tiers[i])
<1>1. CASE h \notin DOMAIN mapMasternodeBlocks
  BY <1>1 DEF Outputs
<1>2. CASE h \in DOMAIN mapMasternodeBlocks
  <2>1. vec \in Seq(Payees) /\ Elected(vec)
    BY <1>2 DEF CountsInv, Agree
  <2>2. Outputs(h)[i] = IF best = None THEN BURN ELSE best
    BY <1>2 DEF Outputs
  <2>3. PICK lead : Leads(vec, Tiers[i], Len(vec), lead) /\ best = lead.payee
    BY <2>1, BestPayeeLeads
  <2>4. best = None \/ \E j \in DOMAIN vec : best = vec[j].scriptPubKey
    BY <2>1, <2>3 DEF Leads, None0, Best
  <2> QED
    BY <1>2, <2>2, <2>4 DEF Listed
<1> QED
  BY <1>1, <1>2

\* A template with an output for each type, each burnt or for a payee with votes, is valid.
LEMMA ListedIsValid == TemplateInv => TemplateStaysValid
<1> SUFFICES ASSUME TemplateInv, coinbase # None, coinbase.nBlockHeight \in DOMAIN mapMasternodeBlocks
             PROVE  LET vec == mapMasternodeBlocks[coinbase.nBlockHeight]
                        paid == {i \in DOMAIN coinbase.vout : coinbase.vout[i] = BURN \/
                                   \E j \in DOMAIN vec : vec[j].scriptPubKey = coinbase.vout[i]}
                    IN Cardinality(paid) = Len(Tiers)
  BY DEF TemplateStaysValid, IsTransactionValid
<1> DEFINE vec == mapMasternodeBlocks[coinbase.nBlockHeight]
           paid == {i \in DOMAIN coinbase.vout : coinbase.vout[i] = BURN \/
                      \E j \in DOMAIN vec : vec[j].scriptPubKey = coinbase.vout[i]}
<1>1. paid = DOMAIN Tiers
  BY DEF TemplateInv, Listed
<1>2. DOMAIN Tiers = 1 .. Len(Tiers) /\ Len(Tiers) \in Nat
  BY PaymentsAssumption
<1>3. Cardinality(1 .. Len(Tiers)) = Len(Tiers)
  <2> DEFINE n == Len(Tiers)
  <2>1. 1 \in Int /\ n \in Int /\ n \in Nat
    BY <1>2
  <2> HIDE DEF n
  <2>2. Cardinality(1 .. n) = IF 1 > n THEN 0 ELSE n - 1 + 1
    BY <2>1, FS_Interval
  <2> QED
    BY <2>1, <2>2, SMT DEF n
<1> QED
  BY <1>1, <1>2, <1>3

\* Every step from a state where the votes for the next block are not old.
LEMMA TemplateInvStep ==
  TemplateInv /\ CountsInv /\ TypeInv /\ Shallow /\ [Next]_vars => TemplateInv'
<1> SUFFICES ASSUME TemplateInv, CountsInv, TypeInv, Shallow, [Next]_vars,
                    coinbase' # None
             PROVE  TemplateInv'
  BY DEF TemplateInv
<1> DEFINE b == mapMasternodeBlocks
<1>1. CASE FillBlockPayments
  <2>1. /\ coinbase'.nBlockHeight = tip + 1
        /\ coinbase'.vout = Outputs(tip + 1)
        /\ b' = b
        /\ tip' = tip
    BY <1>1 DEF FillBlockPayments, maps
  <2>2. DOMAIN Outputs(tip + 1) = DOMAIN Tiers
    BY DEF Outputs
  <2> QED
    BY <2>1, <2>2, OutputsAreListed DEF TemplateInv
<1>2. ASSUME UNCHANGED <<coinbase, tip>>,
             \A p : Listed(b, tip + 1, p) => Listed(b', tip + 1, p)
      PROVE  TemplateInv'
  BY <1>2 DEF TemplateInv
<1>3. CASE AddReceivedVote
  <2>1. handler.vote \in Votes /\ AddPaymentVote(handler.vote) /\ UNCHANGED <<coinbase, tip>>
    BY <1>3 DEF AddReceivedVote, CountsInv
  <2>2. \A p : Listed(b, tip + 1, p) => Listed(b', tip + 1, p)
    BY <2>1, AddPaymentVoteKeeps
  <2> QED
    BY <1>2, <2>1, <2>2
<1>4. CASE AddOwnVote
  <2>1. scheduler \in Votes /\ AddPaymentVote(scheduler) /\ UNCHANGED <<coinbase, tip>>
    BY <1>4 DEF AddOwnVote, CountsInv
  <2>2. \A p : Listed(b, tip + 1, p) => Listed(b', tip + 1, p)
    BY <2>1, AddPaymentVoteKeeps
  <2> QED
    BY <1>2, <2>1, <2>2
<1>5. CASE CheckAndRemove
  <2> DEFINE old == {v \in DOMAIN mapMasternodePaymentVotes : Old(v)}
             gone == {v.nBlockHeight : v \in old}
  <2>1. b' = Without(b, gone) /\ UNCHANGED <<coinbase, tip>>
    BY <1>5 DEF CheckAndRemove
  <2>2. tip + 1 \notin gone
    <3>1. tip \in Nat /\ nCachedBlockHeight \in Nat /\ LIMIT \in Nat
      BY PaymentsAssumption DEF TypeInv
    <3>2. \A v \in old : nCachedBlockHeight - v.nBlockHeight > LIMIT
      BY DEF Old
    <3> QED
      BY <3>1, <3>2 DEF Shallow
  <2> HIDE DEF gone
  <2>3. \A p : Listed(b, tip + 1, p) => Listed(b', tip + 1, p)
    BY <2>1, <2>2 DEF Listed, Without
  <2> QED
    BY <1>2, <2>1, <2>3
<1>6. CASE \/ \E v \in Votes : ReceiveVote(v)
           \/ \E sameKey \in BOOLEAN : CheckVote(sameKey)
           \/ UpdatedBlockTip
           \/ \E mn \in Masternodes : MasternodeListChange(mn)
           \/ ListSynced
           \/ UNCHANGED vars
  <2>1. UNCHANGED <<coinbase, tip, b>>
    BY <1>6 DEF ReceiveVote, CheckVote, UpdatedBlockTip, MasternodeListChange, ListSynced,
                vars, maps
  <2> QED
    BY <1>2, <2>1
<1>7. CASE ConnectBlock \/ DisconnectBlock \/ \E clean \in BOOLEAN : Restart(clean)
  BY <1>7 DEF ConnectBlock, DisconnectBlock, Restart
<1> QED
  BY <1>1, <1>3, <1>4, <1>5, <1>6, <1>7 DEF Next

\* A block filled from the votes stays valid on its tip, whatever votes come and go after that,
\* as long as no reorganisation cuts the chain back by more blocks than GetStorageLimit: there
\* CheckAndRemove would take the votes for the next block, and later ones could start anew.
THEOREM TemplatesStayValid == Spec /\ []Shallow => []TemplateStaysValid
<1>1. Init => TemplateInv
  BY DEF Init, TemplateInv
<1> QED
  BY <1>1, CountsInvInit, CountsInvStep, TypeInvInit, TypeInvStep, TemplateInvStep,
     ListedIsValid, PTL DEF Spec
=============================================================================
