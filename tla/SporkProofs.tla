---------------------------- MODULE SporkProofs ----------------------------
(***************************************************************************)
(* Nodes without the spork key implement SporkRegister, for any number of  *)
(* nodes, signers, sporks, messages and restarts.                          *)
(***************************************************************************)
EXTENDS Spork, TLAPS

\* What a node goes by, and what is in its database, is a message of that spork, issued by
\* a signer.
Filed(map) ==
  \A n \in Nodes, id \in IDs :
    \/ map[n][id] = NoSpork
    \/ map[n][id] \in issued /\ map[n][id].nSporkID = id

\* What the message thread of follower n knows: the message it has compared is still newer
\* than the one of mapSporksActive, and the message it has stored is the one.  The database
\* lacks only the latter.
Handling(n) ==
  /\ handler[n].step = "checked" => ~ Seen(n, handler[n].spork)
  /\ handler[n].step = "stored" =>
       mapSporksActive[n][handler[n].spork.nSporkID] = handler[n].spork
  /\ \A id \in IDs :
       \/ pSporkDB[n][id] = mapSporksActive[n][id]
       \/ handler[n].step = "stored" /\ handler[n].spork.nSporkID = id

SporkInv ==
  /\ TypeOK
  /\ Filed(mapSporksActive)
  /\ Filed(pSporkDB)
  /\ \A x \in net : x.spork \in issued
  /\ \A n \in Nodes : handler[n].spork = NoSpork \/ handler[n].spork \in issued
  /\ \A n \in Followers : Handling(n)

-----------------------------------------------------------------------------
(* The invariant. *)

\* Nothing is issued, handled or filed at the start.
LEMMA SporkInvInit == Init => SporkInv
BY NodesAssumption DEF Init, SporkInv, TypeOK, Filed, Handling, Idle, Followers

\* An inv or an answer to GETSPORKS on its way is a packet.
LEMMA PacketType ==
  ASSUME NEW n \in Nodes, NEW p \in Nodes, NEW m \in Messages
  PROVE  /\ Inv(n, p, m) \in Packets
         /\ Data(n, p, m) \in Packets
         /\ Inv(n, p, m).spork = m
         /\ Data(n, p, m).spork = m
BY DEF Inv, Data, Packets

\* The announcements that Relay makes, and those it leaves on their way.
LEMMA RelayType ==
  ASSUME SporkInv, NEW n \in Nodes, NEW m \in Messages
  PROVE  /\ Relay(n, m) \subseteq Packets
         /\ \A x \in Relay(n, m) : x.spork \in issued \cup {m}
<1> DEFINE kept == {x \in net : x.type = "inv" => x.to # n \/ x.spork # m}
           sent == {Inv(n, p, m) : p \in {p \in Nodes \ {n} : m \notin mapSporks[p]}}
<1>1. kept \subseteq net
  OBVIOUS
<1>2. \A x \in sent : x \in Packets /\ x.spork = m
  BY PacketType
<1>3. Relay(n, m) = kept \cup sent
  BY DEF Relay
<1> HIDE DEF kept, sent
<1>4. net \subseteq Packets /\ \A x \in net : x.spork \in issued
  BY DEF SporkInv, TypeOK
<1>. QED
  BY <1>1, <1>2, <1>3, <1>4

\* An answer to GETSPORKS brings sporks that a signer has issued.
LEMMA GetSporksInv ==
  ASSUME SporkInv, NEW n \in Nodes, NEW p \in Nodes, GetSporks(n, p)
  PROVE  SporkInv'
<1> DEFINE answer == {m \in Messages : /\ m = mapSporksActive[p][m.nSporkID]
                                       /\ ~ Seen(n, m)
                                       /\ {Inv(p, n, m), Data(p, n, m)} \cap net = {}}
<1>1. net' = net \cup {Data(p, n, m) : m \in answer}
  BY DEF GetSporks
<1>2. \A m \in answer : m \in Messages /\ m \in issued
  <2> SUFFICES ASSUME NEW m \in answer PROVE m \in issued
    OBVIOUS
  <2>1. m \in Messages /\ m.nSporkID \in IDs /\ m # NoSpork
    BY NodesAssumption
  <2>. QED
    BY <2>1 DEF SporkInv, Filed
<1> HIDE DEF answer
<1>3. net' \subseteq Packets /\ \A x \in net' : x.spork \in issued
  BY <1>1, <1>2, PacketType DEF SporkInv, TypeOK
<1>4. UNCHANGED <<mapSporksActive, mapSporks, pSporkDB, handler, issued, faults>>
  BY DEF GetSporks, node
<1>. QED
  BY <1>3, <1>4 DEF SporkInv, TypeOK, Filed, Handling, Seen

\* A message that is compared is an issued one, and a follower goes on with it only if it is
\* newer.
LEMMA CheckSporkInv ==
  ASSUME SporkInv, NEW n \in Nodes, NEW x \in net, CheckSpork(n, x)
  PROVE  SporkInv'
<1>1. x.spork \in Messages /\ x.spork \in issued /\ x.spork # NoSpork
  BY NodesAssumption DEF SporkInv, TypeOK, Packets
<1>2. UNCHANGED <<mapSporksActive, mapSporks, pSporkDB, issued, faults>> /\ net' \subseteq net
  BY DEF CheckSpork, node
<1>3. CASE Seen(n, x.spork)
  <2>1. handler' = handler
    BY <1>3 DEF CheckSpork
  <2>. QED
    BY <1>2, <2>1 DEF SporkInv, TypeOK, Filed, Handling, Seen
<1>4. CASE ~ Seen(n, x.spork)
  <2>1. /\ handler[n].step = "idle"
        /\ handler' = [handler EXCEPT ![n] = [step |-> "checked", spork |-> x.spork]]
    BY <1>4 DEF CheckSpork, Idle
  <2>2. TypeOK'
    BY <1>1, <1>2, <2>1 DEF SporkInv, TypeOK
  <2>3. \A k \in Nodes : handler'[k] =
          IF k = n THEN [step |-> "checked", spork |-> x.spork] ELSE handler[k]
    BY <2>1 DEF SporkInv, TypeOK
  <2>4. ASSUME NEW k \in Followers PROVE Handling(k)'
    BY <1>2, <1>4, <2>1, <2>3 DEF SporkInv, Handling, Seen, Followers
  <2>. QED
    BY <1>1, <1>2, <2>2, <2>3, <2>4 DEF SporkInv, Filed
<1>. QED
  BY <1>3, <1>4

\* Storing m leaves issued messages in the map, each under its own spork.
LEMMA StoredInv ==
  ASSUME SporkInv, NEW n \in Nodes, NEW m \in Messages, Stored(n, m),
         issued' = issued \cup {m}
  PROVE  /\ mapSporksActive' \in [Nodes -> [IDs -> Messages \cup {NoSpork}]]
         /\ mapSporks' \in [Nodes -> SUBSET Messages]
         /\ Filed(mapSporksActive)'
         /\ \A k \in Nodes, id \in IDs : mapSporksActive'[k][id] =
              IF k = n /\ id = m.nSporkID THEN m ELSE mapSporksActive[k][id]
<1>1. m.nSporkID \in IDs
  BY NodesAssumption
<1>2. /\ mapSporksActive' \in [Nodes -> [IDs -> Messages \cup {NoSpork}]]
      /\ mapSporks' \in [Nodes -> SUBSET Messages]
  BY <1>1 DEF SporkInv, TypeOK, Stored
<1>3. \A k \in Nodes, id \in IDs : mapSporksActive'[k][id] =
        IF k = n /\ id = m.nSporkID THEN m ELSE mapSporksActive[k][id]
  BY <1>1 DEF SporkInv, TypeOK, Stored
<1>4. Filed(mapSporksActive)'
  BY <1>3 DEF SporkInv, Filed
<1>. QED
  BY <1>2, <1>3, <1>4

\* The thread stores what it has compared.
LEMMA StoreSporkInv ==
  ASSUME SporkInv, NEW n \in Nodes, StoreSpork(n)
  PROVE  SporkInv'
<1> DEFINE m == handler[n].spork
<1>1. m \in Messages /\ m \in issued /\ m.nSporkID \in IDs /\ handler[n].step = "checked"
  BY NodesAssumption DEF SporkInv, TypeOK, StoreSpork
<1>2. issued' = issued /\ issued' = issued \cup {m}
  BY <1>1 DEF StoreSpork
<1>3. /\ Stored(n, m)
      /\ net' = Relay(n, m)
      /\ handler' = [handler EXCEPT ![n].step = "stored"]
      /\ UNCHANGED <<pSporkDB, faults>>
  BY DEF StoreSpork
<1>4. /\ mapSporksActive' \in [Nodes -> [IDs -> Messages \cup {NoSpork}]]
      /\ mapSporks' \in [Nodes -> SUBSET Messages]
      /\ Filed(mapSporksActive)'
      /\ \A k \in Nodes, id \in IDs : mapSporksActive'[k][id] =
           IF k = n /\ id = m.nSporkID THEN m ELSE mapSporksActive[k][id]
  BY <1>1, <1>2, <1>3, StoredInv
<1>5. net' \subseteq Packets /\ \A x \in net' : x.spork \in issued
  BY <1>1, <1>3, RelayType
<1>6. \A k \in Nodes : /\ handler'[k].spork = handler[k].spork
                       /\ handler'[k].step = IF k = n THEN "stored" ELSE handler[k].step
  BY <1>3 DEF SporkInv, TypeOK
<1>7. handler' \in [Nodes -> [step : {"idle", "checked", "stored"},
                              spork : Messages \cup {NoSpork}]]
  BY <1>3 DEF SporkInv, TypeOK
<1>8. TypeOK'
  BY <1>1, <1>2, <1>3, <1>4, <1>5, <1>6, <1>7, NodesAssumption DEF SporkInv, TypeOK
<1>9. ASSUME NEW k \in Followers PROVE Handling(k)'
  <2>1. k \in Nodes /\ Handling(k)
    BY DEF SporkInv, Followers
  <2>2. CASE k = n
    <3>1. handler'[n].step = "stored" /\ handler'[n].spork = m
      BY <1>6
    <3>2. mapSporksActive'[n][m.nSporkID] = m
      BY <1>1, <1>4
    <3>3. ASSUME NEW id \in IDs, id # m.nSporkID
          PROVE  pSporkDB'[n][id] = mapSporksActive'[n][id]
      <4>1. mapSporksActive'[n][id] = mapSporksActive[n][id]
        BY <1>4, <3>3
      <4>2. pSporkDB[n][id] = mapSporksActive[n][id]
        BY <1>1, <2>1, <2>2 DEF Handling
      <4>. QED
        BY <1>3, <4>1, <4>2
    <3> HIDE DEF m
    <3>. QED
      BY <2>2, <3>1, <3>2, <3>3 DEF Handling
  <2>3. CASE k # n
    <3>1. \A id \in IDs : mapSporksActive'[k][id] = mapSporksActive[k][id]
      BY <1>4, <2>1, <2>3
    <3>2. handler[k].step # "idle" => handler[k].spork.nSporkID \in IDs
      BY <2>1, NodesAssumption DEF SporkInv, TypeOK
    <3>. QED
      BY <1>3, <1>6, <2>1, <2>3, <3>1, <3>2 DEF Handling, Seen
  <2>. QED
    BY <2>2, <2>3
<1>. QED
  BY <1>2, <1>3, <1>4, <1>5, <1>6, <1>8, <1>9 DEF SporkInv, Filed

\* The database takes the message the thread has stored.
LEMMA WriteSporkInv ==
  ASSUME SporkInv, NEW n \in Nodes, WriteSpork(n)
  PROVE  SporkInv'
<1> DEFINE m == handler[n].spork
<1>1. m \in Messages /\ m \in issued /\ m.nSporkID \in IDs /\ handler[n].step = "stored"
  BY NodesAssumption DEF SporkInv, TypeOK, WriteSpork
<1>2. /\ pSporkDB' = [pSporkDB EXCEPT ![n][m.nSporkID] = m]
      /\ handler' = [handler EXCEPT ![n] = Idle]
      /\ UNCHANGED <<mapSporksActive, mapSporks, net, issued, faults>>
  BY DEF WriteSpork
<1>3. \A k \in Nodes, id \in IDs : pSporkDB'[k][id] =
        IF k = n /\ id = m.nSporkID THEN m ELSE pSporkDB[k][id]
  BY <1>1, <1>2 DEF SporkInv, TypeOK
<1>4. \A k \in Nodes : handler'[k] = IF k = n THEN Idle ELSE handler[k]
  BY <1>2 DEF SporkInv, TypeOK
<1>5. TypeOK'
  BY <1>1, <1>2 DEF SporkInv, TypeOK, Idle
<1>6. Filed(pSporkDB)'
  BY <1>1, <1>2, <1>3 DEF SporkInv, Filed
<1>7. ASSUME NEW k \in Followers PROVE Handling(k)'
  <2>1. k \in Nodes /\ Handling(k)
    BY DEF SporkInv, Followers
  <2>. QED
    BY <1>1, <1>2, <1>3, <1>4, <2>1 DEF Handling, Seen, Idle
<1>. QED
  BY <1>2, <1>4, <1>5, <1>6, <1>7 DEF SporkInv, Filed, Idle

\* A signer issues a spork: it is not a follower.
LEMMA UpdateSporkInv ==
  ASSUME SporkInv, NEW n \in Nodes, NEW m \in Messages, UpdateSpork(n, m)
  PROVE  SporkInv'
<1>1. /\ issued' = issued \cup {m}
      /\ net' = Relay(n, m)
      /\ Stored(n, m)
      /\ UNCHANGED <<pSporkDB, handler, faults>>
      /\ n \notin Followers
  BY DEF UpdateSpork, Followers
<1>2. /\ mapSporksActive' \in [Nodes -> [IDs -> Messages \cup {NoSpork}]]
      /\ mapSporks' \in [Nodes -> SUBSET Messages]
      /\ Filed(mapSporksActive)'
      /\ \A k \in Nodes, id \in IDs : mapSporksActive'[k][id] =
           IF k = n /\ id = m.nSporkID THEN m ELSE mapSporksActive[k][id]
  BY <1>1, StoredInv
<1>3. net' \subseteq Packets /\ \A x \in net' : x.spork \in issued'
  BY <1>1, RelayType
<1>4. TypeOK'
  BY <1>1, <1>2, <1>3 DEF SporkInv, TypeOK
<1>5. ASSUME NEW k \in Followers PROVE Handling(k)'
  <2>1. k \in Nodes /\ k # n /\ Handling(k)
    BY <1>1 DEF SporkInv, Followers
  <2>2. \A id \in IDs : mapSporksActive'[k][id] = mapSporksActive[k][id]
    BY <1>2, <2>1
  <2>3. handler[k].step # "idle" => handler[k].spork.nSporkID \in IDs
    BY <2>1, NodesAssumption DEF SporkInv, TypeOK
  <2>. QED
    BY <1>1, <2>1, <2>2, <2>3 DEF Handling, Seen
<1>. QED
  BY <1>1, <1>2, <1>3, <1>4, <1>5 DEF SporkInv, Filed

\* A node that starts goes by its database.
LEMMA RestartInv ==
  ASSUME SporkInv, NEW n \in Nodes, Restart(n)
  PROVE  SporkInv'
<1>1. /\ mapSporksActive' = [mapSporksActive EXCEPT ![n] = pSporkDB[n]]
      /\ mapSporks' = [mapSporks EXCEPT ![n] = {pSporkDB[n][id] : id \in IDs} \ {NoSpork}]
      /\ handler' = [handler EXCEPT ![n] = Idle]
      /\ net' \subseteq net
      /\ faults' = faults + 1
      /\ UNCHANGED <<pSporkDB, issued>>
  BY DEF Restart
<1>2. \A k \in Nodes : /\ handler'[k] = IF k = n THEN Idle ELSE handler[k]
                       /\ mapSporksActive'[k] = IF k = n THEN pSporkDB[n]
                                                ELSE mapSporksActive[k]
  BY <1>1 DEF SporkInv, TypeOK
<1>3. {pSporkDB[n][id] : id \in IDs} \ {NoSpork} \subseteq Messages
  BY DEF SporkInv, TypeOK
<1>4. TypeOK'
  BY <1>1, <1>3 DEF SporkInv, TypeOK, Idle
<1>5. ASSUME NEW k \in Followers PROVE Handling(k)'
  <2>1. k \in Nodes /\ Handling(k)
    BY DEF SporkInv, Followers
  <2>. QED
    BY <1>1, <1>2, <2>1 DEF Handling, Seen, Idle
<1>. QED
  BY <1>1, <1>2, <1>4, <1>5 DEF SporkInv, Filed, Idle

\* Every step keeps the invariant.
LEMMA SporkInvStep == SporkInv /\ [Next]_vars => SporkInv'
<1> SUFFICES ASSUME SporkInv, [Next]_vars PROVE SporkInv'
  OBVIOUS
<1>1. CASE UNCHANGED vars
  BY <1>1 DEF vars, node, SporkInv, TypeOK, Filed, Handling, Seen
<1>. QED
  BY <1>1, GetSporksInv, CheckSporkInv, StoreSporkInv, WriteSporkInv, UpdateSporkInv,
     RestartInv DEF Next

\* The invariant holds always.
LEMMA SporkInvAlways == Spec => []SporkInv
BY SporkInvInit, SporkInvStep, PTL DEF Spec

-----------------------------------------------------------------------------
(* The theorems. *)

\* What a node files, handles and sends are messages, and its message thread is idle exactly
\* when it has none in hand, also after a restart in the middle of ProcessSpork.
THEOREM TypeCorrect == Spec => []TypeOK
<1>1. SporkInv => TypeOK
  BY DEF SporkInv
<1>. QED
  BY <1>1, SporkInvAlways, PTL

\* The database of a follower whose message thread waits has what the node goes by
\* (ProcessSpork writes every spork it stores).
THEOREM DatabaseIsCurrent == Spec => []NothingToLose
<1>1. SporkInv => NothingToLose
  <2> SUFFICES ASSUME SporkInv, NEW n \in Followers, handler[n] = Idle
               PROVE  pSporkDB[n] = mapSporksActive[n]
    BY DEF NothingToLose
  <2>1. \A id \in IDs : pSporkDB[n][id] = mapSporksActive[n][id]
    BY DEF SporkInv, Handling, Idle
  <2>2. /\ pSporkDB[n] \in [IDs -> Messages \cup {NoSpork}]
        /\ mapSporksActive[n] \in [IDs -> Messages \cup {NoSpork}]
    BY DEF SporkInv, TypeOK, Followers
  <2>. QED
    BY <2>1, <2>2
<1>. QED
  BY <1>1, SporkInvAlways, PTL

\* Every step is one of the register or leaves it alone: storing is learning, writing is
\* saving, and what a signer does to its own maps is not seen.
LEMMA RegisterStep ==
  ASSUME SporkInv, SporkInv', [Next]_vars
  PROVE  [Register!Next]_(Register!vars)
<1> DEFINE held == [n \in Followers |-> mapSporksActive[n]]
           saved == [n \in Followers |-> pSporkDB[n]]
<1>1. ASSUME NEW n \in Nodes, NEW p \in Nodes, GetSporks(n, p)
      PROVE  UNCHANGED <<issued, held, saved>>
  BY <1>1 DEF GetSporks, node
<1>2. ASSUME NEW n \in Nodes, NEW x \in net, CheckSpork(n, x)
      PROVE  UNCHANGED <<issued, held, saved>>
  BY <1>2 DEF CheckSpork, node
<1>3. ASSUME NEW n \in Nodes, StoreSpork(n), n \notin Followers
      PROVE  UNCHANGED <<issued, held, saved>>
  <2>1. issued' = issued /\ pSporkDB' = pSporkDB
    BY <1>3 DEF StoreSpork
  <2>2. \A k \in Followers : mapSporksActive'[k] = mapSporksActive[k]
    BY <1>3 DEF StoreSpork, Stored, SporkInv, TypeOK, Followers
  <2>. QED
    BY <2>1, <2>2
<1>4. ASSUME NEW n \in Followers, StoreSpork(n)
      PROVE  \E m \in Messages : Register!Learn(n, m)
  <2>0. PICK m \in Messages : m = handler[n].spork
    BY <1>4, NodesAssumption DEF SporkInv, TypeOK, StoreSpork, Followers
  <2>1. n \in Nodes /\ m \in Messages /\ m \in issued /\ m.nSporkID \in IDs /\ m.nTimeSigned \in Nat
    BY <1>4, <2>0, NodesAssumption DEF SporkInv, TypeOK, StoreSpork, Followers
  <2>2. ~ Seen(n, m)
    BY <1>4, <2>0 DEF SporkInv, Handling, StoreSpork
  <2>3. \/ mapSporksActive[n][m.nSporkID] = NoSpork
        \/ mapSporksActive[n][m.nSporkID].nTimeSigned \in Nat
    BY <2>1, NodesAssumption DEF SporkInv, TypeOK
  <2>4. Register!Newer(m, held[n][m.nSporkID])
    BY <2>1, <2>2, <2>3 DEF Register!Newer, Seen
  <2>5. held' = [held EXCEPT ![n][m.nSporkID] = m]
    BY <1>4, <2>0, <2>1 DEF StoreSpork, Stored, SporkInv, TypeOK, Followers
  <2>6. issued' = issued /\ saved' = saved
    BY <1>4, <2>0 DEF StoreSpork
  <2>7. Register!Learn(n, m)
    BY <2>1, <2>4, <2>5, <2>6 DEF Register!Learn
  <2>. QED
    BY <2>7
<1>5. ASSUME NEW n \in Nodes, WriteSpork(n), n \notin Followers
      PROVE  UNCHANGED <<issued, held, saved>>
  <2>1. issued' = issued /\ mapSporksActive' = mapSporksActive
    BY <1>5 DEF WriteSpork
  <2>2. \A k \in Followers : pSporkDB'[k] = pSporkDB[k]
    BY <1>5 DEF WriteSpork, SporkInv, TypeOK, Followers
  <2>. QED
    BY <2>1, <2>2
<1>6. ASSUME NEW n \in Followers, WriteSpork(n)
      PROVE  \E id \in IDs : Register!Save(n, id)
  <2>0. PICK m \in Messages : m = handler[n].spork
    BY <1>6, NodesAssumption DEF SporkInv, TypeOK, WriteSpork, Followers
  <2>1. n \in Nodes /\ m \in Messages /\ m.nSporkID \in IDs
    BY <1>6, <2>0, NodesAssumption DEF SporkInv, TypeOK, WriteSpork, Followers
  <2>2. mapSporksActive[n][m.nSporkID] = m
    BY <1>6, <2>0 DEF SporkInv, Handling, WriteSpork
  <2>3. saved' = [saved EXCEPT ![n][m.nSporkID] = held[n][m.nSporkID]]
    BY <1>6, <2>0, <2>1, <2>2 DEF WriteSpork, SporkInv, TypeOK, Followers
  <2>4. issued' = issued /\ held' = held
    BY <1>6, <2>0 DEF WriteSpork
  <2>5. Register!Save(n, m.nSporkID)
    BY <2>1, <2>3, <2>4 DEF Register!Save
  <2>. QED
    BY <2>1, <2>5
<1>7. ASSUME NEW n \in Nodes, NEW m \in Messages, UpdateSpork(n, m)
      PROVE  Register!Issue(m)
  <2>1. \A k \in Followers : mapSporksActive'[k] = mapSporksActive[k]
    BY <1>7 DEF UpdateSpork, Stored, SporkInv, TypeOK, Followers
  <2>2. held' = held /\ saved' = saved /\ issued' = issued \cup {m}
    BY <1>7, <2>1 DEF UpdateSpork
  <2>. QED
    BY <2>2 DEF Register!Issue
<1>8. ASSUME NEW n \in Nodes, Restart(n), n \notin Followers
      PROVE  UNCHANGED <<issued, held, saved>>
  <2>1. issued' = issued /\ pSporkDB' = pSporkDB
    BY <1>8 DEF Restart
  <2>2. \A k \in Followers : mapSporksActive'[k] = mapSporksActive[k]
    BY <1>8 DEF Restart, SporkInv, TypeOK, Followers
  <2>. QED
    BY <2>1, <2>2
<1>9. ASSUME NEW n \in Followers, Restart(n)
      PROVE  Register!GoBack(n)
  <2>1. held' = [held EXCEPT ![n] = saved[n]]
    BY <1>9 DEF Restart, SporkInv, TypeOK, Followers
  <2>2. issued' = issued /\ saved' = saved
    BY <1>9 DEF Restart
  <2>. QED
    BY <2>1, <2>2 DEF Register!GoBack
<1>10. CASE UNCHANGED vars
  BY <1>10 DEF vars, node, Register!vars
<1>11. UNCHANGED <<issued, held, saved>> => UNCHANGED Register!vars
  BY DEF Register!vars
<1> HIDE DEF held, saved
<1>12. ASSUME NEW n \in Nodes, StoreSpork(n)
       PROVE  Register!Next \/ UNCHANGED Register!vars
  <2>1. CASE n \notin Followers
    BY <1>3, <2>1, <1>11, <1>12
  <2>2. CASE n \in Followers
    <3>1. \E m \in Messages : Register!Learn(n, m)
      BY <1>4, <2>2, <1>12
    <3>. QED
      BY <2>2, <3>1 DEF Register!Next
  <2>. QED
    BY <2>1, <2>2
<1>13. ASSUME NEW n \in Nodes, WriteSpork(n)
       PROVE  Register!Next \/ UNCHANGED Register!vars
  <2>1. CASE n \notin Followers
    BY <1>5, <2>1, <1>11, <1>13
  <2>2. CASE n \in Followers
    <3>1. \E id \in IDs : Register!Save(n, id)
      BY <1>6, <2>2, <1>13
    <3>. QED
      BY <2>2, <3>1 DEF Register!Next
  <2>. QED
    BY <2>1, <2>2
<1>14. ASSUME NEW n \in Nodes, Restart(n)
       PROVE  Register!Next \/ UNCHANGED Register!vars
  BY <1>8, <1>9, <1>11, <1>14 DEF Register!Next
<1>15. ASSUME NEW n \in Nodes, NEW m \in Messages, UpdateSpork(n, m)
       PROVE  Register!Next
  BY <1>7, <1>15 DEF Register!Next
<1>. QED
  BY <1>1, <1>2, <1>10, <1>11, <1>12, <1>13, <1>14, <1>15 DEF Next

\* A node without the spork key implements the register of the newest message, whatever the
\* signers, the network and the restarts do (ProcessSpork's comparison of nTimeSigned).
THEOREM FollowersImplementRegisters == Spec => FollowersAreRegisters
<1>1. Init => Register!Init
  BY DEF Init, Register!Init, Followers
<1>. QED
  BY <1>1, RegisterStep, SporkInvAlways, PTL DEF Spec, FollowersAreRegisters, Register!Spec
=============================================================================
