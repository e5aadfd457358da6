------------------------------- MODULE Spork -------------------------------
(***************************************************************************)
(* The spork manager (spork.cpp, spork.h, sporkdb.cpp), with the inventory *)
(* messages of net_processing.cpp that carry sporks from node to node, the *)
(* spork command of rpc/misc.cpp that issues them, and the database they   *)
(* are read from at the next start.                                        *)
(*                                                                         *)
(* The thread that handles messages takes three steps for a spork: it      *)
(* compares the message with mapSporksActive, it stores and relays it, and *)
(* it writes it to the database.  mapSporksActive has no lock, so between  *)
(* these steps the RPC thread of a signer may store a spork of its own,    *)
(* and the node may stop.                                                  *)
(*                                                                         *)
(* Every node is connected to every other.  A connection loses nothing as  *)
(* long as both ends run.  Signatures are abstracted to that a message was *)
(* issued by a signer.                                                     *)
(***************************************************************************)
EXTENDS Integers, FiniteSets

CONSTANTS
  Nodes,
  Signers,           \* the nodes with the spork key
  IDs,               \* the sporks that have a name
  Messages,          \* the messages a signer may issue
  MaxUpdates,        \* bound on sporks issued
  MaxRestarts,       \* bound on restarts
  NoSpork            \* no message

ASSUME NodesAssumption ==
  /\ Signers \subseteq Nodes
  /\ \A m \in Messages : m.nSporkID \in IDs /\ m.nTimeSigned \in Nat
  /\ NoSpork \notin Messages

Followers == Nodes \ Signers

VARIABLES
  mapSporksActive,   \* [n][id]: the message n goes by, or NoSpork
  mapSporks,         \* [n]: the messages n can serve
  pSporkDB,          \* [n][id]: the message in the database of n
  handler,           \* [n]: what the message thread of n is doing
  net,               \* messages on their way
  issued,            \* history: all messages signed
  faults             \* the number of restarts

node == <<mapSporksActive, mapSporks, pSporkDB>>
vars == <<node, handler, net, issued, faults>>

Idle == [step |-> "idle", spork |-> NoSpork]
Inv(from, to, m) == [type |-> "inv", from |-> from, to |-> to, spork |-> m]
Data(from, to, m) == [type |-> "spork", from |-> from, to |-> to, spork |-> m]
Packets == [type : {"inv", "spork"}, from : Nodes, to : Nodes, spork : Messages]

TypeOK ==
  /\ mapSporksActive \in [Nodes -> [IDs -> Messages \cup {NoSpork}]]
  /\ mapSporks \in [Nodes -> SUBSET Messages]
  /\ pSporkDB \in [Nodes -> [IDs -> Messages \cup {NoSpork}]]
  /\ handler \in [Nodes -> [step : {"idle", "checked", "stored"},
                            spork : Messages \cup {NoSpork}]]
  /\ \A n \in Nodes : handler[n].step = "idle" <=> handler[n].spork = NoSpork
  /\ net \subseteq Packets
  /\ issued \subseteq Messages
  /\ faults \in Nat

-----------------------------------------------------------------------------
(* Sporks between nodes. *)

\* CSporkMessage::Relay: an inv to every peer.  A peer that has m ignores it (AlreadyHave),
\* and so does n itself once it has m: those invs are left out.
Relay(n, m) ==
  {x \in net : x.type = "inv" => x.to # n \/ x.spork # m}
    \cup {Inv(n, p, m) : p \in {p \in Nodes \ {n} : m \notin mapSporks[p]}}

\* Mutant: a spork of the same time replaces the one the node has.
SeenLater(n, m) ==
  /\ mapSporksActive[n][m.nSporkID] # NoSpork
  /\ mapSporksActive[n][m.nSporkID].nTimeSigned > m.nTimeSigned

\* The spork a node goes by has been signed at the same time as m or later.
Seen(n, m) ==
  /\ mapSporksActive[n][m.nSporkID] # NoSpork
  /\ mapSporksActive[n][m.nSporkID].nTimeSigned >= m.nTimeSigned

\* Mutant: a peer is asked only for the sporks the node does not know.
GetSporksUnknown(n, p) ==
  LET answer == {m \in Messages : /\ m = mapSporksActive[p][m.nSporkID]
                                  /\ mapSporksActive[n][m.nSporkID] = NoSpork
                                  /\ {Inv(p, n, m), Data(p, n, m)} \cap net = {}}
  IN /\ answer # {}
     /\ net' = net \cup {Data(p, n, m) : m \in answer}
     /\ UNCHANGED <<node, handler, issued, faults>>

\* ProcessTick of the sync asks every peer for its sporks (GETSPORKS), and asks again when
\* the request, once fulfilled, has expired.  A spork that n would ignore, or that is on its
\* way from p already, is left out of the answer.
GetSporks(n, p) ==
  LET answer == {m \in Messages : /\ m = mapSporksActive[p][m.nSporkID]
                                  /\ ~ Seen(n, m)
                                  /\ {Inv(p, n, m), Data(p, n, m)} \cap net = {}}
  IN /\ answer # {}
     /\ net' = net \cup {Data(p, n, m) : m \in answer}
     /\ UNCHANGED <<node, handler, issued, faults>>

-----------------------------------------------------------------------------
(* CSporkManager. *)

\* ProcessSpork up to CheckSignature.  The spork comes with the answer to GETSPORKS, or with
\* the answer to the getdata that an inv leads to: the sender still has it (mapSporks loses
\* nothing while the node runs).
CheckSpork(n, x) ==
  /\ handler[n] = Idle
  /\ x \in net
  /\ x.to = n
  /\ net' = net \ {x}
  /\ handler' = IF Seen(n, x.spork) THEN handler
                ELSE [handler EXCEPT ![n] = [step |-> "checked", spork |-> x.spork]]
  /\ UNCHANGED <<node, issued, faults>>

\* mapSporks and mapSporksActive take m.
Stored(n, m) ==
  /\ mapSporks' = [mapSporks EXCEPT ![n] = @ \cup {m}]
  /\ mapSporksActive' = [mapSporksActive EXCEPT ![n][m.nSporkID] = m]

\* Mutant: the thread is done before the database is written.
StoreSporkEarly(n) ==
  /\ handler[n].step = "checked"
  /\ Stored(n, handler[n].spork)
  /\ net' = Relay(n, handler[n].spork)
  /\ handler' = [handler EXCEPT ![n].step = "idle"]
  /\ UNCHANGED <<pSporkDB, issued, faults>>

\* ProcessSpork up to Relay.
StoreSpork(n) ==
  /\ handler[n].step = "checked"
  /\ Stored(n, handler[n].spork)
  /\ net' = Relay(n, handler[n].spork)
  /\ handler' = [handler EXCEPT ![n].step = "stored"]
  /\ UNCHANGED <<pSporkDB, issued, faults>>

\* Mutant: an entry of the database is never replaced.
WriteSporkOnce(n) ==
  /\ handler[n].step = "stored"
  /\ pSporkDB' = [pSporkDB EXCEPT ![n][handler[n].spork.nSporkID] =
                     IF @ = NoSpork THEN handler[n].spork ELSE @]
  /\ handler' = [handler EXCEPT ![n] = Idle]
  /\ UNCHANGED <<mapSporksActive, mapSporks, net, issued, faults>>

\* The end of ProcessSpork, after ExecuteSpork: WriteSpork.
WriteSpork(n) ==
  /\ handler[n].step = "stored"
  /\ pSporkDB' = [pSporkDB EXCEPT ![n][handler[n].spork.nSporkID] = handler[n].spork]
  /\ handler' = [handler EXCEPT ![n] = Idle]
  /\ UNCHANGED <<mapSporksActive, mapSporks, net, issued, faults>>

\* UpdateSpork, from the RPC thread.  GetAdjustedTime follows the peers and may go back.
\* The database is not written.
UpdateSpork(n, m) ==
  /\ n \in Signers
  /\ Cardinality(issued) < MaxUpdates
  /\ m \notin issued
  /\ issued' = issued \cup {m}
  /\ net' = Relay(n, m)
  /\ Stored(n, m)
  /\ UNCHANGED <<pSporkDB, handler, faults>>

\* The node stops and starts again: its connections are gone, LoadSporksFromDB fills both
\* maps.
Restart(n) ==
  /\ faults < MaxRestarts
  /\ faults' = faults + 1
  /\ mapSporksActive' = [mapSporksActive EXCEPT ![n] = pSporkDB[n]]
  /\ mapSporks' = [mapSporks EXCEPT ![n] = {pSporkDB[n][id] : id \in IDs} \ {NoSpork}]
  /\ handler' = [handler EXCEPT ![n] = Idle]
  /\ net' = {x \in net : x.from # n /\ x.to # n}
  /\ UNCHANGED <<pSporkDB, issued>>

-----------------------------------------------------------------------------
(* Specification. *)

Init ==
  /\ mapSporksActive = [n \in Nodes |-> [id \in IDs |-> NoSpork]]
  /\ mapSporks = [n \in Nodes |-> {}]
  /\ pSporkDB = mapSporksActive
  /\ handler = [n \in Nodes |-> Idle]
  /\ net = {}
  /\ issued = {}
  /\ faults = 0

Next ==
  \/ \E n, p \in Nodes : GetSporks(n, p)
  \/ \E n \in Nodes, x \in net : CheckSpork(n, x)
  \/ \E n \in Nodes : StoreSpork(n)
  \/ \E n \in Nodes : WriteSpork(n)
  \/ \E n \in Nodes, m \in Messages : UpdateSpork(n, m)
  \/ \E n \in Nodes : Restart(n)

\* Peers answer, and the message thread goes on.
Fairness ==
  \A n \in Nodes :
    /\ \A p \in Nodes : WF_vars(GetSporks(n, p))
    /\ WF_vars(\/ \E x \in net : CheckSpork(n, x)
               \/ StoreSpork(n)
               \/ WriteSpork(n))

Spec == Init /\ [][Next]_vars /\ Fairness

-----------------------------------------------------------------------------
(* Properties. *)

Register == INSTANCE SporkRegister
  WITH Nodes <- Followers,
       held <- [n \in Followers |-> mapSporksActive[n]],
       saved <- [n \in Followers |-> pSporkDB[n]]

\* A node without the spork key is a register of the newest message: in whatever order
\* messages come, it never goes back to an older one, nor from one message to another of
\* the same time, except that a restart takes it back to what it had in its database.
FollowersAreRegisters == Register!Spec

\* While the message thread of a follower waits, its database has what the node goes by: a
\* restart then loses nothing.
NothingToLose ==
  \A n \in Followers : handler[n] = Idle => pSporkDB[n] = mapSporksActive[n]

\* After the last update and the last restart all nodes, a signer whose newest spork was
\* overwritten or forgotten included, come to go by messages of the same time.
TimeOf(n, id) ==
  IF mapSporksActive[n][id] = NoSpork THEN -1 ELSE mapSporksActive[n][id].nTimeSigned

NodesConverge ==
  <>[](\A n, p \in Nodes, id \in IDs : TimeOf(n, id) = TimeOf(p, id))
=============================================================================
