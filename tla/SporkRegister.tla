---------------------------- MODULE SporkRegister ----------------------------
(***************************************************************************)
(* What the spork manager promises: every node holds, for each spork, the  *)
(* newest message of the signer it has seen.  A node learns messages in    *)
(* any order and keeps none that is not newer than its own; only a restart *)
(* takes it back, to a message it held before.                             *)
(***************************************************************************)
EXTENDS Integers

CONSTANTS
  Nodes,
  IDs,
  Messages,          \* records with an nSporkID and an nTimeSigned
  NoSpork

VARIABLES
  issued,            \* the messages signed so far
  held,              \* held[n][id]: what n goes by
  saved              \* saved[n][id]: what a restart of n goes back to

vars == <<issued, held, saved>>

\* m replaces s.
Newer(m, s) == s = NoSpork \/ m.nTimeSigned > s.nTimeSigned

Init ==
  /\ issued = {}
  /\ held = [n \in Nodes |-> [id \in IDs |-> NoSpork]]
  /\ saved = held

Issue(m) ==
  /\ issued' = issued \cup {m}
  /\ UNCHANGED <<held, saved>>

Learn(n, m) ==
  /\ m \in issued
  /\ Newer(m, held[n][m.nSporkID])
  /\ held' = [held EXCEPT ![n][m.nSporkID] = m]
  /\ UNCHANGED <<issued, saved>>

\* Only what a node holds is saved.
Save(n, id) ==
  /\ saved' = [saved EXCEPT ![n][id] = held[n][id]]
  /\ UNCHANGED <<issued, held>>

GoBack(n) ==
  /\ held' = [held EXCEPT ![n] = saved[n]]
  /\ UNCHANGED <<issued, saved>>

Next ==
  \/ \E m \in Messages : Issue(m)
  \/ \E n \in Nodes, m \in Messages : Learn(n, m)
  \/ \E n \in Nodes, id \in IDs : Save(n, id)
  \/ \E n \in Nodes : GoBack(n)

Spec == Init /\ [][Next]_vars
==============================================================================
