----------------------------- MODULE Reprocess -----------------------------
(***************************************************************************)
(* SPORK_12_RECONSIDER_BLOCKS (spork.cpp ExecuteSpork) disconnects blocks  *)
(* and connects them again (validation.cpp ReprocessBlocks), while other   *)
(* threads activate new blocks and the scheduler thread runs the callbacks *)
(* of the validation queue.  The model is about the two locks, cs_main     *)
(* (recursive) and m_cs_chainstate; a chain is its height.                 *)
(***************************************************************************)
EXTENDS Integers

CONSTANTS
  Executors,         \* threads that execute sporks: message handler and RPC
  Activators,        \* threads that activate new blocks: RPC, block import
  nMaxBlocks,        \* the most blocks a spork may reconsider
  nTimeout,          \* the time between two executions
  QUEUE,             \* callbacks that may be pending before the queue is drained
  InitHeight,
  MaxHeight,         \* bound on the chain
  MaxTime,           \* bound on the clock
  Free               \* no owner

Threads == Executors \cup Activators

VARIABLES
  csMain,            \* the owner of cs_main and how often it has locked it
  csChainstate,      \* the owner of m_cs_chainstate
  pc,                \* what each thread does next
  nBlocks,           \* the blocks each thread reconsiders
  tip,               \* chainActive.Height()
  best,              \* the height of the chain with the most work
  callbacks,         \* GetMainSignals().CallbacksPending()
  now,               \* GetTime()
  nTimeExecuted

locks == <<csMain, csChainstate>>
chain == <<tip, best>>
vars == <<locks, pc, nBlocks, chain, callbacks, now, nTimeExecuted>>

Goto(th, step) == pc' = [pc EXCEPT ![th] = step]

\* LOCK and the end of its scope.  cs_main is recursive.
Lock(th) ==
  /\ csMain.owner \in {Free, th}
  /\ csMain' = [owner |-> th, depth |-> csMain.depth + 1]

Unlocked == IF csMain.depth = 1 THEN [owner |-> Free, depth |-> 0]
            ELSE [csMain EXCEPT !.depth = @ - 1]

-----------------------------------------------------------------------------
(* ExecuteSpork and ReprocessBlocks. *)

ExecuteSpork(th, nValue) ==
  /\ th \in Executors
  /\ pc[th] = "idle"
  /\ now - nTimeExecuted >= nTimeout
  /\ nValue \in 1 .. nMaxBlocks
  /\ nBlocks' = [nBlocks EXCEPT ![th] = nValue]
  /\ Goto(th, "reprocess")
  /\ UNCHANGED <<locks, chain, callbacks, now, nTimeExecuted>>

\* Blocks that were rejected may count again.  DisconnectTip tells the listeners.
ReprocessBlocks(th) ==
  /\ pc[th] = "reprocess"
  /\ Lock(th)
  /\ nBlocks[th] <= tip
  /\ tip' = tip - nBlocks[th]
  /\ callbacks' = callbacks + nBlocks[th]
  /\ best' \in best .. MaxHeight
  /\ Goto(th, "activate")
  /\ UNCHANGED <<csChainstate, nBlocks, now, nTimeExecuted>>

Executed(th) ==
  /\ pc[th] = "executed"
  /\ csMain' = Unlocked
  /\ nTimeExecuted' = now
  /\ nBlocks' = [nBlocks EXCEPT ![th] = 0]
  /\ Goto(th, "idle")
  /\ UNCHANGED <<csChainstate, chain, callbacks, now>>

-----------------------------------------------------------------------------
(* ActivateBestChain. *)

\* ProcessNewBlock: AcceptBlock, with cs_main, and then ActivateBestChain, without.
NewBlock(th) ==
  /\ th \in Activators
  /\ pc[th] = "idle"
  /\ csMain.owner = Free
  /\ best < MaxHeight
  /\ best' = best + 1
  /\ Goto(th, "activate")
  /\ UNCHANGED <<locks, nBlocks, tip, callbacks, now, nTimeExecuted>>

Activate(th) ==
  /\ pc[th] = "activate"
  /\ csChainstate = Free
  /\ csChainstate' = th
  /\ Goto(th, "drain")
  /\ UNCHANGED <<csMain, nBlocks, chain, callbacks, now, nTimeExecuted>>

\* SyncWithValidationInterfaceQueue, if too many callbacks are pending.
Drain(th) ==
  /\ pc[th] = "drain"
  /\ Goto(th, IF callbacks > QUEUE THEN "draining" ELSE "connect")
  /\ UNCHANGED <<locks, nBlocks, chain, callbacks, now, nTimeExecuted>>

Drained(th) ==
  /\ pc[th] = "draining"
  /\ callbacks = 0
  /\ Goto(th, "connect")
  /\ UNCHANGED <<locks, nBlocks, chain, callbacks, now, nTimeExecuted>>

\* cs_main is taken for one round of ActivateBestChainStep, which connects some blocks and
\* tells the listeners, about each block and about the new tip.
Connect(th) ==
  /\ pc[th] = "connect"
  /\ csMain.owner \in {Free, th}
  /\ \E h \in tip + 1 .. best :
       /\ tip' = h
       /\ callbacks' = callbacks + (h - tip) + 1
       /\ Goto(th, IF h = best THEN "leave" ELSE "drain")
  /\ UNCHANGED <<locks, nBlocks, best, now, nTimeExecuted>>

NothingToConnect(th) ==
  /\ pc[th] = "connect"
  /\ csMain.owner \in {Free, th}
  /\ tip = best
  /\ Goto(th, "leave")
  /\ UNCHANGED <<locks, nBlocks, chain, callbacks, now, nTimeExecuted>>

Leave(th) ==
  /\ pc[th] = "leave"
  /\ csChainstate' = Free
  /\ Goto(th, IF th \in Executors THEN "executed" ELSE "idle")
  /\ UNCHANGED <<csMain, nBlocks, chain, callbacks, now, nTimeExecuted>>

-----------------------------------------------------------------------------

\* The scheduler thread runs a callback.  The listeners (the wallet, the masternode
\* managers) take cs_main.
RunCallback ==
  /\ callbacks > 0
  /\ csMain.owner = Free
  /\ callbacks' = callbacks - 1
  /\ UNCHANGED <<locks, pc, nBlocks, chain, now, nTimeExecuted>>

Tick ==
  /\ now < MaxTime
  /\ now' = now + 1
  /\ UNCHANGED <<locks, pc, nBlocks, chain, callbacks, nTimeExecuted>>

Init ==
  /\ csMain = [owner |-> Free, depth |-> 0]
  /\ csChainstate = Free
  /\ pc = [th \in Threads |-> "idle"]
  /\ nBlocks = [th \in Threads |-> 0]
  /\ tip = InitHeight
  /\ best = InitHeight
  /\ callbacks = 0
  /\ now = nTimeout
  /\ nTimeExecuted = 0

Step(th) ==
  \/ ReprocessBlocks(th) \/ Executed(th)
  \/ Activate(th) \/ Drain(th) \/ Drained(th)
  \/ Connect(th) \/ NothingToConnect(th) \/ Leave(th)

Next ==
  \/ \E th \in Threads :
       \/ \E nValue \in 1 .. nMaxBlocks : ExecuteSpork(th, nValue)
       \/ NewBlock(th)
       \/ Step(th)
  \/ RunCallback
  \/ Tick

\* Every thread goes on when it can, and gets a lock that is free again and again.
Fairness ==
  /\ \A th \in Threads : SF_vars(Step(th))
  /\ SF_vars(RunCallback)

Spec == Init /\ [][Next]_vars /\ Fairness

\* ActivateBestChain lets go of cs_main so that the callback queue drains (the comment on
\* m_cs_chainstate): every callback is run in the end.  ReprocessBlocks calls it with cs_main
\* held.
QueueDrains == []<>(callbacks = 0)
=============================================================================
