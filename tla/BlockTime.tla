---- MODULE BlockTime ----
(***************************************************************************)
(* What the contracts know of time: block.timestamp, which is `now' here,  *)
(* and the timelocks that AgentRegistry, StakeManager and ResumeRegistry   *)
(* compute from it.  A transaction reads one timestamp from its first line *)
(* to its last, and the transactions of a block all read the same, so time *)
(* passes in a step of its own, between any two transactions.              *)
(***************************************************************************)
LOCAL INSTANCE Integers

VARIABLE now  \* block.timestamp; 0 is never one, and stands for `not set'

\* The bound of the model: no block is stamped later than this.
CONSTANT MaxTime
ASSUME MaxTimeAssumption == MaxTime \in Nat /\ MaxTime >= 1

Timestamps == 1 .. MaxTime

\* The unlock time of what is asked for in this transaction.
TimelockEnd(delay) == now + delay

\* May what was locked until `unlockTime' be carried out in this transaction?
TimelockOver(unlockTime) == now >= unlockTime

\* The contracts are deployed in the first block.
ChainInit == now = 1

\* The next transaction is in a later block.
Advance ==
  /\ now + 1 \in Timestamps
  /\ now' = now + 1
====
