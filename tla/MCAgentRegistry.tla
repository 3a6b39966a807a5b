-------------------------- MODULE MCAgentRegistry --------------------------
(* AgentRegistry for TLC: deposits of the stake asked for and of one unit  *)
(* more, slashes of every amount up to the stake.                          *)
EXTENDS AgentRegistry

MCDeposits == {StakeAmount, StakeAmount + 1}
MCSlashAmounts == 1 .. StakeAmount
=============================================================================
