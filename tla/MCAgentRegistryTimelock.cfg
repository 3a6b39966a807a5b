\* The delay when a slash, and no deregister(), made the agent inactive.
SPECIFICATION AgentSpec
CONSTANTS
  Agents = {a1}
  StakeAmount = 2
  WithdrawalDelay = 2
  InitialReputation = 2
  Penalty = 1
  Deposits <- MCDeposits
  SlashAmounts <- MCSlashAmounts
  Bonuses = {}
  MaxStake = 5
  MaxReputation = 3
  MaxSlashed = 4
  MaxTime = 5
PROPERTIES WithdrawalAlwaysWaits
CHECK_DEADLOCK FALSE
