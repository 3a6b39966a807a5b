\* Two agents against a role holder that slashes and rewards at will.
SPECIFICATION AgentSpec
CONSTANTS
  Agents = {a1, a2}
  StakeAmount = 2
  WithdrawalDelay = 2
  InitialReputation = 2
  Penalty = 1
  Deposits <- MCDeposits
  SlashAmounts <- MCSlashAmounts
  Bonuses = {1}
  MaxStake = 5
  MaxReputation = 3
  MaxSlashed = 4
  MaxTime = 4
INVARIANTS RegistrySolvent
PROPERTIES StakeEscrowed StakeReturned
CHECK_DEADLOCK FALSE
