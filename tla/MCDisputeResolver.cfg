\* The resolver as its own treasury.
SPECIFICATION Spec
CONSTANTS
  Agents = {a1, a2}
  Challengers = {c1}
  NoChallenger = NoChallenger
  StakeAmount = 2
  WithdrawalDelay = 2
  ChallengeWindow = 1
  InitialReputation = 2
  Penalty = 1
  Deposits = {2}
  SlashAmounts = {}
  Bonuses = {}
  MaxStake = 4
  MaxReputation = 4
  MaxSlashed = 8
  MaxTime = 4
  MaxAudits = 2
  DisputeBond = 1
  AuditorBonus = 1
  TreasuryIsResolver = TRUE
  Donations = {1}
  MaxBalance = 2
SYMMETRY NetworkSymmetry
INVARIANTS TypeOK OpenWindowBacked FraudStaysFlagged OneSlashPerFraud BondsCovered OpenDisputeMatchesRecord AuditReputationCounts
CHECK_DEADLOCK FALSE
