\* Each component that stands alone, one at a time.
SPECIFICATION Spec
CONSTANTS
  Parts = {"StakeManager", "ResumeRegistry", "AuditJobQueue", "AuditPipeline", "AuditStore", "Forta", "TenantRegistry", "SiemStreamer", "Analytics", "Wallet", "WebApp", "AgentNetwork"}
  \* BlockTime, StakeManager
  MaxTime = 3
  Stakers = {u1, u2}
  UnstakeDelay = 1
  Amounts = {0, 1}
  Rate = 1
  Day = 2
  RewardPool = 1
  MaxSupply = 2
  \* ResumeRegistry
  v1 = v1
  v2 = v2
  s1 = s1
  s2 = s2
  Applicants = {u1, u2}
  NoApplicant = NoApplicant
  Positions = {j1}
  Proofs <- MCProofs
  Verifiers = {v1, v2}
  NoVerifier = NoVerifier
  Accepts <- MCAccepts
  MinimumThreshold = 1
  TimelockDelay = 1
  \* AuditJobQueue
  Clients = {u1, u2}
  Fees = {0, 1}
  Results = {"r1"}
  MaxJobs = 3
  \* AuditPipeline, Forta, AuditStore
  Audits = {a1, a2}
  Contracts <- MCContracts
  Options <- MCOptions
  MaxMillis = 2
  MaxAttempts = 2
  CvssScores = {60, 80}
  Targets <- MCTargets
  AlertCounts <- MCAlertCounts
  FindingLists <- MCFindingLists
  Transactions <- MCTransactions
  MaxSeen = 12
  Clicks = {c1}
  KeyAdded = TRUE
  MaxTriages = 1
  \* TenantRegistry
  ApiKeys = {k1, k2}
  PolyLanceKeys = {k1}
  BootKey = k1
  Addresses = {x1, x2}
  BootAddress = x1
  NoOwner = NoOwner
  MaxTries = 3
  MaxRegistrations = 2
  MaxStarts = 2
  MaxAlerts = 1
  \* SiemStreamer
  Links = {l1, l2}
  NoLink = NoLink
  Blocks = {1, 2}
  \* Analytics
  EventBatches <- MCBatches
  exploiter = exploiter
  mallory = mallory
  bob = bob
  Exploiter = exploiter
  Accounts = {exploiter, mallory, bob}
  Feeds <- MCFeeds
  Histories = {0, 3}
  ColdStart = 2
  MaxSamples = 5
  \* Wallet
  WalletCalls = {c1, c2}
  WalletAccounts = {w1, w2}
  NoAccount = NoAccount
  Chains = {1, 2}
  \* WebApp
  Polls = {p1, p2}
  Scans = {k1, k2}
  MaxEvents = 3
  \* AgentNetwork
  Agents = {a1, a2, a3, a4}
  Jobs = {j1}
  Scores = {n1, n2}
  NoScore = NoScore
  Threshold = 2
INVARIANTS
  ComponentsTypeOK ReceiptsBacked SpentMatchesRecorded JobsPartitioned AnswersHold
  OneConnection ReportsKept BadgesEarned BotWatchesItsContract
  ScenariosRaised ConnectingHasCall PagesConsistent FinalWasReported
PROPERTIES
  ReceiptsEscrowed RewardClockKept VerifierAnnounced ConsensusReached
CHECK_DEADLOCK FALSE
