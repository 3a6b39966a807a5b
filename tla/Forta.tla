------------------------------- MODULE Forta -------------------------------
(***************************************************************************)
(* legacy/src/forta: what the pipeline makes of the alerts that Forta has  *)
(* for a contract (client.ts, index.ts), the bot it generates from an      *)
(* audit's findings (generator.ts), and that bot at work: the templates    *)
(* are code too.  A finding is the keyword its title contains, and whether *)
(* it is severe.                                                           *)
(***************************************************************************)
EXTENDS Integers, Sequences, FiniteSets, Subsequences

CONSTANTS
  AlertCounts,   \* what a query may answer: [critical, high, medium] counts
  FindingLists,  \* lists of findings, as sets of [word, severe]
  Transactions,  \* what a deployed bot may see: see Transaction
  MaxSeen        \* bound on the count of the gas baseline, above 10

\* What a template reads of a transaction that a node hands to its bot.
Parties == {"target", "other"}
Transaction ==
  [from : Parties, to : Parties, origin : Parties,
   calls : 0 .. 3,               \* traces to the target that carry value
   ether : {0, 1, 10},           \* the transaction's value
   transfers : SUBSET Parties,   \* contracts that log a Transfer
   owner : {"same", "zero", "trusted", "stranger"},  \* the target's new owner
   zscore : {0, 3, 5}]           \* of its gas, against the bot's baseline

ASSUME FortaConstants ==
  /\ AlertCounts \subseteq [critical : Nat, high : Nat, medium : Nat]
  /\ Transactions \subseteq Transaction
  /\ MaxSeen \in Nat

VARIABLES
  bot,       \* the generated bot, or none
  gasSeen,   \* gasBaseline.count of a running `dos' bot
  observed,  \* the transaction last handled
  raised     \* the findings its handler returned: [name, severity]

botVars == <<bot, gasSeen, observed, raised>>

----------------------------------------------------------------------------
(* Alerts of a contract. *)

Least(a, b) == IF a < b THEN a ELSE b

\* getContractMonitorStatus(); a query that fails answers no alerts.
RiskScore(alerts, scam) ==
  Least(100, 25 * alerts.critical + 10 * alerts.high + 5 * alerts.medium
             + (IF scam THEN 50 ELSE 0))

Risks == {"SAFE", "LOW", "MEDIUM", "HIGH", "CRITICAL"}

\* analyzeDeployedContract()
OverallRisk(score) ==
  CASE score > 80 -> "CRITICAL"
    [] score > 60 /\ score <= 80 -> "HIGH"
    [] score > 30 /\ score <= 60 -> "MEDIUM"
    [] score > 10 /\ score <= 30 -> "LOW"
    [] OTHER -> "SAFE"

----------------------------------------------------------------------------
(* Generating a bot. *)

Rule(word, id, template, rank) ==
  [word |-> word, id |-> id, template |-> template, rank |-> rank]

\* FINDING_TO_FORTA_MAP, with the word of the type that a title is searched for,
\* the part before the first dash.
FortaMap ==
  << Rule("reentrancy", "REENTRANCY-WATCH-001", "reentrancy", 4),
     Rule("reentrancy", "REENTRANCY-WATCH-002", "reentrancy", 3),
     Rule("suicidal", "SELFDESTRUCT-WATCH-001", "admin", 4),
     Rule("arbitrary", "DRAIN-WATCH-001", "drain", 4),
     Rule("controlled", "DELEGATECALL-WATCH-001", "admin", 3),
     Rule("tx", "TXORIGIN-WATCH-001", "phishing", 3),
     Rule("weak", "RANDOMNESS-WATCH-001", "manipulation", 2),
     Rule("calls", "GAS-WATCH-001", "dos", 2),
     Rule("unchecked", "TOKEN-DRAIN-001", "drain", 3),
     Rule("missing", "ADMIN-CHANGE-001", "admin", 2) >>

NoBot == [rules |-> <<>>, template |-> "none"]

\* The rules whose word a title contains; without any, the first drain rule if a
\* finding is severe.
MatchedRules(findings) ==
  LET matched == {i \in DOMAIN FortaMap : \E f \in findings : f.word = FortaMap[i].word}
      drain == {i \in DOMAIN FortaMap : FortaMap[i].id = "DRAIN-WATCH-001"}
  IN Subsequence(FortaMap,
                 IF matched = {} /\ \E f \in findings : f.severe THEN drain ELSE matched)

\* The template of the first of the most severe rules.
PrimaryTemplate(rules) ==
  rules[CHOOSE i \in DOMAIN rules :
          /\ \A j \in DOMAIN rules : rules[j].rank <= rules[i].rank
          /\ \A j \in 1 .. i - 1 : rules[j].rank < rules[i].rank].template

\* generateFortaBot()
BotFor(findings) ==
  LET rules == MatchedRules(findings)
  IN IF rules = <<>> THEN NoBot
     ELSE [rules |-> rules, template |-> PrimaryTemplate(rules)]

----------------------------------------------------------------------------
(* The templates: handleTransaction() of the generated bot. *)

Involves(tx) ==
  "target" \in {tx.from, tx.to} \cup tx.transfers \/ tx.calls > 0 \/ tx.owner # "same"

RaisedBy(name, severity, condition) ==
  IF condition THEN {[name |-> name, severity |-> severity]} ELSE {}

\* Three calls or more in one transaction.
ReentrancyBot(tx) == RaisedBy("reentrancy", "critical", Involves(tx) /\ tx.calls >= 3)

\* The token transfers of the contract; the mutation raises for those of any, as
\* filterLog() returns them.
AnyTransfers(tx) == tx.transfers
OwnTransfers(tx) == tx.transfers \cap {"target"}

\* Ten ether from or to the contract, and each token transfer it logs.
DrainBot(tx) ==
  RaisedBy("ether", "high", "target" \in {tx.from, tx.to} /\ tx.ether >= 10)
    \cup RaisedBy("token", "medium", OwnTransfers(tx) # {})

\* A change of owner.
AdminBot(tx) ==
  RaisedBy("owner", CASE tx.owner = "zero" -> "info"
                      [] tx.owner = "stranger" -> "high"
                      [] OTHER -> "medium",
           Involves(tx) /\ tx.owner # "same")

\* Gas far above the baseline, once more than ten transactions are in it.
DosBot(tx, count) ==
  RaisedBy("gas", IF tx.zscore >= 5 THEN "high" ELSE "medium",
           Involves(tx) /\ tx.zscore >= 3 /\ count > 10)

\* A call that was not sent by the origin itself.
PhishingBot(tx) == RaisedBy("indirect", "medium", Involves(tx) /\ tx.from # tx.origin)

\* An ether or more.
ManipulationBot(tx) == RaisedBy("value", "medium", Involves(tx) /\ tx.ether >= 1)

HandleTransaction(template, tx, count) ==
  CASE template = "reentrancy" -> ReentrancyBot(tx)
    [] template = "drain" -> DrainBot(tx)
    [] template = "admin" -> AdminBot(tx)
    [] template = "dos" -> DosBot(tx, count)
    [] template = "phishing" -> PhishingBot(tx)
    [] template = "manipulation" -> ManipulationBot(tx)

----------------------------------------------------------------------------

BotInit == bot = NoBot /\ gasSeen = 0 /\ observed = {} /\ raised = {}

\* A bot is generated, saved and deployed.
DeployBot(findings) ==
  /\ bot = NoBot
  /\ bot' = BotFor(findings)
  /\ UNCHANGED <<gasSeen, observed, raised>>

\* updateBaseline()
CountAfter(tx) ==
  IF bot.template = "dos" /\ Involves(tx) THEN Least(gasSeen + 1, MaxSeen) ELSE gasSeen

\* The node hands the bot a transaction.
Observe(tx) ==
  /\ bot # NoBot
  /\ gasSeen' = CountAfter(tx)
  /\ observed' = {tx}
  /\ raised' = HandleTransaction(bot.template, tx, gasSeen')
  /\ UNCHANGED bot

BotNext ==
  \/ \E findings \in FindingLists : DeployBot(findings)
  \/ \E tx \in Transactions : Observe(tx)

BotSpec == BotInit /\ [][BotNext]_botVars

\* GeneratedBot and BotRule, and the Finding a handler returns.
Bot ==
  [rules : Seq({FortaMap[n] : n \in DOMAIN FortaMap}),
   template : {FortaMap[n].template : n \in DOMAIN FortaMap} \cup {"none"}]
BotFinding ==
  [name : {"reentrancy", "ether", "token", "owner", "gas", "indirect", "value"},
   severity : {"info", "medium", "high", "critical"}]

BotTypeOK ==
  /\ bot \in Bot
  /\ gasSeen \in 0 .. MaxSeen
  /\ observed \subseteq Transaction
  /\ raised \subseteq BotFinding

\* A bot says nothing of transactions that do not touch its contract, though the
\* logs of a transaction come from any contract; and the template it is made
\* from is one of its most severe rule.
BotWatchesItsContract ==
  /\ raised # {} => \A tx \in observed : Involves(tx)
  /\ bot # NoBot =>
       \E i \in DOMAIN bot.rules :
         /\ bot.rules[i].template = bot.template
         /\ \A j \in DOMAIN bot.rules : bot.rules[j].rank <= bot.rules[i].rank
=============================================================================
