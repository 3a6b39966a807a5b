------------------------------ MODULE Analytics ------------------------------
(***************************************************************************)
(* legacy/src/siem before the alerts: EventClassifier, AnomalyDetector and *)
(* ThreatIntelligence, as SIEMEngine (index.ts) puts them in a row.  Each  *)
(* call runs without an await up to AlertManager.  An event is what the    *)
(* rules, the statistics and the threat feeds read of it.  How far it is   *)
(* from the baseline depends on what was seen before and is left open; the *)
(* count of what the baseline has learned is exact.                        *)
(***************************************************************************)
EXTENDS Integers, Sequences, Subsequences

CONSTANTS
  EventBatches,   \* sequences of events: see Event
  Exploiter,      \* the Ronin exploiter, of the built-in feed
  Accounts,      \* addresses events and feeds name, in lower case
  Feeds,          \* entries that may be added: [address, risk]
  Histories,      \* lengths of the histories to train on
  ColdStart,      \* SYNTHETIC_SAMPLE_COUNT
  MaxSamples      \* bound on what the baseline learns

\* ThreatFeed
Feed == [address : Accounts, risk : 0 .. 10]

Event ==
  [name : {"Transfer", "Approval", "Withdrawal", "Swap", "FlashLoan", "OwnershipTransferred",
           "Upgraded", "Paused", "ProposalExecuted", "PriceUpdated", "EmergencyShutdown", "Other"},
   instant : BOOLEAN,                        \* no delay, emergency or speedrun
   circular : BOOLEAN,                       \* the sender is the recipient
   heavy : BOOLEAN,                          \* more than 150,000 gas
   value : {"none", "some", "large", "text"},\* callValue: `large' above 10 ether
   amount : BOOLEAN,                         \* args.amount above 10 ether
   swing : BOOLEAN,                          \* a price moved by more than a half
   touches : Seq(Accounts)]                 \* from, contract, args, in this order

ASSUME AnalyticsConstants ==
  /\ Exploiter \in Accounts
  /\ Feeds \subseteq Feed /\ EventBatches \subseteq Seq(Event)
  /\ Histories \subseteq Nat /\ ColdStart \in Nat /\ MaxSamples \in Nat

VARIABLES
  feeds,      \* address -> risk score of its entry, -1 without one
  trained,    \* SIEMEngine.trained
  samples,    \* gasState.n and valueState.n
  baseline,   \* "sound", or "NaN" once a value was no number
  outcome     \* the events of the last call answered: see EnrichedEvent

analyticsVars == <<feeds, trained, samples, baseline, outcome>>

Categories ==
  {"TRANSFER", "APPROVAL", "OWNERSHIP_CHANGE", "LARGE_WITHDRAWAL", "FLASH_LOAN",
   "REENTRANCY_SIGNAL", "ORACLE_MANIPULATION", "GOVERNANCE", "UPGRADE", "PAUSE", "UNKNOWN"}

\* ScoredEvent and EnrichedEvent, with the class of the score and the number of
\* samples it was scored against.
EnrichedEvent ==
  [event : Event, category : Categories, rule : 0 .. 4, z : {"ordinary", "mild", "strong"},
   against : 0 .. MaxSamples, listed : BOOLEAN, severity : 0 .. 4]

Severe == [INFO |-> 0, LOW |-> 1, MEDIUM |-> 2, HIGH |-> 3, CRITICAL |-> 4]

----------------------------------------------------------------------------
(* EventClassifier. *)

RuleFor(category, severity, matches) ==
  [category |-> category, severity |-> Severe[severity], matches |-> matches]

\* RULES, most of which look for a word in the name: `transfer' is in
\* OwnershipTransferred too.  First signs of an attack and of a new owner ...
AttackRules(e) ==
  << RuleFor("GOVERNANCE", "HIGH", e.name = "ProposalExecuted" /\ e.instant),
     RuleFor("FLASH_LOAN", "MEDIUM", e.name = "Swap" /\ e.circular),
     RuleFor("UPGRADE", "CRITICAL", e.name = "EmergencyShutdown"),
     RuleFor("FLASH_LOAN", "HIGH", e.name = "FlashLoan"),
     RuleFor("REENTRANCY_SIGNAL", "HIGH",
             /\ e.name \in {"Withdrawal", "Transfer", "OwnershipTransferred"}
             /\ e.heavy /\ e.value # "none"),
     RuleFor("OWNERSHIP_CHANGE", "HIGH", e.name = "OwnershipTransferred") >>

\* ... and then what a contract may do in ordinary use.
UseRules(e) ==
  << RuleFor("UPGRADE", "CRITICAL", e.name = "Upgraded"),
     RuleFor("PAUSE", "MEDIUM", e.name = "Paused"),
     RuleFor("GOVERNANCE", "MEDIUM", e.name = "ProposalExecuted"),
     RuleFor("ORACLE_MANIPULATION", "CRITICAL", e.name = "PriceUpdated" /\ e.swing),
     RuleFor("LARGE_WITHDRAWAL", "HIGH",
             e.name = "Withdrawal" /\ (e.value = "large" \/ e.amount)),
     RuleFor("APPROVAL", "LOW", e.name = "Approval"),
     RuleFor("TRANSFER", "INFO", e.name = "Transfer") >>

Rules(e) == AttackRules(e) \o UseRules(e)

Matching(e) ==
  LET rules == Rules(e) IN {i \in DOMAIN rules : rules[i].matches}

\* classify(): the first match wins; the mutation takes the last.
LastMatch(matching) == CHOOSE i \in matching : \A j \in matching : j <= i
FirstMatch(matching) == CHOOSE i \in matching : \A j \in matching : i <= j
Classified(e) ==
  LET matching == Matching(e)
  IN IF matching = {} THEN RuleFor("UNKNOWN", "INFO", TRUE) ELSE Rules(e)[FirstMatch(matching)]

\* BigInt() throws for a callValue that is no integer, in the fifth rule, which an
\* event of the first four does not reach.
Throws(e) == e.value = "text" /\ \A i \in Matching(e) : i > 4

----------------------------------------------------------------------------
(* AnomalyDetector. *)

\* train(): synthetic samples up to the cold start, then the history.
TrainedOn(n) == samples + n + (IF n < ColdStart THEN ColdStart - n ELSE 0)

\* What an event is scored against: process() trains an engine that is not yet
\* trained.
Ready == IF trained THEN samples ELSE TrainedOn(0)

\* Number() of a text is NaN, and so is every mean and every score from then on.
Sound(events, i) ==
  baseline = "sound" /\ \A j \in 1 .. i : events[j].value # "text"
BaselineAfter(events) == IF Sound(events, Len(events)) THEN "sound" ELSE "NaN"

\* scoreAndUpdate(): a score that is NaN is no anomaly's.
ZScores(events) ==
  {zs \in [DOMAIN events -> {"ordinary", "mild", "strong"}] :
     \A i \in DOMAIN events : Sound(events, i) \/ zs[i] = "ordinary"}

\* escalateSeverity()
Escalated(severity, z) ==
  LET bump == CASE z = "ordinary" -> 0 [] z = "mild" -> 1 [] z = "strong" -> 2
  IN IF severity + bump > Severe.CRITICAL THEN Severe.CRITICAL ELSE severity + bump

----------------------------------------------------------------------------
(* ThreatIntelligence. *)

\* threatToSeverity()
ThreatSeverity(risk) ==
  CASE risk >= 9 -> Severe.CRITICAL
    [] risk \in 7 .. 8 -> Severe.HIGH
    [] risk \in 4 .. 6 -> Severe.MEDIUM
    [] risk \in 2 .. 3 -> Severe.LOW
    [] risk < 2 -> Severe.INFO

\* enrich(): the first address with an entry counts.
Matches(e) == Subsequence(e.touches, {n \in DOMAIN e.touches : feeds[e.touches[n]] >= 0})
Enriched(e, severity) ==
  IF Matches(e) = <<>> \/ ThreatSeverity(feeds[Matches(e)[1]]) < severity
  THEN severity ELSE ThreatSeverity(feeds[Matches(e)[1]])

----------------------------------------------------------------------------

\* SEED_FEEDS, of which one address stands for all: the one the panel names.
SeedFeeds == [a \in Accounts |-> IF a = Exploiter THEN 10 ELSE -1]

\* The constructor of SIEMEngine, without feeds of the caller.
AnalyticsInit ==
  /\ feeds = SeedFeeds
  /\ trained = FALSE
  /\ samples = 0
  /\ baseline = "sound"
  /\ outcome = {}

\* train(), as the server and `auditx monitor' call it when they start.
TrainEngine(n) ==
  /\ trained' = TRUE
  /\ samples' = TrainedOn(n)
  /\ samples' <= MaxSamples
  /\ UNCHANGED <<feeds, baseline, outcome>>

Answer(events, zs, i, final) ==
  [event |-> events[i], category |-> Classified(events[i]).category, z |-> zs[i],
   rule |-> Classified(events[i]).severity, severity |-> Enriched(events[i], final),
   listed |-> \E n \in DOMAIN events[i].touches : feeds[events[i].touches[n]] >= 9,
   against |-> IF Sound(events, i - 1) THEN Ready + i - 1 ELSE 0]

\* process(): the whole batch is classified first, and if that throws, nothing is
\* learned of it.
ProcessEvents(events) ==
  /\ trained' = TRUE
  /\ \/ /\ \E i \in DOMAIN events : Throws(events[i])
        /\ samples' = Ready
        /\ UNCHANGED <<baseline, outcome>>
     \/ /\ \A i \in DOMAIN events : ~Throws(events[i])
        /\ samples' = Ready + Len(events)
        /\ baseline' = BaselineAfter(events)
        /\ \E zs \in ZScores(events) :
             outcome' = {Answer(events, zs, i,
                                Escalated(Classified(events[i]).severity, zs[i]))
                           : i \in DOMAIN events}
  /\ samples' <= MaxSamples
  /\ UNCHANGED feeds

\* processSingle(), of `auditx monitor' on its standard input: the severity is the
\* rule's, anomaly or not.
ProcessSingle(e) ==
  /\ trained' = TRUE
  /\ \/ /\ Throws(e)
        /\ samples' = Ready
        /\ UNCHANGED <<baseline, outcome>>
     \/ /\ ~Throws(e)
        /\ samples' = Ready + 1
        /\ baseline' = BaselineAfter(<<e>>)
        /\ \E zs \in ZScores(<<e>>) :
             outcome' = {Answer(<<e>>, zs, 1, Classified(e).severity)}
  /\ samples' <= MaxSamples
  /\ UNCHANGED feeds

\* addFeed(): an entry replaces another of its address, also one of the same list.
AddFeed(entries) ==
  /\ feeds' \in
       {f \in [Accounts -> {feeds[a] : a \in Accounts} \cup {entry.risk : entry \in entries}] :
          \A a \in Accounts :
            LET risks == {entry.risk : entry \in {e \in entries : e.address = a}}
            IN f[a] \in IF risks = {} THEN {feeds[a]} ELSE risks}
  /\ UNCHANGED <<trained, samples, baseline, outcome>>

\* syncFromIpfs(): the entries of a file, or none when the gateway fails or is late.
SyncFromIpfs == \E entries \in SUBSET Feeds : AddFeed(entries)

\* removeFeed()
RemoveFeed(address) ==
  /\ feeds' = [feeds EXCEPT ![address] = -1]
  /\ UNCHANGED <<trained, samples, baseline, outcome>>

AnalyticsNext ==
  \/ \E n \in Histories : TrainEngine(n)
  \/ \E events \in EventBatches : ProcessEvents(events)
  \/ \E events \in EventBatches : events # <<>> /\ ProcessSingle(events[1])
  \/ \E entry \in Feeds : AddFeed({entry})
  \/ SyncFromIpfs
  \/ \E address \in Accounts : RemoveFeed(address)

AnalyticsSpec == AnalyticsInit /\ [][AnalyticsNext]_analyticsVars

----------------------------------------------------------------------------

(* The scenarios of SIEMPanel.handleSimulate(). *)

Plain == [name |-> "Transfer", instant |-> FALSE, circular |-> FALSE, heavy |-> FALSE,
          value |-> "none", amount |-> FALSE, swing |-> FALSE, touches |-> <<>>]
Scenario(kind) ==
  CASE kind = "baseline" -> Plain
    [] kind = "reentrancy" -> [Plain EXCEPT !.name = "Withdrawal", !.heavy = TRUE,
                                            !.value = "large", !.amount = TRUE]
    [] kind = "flashloan" -> [Plain EXCEPT !.name = "Swap", !.circular = TRUE, !.heavy = TRUE]
    [] kind = "threat_intel" -> [Plain EXCEPT !.touches = <<Exploiter, Exploiter>>]
    [] kind = "governance" -> [Plain EXCEPT !.name = "ProposalExecuted", !.instant = TRUE,
                                            !.heavy = TRUE]
    [] kind = "selfdestruct" -> [Plain EXCEPT !.name = "EmergencyShutdown"]

\* What the panel says of a scenario: the category and the least severity.
Promised(kind) ==
  CASE kind = "reentrancy" -> <<"REENTRANCY_SIGNAL", Severe.HIGH>>
    [] kind = "flashloan" -> <<"FLASH_LOAN", Severe.MEDIUM>>
    [] kind = "governance" -> <<"GOVERNANCE", Severe.HIGH>>
    [] kind = "selfdestruct" -> <<"UPGRADE", Severe.CRITICAL>>

AnalyticsTypeOK ==
  /\ feeds \in [Accounts -> -1 .. 10]
  /\ trained \in BOOLEAN /\ samples \in 0 .. MaxSamples
  /\ baseline \in {"sound", "NaN"}
  /\ outcome \subseteq EnrichedEvent
  /\ \A o \in outcome : o.severity >= o.rule

\* Whatever the engine has learned and whichever feeds were added or removed, the
\* attacks of the panel come out as what they are, no less severe than the panel
\* says, though several rules match them; and a transaction that names one
\* address of the highest risk, and no other that is listed, is CRITICAL.
ScenariosRaised ==
  \A o \in outcome :
    /\ \A kind \in {"reentrancy", "flashloan", "governance", "selfdestruct"} :
         o.event = Scenario(kind) =>
           o.category = Promised(kind)[1] /\ o.severity >= Promised(kind)[2]
    /\ o.event = Scenario("threat_intel") /\ o.listed => o.severity = Severe.CRITICAL

\* Every event is scored against a baseline of the cold start's size or more, and
\* one of numbers (AnomalyDetector.ts:11-12 "This ensures meaningful z-scores from
\* the very first real event.").  It is not: a callValue that is no number is
\* only refused if the fifth rule reads it.
ScoresMeaningful == \A o \in outcome : o.against >= ColdStart
=============================================================================
