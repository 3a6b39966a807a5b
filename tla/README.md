# AuditX: formal models, checks and proofs

This directory is a TLA+ development of AuditX, a decentralised platform for
auditing smart contracts. It holds one module per component, TLC instances that
check them, and theorems that TLAPS proves for every value of the constants.
Paths are relative to the repository's root (`src/` in `PROJECT.json`).

    tlc -workers 2 -config MCDisputeResolver.cfg MCDisputeResolver
    tlapm CountingTheorems.tla
    tlapm DisputeResolverProofs.tla
    tlapm ContractProofs.tla
    tlapm SiemEngineProofs.tla
    tlapm SiemServerProofs.tla
    tlapm IdentityLoginProofs.tla
    tlapm AgentNetworkProofs.tla
    tlapm ServiceProofs.tla

`PROJECT.json` lists the components, runs, mutations, the lines each definition
translates, the hazards and the theorems. A definition such as `NoTimelock`,
introduced by a comment as a mutation, is not part of a model: it is the form a
plausible bug would give to the definition after it, and the property that
`PROJECT.json` pairs it with is violated once it takes that definition's place.

## 1. The system

### 1.1 Contracts (`contracts/`, deployed by `scripts/deploy.ts`)

| Component | State | Operations | What makes it correct |
|---|---|---|---|
| `AgentRegistry` | agents (stake, reputation, active), unlock times, its Ether | `register`, `deregister`, `withdrawStake`; `slash`, `addReputation` for the resolver's role | the Ether is exactly the stake owed; an active agent is fully staked; a deregistered one waits for 7 days |
| `AuditRegistry` | append-only records per contract hash, submissions per agent, the linked resolver | `submitAudit` by active agents, `disputeAudit` by anyone within 72 h, `resolveDispute` by the resolver, `setDisputeResolver` once | fraud stays flagged; counts agree with the log |
| `DisputeResolver` | one bonded dispute per record, its Ether | `raiseDispute`, `resolveDispute` (calls `slash`, `addReputation` and the audit registry), `receive` | one slash per fraud; bonds can be returned; an audit that can be challenged is backed by a stake |
| `StakeManager` | sAUDITX receipts (ERC-20), unstake requests, reward clocks, Ether and tokens held | `stake`, `unstake`, `executeUnstake`, `claimRewards`, ERC-20 transfers | Ether equals receipts plus pending requests; the delay covers the whole request |
| `ResumeRegistry` | used nullifiers, records, verifier, timelocked proposal | `submitProof`, `propose-`, `execute-`, `cancelVerifierUpdate` | a nullifier is spent once; a verifier is announced a whole delay ahead |
| `AuditJobQueue` | jobs, ids per user, fee, Ether | `submitJob`, `updateJobStatus` by workers, `setAuditFee`, `withdrawFees` | ids are unique across users; completed jobs are final |
| `AuditBadgeNFT` | tokens: contract, score, ZK mark | `mintBadge` below a score of 7.0; the grade in `tokenURI` | no badge for a contract that must not have one |
| `PaymentReceiver`, samples | payments | pay and withdraw | not modelled, see section 7 |

The three audit contracts call each other within one transaction; the EVM runs
transactions one at a time and undoes a reverted one, so a transaction is one
action, with the guards of every contract it reaches. What is hard is the order
of transactions of several parties against two clocks (72 hours, 7 days), and a
revert in one contract that undoes what another was to do.

### 1.2 Off-chain services

| Component | State | Operations and interactions | What is hard |
|---|---|---|---|
| TypeScript SIEM `legacy/src/siem` | rules, running statistics, threat feeds; dedup cache, alerts | `processBatch` classifies, scores, enriches and alerts; `acknowledge`, `resolve`, `suppress`; emits alerts to the server | rules that hide each other, statistics that one event changes for good; two awaits (IPFS, EAS) between building an alert and storing it, other requests in between |
| SIEM server `legacy/src/server.ts`, the dashboard's store `useSIEMStore.ts` | sockets; the list of a browser tab | REST and WebSocket ingest, two broadcasts per alert, status changes, reconnections | an alert stored while a tab connects; callbacks of a socket that was replaced; duplicates |
| Tenant registry `legacy/src/tenantRegistry.ts`, `api/monitor/register` | clients, addresses, in memory and in a file; a map in the frontend | registration, bootstrap, webhooks with three attempts | a failed write or a crash between memory and disk; retries |
| Audit pipeline `legacy/src/pipeline.ts`, `cli.ts`, runners | audits under way, their report files, badges | subgraph lookup, analysers, AI with retries, Forta, uploads, attestation, badge | partial failure of the stages; audits that write one file, in one process or in two |
| Forta `legacy/src/forta` | the generated bot, its baseline | risk from alerts; a template chosen from the findings; the bot's handlers | a bot that reports what is none of its contract's |
| Agent network `legacy/src/network` | votes and reports per job | jobs and results over gossipsub; `runPipeline` per job; consensus by the listener | results late, unordered or lost; several agents |
| Dashboard's audit page `useAuditStore.ts`, `LiveAuditSimulator.tsx` | the page's run, its EventSource | runs in the browser, imports by the server, telemetry, the latest report | telemetry of another audit, or none; a report of another run |
| Wallet `useWalletStore.ts`, `lib/wallet.ts` | the wallet shown | connect, disconnect, account and chain listeners | three answers, between which wallet and page change |
| Next.js frontend `frontend/app` | demo events and alerts; the pages' lists | polls, simulations, scans, navigation | answers that come late, fail, or outlive their page |
| Event streamer `scripts/siemStreamer.ts` | socket, timers, blocks being read | sends the transactions of a block; reconnects | timers and closes that could double a connection; a form of events that the server must take |
| Rust SIEM `crates/auditx-core/src/siem.rs` | detector and training flag, dedup cache, alerts, a Mutex each | `train`, `process`, `process_single` from any thread | two locks taken in two orders, a clock read outside a lock |
| Rust monitor, CVSS, reports `crates/auditx-core` | tenants; none | port of the tenant registry; pure functions | the registry's retries and persistence |
| Wallet-login identity `crates/auditx-identity`, `-http`, proxy `route.ts` | nonces, attempts, baselines | one assessment per login, async over the store, timeouts in the service and in the proxy | concurrent assessments that read, await and write; an assessment dropped half-way |
| Canister, trust layer, scanners, AI triage, Rust CLI | audits in canister memory; none | calls of external services | loss at an upgrade; partial failure |

`PROJECT.json` gives for each its sources and, when it is not modelled, why.

## 2. The modules

| Module | Models | State and actions against the code |
|---|---|---|
| `BlockTime` | `block.timestamp` and the timelocks of three contracts | `now`, `Advance`: time is the block's, and passes between any two transactions; `TimelockEnd` is `block.timestamp + delay`, `TimelockOver` the `require` against a stored unlock time |
| `AgentRegistry` | `AgentRegistry.sol` | `agents`, `withdrawalUnlockTime` are the mappings; an action per function. `AgentNext` lets the role's holder slash and reward at will |
| `AuditRegistry` | `AuditRegistry.sol` | extends `AgentRegistry`; `audits` is the log, its actions constrain only its own variables so that callers can compose them |
| `DisputeResolver` | `DisputeResolver.sol` and the three contracts together | `RaiseDispute` contains `DisputeAudit`; `UpholdDispute` contains `ResolveRecord` and `Slash`; `RejectDispute` contains `ResolveRecord` and `AddReputation` |
| `StakeManager` | `StakeManager.sol` | the registry's `isAgentActive()` answers from `activeAgents`, which changes freely |
| `ResumeRegistry` | `ResumeRegistry.sol` | `Accepts` says what each verifier contract finds valid |
| `AuditJobQueue` | `AuditJobQueue.sol` | an action per function; any worker may report any status |
| `AlertManager` | `legacy/src/siem/AlertManager.ts` | one step per stretch between awaits (`Work`): `DropEvent`, `SuppressEvent`, `BuildAlert`, `StoreAlert`; `UpdateStatus` for the operators |
| `SiemServer` | `server.ts` around `AlertManager`; `useSIEMStore.ts` | extends `AlertManager`; a connection is a queue each way, a socket has its `readyState`, and each callback of the browser is a step; an `init` replaces the list, an `alert` goes before it |
| `Analytics` | `EventClassifier.ts`, `AnomalyDetector.ts`, `ThreatIntelligence.ts`, `SIEMEngine` | no await up to the alerts, so a batch is one step; the baseline is its count of samples, or NaN; the outcome is each event with its category, severity and listing |
| `TenantRegistry` | `tenantRegistry.ts`, the frontend's registration route | `memory` and `disk`; `Saved` is the write that may fail; `Crash`, `StartPlain` and `StartPolyLance`; an attempt at a webhook is a step |
| `Forta` | `legacy/src/forta` | `DeployBot` from a list of findings, the generated handlers on transactions |
| `AuditPipeline` | `pipeline.ts`, its runners, `cli.ts`, the server's audit endpoints | extends `Forta`; `audit[a].stage` is the await a run is at; `reportFile` is what is in the file of each directory. `writeIncrementalReport()` and the second write of the EAS step (`Annotate`) take three steps, reading (`Write`), `Truncate` and `PutReport`, between which other processes may come but not other audits of the same one (`Held`); `UploadCode` replaces the code other uploads read |
| `AuditStore` | `useAuditStore.ts`, `LiveAuditSimulator.tsx`, `/stream`, `/api/reports/latest` | extends `AuditPipeline`; a click's POST, EventSource and fetch are separate and settle in any order |
| `SiemStreamer` | `scripts/siemStreamer.ts` | sockets, `timers` counted, a block between its RPC calls and its send |
| `Wallet` | `useWalletStore.ts`, `lib/wallet.ts`, `App.tsx` | a call is at one of three requests; `provider` is the browser's wallet and changes at any time |
| `WebApp` | `frontend/app` | a poll is two fetches; a scan outlives the page it was asked on |
| `SiemEngine` | the locks of `siem.rs` | one step per stretch between lock requests; `pc` is the thread's place |
| `IdentityLogin` | `ingest.rs` and its store, rules and scoring; `main.rs`; `route.ts` | one step per await on the store; `attempts` is how many attempts of a wallet or an ip there were at each moment, which is all that `recent_attempts()` reads of its list; `Timeout` drops an assessment, `Fallback` is the proxy's own answer |
| `Consensus` | nothing of the code: what the network promises | `Cast` and `Decide` over the votes cast and the decision of each job |
| `AgentNetwork` | `agent.ts`, `jobQueue.ts`, `consensus.ts`, the pipeline's outcome | messages in `inbox` until handled or lost; `HandleResult` is the consensus handler; `C` maps it to `Consensus` |
| `Escrow` | nothing of the code: what the contracts that hold stake promise | `deposited`, `leaving` and `asked` per account; what an authority takes is counted in `seized`. `StakeManager` and `AgentRegistry` map to it (`StakeEscrow`, `AgentEscrow`) |
| `Components` | all components that stand alone, together | `OnChain` is a step of one contract, whose `Advance` is the clock of all; `OffChain` is a step of one service; the rest stays as it is |

`MCx` instantiates module `x` for TLC; its `.cfg` gives the constants.
`MCComponents` takes the steps of `Components` one component per behaviour: its
state space is their union, so that one run answers for all of them, and
`ComponentsStandAlone` (section 4) proves that no interleaving adds to it.

Two modules hold what several components count with. `Sums` has the sum of a
function as the number of its units, for the Ether and the attempts;
`Subsequences` has the members of a sequence at a set of positions, for the
`filter()` calls and loops of the code (alert rows, rules that match, the clients
that monitor an address). Neither is recursive, so that theorems reach them.

The theorems are in `CountingTheorems` (lemmas about those two),
`DisputeResolverProofs` (the audit contracts), `ContractProofs` (the other three
contracts), `SiemEngineProofs`, `SiemServerProofs` (with `AlertManager`),
`IdentityLoginProofs`, `AgentNetworkProofs` and `ServiceProofs` (the off-chain
components, and the composition of all components in `Components`).

History variables record what the code does not keep and a property needs:
`exit` (when and why an agent became inactive), `verdict` and `tainted` (rulings
and the records whose auditor was slashed), `lastUnstake`, `proposed`, `finals`,
`consumed`, `coldStarts`, `scoredBlind`, `issued` and `receipts` (what callers
of the tenant registry were told, and what a webhook's receiver got),
`wrote` (the parts an audit has written), `sentBlocks` and `ingested`, `removed`, `source` (the socket whose open alerts a
tab's list began with). No guard reads one, except that a
caller of `RegisterAddress` can only have a key it was told. A `verdict` of fraud
is kept even if a later ruling of the same dispute said otherwise, so that
`FraudStaysFlagged` would catch such a ruling. `calls` and `received` count
requests for their bounds only.

### Abstractions

- Amounts are in units of 0.05 ETH (stake 2, bond 1, reward 3, slash 2) and
  time in days scaled so that the window is shorter than the delay
  (`WindowEndsBeforeDelay`); the proofs hold for all values with that order.
- `audits[contractHash][index]` is a position in one log: no code relates two
  records by their hash. CID, score, risk level and `registeredAt` are written
  and never read on chain.
- A payment to an account that refuses Ether reverts its transaction, which is
  then no step. In `resolveDispute` the payment precedes `addReputation` in the
  text; as one transaction the order does not show.
- `deploy.ts:38` and `:43` grant the role and link the resolver after the
  deployment, in either order of other calls: `GrantResolverRole`,
  `SetDisputeResolver`. The script makes the deployer the treasury (`:15-17`);
  `TreasuryIsResolver` covers both choices.
- OpenZeppelin's Ownable, AccessControl, ERC20 and SafeERC20 are taken at their
  word. keccak256 over student, job, chain and address is injective.
- `RegistryChange` over-approximates the registry seen by `StakeManager`.
- In `AlertManager` the events arrive classified and enriched; an upload that
  fails is caught and changes nothing the model tells apart.
- In `Analytics` how far an event is from the baseline is left open, whatever was
  learned: every score is possible, so that what holds does not rest on
  floating-point statistics. The count of samples is exact.
- In `AuditPipeline` the findings are left out, but for the words Forta's rules
  look for; a score is what the analysers and the model answer. A contract is
  what the five ZK rules read of it. The server's audits are of one process, each
  `auditx audit` of its own. A report that is not there yet counts as one without
  parts; two processes that have both truncated it leave the last text or, as the
  longer one's end stays, one that does not parse. A process that dies between
  truncating and writing is left out, for what it leaves is what the others read
  in between.
- In `AuditStore` the only telemetry event is (`parse`, `complete`), as the store
  acts on no other. `KeyAdded` says whether a gateway adds the key that `/stream`
  asks for; the runs cover both values.
- In `SiemServer` the baseline for display is left out, and a tab is one browser
  tab with the sockets it makes.
- In `TenantRegistry` a key stands for its hash and its client; URLs, signatures
  and formats are left out.
- In `WebApp` an event or an alert is its severity, a report the demo it is of.
- In `SiemEngine` u64 subtraction is `% Modulus` in a release build and a panic
  with a poisoned lock in a debug build (`OverflowChecks`). The alerts lock is
  never held while another is asked for, and is part of its step.
- In `IdentityLogin` the wallet's age lookup always answers None, as in the
  code, and the service installs no alert manager. `Tick` does not let an
  assessment run past the service's timeout, since the timer drops it.
- In `AgentNetwork` the jobs are about one contract; the subgraph query has no
  order, so any indexed audit may come first. A publication arrives at most
  once, in any order, or never. `easAttest()` in the pipeline is a stub that
  feeds no lookup.

## 3. The runs

Sizes are distinct states with `-workers 2`.

| Run | Question | Bounds, and why they are enough | Size |
|---|---|---|---|
| `MCAgentRegistry` | is stake ever lost, paid twice or too early (`RegistrySolvent`, `StakeEscrowed`), and does a leaver get it back (`StakeReturned`)? | two agents (one to be robbed by the other), time to 4 with a delay of 2: leave, return and leave again; deposits above the minimum, slashes of every size, so an agent stays active, becomes inactive or is emptied | 530 000 |
| `MCAgentRegistryTimelock` | does every withdrawal wait for the delay? No, section 6 | as above, one agent | |
| `MCDisputeResolver` | do the three contracts keep audits backed, verdicts final, slashes single, bonds payable? | two agents, two records, one challenger, window 1, delay 2, time to 4: a record's window ends, its auditor leaves and withdraws, and a second record of the same or the other agent is still open | 2.9 million |
| `MCSiemServer` | do interleaved batches duplicate or lose alerts, and does a tab see them through drops and reconnections? | two requests, two batches, two keys, severities below, at and above the threshold; a tab with two sockets, so that callbacks of an old one meet a new one; one status change; window 1 in time 2. A third socket was tried as well (7.3 million states), and `OpenAlertsArrive` is for any number | 530 000 |
| `MCSiemEngine` | do threads train twice, score blind, alert twice, or hang? | two processing threads and a training one, two calls each, debug build: every order of the two locks, a reordered clock reading | 400 000 |
| `MCSiemEngineDedup` | are duplicates suppressed in a release build? No, section 6 | two processing threads, `Modulus` 16 above every time | |
| `MCIdentityLogin` | do concurrent logins replay a nonce, pass the velocity limit or skip the cold start? | two requests at a time over logins that share nonce, wallet or ip, are expired or forged; a timeout at any await; a nonce that comes back after its ttl of 2 in time 4 | 510 000 |
| `MCIdentityLoginTimeout` | does a timeout step up? No, section 6 | as above | |
| `MCComponents` | is each of twelve components that stand alone right? See below | below | 370 000 |
| `MCAnalyzingIsUnderWay` | is the page that says Analyzing waiting for something? No, section 6 | two audits, one click, `KeyAdded = FALSE` | |
| `MCStreamedIsProcessed` | does the server process what is streamed? No, section 6 | two blocks | |
| `MCScoresMeaningful` | is every event scored against a baseline? No, section 6 | batches of one or two events | |

`MCComponents` asks, part by part:

| Part | Question (property) | Bounds |
|---|---|---|
| `StakeManager` | are receipts and requests backed (`ReceiptsBacked`), is Ether paid only as an escrow pays, a delay after the last `unstake()` (`ReceiptsEscrowed`), are reward clocks kept (`RewardClockKept`)? | two users, two units, time 3 with delay 1: merged requests, receipts that change hands while another request is pending |
| `ResumeRegistry` | is a nullifier spent just when its record is written (`SpentMatchesRecorded`), a verifier announced (`VerifierAnnounced`)? | two verifiers that disagree, two users, time 3 with delay 1: propose, replace, cancel, execute |
| `AuditJobQueue` | do users' jobs stay apart (`JobsPartitioned`)? | three jobs of two users |
| `AuditPipeline` | does each audit pin what it seals, and does a report keep what its one process wrote (`ReportsKept`); is each badge earned (`BadgesEarned`)? | two audits of the command line that may start in one millisecond; all options but two, and none; contracts that pass all ZK rules and that do not parse; two attempts at the model. The first write of the first audit is interrupted for as long as others run (`WritesAtOnce`), so that a report loses parts or its CID, or does not parse; the second audit has one contract and no key for the model; of two that share no directory the first goes on first |
| `AuditStore` | does any badge break the limit, beside the page too (`BadgesEarned`), and do audits of the server that share a report keep it whole (`ReportsKept`)? | `ServerOnly`: two audits, uploads or imports, one click and one run in the browser; audits start in one millisecond; only the first audit fails or is answered by the subgraph; the page mints last, keeps its file and changes its tab between runs |
| `Forta` | is a bot about its contract (`BotWatchesItsContract`)? | each rule alone and in lists; transactions that touch the contract in one way each; a gas baseline past its 10 samples |
| `TenantRegistry` | is what callers are told true (`AnswersHold`)? | two keys, two addresses, two registrations, two starts, one alert with three attempts: a failed write, then a good one, then a crash |
| `SiemStreamer` | is there one connection or one timer (`OneConnection`)? | two sockets, two blocks: a close of an old socket beside a new one |
| `Analytics` | do the panel's attacks come out as such (`ScenariosRaised`)? | every scenario, events that several rules match, two feeds of one address, five samples |
| `Wallet` | does a page that connects wait for one call (`ConnectingHasCall`)? | two calls, two accounts, two chains |
| `WebApp` | are buttons off just while a call of the page is under way, and are lists and their counts one answer (`PagesConsistent`)? | two polls and two scans that overlap, three events; `WebBound` leaves two kinds of new event, one of new alert and of late scan |
| `AgentNetwork` | is a job decided once, for a score enough agents reported (`FinalWasReported`, `ConsensusReached`)? | four agents, threshold 2: enough results for two decisions, were late ones not dropped; `NetworkBound`: the subgraph's first answer changes once, a run fails at its first await or not at all |

`PipelineOnly`, `ServerOnly`, `InOrder`, `WritesAtOnce`, `WebDbBound`, `WebBound` and `NetworkBound` in
`MCComponents` bound what callers do, never what the code does: `InOrder` names
audits in the order of their starts, which loses no behaviour but names.

`CHECK_DEADLOCK FALSE` stands in every configuration because each model stops
at its bounds (the clock, the number of calls, batches or records), and there it
is right to stop: nothing in these systems must go on for ever.

The properties, each with the code it is about, are stated at the end of each
module. One is a type invariant per run; the others relate state to state or
step to history.

### Fairness

Only three properties need it, and nothing else is claimed to happen:

- `StakeReturned` (`AgentSpec`): blocks keep coming (`Advance`), and an agent
  that wants its stake keeps calling `withdrawStake()`. No fairness is asked of
  the resolver, the owner or `deregister()`. The property is about agents whose
  unlock time lies within the bounded clock.
- `EventsAreAlerted` (`FairSpec` of `SiemServer`): the awaits of a request are on
  promises that settle, a failing upload included (its catch swallows the error),
  and Node's event loop resumes them. None is asked of sockets or operators.
- `EveryCallReturns` (`FairSpec` of `SiemEngine`): the scheduler runs every
  thread that is not blocked on a lock. Weak fairness is enough because a free
  lock that another thread keeps taking is taken only finitely often in the
  bounded calls; lock starvation by endless calls is not examined.

## 4. What is proved

Every safety property that a passing run checks, invariant, action property or
refinement, is proved for every value of the constants; and of each of the three
liveness properties the part that is not about fairness. The theorems
assume the named `ASSUME`s of the modules and nothing else: the types of the
constants, that amounts and delays that must be positive are, that placeholders
(`NoScore`, `NoLink`, ...) are none of the values they stand beside, the order
of window and delay (`WindowEndsBeforeDelay`), that the store of the logins keeps
attempts for the velocity window at least and a request's timeout is shorter than
it (`IdentityConstants`), and that the sets that are
counted or summed over (`Agents`, `Stakers`, `Slots`) are finite. TLC evaluates
them in the runs. No theorem depends on a bound of section 3: two sockets there
are any number here.

None of the properties worth a run is inductive alone but for a few, so each
proof goes through a stronger invariant. What the invariants add is the reason
the code is right.

### The audit contracts (`DisputeResolverProofs`)

| Theorem | Property | Says |
|---|---|---|
| `TypeCorrect` | `TypeOK` | types of the three contracts |
| `FraudFlagged` | `FraudStaysFlagged` | a record proven fraudulent is flagged for ever |
| `DisputesMatch` | `OpenDisputeMatchesRecord` | a dispute names its record's auditor, and the record is frozen while it is open |
| `WindowBacked` | `OpenWindowBacked` | an audit whose window is open is backed by a whole stake, unless another verdict slashed it |
| `SlashedOnce` | `OneSlashPerFraud` | the treasury holds one slash per fraud |
| `BondsSafe` | `BondsCovered` | a resolver that is its own treasury can return every open bond |
| `CountsMatch` | `AuditReputationCounts` | a submission count is the number of records until a fraud, and never more |
| `StakesOwed`, `StakesOwedInDisputes` | `RegistrySolvent` | the registry holds exactly the stakes it owes, active agents are fully staked, only a slash strands stake: under any holder of the role, and under the resolver |
| `DeregisteredWait` | | who left by `deregister()` is paid the delay after it was last active (`DeregisteredWaits`) |
| `AgentRegistryImplementsEscrow`, `DisputesImplementEscrow` | `StakeEscrowed` | `AgentRegistry` implements `Escrow`: under any holder of the role, and under the resolver |
| `WithdrawalsStayDue` | | the contract always holds the stake of any agent, and nobody else's call moves or ends the wait of an agent that left: what `StakeReturned` rests on besides fairness |

1. `LinkInv`: the types, and `Linked(i)` for every position: a dispute exists
   only for a record of the log, with that record's auditor and the bond; an open
   one has no verdict and its record is flagged; a fraud's dispute is closed and
   its record flagged. Types need the link, because `UpholdDispute` slashes
   `disputes[i].auditor`, which is an agent only by the link. The verdict's
   finality follows: only an open dispute can clear a flag, and a fraud's is
   closed for ever.
2. `AllBacked`: every record is tainted, or out of its window, or its auditor
   is fully staked and, if inactive, locked until `timestamp + WithdrawalDelay`
   at least. The last part is the strengthening: it is what makes
   `withdrawStake()` wait until the window of every record submitted before
   leaving has closed, by `WindowEndsBeforeDelay`.
3. `Covered` and the count of slashes: `Cardinality` of the open disputes and
   of the frauds changes by one with `RaiseDispute` and the two verdicts, by the
   finite-set lemmas; a slash brings two bonds, so that a reward of three leaves
   the others' bonds untouched.
4. `SolvencyInv`: solvency with `ExitsTimed`, that the unlock time of an agent
   whose exit was `deregister()` is that moment plus the delay. The lemma
   `AgentMoves` says once what every function must show: the balance moves with
   the stake of its one agent.
5. The escrow: the stake of an active agent is deposited, that of an inactive one
   is leaving, and an agent whose exit was a slash is expelled. `register()` is
   `Stay` (what had not been withdrawn is deposited again), `deregister()` asks for
   the whole deposit, `slash()` seizes, or expels an agent that it makes inactive.
   `seized` is what the treasury has received, so that no payment passes for a
   seizure, and `ActiveIsStaked` is why nobody is expelled without one. That
   `withdrawStake()` is `Pay` needs `ExitsTimed` and `NeverLeft`, that only an
   agent which left has an unlock time. The stale unlock time of section 6 is why
   the abstract specification exempts who was expelled: without the exemption the
   refinement is false.

### The other contracts (`ContractProofs`)

| Theorem | Property | Says |
|---|---|---|
| `StakeTypeCorrect`, `StakeBacked` | `ReceiptsBacked` | the Ether held is that of the receipts and of the unlocking amounts |
| `UnstakesWait` | | a payment waits for the delay after the last receipts it pays for were burned (`UnstakeWaits`) |
| `StakeManagerImplementsEscrow` | `ReceiptsEscrowed` | `StakeManager` implements `Escrow`, with receipts as deposits that change hands, nothing seized and nobody expelled |
| `ClocksKept` | `RewardClockKept` | a running reward clock starts again only by paying |
| `ResumeTypeCorrect`, `SpentRecorded` | `SpentMatchesRecorded` | a nullifier is spent exactly when its record is written |
| `VerifiersAnnounced` | `VerifierAnnounced` | a verifier comes into force the delay after its own last proposal |
| `QueueTypeCorrect`, `JobsStayApart` | `JobsPartitioned` | the users' lists partition the jobs of the shared counter |

Types and backing of `StakeManager` are inductive only together: what
`executeUnstake()` pays leaves a natural number because the unlocking amounts
are backed. The delays rest on `RequestsTimed` (the unlock time of a pending
amount is the last `unstake()` plus the delay) and `PendingTimed` (the pending
verifier is the latest proposed, and its clock started with that proposal).
`RequestsTimed` is also what makes `executeUnstake()` a `Pay` of the escrow; an
`unstake()` of 0 is an `Ask` that starts the delay of all that is leaving again.

### The Rust engine (`SiemEngineProofs`)

| Theorem | Property | Says |
|---|---|---|
| `EngineTypeCorrect` | `EngineTypeOK` | types; who owns the flag's lock does the cold start |
| `OneColdStart` | `ColdStartOnce` | one synthetic baseline at most, for any number of threads |
| `ScoredTrained` | `ScoredWhenTrained` | no event is scored against an empty detector |
| `DebugSuppresses` | `DuplicatesSuppressed` | in a debug build the alerts of a key are a window apart |
| `SuppressesUnlessOvertaken` | `DuplicatesSuppressed` | so are they in a release build, if no clock reading is overtaken on its way to the lock |
| `OneProcessorSuppresses` | `DuplicatesSuppressed` | so are they in any build with one thread that processes |
| `OnlyTheCycleHangs` | | a thread that waits for a lock waits for one that can go on, or the two locks are in the cycle |
| `CycleIsForEver` | | once in the cycle, the locks stay in it and the flag is never free again |

The flag stays down while a thread is in the cold start, and its lock is that
thread's (`StartedOnce`); a thread that saw the flag saw the training it stands
for (`TrainedBefore`); the cache holds at least the time of every alert of its
key (`CacheCovers`). `DebugSuppresses` assumes `OverflowChecks`; without it the
run `MCSiemEngineDedup` refutes the property, see section 6. What the run's
counterexample needs is that a reading is overtaken (`NeverWraps` fails):
`SuppressesUnlessOvertaken` takes `[]NeverWraps` as its hypothesis and shows that
nothing else can break the property, and one processing thread meets it by itself.

`OnlyTheCycleHangs` is the part of `EveryCallReturns` that is not about
fairness. `EngineTypeOK` says at which place a thread holds the flag's
lock, `DetectorHeld` the same of the detector's; so a thread that is blocked
(`Blocked`) waits for one that is there and can take its next step
(`HolderGoesOn`), unless that one waits for the other lock (`LockCycle`).

### Alerts and the tab (`SiemServerProofs`)

| Theorem | Property | Says |
|---|---|---|
| `ServerTypeCorrect` | `ServerTypeOK` | types; every message, row and id on its way is of a stored alert |
| `AlertsApart` | `OneAlertPerWindow` | two alerts of a key are a window apart, for any number of interleaved requests |
| `SuppressedIsAlerted` | | a key suppresses only if an alert of it is stored, or on its way in a request that noted it |
| `NoEventLost` | | taking up an event at the threshold leaves an alert of its key stored or on its way |
| `OpenAlertsArrive` | `OpenAlertsShown` | a list that took in all its connection was sent misses no open alert, for any number of sockets |

`WindowInv`: the dedup cache, written before the two awaits, is never behind an
alert of its key, stored or not. `NotedInv` is its converse: an entry of the cache
has its alert, stored or in the hands of a request between its two awaits
(`Alerted`). With it a suppressed event is not lost, which is what
`EventsAreAlerted` rests on besides the promises that settle. `ShownInv`: an open
alert that the list of a connection does not hold is on its way to it, in the `init` at the head of the
queue or in an `alert` behind it; so that no alert falls between the two, an
`init` is only ever the first message.

### Logins (`IdentityLoginProofs`)

| Theorem | Property | Says |
|---|---|---|
| `IdentityTypeCorrect` | `IdentityTypeOK` | types; a baseline lists no device twice, and no more than the limit |
| `NoncesOnce` | `NonceOncePerTtl` | no nonce is consumed twice within its time to live |
| `VelocityLimited` | `VelocityLimit` | no more logins of a wallet than the limit pass unflagged in a window |
| `ColdStartKept` | `ColdStartNotShortened` | a baseline never counts more logins than were assessed |

`NonceInv`: an entry outlives what was consumed with it. `VelocityInv` is the
counting argument behind recording before counting: the assessments of a wallet
that have recorded are at most the attempts recorded since (`AttemptsCounted`),
and of those that read a count within the limit, the last to be verified saw all
the others (`WithinLimit`). It needs that an assessment ends within the service's
timeout, hence `RequestTimeout` in the property. `ColdInv`: the copy of the
baseline that an assessment holds counts no more logins than had been assessed,
so a lost update can only prolong the cold start.

### The agent network (`AgentNetworkProofs`)

| Theorem | Property | Says |
|---|---|---|
| `NetworkTypeCorrect` | | types |
| `FinalReported` | `FinalWasReported` | a job is finalized with a score exactly when as many agents as the threshold asks were heard to report it |
| `NetworkImplementsConsensus` | `ConsensusReached` | the network implements `Consensus`: one vote per agent and job, at most one decision per job, for good, and backed by the votes cast |

The inductive invariant `NetInv` follows a
result on its way. A result in flight or received says what its agent concluded
(`InFlight`, `Received`), and none is both: that is why `votes`, a counter, is
the number of different agents heard (`Tallied`). A job's scores are decided just
when their votes reach the threshold, and the job is resolved then (`Settled`):
that is why no second score can be. The refinement maps the votes cast to the
runs that have published and the decision to the score finalized; a result that
decides is `Decide`, publishing is `Cast`, the rest stutters. The votes heard are
at most those cast, so losses can only delay a decision.

### The other services (`ServiceProofs`)

| Theorem | Property | Says, and from which invariant |
|---|---|---|
| `StreamerTypeCorrect`, `ConnectsOnce` | `OneConnection` | one socket or one timer. `StreamerInv`: a set flag means that the live socket is connecting, so a timer finds it unset |
| `WalletTypeCorrect`, `ConnectingWaits` | `ConnectingHasCall` | the page says that it connects just while one call is under way |
| `TenantTypeCorrect`, `AnswersTrue` | `AnswersHold` | what callers were told is on file. `TenantInv`: memory is never behind the file while the server is up, so that a write loses nothing an earlier one saved; an attempt at a webhook adds at most one receipt |
| `PipelineTypeCorrect`, `ReportsAreKept` | `ReportsKept` | an audit has pinned what it attests to or mints for, a report holds only what its audits wrote, and all of it where one process has them. `PipelineInv`: `AuditSound` (an audit at the last stages has written the pin). `FilesInv`: while one process has all audits of a directory one of them at most is in a write, which holds all that was in the file when it began |
| `StoreTypeCorrect`, `BadgesAreEarned` | `BadgesEarned` | no badge at the limit, and the ZK mark is earned. `AuditSound`: only an upload, which mints nothing, can have its contract replaced after the ZK checks |
| `BotTypeCorrect`, `BotsWatchTheirContract` | `BotWatchesItsContract` | a bot is silent about transactions that do not touch its contract, and has the template of its most severe rule: sorting by severity puts a rule of the highest rank first |
| `AnalyticsTypeCorrect`, `ScenariosAreRaised` | `ScenariosRaised` | the panel's attacks come out as what they are. `Raised`: the first rule that matches a scenario is its own or as severe, and scores and feeds only raise |
| `WebTypeCorrect`, `PagesAreConsistent` | `PagesConsistent` | buttons are off just while the call that frees them is under way, and what is shown is no mixture of answers. `WebInv`: one simulation's call at most, an answer is what the route's list ended with when it was read (`EndsWith`), and one scan at most is the page's own |

`Contracts # {}` is assumed because an audit's record always names a contract,
`Polls # {}` because the SIEM page loads by polling.

### All components together (`ServiceProofs`)

| Theorem | Property | Says |
|---|---|---|
| `ComponentsStandAlone` | | `Components` implements the specification of each component: no step of another one is more than a stutter to it |
| `ComponentsTypeCorrect` | `ComponentsTypeOK` | types of all components |
| `ComponentsKeepPromises` | all safety properties of `MCComponents` | what is proved of each component holds in every interleaving of all |

The one thing the components share is the clock of the chain: `Advance` in one
contract is `Advance` for the other two (`ClockShared`), and none of their other
calls moves it. This is what entitles the run `MCComponents` to take one
component per behaviour.

### Lemmas and how they are counted

`CountingTheorems` says of `Sums` how a total moves when one value changes, that
it is monotone, bounds each value and vanishes with all of them; and of
`Subsequences` that it consists of the elements at the given positions, each
once. Both are counts of finite sets, since a fold or a recursive sum needs an induction over data that the provers cannot instantiate. For the same reason the
models write the updates of records as `EXCEPT` and not with `@@`, and the
devices other than one with `RemoveAt`.

## 5. What is only model-checked

- The three liveness properties (`StakeReturned`, `EventsAreAlerted`,
  `EveryCallReturns`), which rest on fairness and are out of TLAPS 1.4.5's reach.
  What they need besides fairness is proved: `WithdrawalsStayDue`, `NoEventLost`
  with `SuppressedIsAlerted`, and `OnlyTheCycleHangs`.
- The six refuted properties of section 6, which are counterexamples of TLC.

## 6. Behaviours found while modelling

Checked, each by a run that TLC refutes:

- **Stale unlock time** (`AgentRegistry.sol:112`). `register()` leaves the
  unlock time of an earlier `deregister()`. Deregister, register again, be
  slashed below the stake: the rest leaves at once. `StakeEscrowed` shows
  that leaving by `deregister()` does wait.
- **Reordered clock readings** (`siem.rs:720`). `now` is read before the dedup
  lock is taken, so `now - last_seen` wraps in a release build and a duplicate is
  alerted. In a debug build the thread panics and poisons the lock, which is why
  the same property holds there.
- **504 in place of a step-up** (`route.ts:47`). The service's own timeout is an
  answer, so the proxy forwards an error, although its comment promises StepUp.
  The nonce may be consumed by then, and the retry is denied.
- **Analyzing for ever** (`useAuditStore.ts:260`). The server gives `/stream` only
  to clients that send a key, which an EventSource cannot; nothing ends the run of
  the page, whose import goes on unseen.
- **Streamed events are refused** (`siemStreamer.ts:122`): they lack five fields
  that the server's validation asks of every event.
- **One text in place of a number ends the scoring** (`AnomalyDetector.ts:140`):
  the mean is NaN from then on, and no later event is an anomaly.

Present in the models and seen in their traces, not stated as properties because
no document of the repository promises the contrary plainly enough:

- A reputation slashed to 0 becomes 100 at the next `register()`.
- `disputeAudit()` called directly freezes a record that has no entry in the
  resolver: nobody can rule on it, ever. A record cleared by a verdict can be
  frozen again this way, though never disputed with a bond again.
- A verdict of fraud reverts as a whole once the auditor's stake is below
  0.1 ETH, by another verdict or by a withdrawal after the window: nothing obliges
  the owner to rule in time.
- With the deployer as treasury a reward may be paid out of other challengers'
  bonds; `BondsCovered` is conditional for this reason.
- `claimRewards()` multiplies the present balance by the time since the last
  claim, for receipts that were bought or staked a moment ago too.
- A suppressed event renews the dedup window, so a steady stream is alerted once.
- The `onclose` of a socket that was replaced clears `ws` (`useSIEMStore.ts:62`),
  so that `connect()` opens a third one beside the second, which lives on. The
  list is then fed by two, and a late `init` of the older one replaces what the
  newer one brought. A property that any live connection's open alerts are in the
  list is false with three sockets, though it holds with two; `OpenAlertsShown`
  is therefore about the connection the list was last filled from (`source`).
- `updateStatus()` takes an alert from RESOLVED back to ACKNOWLEDGED.
- `train()` locks detector then flag, `process()` flag then detector: they can
  deadlock. `EveryCallReturns` shows that it is the only way to hang.
- Two assessments of one wallet read one baseline and the later write loses the
  earlier login; `ColdStartNotShortened` shows that the error is on the safe side.
- Attempts per ip are recorded and never read.
- A vote is a result: the consensus does not look at who sent it. A job whose
  agents disagree or fail never ends: there is no timeout and no second round.
- A report read as the latest has its score under another name
  (`useAuditStore.ts:198`), so that an import always shows 1.5, EMERALD and no
  findings, whatever it found (`LatestScore`); a body of an error counts too.
- The page says of its badges that the ZK checks passed
  (`LiveAuditSimulator.tsx:281`); nobody made them. The pipeline's own are earned.
- Two processes whose audits begin in one millisecond share a report
  (`helpers.ts:35-45`, `pipeline.ts:193-205`: read, truncate and write, no lock).
  They can lose each other's parts, among them the CID, so that a report ends
  attested or minted and not pinned, or read a truncated one as none; the run
  reaches both. `ReportsKept` is about the reports of one process, and about what
  each audit did.
- A report page whose request fails says Loading for good
  (`ReportClient.tsx:68`), with no call under way; a late answer overwrites a
  newer list, and a scan that was left behind navigates away all the same.
  `PagesConsistent` is about buttons, and about lists and the counts beside them.
- The wallet comes back after a disconnect if an answer was still due.
- Grades differ: `docs/ARCHITECTURE.md:145-147` (AMBER from 4.0 to 8.9),
  `AuditBadgeNFT.sol:84` and `useAuditStore.ts:201` have three rules.
- A triage that fails scores 0.0 (`ai.ts:155`), which is minted as EMERALD.
- An outage of the Forta API reads as SAFE (`forta/client.ts:74`).
- `monitor --watch` ingests the whole file again at each change of it.
- `api/audit` of the frontend fails for every contract (`route.ts:42` reads
  `reportPath` of an answer that has none).
- The seed event `siem-init-1` is High, though its rule is Critical.
- Of two uploads with one name, the second is what a first audit may read
  (`server.ts:276`).
- `BadgeViewer`, `PipelineTracker`, `CallGraph`, `FindingsList` and
  `TechStackExplorer` are imported by no page.

## 7. Not modelled, and why

- `monitor.rs` is a port of the tenant registry, and the Rust classifier, scores
  and status updates of those in TypeScript: modelled once. `cvss.rs`, `dedup.rs`,
  `report.rs` and `project_type.rs` are sequential functions that unit tests cover.
- The canister keeps its audits in thread-local memory, without the hooks that
  would save it: an upgrade empties it. With three updates that do not interact
  there is no protocol to check beyond this loss.
- Floating-point statistics: out of TLC's reach; section 2 says what stands in.
- Clients of Ceramic, Lit and the chain, the analysers' text matching, prompts,
  the CLI's questions, drawing, animation and sound: external calls and text. The
  monitor command of the CLI is in `Analytics` as far as it feeds the engine.
- `api/checkout` checks the signature of a webhook and keeps nothing.
- `PaymentReceiver`, `VulnerableVault`, mocks: no protocol, or targets of audits.
- Generated contract types.

## 8. Plan

Done: the chain contracts and their composition first, since stake and verdicts
are what the platform rests on; then the concurrent services by the size of
their hazard: the Rust engine's locks, logins, agent consensus, alerting with its
server and the dashboard's store; then the pipeline with the page that starts it,
the tenants, analytics, Forta, the streamer, the wallet and the frontend; and the
refinement of `Consensus`. Then the theorems, last those of the `Escrow` that two
contracts implement, of all components together, and of what the liveness
properties rest on.

Next:

1. A property of the audit page that tells its own report from another audit's
   (the store's (`parse`, `complete`) of any audit), once a document says which
   it should show.
2. A property of uploads that share a file name (`server.ts:276`), once the names
   the server gives are part of a document.
3. The three liveness properties themselves, with a prover that handles fairness:
   their safety parts are the theorems of section 4.
