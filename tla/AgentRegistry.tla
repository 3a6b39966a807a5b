--------------------------- MODULE AgentRegistry ---------------------------
(***************************************************************************)
(* contracts/AgentRegistry.sol: the stake and the reputation of the audit  *)
(* agents.  A reverting transaction changes nothing, so a failed `require' *)
(* is an action that is not enabled.  Amounts are multiples of 0.05 ETH.   *)
(* `registeredAt' is written and never read, and is left out.              *)
(***************************************************************************)
EXTENDS Integers, BlockTime, Sums

CONSTANTS
  Agents,             \* addresses that may register
  StakeAmount,        \* STAKE_AMOUNT
  WithdrawalDelay,    \* WITHDRAWAL_DELAY
  InitialReputation,  \* reputation of a first registration (100)
  Penalty,            \* reputation lost by a slash (10)
  Deposits,           \* the msg.values sent with register()
  SlashAmounts,       \* amounts the role holder slashes
  Bonuses,            \* amounts the role holder adds to a reputation
  MaxStake,           \* bound on one agent's stake
  MaxReputation,      \* bound on one agent's reputation
  MaxSlashed          \* bound on what slash() sends to the treasury

ASSUME AgentConstants ==
  /\ IsFiniteSet(Agents)
  /\ StakeAmount \in Nat \ {0}
  /\ WithdrawalDelay \in Nat \ {0}
  /\ InitialReputation \in Nat
  /\ Penalty \in Nat
  /\ Deposits \subseteq Nat
  /\ SlashAmounts \subseteq Nat
  /\ Bonuses \subseteq Nat
  /\ MaxStake \in Nat
  /\ MaxReputation \in Nat
  /\ MaxSlashed \in Nat

VARIABLES
  agents,                \* address -> [stake, reputation, active]
  withdrawalUnlockTime,  \* address -> timestamp, 0 when none is pending
  registryBalance,       \* the Ether this contract holds
  treasuryReceived,      \* the Ether slash() has sent to the treasury
  roleGranted,           \* does the DisputeResolver hold its role yet?
  exit                   \* history: when and how an agent last went inactive

agentVars == <<agents, withdrawalUnlockTime, registryBalance,
               treasuryReceived, roleGranted, exit>>

AgentInit ==
  /\ agents = [a \in Agents |-> [stake |-> 0, reputation |-> 0, active |-> FALSE]]
  /\ withdrawalUnlockTime = [a \in Agents |-> 0]
  /\ registryBalance = 0
  /\ treasuryReceived = 0
  /\ roleGranted = FALSE
  /\ exit = [a \in Agents |-> [at |-> 0, by |-> "never"]]

\* isAgentActive()
IsAgentActive(a) == agents[a].active /\ agents[a].stake >= StakeAmount

\* The reputation register() writes: a zero counts as a first registration.
ReputationAtRegister(rep) == IF rep = 0 THEN InitialReputation ELSE rep

\* register(), sent with v.  A pending unlock time is left as it is.
Register(a, v) ==
  /\ v >= StakeAmount
  /\ ~agents[a].active
  /\ agents[a].stake + v <= MaxStake
  /\ agents' = [agents EXCEPT ![a] =
        [stake      |-> @.stake + v,
         reputation |-> ReputationAtRegister(@.reputation),
         active     |-> TRUE]]
  /\ registryBalance' = registryBalance + v
  /\ UNCHANGED <<withdrawalUnlockTime, treasuryReceived, roleGranted, exit>>

\* The mutation of Slashed: the agent stays active.
SlashedButActive(agent, amount) == [agent EXCEPT !.stake = @ - amount]

\* The agent after slash(): it stays active while it is fully staked.
Slashed(agent, amount) ==
  [stake      |-> agent.stake - amount,
   reputation |-> IF agent.reputation >= Penalty
                    THEN agent.reputation - Penalty ELSE 0,
   active     |-> agent.active /\ agent.stake - amount >= StakeAmount]

\* The amount slash() may take; without the check in the mutation.
AnyAmount(a, amount) == TRUE
Slashable(a, amount) == agents[a].stake >= amount

\* slash(), called by the holder of DISPUTE_RESOLVER_ROLE.
Slash(a, amount) ==
  /\ roleGranted
  /\ Slashable(a, amount)
  /\ treasuryReceived + amount <= MaxSlashed
  /\ agents' = [agents EXCEPT ![a] = Slashed(@, amount)]
  /\ registryBalance' = registryBalance - amount
  /\ treasuryReceived' = treasuryReceived + amount
  /\ exit' = IF agents[a].active /\ ~agents'[a].active
               THEN [exit EXCEPT ![a] = [at |-> now, by |-> "slash"]]
               ELSE exit
  /\ UNCHANGED <<withdrawalUnlockTime, roleGranted>>

\* addReputation(), called by the holder of DISPUTE_RESOLVER_ROLE.
AddReputation(a, amount) ==
  /\ roleGranted
  /\ agents[a].reputation + amount <= MaxReputation
  /\ agents' = [agents EXCEPT ![a].reputation = @ + amount]
  /\ UNCHANGED <<withdrawalUnlockTime, registryBalance, treasuryReceived,
                 roleGranted, exit>>

\* The unlock time deregister() sets.
UnlockTime == TimelockEnd(WithdrawalDelay)

\* deregister()
Deregister(a) ==
  /\ agents[a].active
  /\ agents' = [agents EXCEPT ![a].active = FALSE]
  /\ withdrawalUnlockTime' =
        [withdrawalUnlockTime EXCEPT ![a] = UnlockTime]
  /\ exit' = [exit EXCEPT ![a] = [at |-> now, by |-> "deregister"]]
  /\ UNCHANGED <<registryBalance, treasuryReceived, roleGranted>>

\* Is the timelock of agent a over?  The mutations have no timelock, and the
\* comparison the wrong way round.
NoTimelock(a) == TRUE
BeforeUnlock(a) == now < withdrawalUnlockTime[a]
Unlocked(a) == TimelockOver(withdrawalUnlockTime[a])

\* withdrawStake()
WithdrawStake(a) ==
  /\ ~agents[a].active
  /\ withdrawalUnlockTime[a] > 0
  /\ Unlocked(a)
  /\ agents[a].stake > 0
  /\ agents' = [agents EXCEPT ![a].stake = 0]
  /\ withdrawalUnlockTime' = [withdrawalUnlockTime EXCEPT ![a] = 0]
  /\ registryBalance' = registryBalance - agents[a].stake
  /\ UNCHANGED <<treasuryReceived, roleGranted, exit>>

\* scripts/deploy.ts grants the role after the contracts are deployed.
GrantResolverRole ==
  /\ ~roleGranted
  /\ roleGranted' = TRUE
  /\ UNCHANGED <<agents, withdrawalUnlockTime, registryBalance,
                 treasuryReceived, exit>>

\* What the agents themselves call.
AgentCalls ==
  \E a \in Agents :
     \/ \E v \in Deposits : Register(a, v)
     \/ Deregister(a)
     \/ WithdrawStake(a)

\* The contract alone, its role holder free to call what it may.
AgentNext ==
  \/ AgentCalls /\ UNCHANGED now
  \/ GrantResolverRole /\ UNCHANGED now
  \/ \E a \in Agents, m \in SlashAmounts : Slash(a, m) /\ UNCHANGED now
  \/ \E a \in Agents, m \in Bonuses : AddReputation(a, m) /\ UNCHANGED now
  \/ Advance /\ UNCHANGED agentVars

\* An agent that wants its stake keeps calling withdrawStake(), and blocks
\* keep coming; nothing else is promised.
AgentFairness ==
  /\ WF_<<agentVars, now>>(Advance /\ UNCHANGED agentVars)
  /\ \A a \in Agents :
        WF_<<agentVars, now>>(WithdrawStake(a) /\ UNCHANGED now)

RegistryInit == ChainInit /\ AgentInit

AgentSpec ==
  RegistryInit /\ [][AgentNext]_<<agentVars, now>> /\ AgentFairness

----------------------------------------------------------------------------

ExitKinds == {"never", "deregister", "slash"}

\* The numbers and records of the registry ...
StakesTyped ==
  /\ agents \in [Agents -> [stake : Nat, reputation : Nat, active : BOOLEAN]]
  /\ withdrawalUnlockTime \in [Agents -> Nat]
  /\ registryBalance \in Int
  /\ treasuryReceived \in Nat
  /\ exit \in [Agents -> [at : Nat, by : ExitKinds]]

\* ... and its whole state.
AgentTypeOK == StakesTyped /\ roleGranted \in BOOLEAN

\* An active agent is fully staked whatever was slashed from it.
ActiveIsStaked ==
  \A a \in Agents : agents[a].active => agents[a].stake >= StakeAmount

\* Stake that no call of its owner can release, the agent being inactive with
\* no unlock time, is always the rest of a slash.
StrandedOnlyBySlash ==
  \A a \in Agents :
    (~agents[a].active /\ agents[a].stake > 0 /\ withdrawalUnlockTime[a] = 0)
      => exit[a].by = "slash"

\* The Ether the contract holds is exactly the stake it owes its agents,
\* through every deposit, slash and withdrawal: no call pays out what belongs
\* to another agent, and none strands Ether no agent is credited with.  An agent
\* that may submit audits always has a whole STAKE_AMOUNT to lose, and neither
\* deregister() nor register() leaves stake its owner cannot get at.
RegistrySolvent ==
  /\ registryBalance = Total([a \in Agents |-> agents[a].stake])
  /\ ActiveIsStaked
  /\ StrandedOnlyBySlash

\* Stake falls outside slash(): the step pays agent a its stake.
PaysOut(a) ==
  /\ agents'[a].stake < agents[a].stake
  /\ treasuryReceived' = treasuryReceived

\* An agent that left by deregister() is paid no earlier than the delay after
\* the last moment it was active, also when it registered again in between.
DeregisteredWaits ==
  [][\A a \in Agents :
       PaysOut(a) /\ exit[a].by = "deregister"
         => now >= exit[a].at + WithdrawalDelay]_<<agentVars, now>>

\* AgentRegistry is an escrow too, where the stake of an active agent is deposited
\* and that of an inactive one is leaving, with the holder of the role as the
\* authority: the stake is paid in full, and not before the delay has passed since
\* the agent deregistered, unless a slash made it inactive.
AgentEscrow ==
  INSTANCE Escrow WITH
    Accounts <- Agents, Delay <- WithdrawalDelay, Payments <- Deposits, clock <- now,
    held <- registryBalance,
    deposited <- [a \in Agents |-> IF agents[a].active THEN agents[a].stake ELSE 0],
    leaving <- [a \in Agents |-> IF agents[a].active THEN 0 ELSE agents[a].stake],
    asked <- [a \in Agents |-> exit[a].at],
    seized <- treasuryReceived,
    expelled <- {a \in Agents : exit[a].by = "slash"}
StakeEscrowed == AgentEscrow!EscrowSpec

\* An agent that deregisters, and whose delay ends before the bounded clock,
\* eventually has its stake back unless it becomes active again.
StakeReturned ==
  \A a \in Agents :
    (~agents[a].active /\ withdrawalUnlockTime[a] \in Timestamps)
      ~> (agents[a].stake = 0 \/ agents[a].active)

\* AgentRegistry.sol:97 says deregistration is "subject to a 7-day withdrawal
\* delay" and line 108 that stake is withdrawn "after the delay has passed":
\* whatever made the agent inactive, its stake stays for the whole delay.
WithdrawalAlwaysWaits ==
  [][\A a \in Agents :
       PaysOut(a) => now >= exit[a].at + WithdrawalDelay]_<<agentVars, now>>
=============================================================================
