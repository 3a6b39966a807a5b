---------------------------- MODULE StakeManager ----------------------------
(***************************************************************************)
(* contracts/StakeManager.sol: Ether staked against sAUDITX receipts, the  *)
(* unstake timelock, and rewards in the $AuditX token.  The AgentRegistry  *)
(* is seen through isAgentActive() only, whose answer may change between   *)
(* any two transactions.                                                   *)
(***************************************************************************)
EXTENDS Integers, BlockTime, Sums

CONSTANTS
  Stakers,          \* addresses that stake, trade receipts and claim
  UnstakeDelay,   \* UNSTAKE_DELAY
  Amounts,        \* the msg.values and amounts sent; may hold 0
  Rate, Day,      \* REWARD_RATE_PER_AUDIT per (1 days * 1 ether)
  RewardPool,     \* $AuditX tokens the contract was given
  MaxSupply       \* bound on the Ether staked or unlocking

ASSUME StakeConstants ==
  /\ IsFiniteSet(Stakers)
  /\ UnstakeDelay \in Nat
  /\ Amounts \subseteq Nat
  /\ Rate \in Nat /\ Day \in Nat \ {0}
  /\ RewardPool \in Nat /\ MaxSupply \in Nat

VARIABLES
  balance,           \* ERC-20: sAUDITX held
  requests,          \* unstakeRequests: [amount, unlockTime]
  lastRewardClaim,   \* address -> timestamp, 0 before the first stake()
  etherHeld,         \* the Ether the contract holds
  tokensHeld,        \* the $AuditX tokens the contract holds
  activeAgents,      \* whom isAgentActive() accepts
  lastUnstake        \* history: when each user last called unstake()

tokenVars == <<lastRewardClaim, tokensHeld>>
stakeVars == <<balance, requests, etherHeld, tokenVars, activeAgents, lastUnstake, now>>

StakeInit ==
  /\ ChainInit
  /\ balance = [u \in Stakers |-> 0]
  /\ requests = [u \in Stakers |-> [amount |-> 0, unlockTime |-> 0]]
  /\ lastRewardClaim = [u \in Stakers |-> 0]
  /\ etherHeld = 0
  /\ tokensHeld = RewardPool
  /\ activeAgents = {}
  /\ lastUnstake = [u \in Stakers |-> 0]

\* The reward clock after stake(): it is started once and never again.  The
\* mutation starts it again with every stake.
ClockRestarted(u) == now
ClockAfterStake(u) == IF lastRewardClaim[u] = 0 THEN now ELSE lastRewardClaim[u]

\* stake(), sent with v.
Stake(u, v) ==
  /\ v > 0
  /\ etherHeld + v <= MaxSupply
  /\ balance' = [balance EXCEPT ![u] = @ + v]
  /\ etherHeld' = etherHeld + v
  /\ lastRewardClaim' = [lastRewardClaim EXCEPT ![u] = ClockAfterStake(u)]
  /\ UNCHANGED <<requests, tokensHeld, activeAgents, lastUnstake, now>>

\* The request after unstake(): it grows and its timelock starts again.  In
\* the mutations a pending timelock goes on, and a pending amount is lost.
TimelockKept(u, amount) ==
  [amount     |-> requests[u].amount + amount,
   unlockTime |-> IF requests[u].amount > 0 THEN requests[u].unlockTime
                                            ELSE TimelockEnd(UnstakeDelay)]
AmountLost(u, amount) == [amount |-> amount, unlockTime |-> TimelockEnd(UnstakeDelay)]
RequestAfter(u, amount) ==
  [amount     |-> requests[u].amount + amount,
   unlockTime |-> TimelockEnd(UnstakeDelay)]

\* unstake(): the receipts are burned now; an amount of 0 is accepted.
Unstake(u, amount) ==
  /\ balance[u] >= amount
  /\ balance' = [balance EXCEPT ![u] = @ - amount]
  /\ requests' = [requests EXCEPT ![u] = RequestAfter(u, amount)]
  /\ lastUnstake' = [lastUnstake EXCEPT ![u] = now]
  /\ UNCHANGED <<etherHeld, tokenVars, activeAgents, now>>

\* The request executeUnstake() leaves behind.
RequestDone(u) == [amount |-> 0, unlockTime |-> 0]

\* executeUnstake()
ExecuteUnstake(u) ==
  /\ requests[u].amount > 0
  /\ TimelockOver(requests[u].unlockTime)
  /\ requests' = [requests EXCEPT ![u] = RequestDone(u)]
  /\ etherHeld' = etherHeld - requests[u].amount
  /\ UNCHANGED <<balance, tokenVars, activeAgents, lastUnstake, now>>

RewardOf(u) == (balance[u] * (now - lastRewardClaim[u]) * Rate) \div Day

\* claimRewards(): reverts unless the tokens it promises are there.
ClaimRewards(u) ==
  /\ u \in activeAgents
  /\ now > lastRewardClaim[u]
  /\ RewardOf(u) > 0
  /\ tokensHeld >= RewardOf(u)
  /\ lastRewardClaim' = [lastRewardClaim EXCEPT ![u] = now]
  /\ tokensHeld' = tokensHeld - RewardOf(u)
  /\ UNCHANGED <<balance, requests, etherHeld, activeAgents, lastUnstake, now>>

\* transfer(), inherited from ERC20: receipts move, reward clocks do not.
Transfer(u, w, amount) ==
  /\ balance[u] >= amount
  /\ balance' = [[balance EXCEPT ![u] = @ - amount] EXCEPT ![w] = @ + amount]
  /\ UNCHANGED <<requests, etherHeld, tokenVars, activeAgents, lastUnstake, now>>

\* The AgentRegistry registers, deregisters or slashes u.
RegistryChange(u) ==
  /\ activeAgents' = IF u \in activeAgents THEN activeAgents \ {u}
                                           ELSE activeAgents \cup {u}
  /\ UNCHANGED <<balance, requests, etherHeld, tokenVars, lastUnstake, now>>

StakeTick ==
  /\ Advance
  /\ UNCHANGED <<balance, requests, etherHeld, tokenVars, activeAgents, lastUnstake>>

StakeNext ==
  \/ \E u \in Stakers, v \in Amounts : Stake(u, v)
  \/ \E u \in Stakers, v \in Amounts : Unstake(u, v)
  \/ \E u \in Stakers : ExecuteUnstake(u)
  \/ \E u \in Stakers : ClaimRewards(u)
  \/ \E u \in Stakers, w \in Stakers, v \in Amounts : Transfer(u, w, v)
  \/ \E u \in Stakers : RegistryChange(u)
  \/ StakeTick

StakeSpec == StakeInit /\ [][StakeNext]_stakeVars

----------------------------------------------------------------------------

StakeTypeOK ==
  /\ now \in Timestamps
  /\ balance \in [Stakers -> Nat]
  /\ requests \in [Stakers -> [amount : Nat, unlockTime : Nat]]
  /\ lastRewardClaim \in [Stakers -> 0 .. now]
  /\ etherHeld \in Nat
  /\ tokensHeld \in 0 .. RewardPool
  /\ activeAgents \subseteq Stakers
  /\ lastUnstake \in [Stakers -> 0 .. now]

\* The Ether held backs every receipt in circulation and every amount that is
\* unlocking, one to one: burning at unstake() and paying at executeUnstake()
\* neither double-count a unit of stake nor lose one, however receipts were
\* traded and requests were merged in between.
ReceiptsBacked ==
  etherHeld = Total(balance) + Total([u \in Stakers |-> requests[u].amount])

\* Nothing is paid out before the delay has passed since the last receipts
\* of that payment were burned, also when several unstakes were merged.
UnstakeWaits ==
  [][\A u \in Stakers :
       (requests[u].amount > 0 /\ requests'[u].amount = 0)
         => now >= lastUnstake[u] + UnstakeDelay]_stakeVars

\* StakeManager is an escrow from which nobody is expelled: receipts are deposits
\* that change hands, nothing is seized, and Ether leaves only as the whole of what
\* an account has unstaked, once the delay has passed since it last did.
StakeEscrow ==
  INSTANCE Escrow WITH
    Accounts <- Stakers, Delay <- UnstakeDelay, Payments <- Amounts, clock <- now,
    held <- etherHeld, deposited <- balance,
    leaving <- [u \in Stakers |-> requests[u].amount],
    asked <- lastUnstake, seized <- 0, expelled <- {}
ReceiptsEscrowed == StakeEscrow!EscrowSpec

\* A reward clock that runs starts again only by paying: neither another
\* stake(), nor an unstake(), nor receipts that come in forfeit the time a
\* staker has waited, and a payment leaves every other clock alone.
RewardClockKept ==
  [][\A u \in Stakers :
       (lastRewardClaim[u] # 0 /\ lastRewardClaim'[u] # lastRewardClaim[u])
         => /\ tokensHeld - tokensHeld' = RewardOf(u)
            /\ tokensHeld' < tokensHeld
            /\ \A w \in Stakers \ {u} : lastRewardClaim'[w] = lastRewardClaim[w]]_stakeVars
=============================================================================
