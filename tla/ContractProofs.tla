--------------------------- MODULE ContractProofs ---------------------------
(***************************************************************************)
(* Theorems about the contracts that stand alone: the Ether and the clocks *)
(* of StakeManager and that it is an escrow, the nullifiers and the        *)
(* timelock of ResumeRegistry, and the lists of AuditJobQueue, for every   *)
(* set of addresses, every delay and every amount.                         *)
(***************************************************************************)
EXTENDS StakeManager, ResumeRegistry, AuditJobQueue, CountingTheorems

\* One-line abbreviations of the actions, expanded everywhere.
USE DEF TimelockEnd, TimelockOver, ClockAfterStake, RequestAfter, RequestDone,
        Fresh, Marked, UnlockTime, Installed, NewJob, IdAfterSubmit, Reportable

----------------------------------------------------------------------------
(* StakeManager *)

\* The amounts that are unlocking.
Unlocking == [u \in Stakers |-> requests[u].amount]

\* Types and backing are inductive together: what executeUnstake() pays is
\* there only because every unlocking amount is backed.
StakeInv == StakeTypeOK /\ ReceiptsBacked

\* The clock only goes forward, within its bound.
LEMMA AdvanceClock ==
  ASSUME now \in Timestamps, Advance
  PROVE  now' \in Timestamps /\ 0 .. now \subseteq 0 .. now'
BY MaxTimeAssumption DEF Advance, Timestamps

\* Initially nothing is staked.
LEMMA InitStake == StakeInit => StakeInv
<1> SUFFICES ASSUME StakeInit PROVE StakeInv
  OBVIOUS
<1>1. StakeTypeOK
  BY MaxTimeAssumption, StakeConstants DEF StakeInit, ChainInit, StakeTypeOK, Timestamps
<1>2. /\ balance \in [Stakers -> Nat] /\ \A u \in Stakers : balance[u] = 0
      /\ Unlocking \in [Stakers -> Nat] /\ \A u \in Stakers : Unlocking[u] = 0
  BY DEF StakeInit, Unlocking
<1>3. Total(balance) = 0 /\ Total(Unlocking) = 0
  BY <1>2, TotalZero
<1> QED
  BY <1>1, <1>3 DEF StakeInit, StakeInv, ReceiptsBacked, Unlocking

\* What a state of the contract says of the sums.
LEMMA StakeSums ==
  ASSUME StakeInv
  PROVE  /\ IsFiniteSet(Stakers)
         /\ balance \in [Stakers -> Nat] /\ Unlocking \in [Stakers -> Nat]
         /\ Total(balance) \in Nat /\ Total(Unlocking) \in Nat
         /\ etherHeld = Total(balance) + Total(Unlocking)
         /\ \A u \in Stakers : requests[u].amount <= etherHeld
<1>1. /\ IsFiniteSet(Stakers)
      /\ balance \in [Stakers -> Nat] /\ Unlocking \in [Stakers -> Nat]
  BY StakeConstants DEF StakeInv, StakeTypeOK, Unlocking
<1>2. etherHeld = Total(balance) + Total(Unlocking)
  BY DEF StakeInv, ReceiptsBacked, Unlocking
<1>3. Total(balance) \in Nat /\ Total(Unlocking) \in Nat
  BY <1>1, UnitsFinite, FS_CardinalityType DEF Total
<1>4. ASSUME NEW u \in Stakers PROVE requests[u].amount <= etherHeld
  <2>1. Unlocking[u] <= Total(Unlocking) /\ Unlocking[u] \in Nat
    BY <1>1, TermInTotal
  <2> QED
    BY <1>2, <1>3, <2>1 DEF Unlocking
<1> QED
  BY <1>1, <1>2, <1>3, <1>4

\* stake(): what is sent is credited.
LEMMA StakeKeeps ==
  ASSUME StakeInv, NEW u \in Stakers, NEW v \in Amounts, Stake(u, v)
  PROVE  StakeInv'
<1>1. v \in Nat /\ StakeTypeOK
  BY StakeConstants DEF StakeInv
<1>2. StakeTypeOK'
  BY <1>1 DEF StakeTypeOK, Stake, Timestamps
<1>3. Total(balance') = Total(balance) + v
  <2>1. /\ balance' \in [Stakers -> Nat] /\ balance'[u] = balance[u] + v
        /\ \A w \in Stakers \ {u} : balance'[w] = balance[w]
    BY <1>1, <1>2 DEF Stake, StakeTypeOK
  <2>2. Total(balance') = Total(balance) + balance'[u] - balance[u]
    BY <2>1, StakeSums, TotalChange
  <2> QED
    BY <1>1, <2>1, <2>2, StakeSums
<1>4. Unlocking' = Unlocking /\ etherHeld' = etherHeld + v
  BY DEF Stake, Unlocking
<1>5. etherHeld' = Total(balance') + Total(Unlocking')
  BY <1>1, <1>3, <1>4, StakeSums
<1> QED
  BY <1>2, <1>5 DEF StakeInv, ReceiptsBacked, Unlocking

\* unstake(): as much is unlocking as was burned.
LEMMA UnstakeKeeps ==
  ASSUME StakeInv, NEW u \in Stakers, NEW v \in Amounts, Unstake(u, v)
  PROVE  StakeInv'
<1>1. v \in Nat /\ StakeTypeOK /\ v <= balance[u] /\ UnstakeDelay \in Nat
  BY StakeConstants DEF StakeInv, Unstake
<1>a. now \in Nat /\ now \in 0 .. now
  BY <1>1 DEF StakeTypeOK, Timestamps
<1>b. requests' \in [Stakers -> [amount : Nat, unlockTime : Nat]]
  BY <1>1, <1>a DEF StakeTypeOK, Unstake
<1>c. balance' \in [Stakers -> Nat]
  BY <1>1 DEF StakeTypeOK, Unstake
<1>2. StakeTypeOK'
  BY <1>1, <1>a, <1>b, <1>c DEF StakeTypeOK, Unstake, tokenVars, Timestamps
<1>3. Total(balance') = Total(balance) - v
  <2>1. /\ balance'[u] = balance[u] - v /\ balance[u] \in Nat
        /\ \A w \in Stakers \ {u} : balance'[w] = balance[w]
    BY <1>1 DEF Unstake, StakeTypeOK
  <2>2. Total(balance') = Total(balance) + balance'[u] - balance[u]
    BY <1>c, <2>1, StakeSums, TotalChange
  <2> QED
    BY <1>1, <2>1, <2>2, StakeSums
<1>4. Total(Unlocking') = Total(Unlocking) + v
  <2>1. /\ Unlocking' \in [Stakers -> Nat] /\ Unlocking[u] \in Nat
        /\ Unlocking'[u] = Unlocking[u] + v
        /\ \A w \in Stakers \ {u} : Unlocking'[w] = Unlocking[w]
    BY <1>1, <1>b DEF Unstake, StakeTypeOK, Unlocking
  <2>2. Total(Unlocking') = Total(Unlocking) + Unlocking'[u] - Unlocking[u]
    BY <2>1, StakeSums, TotalChange
  <2> QED
    BY <1>1, <2>1, <2>2, StakeSums
<1>5. etherHeld' = Total(balance') + Total(Unlocking')
  BY <1>1, <1>3, <1>4, StakeSums DEF Unstake
<1> QED
  BY <1>2, <1>5 DEF StakeInv, ReceiptsBacked, Unlocking

\* executeUnstake(): what is paid was unlocking.
LEMMA ExecuteKeeps ==
  ASSUME StakeInv, NEW u \in Stakers, ExecuteUnstake(u)
  PROVE  StakeInv'
<1>1. StakeTypeOK /\ requests[u].amount \in Nat /\ requests[u].amount <= etherHeld
  BY StakeSums DEF StakeInv, StakeTypeOK
<1>2. StakeTypeOK'
  BY <1>1 DEF StakeTypeOK, ExecuteUnstake, tokenVars, Timestamps
<1>3. Total(Unlocking') = Total(Unlocking) - requests[u].amount
  <2>1. /\ Unlocking' \in [Stakers -> Nat]
        /\ Unlocking[u] = requests[u].amount /\ Unlocking'[u] = 0
        /\ \A w \in Stakers \ {u} : Unlocking'[w] = Unlocking[w]
    BY <1>1, <1>2 DEF ExecuteUnstake, StakeTypeOK, Unlocking
  <2>2. Total(Unlocking') = Total(Unlocking) + Unlocking'[u] - Unlocking[u]
    BY <2>1, StakeSums, TotalChange
  <2> QED
    BY <1>1, <2>1, <2>2, StakeSums
<1>4. etherHeld' = Total(balance') + Total(Unlocking')
  BY <1>1, <1>3, StakeSums DEF ExecuteUnstake
<1> QED
  BY <1>2, <1>4 DEF StakeInv, ReceiptsBacked, Unlocking

\* A reward that is promised is a number.
LEMMA RewardType ==
  ASSUME StakeTypeOK, NEW u \in Stakers
  PROVE  RewardOf(u) \in Int
<1>1. /\ balance[u] \in Int /\ now - lastRewardClaim[u] \in Int
      /\ Rate \in Int /\ Day \in Nat \ {0}
  BY StakeConstants DEF StakeTypeOK, Timestamps
<1>2. \A a, b, c \in Int : (a * b) * c \in Int
  OBVIOUS
<1>3. (balance[u] * (now - lastRewardClaim[u]) * Rate) \in Int
  BY <1>1, <1>2
<1> HIDE <1>2
<1>4. \A n \in Int, d \in Nat \ {0} : n \div d \in Int
  OBVIOUS
<1> QED
  BY <1>1, <1>3, <1>4 DEF RewardOf

\* claimRewards() moves tokens, and no Ether.
LEMMA ClaimKeeps ==
  ASSUME StakeInv, NEW u \in Stakers, ClaimRewards(u)
  PROVE  StakeInv'
<1>1. StakeTypeOK /\ RewardOf(u) \in Int
  BY RewardType DEF StakeInv
<1>2. tokensHeld' \in 0 .. RewardPool
  BY <1>1, StakeConstants DEF StakeTypeOK, ClaimRewards
<1>3. StakeTypeOK'
  BY <1>1, <1>2 DEF StakeTypeOK, ClaimRewards, Timestamps
<1> QED
  BY <1>3 DEF StakeInv, ReceiptsBacked, ClaimRewards

\* transfer() moves receipts from one staker to another, or to the same.
LEMMA TransferKeeps ==
  ASSUME StakeInv, NEW u \in Stakers, NEW w \in Stakers, NEW v \in Amounts,
         Transfer(u, w, v)
  PROVE  StakeInv'
<1> DEFINE sent == [balance EXCEPT ![u] = @ - v]
<1>1. /\ v \in Nat /\ StakeTypeOK /\ v <= balance[u]
      /\ balance' = [sent EXCEPT ![w] = @ + v]
  BY StakeConstants DEF StakeInv, Transfer
<1>2. /\ sent \in [Stakers -> Nat] /\ sent[u] = balance[u] - v /\ balance[u] \in Nat
      /\ \A x \in Stakers \ {u} : sent[x] = balance[x]
  BY <1>1 DEF StakeTypeOK
<1> HIDE DEF sent
<1>3. /\ balance' \in [Stakers -> Nat] /\ balance'[w] = sent[w] + v /\ sent[w] \in Nat
      /\ \A x \in Stakers \ {w} : balance'[x] = sent[x]
  BY <1>1, <1>2
<1>4. Total(sent) = Total(balance) + sent[u] - balance[u] /\ Total(sent) \in Nat
  BY <1>2, StakeSums, TotalChange
<1>5. Total(balance') = Total(sent) + balance'[w] - sent[w]
  BY <1>2, <1>3, StakeSums, TotalChange
<1>6. Total(balance') = Total(balance)
  BY <1>1, <1>2, <1>3, <1>4, <1>5, StakeSums
<1>7. StakeTypeOK'
  BY <1>1, <1>3 DEF StakeTypeOK, Transfer, tokenVars, Timestamps
<1> QED
  BY <1>6, <1>7 DEF StakeInv, ReceiptsBacked, Transfer

\* Time, the registry's answers and stuttering leave the sums alone.
LEMMA QuietStake ==
  ASSUME StakeInv,
         \/ \E u \in Stakers : RegistryChange(u)
         \/ StakeTick
         \/ UNCHANGED stakeVars
  PROVE  StakeInv'
<1>1. StakeTypeOK
  BY DEF StakeInv
<1>2. UNCHANGED <<balance, requests, etherHeld, tokenVars, lastUnstake>>
  BY DEF RegistryChange, StakeTick, stakeVars
<1>3. activeAgents' \subseteq Stakers
  BY <1>1 DEF RegistryChange, StakeTick, stakeVars, StakeTypeOK
<1>4. now' \in Timestamps /\ 0 .. now \subseteq 0 .. now'
  BY <1>1, AdvanceClock DEF RegistryChange, StakeTick, stakeVars, StakeTypeOK
<1>5. StakeTypeOK'
  BY <1>1, <1>2, <1>3, <1>4 DEF StakeTypeOK, tokenVars
<1> QED
  BY <1>2, <1>5 DEF StakeInv, ReceiptsBacked

\* Every call keeps the types and the backing.
LEMMA StakeStep == StakeInv /\ [StakeNext]_stakeVars => StakeInv'
<1> SUFFICES ASSUME StakeInv, [StakeNext]_stakeVars PROVE StakeInv'
  OBVIOUS
<1>1. CASE \E u \in Stakers, v \in Amounts : Stake(u, v)
  BY <1>1, StakeKeeps
<1>2. CASE \E u \in Stakers, v \in Amounts : Unstake(u, v)
  BY <1>2, UnstakeKeeps
<1>3. CASE \E u \in Stakers : ExecuteUnstake(u)
  BY <1>3, ExecuteKeeps
<1>4. CASE \E u \in Stakers : ClaimRewards(u)
  BY <1>4, ClaimKeeps
<1>5. CASE \E u \in Stakers, w \in Stakers, v \in Amounts : Transfer(u, w, v)
  BY <1>5, TransferKeeps
<1>6. CASE (\E u \in Stakers : RegistryChange(u)) \/ StakeTick \/ UNCHANGED stakeVars
  BY <1>6, QuietStake
<1> QED
  BY <1>1, <1>2, <1>3, <1>4, <1>5, <1>6 DEF StakeNext

\* The two hold in every state.
LEMMA StakeCorrect == StakeSpec => []StakeInv
BY InitStake, StakeStep, PTL DEF StakeSpec

\* The state of StakeManager keeps its types; that the Ether held never falls
\* below zero rests on the backing of what is unlocking.
THEOREM StakeTypeCorrect == StakeSpec => []StakeTypeOK
BY StakeCorrect, PTL DEF StakeInv

\* Whatever is staked, traded, unstaked in parts and paid out, the contract
\* holds exactly the Ether of the receipts and of the unlocking amounts.
THEOREM StakeBacked == StakeSpec => []ReceiptsBacked
BY StakeCorrect, PTL DEF StakeInv

\* A pending amount unlocks one delay after the last unstake() that added to it.
RequestsTimed ==
  \A u \in Stakers :
    requests[u].amount > 0 => requests[u].unlockTime = lastUnstake[u] + UnstakeDelay

\* Every step leaves the requests timed.
LEMMA TimedStep ==
  StakeTypeOK /\ RequestsTimed /\ [StakeNext]_stakeVars => RequestsTimed'
<1> SUFFICES ASSUME StakeTypeOK, RequestsTimed, [StakeNext]_stakeVars,
                    NEW u \in Stakers, requests'[u].amount > 0
             PROVE  requests'[u].unlockTime = lastUnstake'[u] + UnstakeDelay
  BY DEF RequestsTimed
<1>1. /\ requests \in [Stakers -> [amount : Nat, unlockTime : Nat]]
      /\ lastUnstake \in [Stakers -> 0 .. now]
  BY DEF StakeTypeOK
<1>2. ASSUME NEW w \in Stakers, NEW v \in Amounts, Unstake(w, v)
      PROVE  requests'[u].unlockTime = lastUnstake'[u] + UnstakeDelay
  <2>1. CASE w = u
    <3>1. requests'[u].unlockTime = now + UnstakeDelay /\ lastUnstake'[u] = now
      BY <1>1, <1>2, <2>1 DEF Unstake
    <3> QED
      BY <3>1
  <2>2. CASE w # u
    <3>1. requests'[u] = requests[u] /\ lastUnstake'[u] = lastUnstake[u]
      BY <1>1, <1>2, <2>2 DEF Unstake
    <3> QED
      BY <3>1 DEF RequestsTimed
  <2> QED
    BY <2>1, <2>2
<1>3. ASSUME NEW w \in Stakers, ExecuteUnstake(w)
      PROVE  requests'[u].unlockTime = lastUnstake'[u] + UnstakeDelay
  <2>1. w # u /\ requests'[u] = requests[u] /\ lastUnstake' = lastUnstake
    BY <1>1, <1>3 DEF ExecuteUnstake
  <2> QED
    BY <2>1 DEF RequestsTimed
<1>4. CASE UNCHANGED <<requests, lastUnstake>>
  BY <1>4 DEF RequestsTimed
<1> QED
  BY <1>2, <1>3, <1>4
     DEF StakeNext, Stake, ClaimRewards, Transfer, RegistryChange, StakeTick, stakeVars

\* Only executeUnstake() ends a request, after the delay.
LEMMA PaysLate ==
  ASSUME StakeTypeOK, RequestsTimed, [StakeNext]_stakeVars, NEW u \in Stakers,
         requests[u].amount > 0, requests'[u].amount = 0
  PROVE  now >= lastUnstake[u] + UnstakeDelay
<1>1. requests \in [Stakers -> [amount : Nat, unlockTime : Nat]] /\ Amounts \subseteq Nat
  BY StakeConstants DEF StakeTypeOK
<1>2. ASSUME NEW w \in Stakers, NEW v \in Amounts, Unstake(w, v) PROVE FALSE
  <2>1. /\ requests'[u].amount = IF w = u THEN requests[u].amount + v
                                          ELSE requests[u].amount
        /\ requests[u].amount \in Nat /\ v \in Nat
    BY <1>1, <1>2 DEF Unstake
  <2> QED
    BY <2>1
<1>3. ASSUME NEW w \in Stakers, ExecuteUnstake(w)
      PROVE  now >= lastUnstake[u] + UnstakeDelay
  <2>1. w = u
    BY <1>1, <1>3 DEF ExecuteUnstake
  <2> QED
    BY <1>3, <2>1 DEF ExecuteUnstake, RequestsTimed
<1>4. ~ UNCHANGED requests
  BY <1>1
<1> QED
  BY <1>2, <1>3, <1>4
     DEF StakeNext, Stake, ClaimRewards, Transfer, RegistryChange, StakeTick, stakeVars

\* A payment waits for the delay after the last receipts it pays for were burned,
\* however many calls of unstake() it merges.
THEOREM UnstakesWait == StakeSpec => UnstakeWaits
<1>1. StakeInit => RequestsTimed
  BY DEF StakeInit, RequestsTimed
<1>2. StakeTypeOK /\ RequestsTimed /\ [StakeNext]_stakeVars =>
        [\A u \in Stakers :
           (requests[u].amount > 0 /\ requests'[u].amount = 0)
             => now >= lastUnstake[u] + UnstakeDelay]_stakeVars
  BY PaysLate
<1> QED
  BY <1>1, <1>2, StakeTypeCorrect, TimedStep, PTL DEF StakeSpec, UnstakeWaits

\* unstake() asks for as much as it burns, also for nothing.
LEMMA UnstakeAsks ==
  ASSUME StakeTypeOK, NEW u \in Stakers, NEW v \in Amounts, Unstake(u, v)
  PROVE  StakeEscrow!Ask(u, v) /\ v \in 0 .. balance[u]
<1>1. /\ v \in Nat /\ balance[u] \in Nat /\ balance[u] >= v
      /\ requests \in [Stakers -> [amount : Nat, unlockTime : Nat]]
  BY StakeConstants DEF StakeTypeOK, Unstake
<1>2. Unlocking' = [Unlocking EXCEPT ![u] = @ + v]
  BY <1>1 DEF Unstake, Unlocking
<1> QED
  BY <1>1, <1>2 DEF Unstake, StakeEscrow!Ask, Unlocking

\* executeUnstake() pays all that was asked for, after the delay.
LEMMA ExecutePays ==
  ASSUME StakeTypeOK, RequestsTimed, NEW u \in Stakers, ExecuteUnstake(u)
  PROVE  StakeEscrow!Pay(u)
<1>1. /\ requests \in [Stakers -> [amount : Nat, unlockTime : Nat]]
      /\ Unlocking[u] = requests[u].amount /\ Unlocking[u] > 0
  BY DEF StakeTypeOK, ExecuteUnstake, Unlocking
<1>2. now >= lastUnstake[u] + UnstakeDelay
  BY DEF ExecuteUnstake, RequestsTimed
<1>3. Unlocking' = [Unlocking EXCEPT ![u] = 0]
  BY <1>1 DEF ExecuteUnstake, Unlocking
<1>4. etherHeld' = etherHeld - Unlocking[u]
  BY <1>1 DEF ExecuteUnstake
<1> QED
  BY <1>1, <1>2, <1>3, <1>4 DEF ExecuteUnstake, StakeEscrow!Pay, Unlocking

\* Every step of StakeManager is a step of an escrow, or none.
LEMMA StakeStepsRefine ==
  StakeTypeOK /\ RequestsTimed /\ [StakeNext]_stakeVars
    => [StakeEscrow!EscrowNext]_(StakeEscrow!escrowVars)
<1> SUFFICES ASSUME StakeTypeOK, RequestsTimed, [StakeNext]_stakeVars
             PROVE  [StakeEscrow!EscrowNext]_(StakeEscrow!escrowVars)
  OBVIOUS
<1>1. ASSUME NEW u \in Stakers, NEW v \in Amounts, Stake(u, v)
      PROVE  StakeEscrow!EscrowNext
  <2>1. StakeEscrow!Deposit(u, v)
    BY <1>1 DEF Stake, StakeEscrow!Deposit
  <2> QED
    BY <2>1 DEF StakeEscrow!EscrowNext
<1>2. ASSUME NEW u \in Stakers, NEW v \in Amounts, Unstake(u, v)
      PROVE  StakeEscrow!EscrowNext
  BY <1>2, UnstakeAsks DEF StakeEscrow!EscrowNext
<1>3. ASSUME NEW u \in Stakers, ExecuteUnstake(u) PROVE StakeEscrow!EscrowNext
  BY <1>3, ExecutePays DEF StakeEscrow!EscrowNext
<1>4. ASSUME NEW u \in Stakers, NEW w \in Stakers, NEW v \in Amounts, Transfer(u, w, v)
      PROVE  StakeEscrow!EscrowNext
  <2>1. v \in 0 .. balance[u]
    BY <1>4, StakeConstants DEF StakeTypeOK, Transfer
  <2>2. StakeEscrow!Move(u, w, v)
    BY <1>4 DEF Transfer, StakeEscrow!Move
  <2> QED
    BY <2>1, <2>2 DEF StakeEscrow!EscrowNext
<1>5. CASE StakeTick
  <2>1. StakeEscrow!Pass
    BY <1>5 DEF StakeTick, Advance, StakeEscrow!Pass
  <2> QED
    BY <2>1 DEF StakeEscrow!EscrowNext
<1>6. CASE \/ \E u \in Stakers : ClaimRewards(u) \/ RegistryChange(u)
           \/ UNCHANGED stakeVars
  BY <1>6 DEF ClaimRewards, RegistryChange, stakeVars, StakeEscrow!escrowVars
<1> QED
  BY <1>1, <1>2, <1>3, <1>4, <1>5, <1>6 DEF StakeNext

\* StakeManager is an escrow (StakeManager.sol: stake(), unstake(), executeUnstake(),
\* ERC-20 transfer()): the Ether of a receipt stays until the holder of the receipt
\* has unstaked it and the delay has passed since it last did, and is then paid whole.
THEOREM StakeManagerImplementsEscrow == StakeSpec => ReceiptsEscrowed
<1>1. StakeInit => StakeEscrow!EscrowInit
  BY DEF StakeInit, ChainInit, StakeEscrow!EscrowInit
<1>2. StakeInit => RequestsTimed
  BY DEF StakeInit, RequestsTimed
<1> QED
  BY <1>1, <1>2, StakeTypeCorrect, TimedStep, StakeStepsRefine, PTL
     DEF StakeSpec, ReceiptsEscrowed, StakeEscrow!EscrowSpec

\* A running clock starts again only in claimRewards().
LEMMA ClockStep ==
  ASSUME StakeTypeOK, [StakeNext]_stakeVars, NEW u \in Stakers,
         lastRewardClaim[u] # 0, lastRewardClaim'[u] # lastRewardClaim[u]
  PROVE  /\ tokensHeld - tokensHeld' = RewardOf(u)
         /\ tokensHeld' < tokensHeld
         /\ \A w \in Stakers \ {u} : lastRewardClaim'[w] = lastRewardClaim[w]
<1>1. lastRewardClaim \in [Stakers -> 0 .. now] /\ tokensHeld \in Int
  BY StakeConstants DEF StakeTypeOK
<1>2. ASSUME NEW w \in Stakers, NEW v \in Amounts, Stake(w, v) PROVE FALSE
  BY <1>1, <1>2 DEF Stake
<1>3. ASSUME NEW w \in Stakers, ClaimRewards(w)
      PROVE  /\ tokensHeld - tokensHeld' = RewardOf(u)
             /\ tokensHeld' < tokensHeld
             /\ \A x \in Stakers \ {u} : lastRewardClaim'[x] = lastRewardClaim[x]
  <2>1. w = u /\ \A x \in Stakers \ {u} : lastRewardClaim'[x] = lastRewardClaim[x]
    BY <1>1, <1>3 DEF ClaimRewards
  <2>2. tokensHeld' = tokensHeld - RewardOf(u) /\ RewardOf(u) > 0 /\ RewardOf(u) \in Int
    BY <1>3, <2>1, RewardType DEF ClaimRewards
  <2> QED
    BY <1>1, <2>1, <2>2
<1>4. ~ UNCHANGED lastRewardClaim
  OBVIOUS
<1> QED
  BY <1>2, <1>3, <1>4
     DEF StakeNext, Unstake, ExecuteUnstake, Transfer, RegistryChange, StakeTick, tokenVars,
         stakeVars

\* No stake, no unstake and no receipts that come in forfeit the time a staker waited:
\* a running reward clock starts again by paying, and then no other clock moves.
THEOREM ClocksKept == StakeSpec => RewardClockKept
<1>1. StakeTypeOK /\ [StakeNext]_stakeVars =>
        [\A u \in Stakers :
           (lastRewardClaim[u] # 0 /\ lastRewardClaim'[u] # lastRewardClaim[u])
             => /\ tokensHeld - tokensHeld' = RewardOf(u)
                /\ tokensHeld' < tokensHeld
                /\ \A w \in Stakers \ {u} : lastRewardClaim'[w] = lastRewardClaim[w]]_stakeVars
  BY ClockStep
<1> QED
  BY <1>1, StakeTypeCorrect, PTL DEF StakeSpec, RewardClockKept

----------------------------------------------------------------------------
(* ResumeRegistry *)

\* The state of ResumeRegistry keeps its types.
THEOREM ResumeTypeCorrect == ResumeSpec => []ResumeTypeOK
<1>1. ResumeInit => ResumeTypeOK
  BY MaxTimeAssumption DEF ResumeInit, ChainInit, NoRecord, ResumeTypeOK, Timestamps
<1>2. ResumeTypeOK /\ [ResumeNext]_resumeVars => ResumeTypeOK'
  <2> SUFFICES ASSUME ResumeTypeOK, [ResumeNext]_resumeVars PROVE ResumeTypeOK'
    OBVIOUS
  <2>a. now \in Nat /\ TimelockDelay \in Nat
    BY ResumeConstants DEF ResumeTypeOK, Timestamps
  <2>1. ASSUME NEW u \in Applicants, NEW p \in Proofs, NEW job \in Positions,
               SubmitProof(u, p, job)
        PROVE  ResumeTypeOK'
    <3>1. Nullifier(p, job) \in Nullifiers
      BY DEF Nullifier, Nullifiers, Students
    <3>2. records' = [records EXCEPT ![Nullifier(p, job)] =
                        [submitter |-> u, timestamp |-> now]]
      BY <2>1 DEF SubmitProof
    <3> QED
      BY <2>a, <2>1, <3>1, <3>2 DEF ResumeTypeOK, SubmitProof, updateVars, Timestamps
  <2>2. ASSUME NEW v \in Verifiers, ProposeVerifierUpdate(v) PROVE ResumeTypeOK'
    BY <2>a, <2>2 DEF ResumeTypeOK, ProposeVerifierUpdate, recordVars, Timestamps
  <2>3. CASE ExecuteVerifierUpdate
    BY <2>3 DEF ResumeTypeOK, ExecuteVerifierUpdate, recordVars, Timestamps
  <2>4. CASE CancelVerifierUpdate
    BY <2>4 DEF ResumeTypeOK, CancelVerifierUpdate, recordVars, Timestamps
  <2>5. CASE Advance /\ UNCHANGED <<recordVars, updateVars>>
    BY <2>5, AdvanceClock DEF ResumeTypeOK, recordVars, updateVars
  <2>6. CASE UNCHANGED resumeVars
    BY <2>6 DEF ResumeTypeOK, resumeVars, recordVars, updateVars, Timestamps
  <2> QED
    BY <2>1, <2>2, <2>3, <2>4, <2>5, <2>6 DEF ResumeNext
<1> QED
  BY <1>1, <1>2, PTL DEF ResumeSpec

\* A proof is recorded exactly when its nullifier is spent.
LEMMA RecordStep ==
  ResumeTypeOK /\ SpentMatchesRecorded /\ [ResumeNext]_resumeVars => SpentMatchesRecorded'
<1> SUFFICES ASSUME ResumeTypeOK, SpentMatchesRecorded, [ResumeNext]_resumeVars
             PROVE  SpentMatchesRecorded'
  OBVIOUS
<1>1. ASSUME NEW u \in Applicants, NEW p \in Proofs, NEW job \in Positions,
             SubmitProof(u, p, job)
      PROVE  SpentMatchesRecorded'
  <2> DEFINE n == Nullifier(p, job)
  <2>1. /\ usedNullifiers' = usedNullifiers \cup {n}
        /\ records' = [records EXCEPT ![n] = [submitter |-> u, timestamp |-> now]]
    BY <1>1 DEF SubmitProof
  <2>2. u # NoApplicant
    BY ResumeConstants
  <2> HIDE DEF n
  <2>3. ASSUME NEW m \in Nullifiers
        PROVE  m \in usedNullifiers' <=> records'[m].submitter # NoApplicant
    <3>1. records'[m] = IF m = n THEN [submitter |-> u, timestamp |-> now] ELSE records[m]
      BY <2>1 DEF ResumeTypeOK
    <3> QED
      BY <2>1, <2>2, <3>1 DEF SpentMatchesRecorded
  <2> QED
    BY <2>3 DEF SpentMatchesRecorded
<1>2. CASE UNCHANGED recordVars
  BY <1>2 DEF recordVars, SpentMatchesRecorded
<1> QED
  BY <1>1, <1>2
     DEF ResumeNext, ProposeVerifierUpdate, ExecuteVerifierUpdate, CancelVerifierUpdate,
         resumeVars

\* A spent nullifier has a record and an unspent one has none, whoever submits proofs for
\* whichever student: nobody is locked out without a record, and none is replayed.
THEOREM SpentRecorded == ResumeSpec => []SpentMatchesRecorded
<1>1. ResumeInit => SpentMatchesRecorded
  BY DEF ResumeInit, NoRecord, SpentMatchesRecorded
<1> QED
  BY <1>1, RecordStep, ResumeTypeCorrect, PTL DEF ResumeSpec

\* The pending proposal is the latest there was, and its clock started with it.
PendingTimed ==
  /\ \A v \in Verifiers : proposed[v] <= now
  /\ pendingVerifier # NoVerifier =>
       /\ proposed[pendingVerifier] > 0
       /\ verifierUpdateUnlockTime = proposed[pendingVerifier] + TimelockDelay
       /\ \A v \in Verifiers : proposed[v] <= proposed[pendingVerifier]

\* Every step keeps the pending proposal timed.
LEMMA PendingStep ==
  ResumeTypeOK /\ PendingTimed /\ [ResumeNext]_resumeVars => PendingTimed'
<1> SUFFICES ASSUME ResumeTypeOK, PendingTimed, [ResumeNext]_resumeVars PROVE PendingTimed'
  OBVIOUS
<1>1. /\ now \in Nat \ {0} /\ TimelockDelay \in Nat
      /\ proposed \in [Verifiers -> Nat]
      /\ pendingVerifier \in Verifiers \cup {NoVerifier}
  BY ResumeConstants DEF ResumeTypeOK, Timestamps
<1>2. ASSUME NEW v \in Verifiers, ProposeVerifierUpdate(v) PROVE PendingTimed'
  <2>1. /\ pendingVerifier' = v /\ now' = now
        /\ verifierUpdateUnlockTime' = now + TimelockDelay
        /\ \A w \in Verifiers : proposed'[w] = IF w = v THEN now ELSE proposed[w]
    BY <1>1, <1>2 DEF ProposeVerifierUpdate
  <2> QED
    BY <1>1, <2>1 DEF PendingTimed
<1>3. CASE ExecuteVerifierUpdate \/ CancelVerifierUpdate
  BY <1>3 DEF ExecuteVerifierUpdate, CancelVerifierUpdate, PendingTimed
<1>4. CASE Advance /\ UNCHANGED updateVars
  <2>1. now' = now + 1 /\ UNCHANGED <<proposed, pendingVerifier, verifierUpdateUnlockTime>>
    BY <1>4 DEF Advance, updateVars
  <2>2. ASSUME NEW v \in Verifiers PROVE proposed'[v] <= now'
    BY <1>1, <2>1 DEF PendingTimed
  <2> QED
    BY <1>1, <2>1, <2>2 DEF PendingTimed
<1>5. CASE UNCHANGED <<updateVars, now>>
  BY <1>5 DEF updateVars, PendingTimed
<1> QED
  BY <1>2, <1>3, <1>4, <1>5 DEF ResumeNext, SubmitProof, resumeVars

\* A verifier comes into force the delay after its last proposal at the earliest, and only
\* the latest proposal does, whatever was proposed, replaced or cancelled in between.
THEOREM VerifiersAnnounced == ResumeSpec => VerifierAnnounced
<1>1. ResumeInit => PendingTimed
  BY DEF ResumeInit, ChainInit, PendingTimed
<1>2. ASSUME ResumeTypeOK, PendingTimed, [ResumeNext]_resumeVars, verifier' # verifier
      PROVE  /\ proposed[verifier'] > 0
             /\ now >= proposed[verifier'] + TimelockDelay
             /\ \A v \in Verifiers : proposed[v] <= proposed[verifier']
  <2>1. ExecuteVerifierUpdate
    BY <1>2 DEF ResumeNext, SubmitProof, ProposeVerifierUpdate, CancelVerifierUpdate,
                updateVars, resumeVars
  <2> QED
    BY <1>2, <2>1 DEF ExecuteVerifierUpdate, PendingTimed
<1>3. ResumeTypeOK /\ PendingTimed /\ [ResumeNext]_resumeVars =>
        [verifier' # verifier =>
           /\ proposed[verifier'] > 0
           /\ now >= proposed[verifier'] + TimelockDelay
           /\ \A v \in Verifiers : proposed[v] <= proposed[verifier']]_resumeVars
  BY <1>2
<1> QED
  BY <1>1, <1>3, PendingStep, ResumeTypeCorrect, PTL DEF ResumeSpec, VerifierAnnounced

----------------------------------------------------------------------------
(* AuditJobQueue *)

\* The lists partition the jobs, and every id in use is below the next one.
QueueInv == QueueTypeOK /\ JobsPartitioned

\* submitJob() appends the new job, and its id to its submitter's list.
LEMMA SubmitJobKeeps ==
  ASSUME QueueInv, NEW u \in Clients, NEW v \in Fees, SubmitJob(u, v)
  PROVE  QueueInv'
<1> DEFINE n == nextJobId
<1>1. /\ jobs \in Seq(AuditJob) /\ Len(jobs) = n - 1 /\ Len(jobs) \in Nat
      /\ n \in Nat /\ n \in 1 .. MaxJobs
      /\ userJobs \in [Clients -> Seq(1 .. MaxJobs)]
  <2>1. QueueTypeOK /\ Len(jobs) = nextJobId - 1
    BY DEF QueueInv, JobsPartitioned
  <2>2. nextJobId \in 1 .. MaxJobs + 1 /\ nextJobId <= MaxJobs /\ MaxJobs \in Nat
    BY <2>1, QueueConstants DEF QueueTypeOK, SubmitJob
  <2>3. nextJobId \in Nat /\ nextJobId \in 1 .. MaxJobs
    BY <2>2
  <2>4. jobs \in Seq(AuditJob) /\ userJobs \in [Clients -> Seq(1 .. MaxJobs)]
    BY <2>1 DEF QueueTypeOK
  <2> QED
    BY <2>1, <2>3, <2>4
<1>2. DOMAIN jobs \cup {n} = 1 .. n /\ DOMAIN jobs = 1 .. n - 1
  BY <1>1
<1>3. NewJob(u) \in AuditJob
  BY DEF AuditJob, JobStatus
<1>4. jobs' = [id \in 1 .. n |-> IF id = n THEN NewJob(u) ELSE jobs[id]]
  BY <1>2 DEF SubmitJob
<1>a. n \in Nat \ {0} /\ Len(jobs) = n - 1
  BY <1>1
<1>b. \A id \in 1 .. n - 1 : jobs'[id] = jobs[id]
  <2> SUFFICES ASSUME NEW id \in 1 .. n - 1 PROVE jobs'[id] = jobs[id]
    OBVIOUS
  <2>1. id \in 1 .. n /\ id # n
    BY <1>a
  <2> QED
    BY <1>4, <2>1
<1>c. jobs'[n] = NewJob(u)
  <2>1. n \in 1 .. n
    BY <1>a
  <2> HIDE DEF n
  <2> QED
    BY <1>4, <2>1
<1>5. jobs' \in Seq(AuditJob) /\ Len(jobs') = n
  <2>1. ASSUME NEW id \in 1 .. n PROVE jobs'[id] \in AuditJob
    <3>1. CASE id = n
      BY <1>3, <1>c, <3>1
    <3>2. CASE id \in 1 .. n - 1
      <4>1. jobs[id] \in AuditJob
        BY <1>1, <3>2
      <4> QED
        BY <1>b, <3>2, <4>1
    <3> QED
      BY <1>a, <3>1, <3>2
  <2>2. jobs' \in [1 .. n -> AuditJob]
    BY <1>4, <2>1
  <2> QED
    BY <1>1, <2>2
<1>6. /\ userJobs' = [userJobs EXCEPT ![u] = Append(@, n)] /\ nextJobId' = n + 1
      /\ auditFee' = auditFee /\ feesHeld' = feesHeld + v
  BY DEF SubmitJob
<1>7. ASSUME NEW w \in Clients
      PROVE  /\ userJobs'[w] \in Seq(1 .. MaxJobs)
             /\ Len(userJobs'[w]) = Len(userJobs[w]) + IF w = u THEN 1 ELSE 0
             /\ \A k \in 1 .. Len(userJobs[w]) : userJobs'[w][k] = userJobs[w][k]
             /\ Len(userJobs[w]) \in Nat
             /\ w = u => userJobs'[w][Len(userJobs[w]) + 1] = n
  <2>1. userJobs'[w] = IF w = u THEN Append(userJobs[w], n) ELSE userJobs[w]
    BY <1>1, <1>6
  <2>2. userJobs[w] \in Seq(1 .. MaxJobs) /\ n \in 1 .. MaxJobs
    BY <1>1
  <2>3. CASE w = u
    <3>1. userJobs'[w] = Append(userJobs[w], n)
      BY <2>1, <2>3
    <3> QED
      BY <2>2, <2>3, <3>1
  <2>4. CASE w # u
    <3>1. userJobs'[w] = userJobs[w]
      BY <2>1, <2>4
    <3> QED
      BY <2>2, <2>4, <3>1
  <2> QED
    BY <2>3, <2>4
<1>8. QueueTypeOK'
  <2>1. userJobs' \in [Clients -> Seq(1 .. MaxJobs)]
    BY <1>1, <1>6, <1>7
  <2>2. auditFee \in Fees /\ feesHeld \in Nat /\ v \in Nat
    BY QueueConstants DEF QueueInv, QueueTypeOK
  <2>3. nextJobId' \in 1 .. MaxJobs + 1
    BY <1>1, <1>6, QueueConstants
  <2> QED
    BY <1>5, <1>6, <2>1, <2>2, <2>3 DEF QueueTypeOK
<1> HIDE DEF n
<1>9. ASSUME NEW w \in Clients
      PROVE  /\ \A id \in 1 .. n :
                  jobs'[id].submitter = w <=>
                    \E k \in 1 .. Len(userJobs'[w]) : userJobs'[w][k] = id
             /\ \A k \in 1 .. Len(userJobs'[w]) : userJobs'[w][k] \in 1 .. n
             /\ \A k, l \in 1 .. Len(userJobs'[w]) :
                  k < l => userJobs'[w][k] < userJobs'[w][l]
  <2>1. /\ \A id \in 1 .. n - 1 :
             jobs[id].submitter = w <=> \E k \in 1 .. Len(userJobs[w]) : userJobs[w][k] = id
        /\ \A k \in 1 .. Len(userJobs[w]) : userJobs[w][k] \in 1 .. n - 1
        /\ \A k, l \in 1 .. Len(userJobs[w]) : k < l => userJobs[w][k] < userJobs[w][l]
        /\ Len(userJobs[w]) \in Nat
    BY <1>1 DEF QueueInv, JobsPartitioned
  <2>2. /\ \A id \in 1 .. n - 1 : jobs'[id] = jobs[id]
        /\ jobs'[n].submitter = u
    <3>1. NewJob(u).submitter = u
      OBVIOUS
    <3> HIDE DEF NewJob
    <3> QED
      BY <1>b, <1>c, <3>1
  <2>3. CASE w # u
    <3>1. userJobs'[w] = userJobs[w]
      BY <1>1, <1>6, <2>3
    <3>2. \A id \in 1 .. n : id \in 1 .. n - 1 \/ id = n
      BY <1>a
    <3>3. \A k \in 1 .. Len(userJobs[w]) : userJobs[w][k] # n /\ userJobs[w][k] \in 1 .. n
      BY <1>a, <2>1
    <3>4. ASSUME NEW id \in 1 .. n
          PROVE  jobs'[id].submitter = w <=>
                   \E k \in 1 .. Len(userJobs[w]) : userJobs[w][k] = id
      <4>1. CASE id = n
        BY <2>2, <2>3, <3>3, <4>1
      <4>2. CASE id \in 1 .. n - 1
        BY <2>1, <2>2, <4>2
      <4> QED
        BY <3>2, <4>1, <4>2
    <3> QED
      BY <2>1, <3>1, <3>3, <3>4
  <2>4. CASE w = u
    <3> DEFINE len == Len(userJobs[w])
    <3>1. /\ Len(userJobs'[w]) = len + 1 /\ len \in Nat /\ userJobs'[w][len + 1] = n
          /\ \A k \in 1 .. len : userJobs'[w][k] = userJobs[w][k]
      BY <1>7, <2>1, <2>4
    <3> HIDE DEF len
    <3>2. \A k \in 1 .. len + 1 : k \in 1 .. len \/ k = len + 1
      BY <3>1
    <3>3. \A k \in 1 .. len : userJobs[w][k] \in 1 .. n - 1
      BY <2>1 DEF len
    <3>4. ASSUME NEW id \in 1 .. n
          PROVE  jobs'[id].submitter = w <=> \E k \in 1 .. len + 1 : userJobs'[w][k] = id
      <4>1. CASE id = n
        BY <2>2, <2>4, <3>1, <4>1
      <4>2. CASE id \in 1 .. n - 1
        <5>1. jobs'[id].submitter = w <=> \E k \in 1 .. len : userJobs[w][k] = id
          BY <2>1, <2>2, <4>2 DEF len
        <5>2. userJobs'[w][len + 1] # id
          BY <1>1, <3>1, <4>2
        <5> QED
          BY <3>1, <3>2, <5>1, <5>2
      <4> QED
        BY <1>a, <4>1, <4>2
    <3>5. ASSUME NEW k \in 1 .. len + 1 PROVE userJobs'[w][k] \in 1 .. n
      <4>1. CASE k = len + 1
        BY <1>a, <3>1, <4>1
      <4>2. CASE k \in 1 .. len
        <5>1. userJobs'[w][k] \in 1 .. n - 1
          BY <3>1, <3>3, <4>2
        <5> QED
          BY <1>a, <5>1
      <4> QED
        BY <3>2, <4>1, <4>2
    <3>6. ASSUME NEW k \in 1 .. len + 1, NEW l \in 1 .. len + 1, k < l
          PROVE  userJobs'[w][k] < userJobs'[w][l]
      <4>1. k \in 1 .. len
        BY <3>1, <3>6
      <4>2. CASE l = len + 1
        BY <1>1, <3>1, <3>3, <4>1, <4>2
      <4>3. CASE l \in 1 .. len
        BY <2>1, <3>1, <3>6, <4>1, <4>3 DEF len
      <4> QED
        BY <3>2, <4>2, <4>3
    <3> QED
      BY <3>1, <3>4, <3>5, <3>6
  <2> QED
    BY <2>3, <2>4
<1>10. Len(jobs') = nextJobId' - 1
  BY <1>1, <1>5, <1>6 DEF n
<1> QED
  BY <1>5, <1>8, <1>9, <1>10 DEF QueueInv, JobsPartitioned, n

\* updateJobStatus() leaves every submitter alone.
LEMMA UpdateKeeps ==
  ASSUME QueueInv, NEW id \in 1 .. MaxJobs, NEW status \in JobStatus, NEW result \in Results,
         UpdateJobStatus(id, status, result)
  PROVE  QueueInv'
<1>1. jobs \in Seq(AuditJob) /\ id \in 1 .. Len(jobs)
  BY DEF QueueInv, QueueTypeOK, UpdateJobStatus
<1>2. jobs' = [jobs EXCEPT ![id] = [jobs[id] EXCEPT !.status = status, !.result = result]]
  BY DEF UpdateJobStatus
<1>3. /\ [jobs[id] EXCEPT !.status = status, !.result = result] \in AuditJob
      /\ [jobs[id] EXCEPT !.status = status, !.result = result].submitter = jobs[id].submitter
  <2>1. jobs[id] \in AuditJob
    BY <1>1
  <2> QED
    BY <2>1 DEF AuditJob
<1>4. /\ jobs' \in Seq(AuditJob) /\ Len(jobs') = Len(jobs)
      /\ \A i \in 1 .. Len(jobs) : jobs'[i].submitter = jobs[i].submitter
  BY <1>1, <1>2, <1>3
<1>5. UNCHANGED <<auditFee, nextJobId, userJobs, feesHeld>> /\ QueueTypeOK /\ JobsPartitioned
  BY DEF UpdateJobStatus, QueueInv
<1>6. QueueTypeOK'
  BY <1>4, <1>5 DEF QueueTypeOK
<1>7. JobsPartitioned'
  <2>1. Len(jobs') = nextJobId' - 1
    BY <1>4, <1>5 DEF JobsPartitioned
  <2>2. ASSUME NEW u \in Clients
        PROVE  /\ \A i \in 1 .. Len(jobs') :
                    jobs'[i].submitter = u <=>
                      \E k \in 1 .. Len(userJobs'[u]) : userJobs'[u][k] = i
               /\ \A k \in 1 .. Len(userJobs'[u]) : userJobs'[u][k] \in 1 .. Len(jobs')
               /\ \A k, l \in 1 .. Len(userJobs'[u]) :
                    k < l => userJobs'[u][k] < userJobs'[u][l]
    <3>1. /\ \A i \in 1 .. Len(jobs) :
                jobs[i].submitter = u <=>
                  \E k \in 1 .. Len(userJobs[u]) : userJobs[u][k] = i
          /\ \A k \in 1 .. Len(userJobs[u]) : userJobs[u][k] \in 1 .. Len(jobs)
          /\ \A k, l \in 1 .. Len(userJobs[u]) : k < l => userJobs[u][k] < userJobs[u][l]
      BY <1>5 DEF JobsPartitioned
    <3>2. userJobs' = userJobs
      BY <1>5
    <3> QED
      BY <1>4, <3>1, <3>2
  <2> QED
    BY <2>1, <2>2 DEF JobsPartitioned
<1> QED
  BY <1>6, <1>7 DEF QueueInv

\* Every call keeps the types and the partition.
LEMMA QueueStep == QueueInv /\ [QueueNext]_queueVars => QueueInv'
<1> SUFFICES ASSUME QueueInv, [QueueNext]_queueVars PROVE QueueInv'
  OBVIOUS
<1>1. CASE \E u \in Clients, v \in Fees : SubmitJob(u, v)
  BY <1>1, SubmitJobKeeps
<1>2. CASE \E id \in 1 .. MaxJobs, status \in JobStatus, result \in Results :
             UpdateJobStatus(id, status, result)
  BY <1>2, UpdateKeeps
<1>3. CASE (\E fee \in Fees : SetAuditFee(fee)) \/ WithdrawFees \/ UNCHANGED queueVars
  <2>1. UNCHANGED <<nextJobId, jobs, userJobs>> /\ auditFee' \in Fees /\ feesHeld' \in Nat
    BY <1>3 DEF SetAuditFee, WithdrawFees, queueVars, QueueInv, QueueTypeOK
  <2> QED
    BY <2>1 DEF QueueInv, QueueTypeOK, JobsPartitioned
<1> QED
  BY <1>1, <1>2, <1>3 DEF QueueNext

\* Initially there is no job.
LEMMA InitQueue == QueueInit => QueueInv
BY QueueConstants DEF QueueInit, QueueInv, QueueTypeOK, JobsPartitioned

\* The two hold in every state.
LEMMA QueueCorrect == QueueSpec => []QueueInv
BY InitQueue, QueueStep, PTL DEF QueueSpec

\* The state of AuditJobQueue keeps its types.
THEOREM QueueTypeCorrect == QueueSpec => []QueueTypeOK
BY QueueCorrect, PTL DEF QueueInv

\* The users' lists partition the jobs of the shared counter: each job is listed once,
\* under its submitter and in the order of submission, whoever submits in between.
THEOREM JobsStayApart == QueueSpec => []JobsPartitioned
BY QueueCorrect, PTL DEF QueueInv
=============================================================================
