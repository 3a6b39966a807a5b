----------------------- MODULE DisputeResolverProofs -----------------------
(***************************************************************************)
(* Theorems about the dispute protocol for every set of agents, every      *)
(* bound and every timestamp.  Each inductive invariant stands next to the *)
(* property it strengthens.                                                *)
(***************************************************************************)
EXTENDS DisputeResolver, CountingTheorems

\* One-line abbreviations of the actions, expanded everywhere.
USE DEF TimelockEnd, TimelockOver, UnlockTime, Unlocked, Slashable, Logged,
        ReputationAfter, NewDispute, Closed

----------------------------------------------------------------------------
(* Type correctness *)

\* Every initial state has the declared types.
LEMMA InitTypeOK == Init => TypeOK
<1> SUFFICES ASSUME Init PROVE TypeOK
  OBVIOUS
<1>1. now \in Timestamps
  BY MaxTimeAssumption DEF Init, ChainInit, Timestamps
<1>2. StakesTyped
  BY DEF Init, AgentInit, StakesTyped, ExitKinds
<1>3. LogTyped
  BY AuditConstants DEF Init, AuditInit, LogTyped
<1>4. roleGranted \in BOOLEAN /\ disputeResolverSet \in BOOLEAN
  BY DEF Init, AgentInit, AuditInit
<1>5. /\ disputes \in [Positions -> Dispute]
      /\ resolverBalance \in Int
      /\ verdict \in [Positions -> {"none", "cleared", "fraud"}]
      /\ tainted \subseteq Positions
  BY DEF Init, ResolverInit, Dispute, NoDispute
<1> QED
  BY <1>1, <1>2, <1>3, <1>4, <1>5 DEF TypeOK, AgentTypeOK, AuditTypeOK

\* register() keeps the types of AgentRegistry.
LEMMA RegisterType ==
  ASSUME StakesTyped, NEW a \in Agents, NEW v \in Deposits, Register(a, v)
  PROVE  StakesTyped'
BY AgentConstants DEF Register, ReputationAtRegister, StakesTyped

\* deregister() keeps the types of AgentRegistry.
LEMMA DeregisterType ==
  ASSUME StakesTyped, now \in Nat, NEW a \in Agents, Deregister(a)
  PROVE  StakesTyped'
<1>1. agents' \in [Agents -> [stake : Nat, reputation : Nat, active : BOOLEAN]]
  BY DEF Deregister, StakesTyped
<1>2. exit' \in [Agents -> [at : Nat, by : ExitKinds]]
  BY DEF Deregister, StakesTyped, ExitKinds
<1> QED
  BY <1>1, <1>2, AgentConstants DEF Deregister, StakesTyped, UnlockTime

\* withdrawStake() keeps the types of AgentRegistry.
LEMMA WithdrawStakeType ==
  ASSUME StakesTyped, NEW a \in Agents, WithdrawStake(a)
  PROVE  StakesTyped'
BY DEF WithdrawStake, StakesTyped

\* slash() keeps the types of AgentRegistry.
LEMMA SlashType ==
  ASSUME StakesTyped, now \in Nat, NEW a \in Agents, NEW m \in Nat, Slash(a, m)
  PROVE  StakesTyped'
<1>1. agents' \in [Agents -> [stake : Nat, reputation : Nat, active : BOOLEAN]]
  BY AgentConstants DEF StakesTyped, Slash, Slashed
<1>2. exit' \in [Agents -> [at : Nat, by : ExitKinds]]
  BY DEF StakesTyped, Slash, ExitKinds
<1> QED
  BY <1>1, <1>2 DEF StakesTyped, Slash

\* addReputation() keeps the types of AgentRegistry.
LEMMA AddReputationType ==
  ASSUME StakesTyped, NEW a \in Agents, NEW m \in Nat, AddReputation(a, m)
  PROVE  StakesTyped'
BY DEF StakesTyped, AddReputation

\* Any record in the log is a record, at a position.
LEMMA RecordType ==
  ASSUME LogTyped, NEW i \in 1 .. Len(audits)
  PROVE  /\ audits[i] \in AuditRecord
         /\ audits[i].auditor \in Agents
         /\ audits[i].timestamp \in Nat
         /\ audits[i].disputed \in BOOLEAN
         /\ i \in Positions
<1>1. audits[i] \in AuditRecord /\ i \in Positions
  BY AuditConstants DEF LogTyped, Positions
<1> QED
  BY <1>1 DEF AuditRecord

\* Setting the disputed flag of one record gives a log of the same length.
LEMMA FlagType ==
  ASSUME LogTyped, NEW i \in 1 .. Len(audits), NEW f \in BOOLEAN
  PROVE  LET log == [audits EXCEPT ![i].disputed = f]
         IN  log \in Seq(AuditRecord) /\ Len(log) = Len(audits)
<1>1. [audits[i] EXCEPT !.disputed = f] \in AuditRecord
  BY RecordType DEF AuditRecord
<1> QED
  BY <1>1 DEF LogTyped

\* submitAudit() keeps the types of AuditRegistry.
LEMMA SubmitAuditType ==
  ASSUME LogTyped, now \in Nat, NEW a \in Agents, SubmitAudit(a)
  PROVE  LogTyped'
<1>1. [auditor |-> a, timestamp |-> now, disputed |-> FALSE] \in AuditRecord
  BY DEF AuditRecord
<1> QED
  BY <1>1, AuditConstants DEF LogTyped, SubmitAudit

\* disputeAudit() keeps the types of AuditRegistry.
LEMMA DisputeAuditType ==
  ASSUME LogTyped, now \in Nat, NEW i \in Positions, DisputeAudit(i)
  PROVE  LogTyped'
<1>1. i \in 1 .. Len(audits) /\ audits' = [audits EXCEPT ![i].disputed = TRUE]
  BY DEF DisputeAudit
<1>2. audits' \in Seq(AuditRecord) /\ Len(audits') = Len(audits)
  BY <1>1, FlagType
<1> QED
  BY <1>2 DEF LogTyped, DisputeAudit

\* resolveDispute() keeps the types of AuditRegistry.
LEMMA ResolveRecordType ==
  ASSUME LogTyped, NEW i \in Positions, NEW f \in BOOLEAN, ResolveRecord(i, f)
  PROVE  LogTyped'
<1>1. i \in 1 .. Len(audits)
  BY DEF ResolveRecord
<1>2. CASE f
  <2>1. /\ audits' = audits /\ disputeTimestamps' = disputeTimestamps
        /\ agentReputation' = [agentReputation EXCEPT ![audits[i].auditor] = 0]
    BY <1>2 DEF ResolveRecord
  <2> QED
    BY <2>1 DEF LogTyped
<1>3. CASE ~f
  <2>1. /\ audits' = [audits EXCEPT ![i].disputed = FALSE]
        /\ agentReputation' = agentReputation
        /\ disputeTimestamps' = disputeTimestamps
    BY <1>3 DEF ResolveRecord
  <2>2. audits' \in Seq(AuditRecord) /\ Len(audits') = Len(audits)
    BY <1>1, <2>1, FlagType
  <2> QED
    BY <2>1, <2>2 DEF LogTyped
<1> QED
  BY <1>2, <1>3

\* The state without its Boolean variables, which the provers treat apart.
NetTyped ==
  /\ now \in Timestamps
  /\ StakesTyped
  /\ LogTyped
  /\ disputes \in [Positions -> Dispute]
  /\ resolverBalance \in Int
  /\ verdict \in [Positions -> {"none", "cleared", "fraud"}]
  /\ tainted \subseteq Positions

\* raiseDispute() keeps every type.
LEMMA RaiseDisputeType ==
  ASSUME NetTyped, NEW c \in Challengers, NEW i \in Positions, RaiseDispute(c, i)
  PROVE  NetTyped'
<1>1. now \in Nat
  BY DEF NetTyped, Timestamps
<1>2. LogTyped'
  BY <1>1, DisputeAuditType DEF RaiseDispute, NetTyped
<1>3. StakesTyped'
  BY DEF RaiseDispute, agentVars, StakesTyped, NetTyped
<1>4. audits[i].auditor \in Agents
  BY RecordType DEF RaiseDispute, DisputeAudit, NetTyped
<1>5. /\ disputes' \in [Positions -> Dispute]
      /\ resolverBalance' \in Int
  BY <1>4, ResolverConstants DEF NetTyped, RaiseDispute, Dispute
<1> QED
  BY <1>2, <1>3, <1>5 DEF NetTyped, RaiseDispute, Timestamps

\* A dispute upheld keeps every type.
LEMMA UpholdDisputeType ==
  ASSUME NetTyped, NEW i \in Positions, UpholdDispute(i),
         disputes[i].auditor \in Agents
  PROVE  NetTyped'
<1>1. now \in Nat
  BY DEF NetTyped, Timestamps
<1>2. LogTyped'
  BY ResolveRecordType DEF UpholdDispute, NetTyped
<1>3. SlashAmount \in Nat
  BY ResolverConstants DEF SlashAmount
<1>4. StakesTyped'
  BY <1>1, <1>3, SlashType DEF UpholdDispute, NetTyped
<1>5. /\ disputes' \in [Positions -> Dispute]
      /\ verdict' \in [Positions -> {"none", "cleared", "fraud"}]
  BY DEF NetTyped, UpholdDispute, Dispute
<1>6. disputes[i].bond \in Nat
  BY DEF NetTyped, Dispute
<1>7. FundsAfterSlash \in Int
  BY <1>3 DEF NetTyped, FundsAfterSlash
<1>8. resolverBalance' \in Int
  BY <1>6, <1>7, ResolverConstants DEF UpholdDispute, Reward
<1>9. tainted' \subseteq Positions
  <2>1. tainted' = tainted \cup RecordsOf(disputes[i].auditor)
    BY DEF UpholdDispute
  <2>2. RecordsOf(disputes[i].auditor) \subseteq 1 .. Len(audits)
    BY DEF RecordsOf
  <2>3. 1 .. Len(audits) \subseteq Positions
    BY AuditConstants DEF NetTyped, LogTyped, Positions
  <2> QED
    BY <2>1, <2>2, <2>3 DEF NetTyped
<1> QED
  BY <1>2, <1>4, <1>5, <1>8, <1>9 DEF NetTyped, UpholdDispute, Timestamps

\* A dispute rejected keeps every type.
LEMMA RejectDisputeType ==
  ASSUME NetTyped, NEW i \in Positions, RejectDispute(i),
         disputes[i].auditor \in Agents
  PROVE  NetTyped'
<1>2. LogTyped'
  BY ResolveRecordType DEF RejectDispute, NetTyped
<1>3. StakesTyped'
  BY ResolverConstants, AddReputationType DEF RejectDispute, NetTyped
<1>4. /\ disputes' \in [Positions -> Dispute]
      /\ verdict' \in [Positions -> {"none", "cleared", "fraud"}]
  BY DEF NetTyped, RejectDispute, Dispute
<1>5. disputes[i].bond \in Nat
  BY DEF NetTyped, Dispute
<1>6. resolverBalance' \in Int
  BY <1>5 DEF NetTyped, RejectDispute
<1> QED
  BY <1>2, <1>3, <1>4, <1>6 DEF NetTyped, RejectDispute, Timestamps

----------------------------------------------------------------------------
(* Disputes and records agree *)

\* What a dispute, its record and its verdict say of each other at position i.
Linked(i) ==
  /\ Exists(i) => /\ i \in 1 .. Len(audits)
                  /\ disputes[i].auditor = audits[i].auditor
                  /\ disputes[i].bond = DisputeBond
  /\ IsOpen(i) => audits[i].disputed /\ verdict[i] = "none"
  /\ verdict[i] # "none" => Exists(i) /\ disputes[i].resolved
  /\ verdict[i] = "fraud" => audits[i].disputed

DisputesLinked == \A i \in Positions : Linked(i)

\* The two together are inductive.
LinkInv == NetTyped /\ DisputesLinked

\* Initially no dispute exists.
LEMMA InitLinked == Init => DisputesLinked
BY DEF Init, ResolverInit, NoDispute, DisputesLinked, Linked, Exists, IsOpen

\* Setting the flag of record i changes nothing else of any record.
LEMMA FlagFacts ==
  ASSUME LogTyped, NEW i \in 1 .. Len(audits), NEW f \in BOOLEAN,
         NEW j \in 1 .. Len(audits)
  PROVE  LET log == [audits EXCEPT ![i].disputed = f]
         IN  /\ log[j].auditor = audits[j].auditor
             /\ log[j].timestamp = audits[j].timestamp
             /\ log[j].disputed = IF j = i THEN f ELSE audits[j].disputed
<1>1. audits[j] \in AuditRecord
  BY RecordType
<1> QED
  BY <1>1 DEF LogTyped, AuditRecord

\* Appending a record leaves the others in place.
LEMMA SubmitFacts ==
  ASSUME LogTyped, now \in Nat, NEW a \in Agents, SubmitAudit(a)
  PROVE  /\ Len(audits') = Len(audits) + 1
         /\ \A j \in 1 .. Len(audits) : audits'[j] = audits[j]
         /\ audits'[Len(audits) + 1] =
              [auditor |-> a, timestamp |-> now, disputed |-> FALSE]
         /\ IsAgentActive(a)
<1>1. [auditor |-> a, timestamp |-> now, disputed |-> FALSE] \in AuditRecord
  BY DEF AuditRecord
<1> QED
  BY <1>1 DEF LogTyped, SubmitAudit

\* Submitting a record keeps disputes and records in agreement.
LEMMA SubmitLinked ==
  ASSUME LinkInv, NEW a \in Agents, SubmitAudit(a), UNCHANGED resolverVars
  PROVE  DisputesLinked'
<1>1. LogTyped /\ now \in Nat
  BY DEF LinkInv, NetTyped, Timestamps
<1>2. Len(audits') = Len(audits) + 1
  BY <1>1, SubmitFacts
<1>a. Len(audits) \in Nat
  BY <1>1 DEF LogTyped
<1>3. disputes' = disputes /\ verdict' = verdict
  BY DEF resolverVars
<1>4. ASSUME NEW i \in Positions PROVE Linked(i)'
  <2>1. Linked(i)
    BY DEF LinkInv, DisputesLinked
  <2>2. CASE i \in 1 .. Len(audits)
    <3>1. audits'[i] = audits[i]
      BY <1>1, <2>2, SubmitFacts
    <3> QED
      BY <1>2, <1>a, <1>3, <2>1, <2>2, <3>1 DEF Linked, Exists, IsOpen
  <2>3. CASE i \notin 1 .. Len(audits)
    BY <1>3, <2>1, <2>3 DEF Linked, Exists, IsOpen
  <2> QED
    BY <2>2, <2>3
<1> QED
  BY <1>4 DEF DisputesLinked

\* Steps that leave records, disputes and verdicts alone keep the agreement.
LEMMA QuietLinked ==
  ASSUME DisputesLinked, audits' = audits, disputes' = disputes, verdict' = verdict
  PROVE  DisputesLinked'
BY DEF DisputesLinked, Linked, Exists, IsOpen

\* Flagging a record keeps the agreement.
LEMMA DisputeLinked ==
  ASSUME LinkInv, NEW i \in Positions, DisputeAudit(i), UNCHANGED resolverVars
  PROVE  DisputesLinked'
<1>1. /\ LogTyped
      /\ i \in 1 .. Len(audits)
      /\ audits' = [audits EXCEPT ![i].disputed = TRUE]
      /\ Len(audits') = Len(audits)
  BY FlagType DEF LinkInv, NetTyped, DisputeAudit
<1>2. disputes' = disputes /\ verdict' = verdict
  BY DEF resolverVars
<1>3. ASSUME NEW j \in Positions PROVE Linked(j)'
  <2>1. Linked(j)
    BY DEF LinkInv, DisputesLinked
  <2>2. CASE j \in 1 .. Len(audits)
    <3>1. /\ audits'[j].auditor = audits[j].auditor
          /\ audits[j].disputed => audits'[j].disputed
      BY <1>1, <2>2, FlagFacts
    <3> QED
      BY <1>1, <1>2, <2>1, <2>2, <3>1 DEF Linked, Exists, IsOpen
  <2>3. CASE j \notin 1 .. Len(audits)
    BY <1>2, <2>1, <2>3 DEF Linked, Exists, IsOpen
  <2> QED
    BY <2>2, <2>3
<1> QED
  BY <1>3 DEF DisputesLinked

\* Raising a dispute with a bond keeps the agreement.
LEMMA RaiseLinked ==
  ASSUME LinkInv, NEW c \in Challengers, NEW i \in Positions, RaiseDispute(c, i)
  PROVE  DisputesLinked'
<1>1. /\ LogTyped
      /\ i \in 1 .. Len(audits)
      /\ audits' = [audits EXCEPT ![i].disputed = TRUE]
      /\ Len(audits') = Len(audits)
  BY FlagType DEF LinkInv, NetTyped, DisputeAudit, RaiseDispute
<1>2. /\ ~Exists(i)
      /\ verdict' = verdict
      /\ disputes' = [disputes EXCEPT ![i] =
           [challenger |-> c, auditor |-> audits[i].auditor,
            bond |-> DisputeBond, resolved |-> FALSE]]
      /\ disputes \in [Positions -> Dispute]
  BY DEF RaiseDispute, LinkInv, NetTyped
<1>3. ASSUME NEW j \in Positions, j # i PROVE Linked(j)'
  <2>1. Linked(j) /\ disputes'[j] = disputes[j]
    BY <1>2, <1>3 DEF LinkInv, DisputesLinked
  <2>2. CASE j \in 1 .. Len(audits)
    <3>1. /\ audits'[j].auditor = audits[j].auditor
          /\ audits[j].disputed => audits'[j].disputed
      BY <1>1, <2>2, FlagFacts
    <3> QED
      BY <1>1, <1>2, <2>1, <2>2, <3>1 DEF Linked, Exists, IsOpen
  <2>3. CASE j \notin 1 .. Len(audits)
    BY <1>2, <2>1, <2>3 DEF Linked, Exists, IsOpen
  <2> QED
    BY <2>2, <2>3
<1>4. Linked(i)'
  <2>1. verdict[i] = "none"
    BY <1>2 DEF LinkInv, DisputesLinked, Linked
  <2>2. audits'[i].disputed /\ audits'[i].auditor = audits[i].auditor
    BY <1>1, FlagFacts
  <2>3. disputes'[i] = [challenger |-> c, auditor |-> audits[i].auditor,
                        bond |-> DisputeBond, resolved |-> FALSE]
    BY <1>2
  <2> QED
    BY <1>1, <1>2, <2>1, <2>2, <2>3 DEF Linked, Exists, IsOpen
<1> QED
  BY <1>3, <1>4 DEF DisputesLinked

\* Upholding a dispute keeps the agreement: its record stays flagged.
LEMMA UpholdLinked ==
  ASSUME LinkInv, NEW i \in Positions, UpholdDispute(i)
  PROVE  DisputesLinked'
<1>1. /\ disputes' = [disputes EXCEPT ![i].resolved = TRUE]
      /\ verdict' = [verdict EXCEPT ![i] = "fraud"]
      /\ IsOpen(i)
  BY DEF UpholdDispute
<1>2. audits' = audits
  BY DEF UpholdDispute, ResolveRecord
<1>3. /\ disputes \in [Positions -> Dispute]
      /\ verdict \in [Positions -> {"none", "cleared", "fraud"}]
  BY DEF LinkInv, NetTyped
<1>4. ASSUME NEW j \in Positions, j # i PROVE Linked(j)'
  <2>1. Linked(j) /\ disputes'[j] = disputes[j] /\ verdict'[j] = verdict[j]
    BY <1>1, <1>3, <1>4 DEF LinkInv, DisputesLinked
  <2> QED
    BY <1>2, <2>1 DEF Linked, Exists, IsOpen
<1>5. Linked(i)'
  <2>1. /\ disputes'[i].challenger = disputes[i].challenger
        /\ disputes'[i].auditor = disputes[i].auditor
        /\ disputes'[i].bond = disputes[i].bond
        /\ disputes'[i].resolved
        /\ verdict'[i] = "fraud"
    BY <1>1, <1>3 DEF Dispute
  <2>2. Linked(i)
    BY DEF LinkInv, DisputesLinked
  <2> QED
    BY <1>1, <1>2, <2>1, <2>2 DEF Linked, Exists, IsOpen
<1> QED
  BY <1>4, <1>5 DEF DisputesLinked

\* Rejecting a dispute restores its record, which no other dispute is about.
LEMMA RejectLinked ==
  ASSUME LinkInv, NEW i \in Positions, RejectDispute(i)
  PROVE  DisputesLinked'
<1>0. verdict[i] = "none"
  BY DEF RejectDispute, LinkInv, DisputesLinked, Linked
<1>1. /\ disputes' = [disputes EXCEPT ![i].resolved = TRUE]
      /\ verdict' = [verdict EXCEPT ![i] = "cleared"]
      /\ IsOpen(i)
  BY <1>0 DEF RejectDispute
<1>2. /\ LogTyped
      /\ i \in 1 .. Len(audits)
      /\ audits' = [audits EXCEPT ![i].disputed = FALSE]
      /\ Len(audits') = Len(audits)
  BY FlagType DEF LinkInv, NetTyped, RejectDispute, ResolveRecord
<1>3. /\ disputes \in [Positions -> Dispute]
      /\ verdict \in [Positions -> {"none", "cleared", "fraud"}]
  BY DEF LinkInv, NetTyped
<1>4. ASSUME NEW j \in Positions, j # i PROVE Linked(j)'
  <2>1. Linked(j) /\ disputes'[j] = disputes[j] /\ verdict'[j] = verdict[j]
    BY <1>1, <1>3, <1>4 DEF LinkInv, DisputesLinked
  <2>2. CASE j \in 1 .. Len(audits)
    <3>1. /\ audits'[j].auditor = audits[j].auditor
          /\ audits[j].disputed => audits'[j].disputed
      BY <1>2, <1>4, <2>2, FlagFacts
    <3> QED
      BY <1>2, <2>1, <2>2, <3>1 DEF Linked, Exists, IsOpen
  <2>3. CASE j \notin 1 .. Len(audits)
    BY <2>1, <2>3 DEF Linked, Exists, IsOpen
  <2> QED
    BY <2>2, <2>3
<1>5. Linked(i)'
  <2>1. /\ disputes'[i].challenger = disputes[i].challenger
        /\ disputes'[i].auditor = disputes[i].auditor
        /\ disputes'[i].bond = disputes[i].bond
        /\ disputes'[i].resolved
        /\ verdict'[i] = "cleared"
    BY <1>1, <1>3 DEF Dispute
  <2>2. Linked(i)
    BY DEF LinkInv, DisputesLinked
  <2>3. audits'[i].auditor = audits[i].auditor
    BY <1>2, FlagFacts
  <2> QED
    BY <1>1, <1>2, <2>1, <2>2, <2>3 DEF Linked, Exists, IsOpen
<1> QED
  BY <1>4, <1>5 DEF DisputesLinked

\* No step breaks a type or the agreement of disputes and records.
LEMMA LinkStep == LinkInv /\ [Next]_vars => LinkInv'
<1> SUFFICES ASSUME LinkInv, [Next]_vars PROVE LinkInv'
  OBVIOUS
<1>0. NetTyped /\ DisputesLinked /\ StakesTyped /\ LogTyped /\ now \in Nat
  BY DEF LinkInv, NetTyped, Timestamps
<1>1. CASE AgentCalls /\ UNCHANGED <<auditVars, resolverVars, now>>
  <2> PICK a \in Agents : \/ \E v \in Deposits : Register(a, v)
                          \/ Deregister(a)
                          \/ WithdrawStake(a)
    BY <1>1 DEF AgentCalls
  <2>1. StakesTyped'
    BY <1>0, RegisterType, DeregisterType, WithdrawStakeType
  <2> QED
    BY <1>0, <1>1, <2>1, QuietLinked
    DEF LinkInv, NetTyped, LogTyped, auditVars, resolverVars
<1>2. CASE GrantResolverRole /\ UNCHANGED <<auditVars, resolverVars, now>>
  <2>1. StakesTyped' /\ LogTyped'
    BY <1>0, <1>2 DEF GrantResolverRole, StakesTyped, LogTyped, auditVars
  <2> QED
    BY <1>0, <1>2, <2>1, QuietLinked DEF LinkInv, NetTyped, auditVars, resolverVars
<1>3. CASE SetDisputeResolver /\ UNCHANGED <<agentVars, resolverVars, now>>
  <2>1. StakesTyped' /\ LogTyped'
    BY <1>0, <1>3 DEF SetDisputeResolver, StakesTyped, LogTyped, agentVars
  <2> QED
    BY <1>0, <1>3, <2>1, QuietLinked
    DEF LinkInv, NetTyped, SetDisputeResolver, resolverVars
<1>4. ASSUME NEW a \in Agents,
             SubmitAudit(a) /\ UNCHANGED <<agentVars, resolverVars, now>>
      PROVE  LinkInv'
  <2>1. LogTyped' /\ StakesTyped'
    BY <1>0, <1>4, SubmitAuditType DEF StakesTyped, agentVars
  <2>2. DisputesLinked'
    BY <1>4, SubmitLinked
  <2> QED
    BY <1>0, <1>4, <2>1, <2>2 DEF LinkInv, NetTyped, resolverVars
<1>5. ASSUME NEW i \in Positions,
             DisputeAudit(i) /\ UNCHANGED <<agentVars, resolverVars, now>>
      PROVE  LinkInv'
  <2>1. LogTyped' /\ StakesTyped'
    BY <1>0, <1>5, DisputeAuditType DEF StakesTyped, agentVars
  <2>2. DisputesLinked'
    BY <1>5, DisputeLinked
  <2> QED
    BY <1>0, <1>5, <2>1, <2>2 DEF LinkInv, NetTyped, resolverVars
<1>6. ASSUME NEW c \in Challengers, NEW i \in Positions, RaiseDispute(c, i)
      PROVE  LinkInv'
  BY <1>0, <1>6, RaiseDisputeType, RaiseLinked DEF LinkInv
<1>7. ASSUME NEW i \in Positions, IsOpen(i) PROVE disputes[i].auditor \in Agents
  <2>1. i \in 1 .. Len(audits) /\ disputes[i].auditor = audits[i].auditor
    BY <1>0, <1>7 DEF DisputesLinked, Linked, IsOpen
  <2> QED
    BY <1>0, <2>1, RecordType
<1>8. ASSUME NEW i \in Positions, UpholdDispute(i) PROVE LinkInv'
  <2>1. disputes[i].auditor \in Agents
    BY <1>7, <1>8 DEF UpholdDispute
  <2> QED
    BY <1>0, <1>8, <2>1, UpholdDisputeType, UpholdLinked DEF LinkInv
<1>9. ASSUME NEW i \in Positions, RejectDispute(i) PROVE LinkInv'
  <2>1. disputes[i].auditor \in Agents
    BY <1>7, <1>9 DEF RejectDispute
  <2> QED
    BY <1>0, <1>9, <2>1, RejectDisputeType, RejectLinked DEF LinkInv
<1>10. ASSUME NEW v \in Donations, Receive(v) PROVE LinkInv'
  <2>1. resolverBalance' \in Int
    BY <1>0, <1>10, ResolverConstants DEF NetTyped, Receive
  <2>2. StakesTyped' /\ LogTyped'
    BY <1>0, <1>10 DEF Receive, StakesTyped, LogTyped, agentVars, auditVars
  <2> QED
    BY <1>0, <1>10, <2>1, <2>2, QuietLinked DEF LinkInv, NetTyped, Receive, auditVars
<1>11. CASE Advance /\ UNCHANGED <<agentVars, auditVars, resolverVars>>
  <2>1. now' \in Timestamps
    BY <1>0, <1>11, MaxTimeAssumption DEF Advance, NetTyped, Timestamps
  <2>2. StakesTyped' /\ LogTyped'
    BY <1>0, <1>11 DEF StakesTyped, LogTyped, agentVars, auditVars
  <2> QED
    BY <1>0, <1>11, <2>1, <2>2, QuietLinked DEF LinkInv, NetTyped, auditVars, resolverVars
<1>12. CASE UNCHANGED vars
  <2>1. StakesTyped' /\ LogTyped'
    BY <1>0, <1>12 DEF vars, StakesTyped, LogTyped, agentVars, auditVars
  <2> QED
    BY <1>0, <1>12, <2>1, QuietLinked DEF LinkInv, NetTyped, vars, auditVars, resolverVars
<1> QED
  BY <1>1, <1>2, <1>3, <1>4, <1>5, <1>6, <1>8, <1>9, <1>10, <1>11, <1>12 DEF Next

\* The inductive invariant holds of every behaviour.
LEMMA LinkCorrect == Spec => []LinkInv
<1>1. Init => LinkInv
  BY InitTypeOK, InitLinked DEF LinkInv, NetTyped, TypeOK, AgentTypeOK, AuditTypeOK
<1> QED
  BY <1>1, LinkStep, PTL DEF Spec

\* Every variable of the three contracts keeps its type.
THEOREM TypeCorrect == Spec => []TypeOK
<1> DEFINE Flags == roleGranted \in BOOLEAN /\ disputeResolverSet \in BOOLEAN
<1>1. Init => Flags
  BY DEF Init, AgentInit, AuditInit
<1>2. Flags /\ [Next]_vars => Flags'
  <2> SUFFICES ASSUME Flags, [Next]_vars PROVE Flags'
    OBVIOUS
  <2>1. roleGranted' = roleGranted \/ roleGranted' = TRUE
    BY DEF Next, vars, agentVars, auditVars, AgentCalls, Register, Deregister,
           WithdrawStake, GrantResolverRole, RaiseDispute, UpholdDispute,
           RejectDispute, Slash, AddReputation, Receive
  <2>2. disputeResolverSet' = disputeResolverSet \/ disputeResolverSet' = TRUE
    BY DEF Next, vars, agentVars, auditVars, SetDisputeResolver, SubmitAudit,
           DisputeAudit, ResolveRecord, RaiseDispute, UpholdDispute,
           RejectDispute, Receive
  <2> QED
    BY <2>1, <2>2
<1>3. LinkInv /\ Flags => TypeOK
  BY DEF LinkInv, NetTyped, TypeOK, AgentTypeOK, AuditTypeOK
<1> QED
  BY <1>1, <1>2, <1>3, LinkCorrect, PTL DEF Spec

\* A record proven fraudulent stays flagged for ever.
THEOREM FraudFlagged == Spec => []FraudStaysFlagged
<1>1. LinkInv => FraudStaysFlagged
  <2> SUFFICES ASSUME LinkInv, NEW i \in Positions, verdict[i] = "fraud"
               PROVE  i <= Len(audits) /\ audits[i].disputed
    BY DEF FraudStaysFlagged
  <2>1. Linked(i)
    BY DEF LinkInv, DisputesLinked
  <2> QED
    BY <2>1 DEF Linked
<1> QED
  BY <1>1, LinkCorrect, PTL

\* A dispute names its record's auditor, and an open one freezes the record.
THEOREM DisputesMatch == Spec => []OpenDisputeMatchesRecord
<1>1. LinkInv => OpenDisputeMatchesRecord
  <2> SUFFICES ASSUME LinkInv, NEW i \in Positions, Exists(i)
               PROVE  /\ i <= Len(audits)
                      /\ disputes[i].auditor = audits[i].auditor
                      /\ IsOpen(i) => audits[i].disputed
    BY DEF OpenDisputeMatchesRecord
  <2>1. Linked(i)
    BY DEF LinkInv, DisputesLinked
  <2> QED
    BY <2>1 DEF Linked
<1> QED
  BY <1>1, LinkCorrect, PTL

----------------------------------------------------------------------------
(* Stake behind records that can be challenged *)

\* The auditor of record i has its stake, and if it left, it may take it back
\* a full delay after the submission at the earliest; or the window is over,
\* or a verdict slashed it since.
Backed(i) ==
  LET a == audits[i].auditor
      t == audits[i].timestamp
  IN  \/ i \in tainted
      \/ now > t + ChallengeWindow
      \/ /\ agents[a].stake >= StakeAmount
         /\ ~agents[a].active => withdrawalUnlockTime[a] >= t + WithdrawalDelay

AllBacked == \A i \in 1 .. Len(audits) : audits[i].timestamp <= now /\ Backed(i)

\* Steps that keep the log, the clock and the stakes keep the records backed.
LEMMA QuietBacked ==
  ASSUME AllBacked, agents' = agents, audits' = audits, now' = now,
         withdrawalUnlockTime' = withdrawalUnlockTime, tainted' = tainted
  PROVE  AllBacked'
BY DEF AllBacked, Backed

\* An agent that calls its registry leaves its open records backed: it can
\* take its stake only after every window that was open when it left.
LEMMA AgentCallsBacked ==
  ASSUME LinkInv, AllBacked, AgentCalls, UNCHANGED <<auditVars, resolverVars, now>>
  PROVE  AllBacked'
<1> PICK a \in Agents : \/ \E v \in Deposits : Register(a, v)
                        \/ Deregister(a)
                        \/ WithdrawStake(a)
  BY DEF AgentCalls
<1>1. /\ StakesTyped /\ LogTyped /\ now \in Nat
      /\ audits' = audits /\ tainted' = tainted /\ now' = now
  BY DEF LinkInv, NetTyped, Timestamps, auditVars, resolverVars
<1>2. SUFFICES ASSUME NEW i \in 1 .. Len(audits) PROVE Backed(i)'
  BY <1>1 DEF AllBacked
<1>3. /\ audits[i].timestamp \in Nat /\ audits[i].auditor \in Agents
      /\ audits[i].timestamp <= now /\ Backed(i)
  BY <1>1, RecordType DEF AllBacked
<1> DEFINE b == audits[i].auditor
<1>4. ASSUME NEW v \in Deposits, Register(a, v) PROVE Backed(i)'
  <2>1. /\ withdrawalUnlockTime' = withdrawalUnlockTime
        /\ b # a => agents'[b] = agents[b]
        /\ agents'[a].active /\ agents'[a].stake = agents[a].stake + v
    BY <1>1, <1>3, <1>4 DEF Register, StakesTyped
  <2>2. agents[a].stake \in Nat /\ v \in Nat /\ v >= StakeAmount /\ StakeAmount \in Nat
    BY <1>1, <1>4, AgentConstants DEF Register, StakesTyped
  <2>3. CASE a = b
    <3>1. agents'[b].stake >= StakeAmount /\ agents'[b].active
      BY <2>1, <2>2, <2>3
    <3> QED
      BY <1>1, <3>1 DEF Backed
  <2>4. CASE a # b
    BY <1>1, <1>3, <2>1, <2>4 DEF Backed
  <2> QED
    BY <2>3, <2>4
<1>5. CASE Deregister(a)
  <2>1. CASE a = b
    <3>1. /\ agents[b].active /\ agents'[b].stake = agents[b].stake
          /\ withdrawalUnlockTime'[b] = now + WithdrawalDelay
      BY <1>1, <1>3, <1>5, <2>1 DEF Deregister, StakesTyped
    <3> QED
      BY <1>1, <1>3, <3>1, AgentConstants DEF Backed
  <2>2. CASE a # b
    <3>1. /\ agents'[b] = agents[b]
          /\ withdrawalUnlockTime'[b] = withdrawalUnlockTime[b]
      BY <1>1, <1>3, <1>5, <2>2 DEF Deregister, StakesTyped
    <3> QED
      BY <1>1, <1>3, <3>1 DEF Backed
  <2> QED
    BY <2>1, <2>2
<1>6. CASE WithdrawStake(a)
  <2>1. CASE a = b
    <3>1. /\ ~agents[b].active
          /\ now >= withdrawalUnlockTime[b]
          /\ withdrawalUnlockTime[b] \in Nat
      BY <1>1, <1>3, <1>6, <2>1 DEF WithdrawStake, StakesTyped
    <3>2. i \in tainted \/ now > audits[i].timestamp + ChallengeWindow
      BY <1>1, <1>3, <3>1, AgentConstants, AuditConstants, WindowEndsBeforeDelay
      DEF Backed
    <3> QED
      BY <1>1, <3>2 DEF Backed
  <2>2. CASE a # b
    <3>1. /\ agents'[b] = agents[b]
          /\ withdrawalUnlockTime'[b] = withdrawalUnlockTime[b]
      BY <1>1, <1>3, <1>6, <2>2 DEF WithdrawStake, StakesTyped
    <3> QED
      BY <1>1, <1>3, <3>1 DEF Backed
  <2> QED
    BY <2>1, <2>2
<1> QED
  BY <1>4, <1>5, <1>6

\* A flag set or cleared leaves every record backed as it was.
LEMMA FlagBacked ==
  ASSUME LinkInv, AllBacked, NEW i \in 1 .. Len(audits), NEW f \in BOOLEAN,
         audits' = [audits EXCEPT ![i].disputed = f], now' = now,
         \A a \in Agents : /\ agents'[a].stake = agents[a].stake
                           /\ agents'[a].active = agents[a].active,
         withdrawalUnlockTime' = withdrawalUnlockTime, tainted' = tainted
  PROVE  AllBacked'
<1>1. LogTyped
  BY DEF LinkInv, NetTyped
<1>2. Len(audits') = Len(audits)
  BY <1>1, FlagType
<1>3. ASSUME NEW j \in 1 .. Len(audits)
      PROVE  audits'[j].timestamp <= now' /\ Backed(j)'
  <2>1. /\ audits'[j].auditor = audits[j].auditor
        /\ audits'[j].timestamp = audits[j].timestamp
    BY <1>1, FlagFacts
  <2>2. audits[j].auditor \in Agents
    BY <1>1, RecordType
  <2>3. audits[j].timestamp <= now /\ Backed(j)
    BY DEF AllBacked
  <2> QED
    BY <2>1, <2>2, <2>3 DEF Backed
<1> QED
  BY <1>2, <1>3 DEF AllBacked

\* A new record is backed by the agent that may submit it.
LEMMA SubmitBacked ==
  ASSUME LinkInv, AllBacked, NEW a \in Agents, SubmitAudit(a),
         UNCHANGED <<agentVars, resolverVars, now>>
  PROVE  AllBacked'
<1>1. /\ LogTyped /\ now \in Nat /\ Len(audits) \in Nat
      /\ now' = now /\ agents' = agents /\ tainted' = tainted
      /\ withdrawalUnlockTime' = withdrawalUnlockTime
  BY DEF LinkInv, NetTyped, Timestamps, LogTyped, agentVars, resolverVars
<1>2. /\ Len(audits') = Len(audits) + 1
      /\ \A j \in 1 .. Len(audits) : audits'[j] = audits[j]
      /\ audits'[Len(audits) + 1] =
           [auditor |-> a, timestamp |-> now, disputed |-> FALSE]
      /\ IsAgentActive(a)
  BY <1>1, SubmitFacts
<1>3. ASSUME NEW j \in 1 .. Len(audits)
      PROVE  audits'[j].timestamp <= now' /\ Backed(j)'
  BY <1>1, <1>2 DEF AllBacked, Backed
<1>4. ASSUME NEW n \in Nat, n = Len(audits) + 1
      PROVE  audits'[n].timestamp <= now' /\ Backed(n)'
  <2>1. audits'[n] = [auditor |-> a, timestamp |-> now, disputed |-> FALSE]
    BY <1>2, <1>4
  <2> QED
    BY <1>1, <1>2, <2>1 DEF Backed, IsAgentActive
<1>5. ASSUME NEW j \in 1 .. Len(audits')
      PROVE  audits'[j].timestamp <= now' /\ Backed(j)'
  <2>1. j \in 1 .. Len(audits) \/ j = Len(audits) + 1
    BY <1>1, <1>2
  <2> QED
    BY <1>1, <1>3, <1>4, <2>1
<1> QED
  BY <1>5 DEF AllBacked

\* A verdict takes stake from one agent, and taints its records.
LEMMA UpholdBacked ==
  ASSUME LinkInv, AllBacked, NEW i \in Positions, UpholdDispute(i)
  PROVE  AllBacked'
<1> DEFINE s == disputes[i].auditor
<1>1. /\ audits' = audits /\ now' = now
      /\ tainted' = tainted \cup RecordsOf(s)
      /\ withdrawalUnlockTime' = withdrawalUnlockTime
      /\ agents' = [agents EXCEPT ![s] = Slashed(@, SlashAmount)]
      /\ LogTyped /\ StakesTyped
  BY DEF LinkInv, NetTyped, UpholdDispute, ResolveRecord, Slash
<1>2. ASSUME NEW j \in 1 .. Len(audits) PROVE Backed(j)'
  <2>1. audits[j].auditor \in Agents /\ Backed(j)
    BY <1>1, RecordType DEF AllBacked
  <2>2. CASE audits[j].auditor = s
    BY <1>1, <2>2 DEF RecordsOf, Backed
  <2>3. CASE audits[j].auditor # s
    <3>1. agents'[audits[j].auditor] = agents[audits[j].auditor]
      BY <1>1, <2>1, <2>3 DEF StakesTyped
    <3> QED
      BY <1>1, <2>1, <3>1 DEF Backed
  <2> QED
    BY <2>2, <2>3
<1> QED
  BY <1>1, <1>2 DEF AllBacked

\* The clock only closes windows.
LEMMA AdvanceBacked ==
  ASSUME LinkInv, AllBacked, Advance,
         UNCHANGED <<agentVars, auditVars, resolverVars>>
  PROVE  AllBacked'
<1>1. /\ LogTyped /\ now \in Nat /\ now' = now + 1
      /\ audits' = audits /\ agents' = agents /\ tainted' = tainted
      /\ withdrawalUnlockTime' = withdrawalUnlockTime
  BY DEF LinkInv, NetTyped, Timestamps, Advance, agentVars, auditVars, resolverVars
<1>2. ASSUME NEW j \in 1 .. Len(audits)
      PROVE  audits'[j].timestamp <= now' /\ Backed(j)'
  BY <1>1, RecordType, AuditConstants DEF AllBacked, Backed
<1> QED
  BY <1>1, <1>2 DEF AllBacked

\* No step leaves an open record without stake.
LEMMA BackedStep == LinkInv /\ AllBacked /\ [Next]_vars => AllBacked'
<1> SUFFICES ASSUME LinkInv, AllBacked, [Next]_vars PROVE AllBacked'
  OBVIOUS
<1>1. CASE AgentCalls /\ UNCHANGED <<auditVars, resolverVars, now>>
  BY <1>1, AgentCallsBacked
<1>2. CASE GrantResolverRole /\ UNCHANGED <<auditVars, resolverVars, now>>
  BY <1>2, QuietBacked DEF GrantResolverRole, auditVars, resolverVars
<1>3. CASE SetDisputeResolver /\ UNCHANGED <<agentVars, resolverVars, now>>
  BY <1>3, QuietBacked DEF SetDisputeResolver, agentVars, resolverVars
<1>4. ASSUME NEW a \in Agents,
             SubmitAudit(a) /\ UNCHANGED <<agentVars, resolverVars, now>>
      PROVE  AllBacked'
  BY <1>4, SubmitBacked
<1>5. ASSUME NEW i \in Positions,
             DisputeAudit(i) /\ UNCHANGED <<agentVars, resolverVars, now>>
      PROVE  AllBacked'
  BY <1>5, FlagBacked DEF DisputeAudit, agentVars, resolverVars
<1>6. ASSUME NEW c \in Challengers, NEW i \in Positions, RaiseDispute(c, i)
      PROVE  AllBacked'
  BY <1>6, FlagBacked DEF RaiseDispute, DisputeAudit, agentVars
<1>7. ASSUME NEW i \in Positions, UpholdDispute(i) PROVE AllBacked'
  BY <1>7, UpholdBacked
<1>8. ASSUME NEW i \in Positions, RejectDispute(i) PROVE AllBacked'
  <2>1. /\ agents' = [agents EXCEPT ![disputes[i].auditor].reputation =
                        agents[disputes[i].auditor].reputation + AuditorBonus]
        /\ withdrawalUnlockTime' = withdrawalUnlockTime
        /\ StakesTyped
    BY <1>8 DEF RejectDispute, AddReputation, LinkInv, NetTyped
  <2>2. \A a \in Agents : /\ agents'[a].stake = agents[a].stake
                          /\ agents'[a].active = agents[a].active
    BY <2>1 DEF StakesTyped
  <2>3. /\ i \in 1 .. Len(audits) /\ now' = now /\ tainted' = tainted
        /\ audits' = [audits EXCEPT ![i].disputed = FALSE]
    BY <1>8 DEF RejectDispute, ResolveRecord
  <2> QED
    BY <2>1, <2>2, <2>3, FlagBacked
<1>9. ASSUME NEW v \in Donations, Receive(v) PROVE AllBacked'
  BY <1>9, QuietBacked DEF Receive, agentVars, auditVars
<1>10. CASE Advance /\ UNCHANGED <<agentVars, auditVars, resolverVars>>
  BY <1>10, AdvanceBacked
<1>11. CASE UNCHANGED vars
  BY <1>11, QuietBacked DEF vars, agentVars, auditVars, resolverVars
<1> QED
  BY <1>1, <1>2, <1>3, <1>4, <1>5, <1>6, <1>7, <1>8, <1>9, <1>10, <1>11 DEF Next

\* While its challenge window is open, a record's auditor has its whole stake
\* in the registry unless another verdict took it.
THEOREM WindowBacked == Spec => []OpenWindowBacked
<1>1. Init => AllBacked
  BY DEF Init, AuditInit, AllBacked
<1>2. LinkInv /\ AllBacked => OpenWindowBacked
  <2> SUFFICES ASSUME LinkInv, AllBacked, NEW i \in 1 .. Len(audits),
                      InWindow(audits[i]), i \notin tainted
               PROVE  agents[audits[i].auditor].stake >= StakeAmount
    BY DEF OpenWindowBacked
  <2>1. Backed(i) /\ now \in Nat
    BY DEF AllBacked, LinkInv, NetTyped, Timestamps
  <2>2. audits[i].timestamp \in Nat
    BY RecordType DEF LinkInv, NetTyped
  <2> QED
    BY <2>1, <2>2, AuditConstants DEF Backed, InWindow
<1> QED
  BY <1>1, <1>2, LinkCorrect, BackedStep, PTL DEF Spec

----------------------------------------------------------------------------
(* Counting verdicts and bonds *)

\* The positions form a finite set, and so does every set of them.
LEMMA PositionsFinite ==
  ASSUME NEW S \in SUBSET Positions
  PROVE  IsFiniteSet(S) /\ Cardinality(S) \in Nat
<1>1. IsFiniteSet(Positions)
  BY AuditConstants, FS_Interval DEF Positions
<1>2. IsFiniteSet(S)
  BY <1>1, FS_Subset
<1> QED
  BY <1>2, FS_CardinalityType

\* Only a dispute upheld sends Ether to the treasury or adds a fraud.
LEMMA QuietTreasury ==
  ASSUME [Next]_vars, \A i \in Positions : ~UpholdDispute(i), LinkInv
  PROVE  treasuryReceived' = treasuryReceived /\ Frauds' = Frauds
<1>1. CASE \E i \in Positions : RejectDispute(i)
  <2> PICK i \in Positions : RejectDispute(i)
    BY <1>1
  <2>1. /\ verdict' = [verdict EXCEPT ![i] = "cleared"]
        /\ verdict[i] = "none"
        /\ treasuryReceived' = treasuryReceived
    BY DEF RejectDispute, AddReputation, LinkInv, DisputesLinked, Linked
  <2>2. \A j \in Positions : verdict'[j] = "fraud" <=> verdict[j] = "fraud"
    BY <2>1 DEF LinkInv, NetTyped
  <2> QED
    BY <2>1, <2>2 DEF Frauds
<1>2. CASE ~ \E i \in Positions : RejectDispute(i)
  <2>1. treasuryReceived' = treasuryReceived /\ verdict' = verdict
    BY <1>2 DEF Next, vars, agentVars, resolverVars, AgentCalls, Register,
                Deregister, WithdrawStake, GrantResolverRole, RaiseDispute, Receive
  <2> QED
    BY <2>1 DEF Frauds
<1> QED
  BY <1>1, <1>2

\* The treasury has received one SlashAmount per record proven fraudulent.
THEOREM SlashedOnce == Spec => []OneSlashPerFraud
<1>1. Init => OneSlashPerFraud
  <2> SUFFICES ASSUME Init PROVE OneSlashPerFraud
    OBVIOUS
  <2>1. Frauds = {} /\ treasuryReceived = 0
    BY DEF Init, AgentInit, ResolverInit, Frauds
  <2> QED
    BY <2>1, FS_EmptySet, ResolverConstants DEF OneSlashPerFraud, SlashAmount
<1>2. LinkInv /\ OneSlashPerFraud /\ [Next]_vars => OneSlashPerFraud'
  <2> SUFFICES ASSUME LinkInv, OneSlashPerFraud, [Next]_vars
               PROVE  OneSlashPerFraud'
    OBVIOUS
  <2>1. ASSUME NEW i \in Positions, UpholdDispute(i) PROVE OneSlashPerFraud'
    <3>1. /\ verdict' = [verdict EXCEPT ![i] = "fraud"]
          /\ verdict[i] = "none"
          /\ treasuryReceived' = treasuryReceived + SlashAmount
      BY <2>1 DEF UpholdDispute, Slash, LinkInv, DisputesLinked, Linked
    <3>2. Frauds' = Frauds \cup {i} /\ i \notin Frauds
      BY <3>1 DEF Frauds, LinkInv, NetTyped
    <3>3. IsFiniteSet(Frauds) /\ Cardinality(Frauds) \in Nat
      BY PositionsFinite DEF Frauds
    <3>4. Cardinality(Frauds') = Cardinality(Frauds) + 1
      BY <3>2, <3>3, FS_AddElement
    <3>5. SlashAmount * (Cardinality(Frauds) + 1)
            = SlashAmount * Cardinality(Frauds) + SlashAmount
      BY <3>3, ResolverConstants DEF SlashAmount
    <3>6. OneSlashPerFraud' <=> treasuryReceived' = SlashAmount * Cardinality(Frauds')
      BY DEF OneSlashPerFraud, SlashAmount
    <3> QED
      BY <3>1, <3>4, <3>5, <3>6 DEF OneSlashPerFraud
  <2>2. CASE \A i \in Positions : ~UpholdDispute(i)
    BY <2>2, QuietTreasury DEF OneSlashPerFraud, SlashAmount
  <2> QED
    BY <2>1, <2>2
<1> QED
  BY <1>1, <1>2, LinkCorrect, PTL DEF Spec

\* What n bonds and one more amount to.
LEMMA BondSum ==
  ASSUME NEW n \in Nat
  PROVE  /\ DisputeBond * n \in Nat
         /\ DisputeBond * (n + 1) = DisputeBond * n + DisputeBond
BY ResolverConstants

\* The Ether of the resolver covers the open bonds.
Covered == resolverBalance >= DisputeBond * Cardinality(OpenDisputes)

\* Raising a dispute adds a bond with the dispute.
LEMMA RaiseCovered ==
  ASSUME LinkInv, Covered, NEW c \in Challengers, NEW i \in Positions,
         RaiseDispute(c, i)
  PROVE  Covered'
<1>1. /\ disputes' = [disputes EXCEPT ![i] =
           [challenger |-> c, auditor |-> audits[i].auditor,
            bond |-> DisputeBond, resolved |-> FALSE]]
      /\ resolverBalance' = resolverBalance + DisputeBond
      /\ ~Exists(i)
      /\ disputes \in [Positions -> Dispute]
      /\ resolverBalance \in Int
  BY DEF RaiseDispute, LinkInv, NetTyped
<1>2. /\ \A j \in Positions \ {i} : IsOpen(j)' <=> IsOpen(j)
      /\ IsOpen(i)' /\ ~IsOpen(i)
  BY <1>1, ResolverConstants DEF IsOpen, Exists
<1>3. OpenDisputes' = OpenDisputes \cup {i} /\ i \notin OpenDisputes
  BY <1>2 DEF OpenDisputes
<1>4. IsFiniteSet(OpenDisputes) /\ Cardinality(OpenDisputes) \in Nat
  BY PositionsFinite DEF OpenDisputes
<1>5. Cardinality(OpenDisputes') = Cardinality(OpenDisputes) + 1
  BY <1>3, <1>4, FS_AddElement
<1> QED
  BY <1>1, <1>4, <1>5, BondSum, ResolverConstants DEF Covered

\* Resolving a dispute closes it, whichever way.
LEMMA ResolveOpen ==
  ASSUME LinkInv, NEW i \in Positions, IsOpen(i),
         disputes' = [disputes EXCEPT ![i].resolved = TRUE]
  PROVE  /\ Cardinality(OpenDisputes) = Cardinality(OpenDisputes') + 1
         /\ Cardinality(OpenDisputes') \in Nat
<1>1. disputes \in [Positions -> Dispute]
  BY DEF LinkInv, NetTyped
<1>2. /\ \A j \in Positions \ {i} : IsOpen(j)' <=> IsOpen(j)
      /\ ~IsOpen(i)'
  BY <1>1 DEF IsOpen, Exists, Dispute
<1>3. OpenDisputes' = OpenDisputes \ {i} /\ i \in OpenDisputes
  BY <1>2 DEF OpenDisputes
<1>4. /\ IsFiniteSet(OpenDisputes) /\ Cardinality(OpenDisputes) \in Nat
      /\ IsFiniteSet(OpenDisputes \ {i}) /\ Cardinality(OpenDisputes \ {i}) \in Nat
  BY PositionsFinite DEF OpenDisputes
<1>5. Cardinality(OpenDisputes \ {i}) = Cardinality(OpenDisputes) - 1
  BY <1>3, <1>4, FS_RemoveElement
<1> QED
  BY <1>3, <1>4, <1>5

\* With the slash in its balance the resolver pays the reward and keeps the
\* bonds of the others.
LEMMA UpholdCovered ==
  ASSUME LinkInv, Covered, TreasuryIsResolver = TRUE,
         NEW i \in Positions, UpholdDispute(i)
  PROVE  Covered'
<1> DEFINE n == Cardinality(OpenDisputes)
           m == Cardinality(OpenDisputes')
<1>1. n = m + 1 /\ m \in Nat
  BY ResolveOpen DEF UpholdDispute
<1>2. FundsAfterSlash = resolverBalance + 2 * DisputeBond
  BY DEF FundsAfterSlash, SlashAmount
<1>3. resolverBalance \in Int /\ DisputeBond \in Nat
  BY ResolverConstants DEF LinkInv, NetTyped
<1>4. resolverBalance >= DisputeBond * m + DisputeBond
  BY <1>1, BondSum DEF Covered
<1>5. DisputeBond * m \in Nat
  BY <1>1, BondSum
<1>6. FundsAfterSlash >= Reward
  BY <1>2, <1>3, <1>4, <1>5 DEF Reward
<1>7. resolverBalance' = FundsAfterSlash - Reward
  BY <1>6 DEF UpholdDispute
<1> QED
  BY <1>2, <1>3, <1>4, <1>5, <1>7 DEF Covered, Reward

\* A rejected dispute takes back its own bond.
LEMMA RejectCovered ==
  ASSUME LinkInv, Covered, NEW i \in Positions, RejectDispute(i)
  PROVE  Covered'
<1> DEFINE n == Cardinality(OpenDisputes)
           m == Cardinality(OpenDisputes')
<1>1. n = m + 1 /\ m \in Nat
  BY ResolveOpen DEF RejectDispute
<1>2. disputes[i].bond = DisputeBond
  BY DEF RejectDispute, IsOpen, LinkInv, DisputesLinked, Linked
<1>3. /\ resolverBalance \in Int /\ DisputeBond \in Nat
      /\ resolverBalance' = resolverBalance - DisputeBond
  BY <1>2, ResolverConstants DEF LinkInv, NetTyped, RejectDispute
<1>4. resolverBalance >= DisputeBond * m + DisputeBond /\ DisputeBond * m \in Nat
  BY <1>1, BondSum DEF Covered
<1> QED
  BY <1>3, <1>4 DEF Covered

\* Other steps never lower the balance and open or close no dispute.
LEMMA QuietCovered ==
  ASSUME LinkInv, Covered, disputes' = disputes,
         resolverBalance' \in Int, resolverBalance' >= resolverBalance
  PROVE  Covered'
<1>1. OpenDisputes' = OpenDisputes
  BY DEF OpenDisputes, IsOpen, Exists
<1>2. DisputeBond * Cardinality(OpenDisputes) \in Nat
  BY PositionsFinite, BondSum DEF OpenDisputes
<1> QED
  BY <1>1, <1>2 DEF Covered, LinkInv, NetTyped

\* A resolver that is its own treasury can return every open bond.
THEOREM BondsSafe == Spec => []BondsCovered
<1>1. CASE TreasuryIsResolver = TRUE
  <2>1. Init => Covered
    <3> SUFFICES ASSUME Init PROVE Covered
      OBVIOUS
    <3>1. OpenDisputes = {} /\ resolverBalance = 0
      BY DEF Init, ResolverInit, OpenDisputes, IsOpen, Exists, NoDispute
    <3> QED
      BY <3>1, FS_EmptySet, ResolverConstants DEF Covered
  <2>2. LinkInv /\ Covered /\ [Next]_vars => Covered'
    <3> SUFFICES ASSUME LinkInv, Covered, [Next]_vars PROVE Covered'
      OBVIOUS
    <3>1. ASSUME NEW c \in Challengers, NEW i \in Positions, RaiseDispute(c, i)
          PROVE  Covered'
      BY <3>1, RaiseCovered
    <3>2. ASSUME NEW i \in Positions, UpholdDispute(i) PROVE Covered'
      BY <1>1, <3>2, UpholdCovered
    <3>3. ASSUME NEW i \in Positions, RejectDispute(i) PROVE Covered'
      BY <3>3, RejectCovered
    <3>4. ASSUME NEW v \in Donations, Receive(v) PROVE Covered'
      BY <3>4, QuietCovered, ResolverConstants DEF Receive, LinkInv, NetTyped
    <3>5. CASE UNCHANGED resolverVars
      BY <3>5, QuietCovered DEF resolverVars, LinkInv, NetTyped
    <3> QED
      BY <3>1, <3>2, <3>3, <3>4, <3>5 DEF Next, vars
  <2>3. Covered => BondsCovered
    BY DEF Covered, BondsCovered
  <2> QED
    BY <2>1, <2>2, <2>3, LinkCorrect, PTL DEF Spec
<1>2. CASE TreasuryIsResolver = FALSE
  <2>1. BondsCovered
    BY <1>2 DEF BondsCovered
  <2> QED
    BY <2>1, PTL
<1> QED
  BY <1>1, <1>2, ResolverConstants

----------------------------------------------------------------------------
(* The Ether and the delays of AgentRegistry *)

Stakes == [a \in Agents |-> agents[a].stake]

\* What deregister() set is the end of the delay, as long as it is pending.
ExitsTimed ==
  \A a \in Agents :
    (exit[a].by = "deregister" /\ withdrawalUnlockTime[a] # 0)
      => withdrawalUnlockTime[a] = exit[a].at + WithdrawalDelay

\* The three parts of solvency and the delays, inductive together.
SolvencyInv == StakesTyped /\ RegistrySolvent /\ ExitsTimed

\* What an action on agent a must show: the balance moves with a's stake, nothing of any
\* other agent moves, and a itself is fully staked, releasable and timed.
LEMMA AgentMoves ==
  ASSUME SolvencyInv, StakesTyped', NEW a \in Agents,
         \A b \in Agents \ {a} :
           /\ agents'[b] = agents[b]
           /\ withdrawalUnlockTime'[b] = withdrawalUnlockTime[b]
           /\ exit'[b] = exit[b],
         registryBalance' = registryBalance + agents'[a].stake - agents[a].stake,
         agents'[a].active => agents'[a].stake >= StakeAmount,
         (~agents'[a].active /\ agents'[a].stake > 0 /\ withdrawalUnlockTime'[a] = 0)
           => exit'[a].by = "slash",
         (exit'[a].by = "deregister" /\ withdrawalUnlockTime'[a] # 0)
           => withdrawalUnlockTime'[a] = exit'[a].at + WithdrawalDelay
  PROVE  SolvencyInv'
<1>1. /\ IsFiniteSet(Agents)
      /\ Stakes \in [Agents -> Nat] /\ Stakes' \in [Agents -> Nat]
      /\ Stakes[a] = agents[a].stake /\ Stakes'[a] = agents'[a].stake
      /\ \A b \in Agents \ {a} : Stakes'[b] = Stakes[b]
  BY AgentConstants DEF SolvencyInv, StakesTyped, Stakes
<1>2. Total(Stakes') = Total(Stakes) + Stakes'[a] - Stakes[a] /\ Total(Stakes) \in Nat
  BY <1>1, TotalChange
<1>3. registryBalance' = Total(Stakes')
  BY <1>1, <1>2 DEF SolvencyInv, RegistrySolvent, Stakes
<1>4. ActiveIsStaked'
  BY DEF SolvencyInv, RegistrySolvent, ActiveIsStaked
<1>5. StrandedOnlyBySlash'
  BY DEF SolvencyInv, RegistrySolvent, StrandedOnlyBySlash
<1>6. ExitsTimed'
  BY DEF SolvencyInv, ExitsTimed
<1> QED
  BY <1>3, <1>4, <1>5, <1>6 DEF SolvencyInv, RegistrySolvent, Stakes

\* The facts about agent a that the actions start from.
LEMMA AgentFacts ==
  ASSUME SolvencyInv, NEW a \in Agents
  PROVE  /\ agents \in [Agents -> [stake : Nat, reputation : Nat, active : BOOLEAN]]
         /\ withdrawalUnlockTime \in [Agents -> Nat]
         /\ exit \in [Agents -> [at : Nat, by : ExitKinds]]
         /\ registryBalance \in Int
         /\ agents[a].stake \in Nat /\ agents[a].active \in BOOLEAN
         /\ agents[a].active => agents[a].stake >= StakeAmount
         /\ (~agents[a].active /\ agents[a].stake > 0 /\ withdrawalUnlockTime[a] = 0)
              => exit[a].by = "slash"
         /\ (exit[a].by = "deregister" /\ withdrawalUnlockTime[a] # 0)
              => withdrawalUnlockTime[a] = exit[a].at + WithdrawalDelay
BY DEF SolvencyInv, StakesTyped, RegistrySolvent, ActiveIsStaked, StrandedOnlyBySlash,
       ExitsTimed

\* register() adds to the balance what it adds to the stake.
LEMMA RegisterSolvent ==
  ASSUME SolvencyInv, NEW a \in Agents, NEW v \in Deposits, Register(a, v)
  PROVE  SolvencyInv'
<1>1. v \in Nat /\ v >= StakeAmount /\ StakeAmount \in Nat
  BY AgentConstants DEF Register
<1>2. StakesTyped'
  BY RegisterType DEF SolvencyInv
<1>3. /\ agents'[a].stake = agents[a].stake + v
      /\ agents'[a].active = TRUE
      /\ \A b \in Agents \ {a} : agents'[b] = agents[b]
      /\ registryBalance' = registryBalance + v
      /\ withdrawalUnlockTime' = withdrawalUnlockTime /\ exit' = exit
  BY AgentFacts DEF Register
<1>4. registryBalance' = registryBalance + agents'[a].stake - agents[a].stake
  BY <1>1, <1>3, AgentFacts
<1>5. agents'[a].stake >= StakeAmount
  BY <1>1, <1>3, AgentFacts
<1>6. (exit'[a].by = "deregister" /\ withdrawalUnlockTime'[a] # 0)
        => withdrawalUnlockTime'[a] = exit'[a].at + WithdrawalDelay
  BY <1>3, AgentFacts
<1> QED
  BY <1>2, <1>3, <1>4, <1>5, <1>6, AgentMoves

\* deregister() starts the delay.
LEMMA DeregisterSolvent ==
  ASSUME SolvencyInv, now \in Nat, NEW a \in Agents, Deregister(a)
  PROVE  SolvencyInv'
<1>1. WithdrawalDelay \in Nat \ {0}
  BY AgentConstants
<1>2. StakesTyped'
  BY DeregisterType DEF SolvencyInv
<1>3. /\ agents'[a].stake = agents[a].stake
      /\ agents'[a].active = FALSE
      /\ \A b \in Agents \ {a} : agents'[b] = agents[b]
      /\ registryBalance' = registryBalance
      /\ withdrawalUnlockTime'[a] = now + WithdrawalDelay
      /\ exit'[a] = [at |-> now, by |-> "deregister"]
      /\ \A b \in Agents \ {a} : /\ withdrawalUnlockTime'[b] = withdrawalUnlockTime[b]
                                 /\ exit'[b] = exit[b]
  BY AgentFacts DEF Deregister
<1>4. registryBalance' = registryBalance + agents'[a].stake - agents[a].stake
  BY <1>3, AgentFacts
<1>5. withdrawalUnlockTime'[a] # 0 /\ withdrawalUnlockTime'[a] = exit'[a].at + WithdrawalDelay
  BY <1>1, <1>3
<1> QED
  BY <1>2, <1>3, <1>4, <1>5, AgentMoves

\* withdrawStake() pays a's stake and nothing else.
LEMMA WithdrawSolvent ==
  ASSUME SolvencyInv, NEW a \in Agents, WithdrawStake(a)
  PROVE  SolvencyInv'
<1>1. StakesTyped'
  BY WithdrawStakeType DEF SolvencyInv
<1>2. /\ agents'[a].stake = 0
      /\ agents'[a].active = agents[a].active /\ ~agents[a].active
      /\ \A b \in Agents \ {a} : agents'[b] = agents[b]
      /\ registryBalance' = registryBalance - agents[a].stake
      /\ withdrawalUnlockTime'[a] = 0
      /\ \A b \in Agents \ {a} : withdrawalUnlockTime'[b] = withdrawalUnlockTime[b]
      /\ exit' = exit
  BY AgentFacts DEF WithdrawStake
<1>3. registryBalance' = registryBalance + agents'[a].stake - agents[a].stake
  BY <1>2, AgentFacts
<1> QED
  BY <1>1, <1>2, <1>3, AgentMoves

\* slash() takes from the balance what it takes from the stake.
LEMMA SlashSolvent ==
  ASSUME SolvencyInv, now \in Nat, NEW a \in Agents, NEW m \in Nat, Slash(a, m)
  PROVE  SolvencyInv'
<1>1. StakesTyped'
  BY SlashType DEF SolvencyInv
<1>2. /\ agents'[a].stake = agents[a].stake - m
      /\ agents'[a].active = (agents[a].active /\ agents[a].stake - m >= StakeAmount)
      /\ \A b \in Agents \ {a} : agents'[b] = agents[b]
      /\ registryBalance' = registryBalance - m
      /\ withdrawalUnlockTime' = withdrawalUnlockTime
      /\ m <= agents[a].stake
  BY AgentFacts DEF Slash, Slashed
<1>3. registryBalance' = registryBalance + agents'[a].stake - agents[a].stake
  BY <1>2, AgentFacts
<1>4. CASE agents[a].active /\ ~agents'[a].active
  <2>1. /\ exit'[a] = [at |-> now, by |-> "slash"]
        /\ \A b \in Agents \ {a} : exit'[b] = exit[b]
    BY <1>4, AgentFacts DEF Slash
  <2> QED
    BY <1>1, <1>2, <1>3, <1>4, <2>1, AgentMoves
<1>5. CASE ~(agents[a].active /\ ~agents'[a].active)
  <2>1. exit' = exit
    BY <1>5 DEF Slash
  <2>2. (~agents'[a].active /\ agents'[a].stake > 0) => (~agents[a].active /\ agents[a].stake > 0)
    BY <1>2, <1>5, AgentFacts
  <2>3. agents'[a].active => agents'[a].stake >= StakeAmount
    BY <1>2
  <2> QED
    BY <1>1, <1>2, <1>3, <2>1, <2>2, <2>3, AgentFacts, AgentMoves
<1> QED
  BY <1>4, <1>5

\* addReputation() moves no stake.
LEMMA AddReputationSolvent ==
  ASSUME SolvencyInv, NEW a \in Agents, NEW m \in Nat, AddReputation(a, m)
  PROVE  SolvencyInv'
<1>1. StakesTyped'
  BY AddReputationType DEF SolvencyInv
<1>2. /\ agents'[a].stake = agents[a].stake
      /\ agents'[a].active = agents[a].active
      /\ \A b \in Agents \ {a} : agents'[b] = agents[b]
      /\ registryBalance' = registryBalance
      /\ withdrawalUnlockTime' = withdrawalUnlockTime /\ exit' = exit
  BY AgentFacts DEF AddReputation
<1>3. registryBalance' = registryBalance + agents'[a].stake - agents[a].stake
  BY <1>2, AgentFacts
<1> QED
  BY <1>1, <1>2, <1>3, AgentFacts, AgentMoves

\* Steps that leave stakes, timelocks and the balance alone keep all of it.
LEMMA QuietSolvent ==
  ASSUME SolvencyInv,
         UNCHANGED <<agents, withdrawalUnlockTime, registryBalance, treasuryReceived, exit>>
  PROVE  SolvencyInv'
BY DEF SolvencyInv, StakesTyped, RegistrySolvent, ActiveIsStaked, StrandedOnlyBySlash,
       ExitsTimed

\* Initially no agent has any stake.
LEMMA InitSolvent == AgentInit => SolvencyInv
<1> SUFFICES ASSUME AgentInit PROVE SolvencyInv
  OBVIOUS
<1>1. Stakes \in [Agents -> Nat] /\ \A a \in Agents : Stakes[a] = 0
  BY DEF AgentInit, Stakes
<1>2. registryBalance = Total(Stakes)
  BY <1>1, TotalZero DEF AgentInit
<1>3. StakesTyped /\ ActiveIsStaked /\ StrandedOnlyBySlash /\ ExitsTimed
  BY DEF AgentInit, StakesTyped, ExitKinds, ActiveIsStaked, StrandedOnlyBySlash, ExitsTimed
<1> QED
  BY <1>2, <1>3 DEF SolvencyInv, RegistrySolvent, Stakes

\* What the agents themselves call keeps the registry solvent.
LEMMA AgentCallsSolvent ==
  ASSUME SolvencyInv, now \in Nat, AgentCalls
  PROVE  SolvencyInv'
<1> PICK a \in Agents : \/ \E v \in Deposits : Register(a, v)
                        \/ Deregister(a)
                        \/ WithdrawStake(a)
  BY DEF AgentCalls
<1> QED
  BY RegisterSolvent, DeregisterSolvent, WithdrawSolvent

\* With the contract's own clock.
ClockedInv == now \in Timestamps /\ SolvencyInv

\* Every step of the contract alone keeps it solvent, and the clock a timestamp.
LEMMA RegistryStep ==
  ClockedInv /\ [AgentNext]_<<agentVars, now>> => ClockedInv'
<1> USE DEF ClockedInv
<1> SUFFICES ASSUME now \in Timestamps, SolvencyInv, [AgentNext]_<<agentVars, now>>
             PROVE  now' \in Timestamps /\ SolvencyInv'
  OBVIOUS
<1>0. now \in Nat
  BY DEF Timestamps
<1>1. CASE AgentCalls /\ UNCHANGED now
  BY <1>0, <1>1, AgentCallsSolvent
<1>2. ASSUME NEW a \in Agents, NEW m \in SlashAmounts, Slash(a, m) /\ UNCHANGED now
      PROVE  now' \in Timestamps /\ SolvencyInv'
  BY <1>0, <1>2, AgentConstants, SlashSolvent
<1>3. ASSUME NEW a \in Agents, NEW m \in Bonuses, AddReputation(a, m) /\ UNCHANGED now
      PROVE  now' \in Timestamps /\ SolvencyInv'
  BY <1>3, AgentConstants, AddReputationSolvent
<1>4. CASE GrantResolverRole /\ UNCHANGED now
  BY <1>4, QuietSolvent DEF GrantResolverRole
<1>5. CASE (Advance /\ UNCHANGED agentVars) \/ UNCHANGED <<agentVars, now>>
  <2>1. now' \in Timestamps
    BY <1>5, MaxTimeAssumption DEF Advance, Timestamps
  <2> QED
    BY <1>5, <2>1, QuietSolvent DEF agentVars
<1> QED
  BY <1>1, <1>2, <1>3, <1>4, <1>5 DEF AgentNext

\* The solvency of the contract alone, its role holder free to call what it may.
LEMMA RegistryCorrect == AgentSpec => []ClockedInv
<1>1. RegistryInit => ClockedInv
  BY InitSolvent, MaxTimeAssumption DEF RegistryInit, ChainInit, Timestamps, ClockedInv
<1> QED
  BY <1>1, RegistryStep, PTL DEF AgentSpec

\* AgentRegistry holds exactly the Ether it owes its agents, an active agent has a whole
\* STAKE_AMOUNT to lose, and only slash() strands stake, however its calls interleave.
THEOREM StakesOwed == AgentSpec => []RegistrySolvent
BY RegistryCorrect, PTL DEF ClockedInv, SolvencyInv

\* An open dispute is about a record of an agent.
LEMMA OpenNamesAgent ==
  ASSUME LinkInv, NEW i \in Positions, IsOpen(i)
  PROVE  disputes[i].auditor \in Agents
<1>1. i \in 1 .. Len(audits) /\ disputes[i].auditor = audits[i].auditor /\ LogTyped
  BY DEF LinkInv, NetTyped, DisputesLinked, Linked, IsOpen
<1> QED
  BY <1>1, RecordType

\* Solvency with the DisputeResolver as the holder of the role.
LEMMA SolvencyHolds == Spec => []SolvencyInv
<1>1. Init => SolvencyInv
  BY InitSolvent DEF Init
<1>2. LinkInv /\ SolvencyInv /\ [Next]_vars => SolvencyInv'
  <2> SUFFICES ASSUME LinkInv, SolvencyInv, [Next]_vars PROVE SolvencyInv'
    OBVIOUS
  <2>0. now \in Nat /\ SlashAmount \in Nat /\ AuditorBonus \in Nat
    BY ResolverConstants DEF LinkInv, NetTyped, Timestamps, SlashAmount
  <2>2. CASE AgentCalls
    BY <2>0, <2>2, AgentCallsSolvent
  <2>3. ASSUME NEW i \in Positions, UpholdDispute(i) PROVE SolvencyInv'
    <3>1. disputes[i].auditor \in Agents /\ Slash(disputes[i].auditor, SlashAmount)
      BY <2>3, OpenNamesAgent DEF UpholdDispute
    <3> QED
      BY <2>0, <3>1, SlashSolvent
  <2>4. ASSUME NEW i \in Positions, RejectDispute(i) PROVE SolvencyInv'
    <3>1. disputes[i].auditor \in Agents /\ AddReputation(disputes[i].auditor, AuditorBonus)
      BY <2>4, OpenNamesAgent DEF RejectDispute
    <3> QED
      BY <2>0, <3>1, AddReputationSolvent
  <2>5. CASE UNCHANGED <<agents, withdrawalUnlockTime, registryBalance, treasuryReceived, exit>>
    BY <2>5, QuietSolvent
  <2> QED
    BY <2>2, <2>3, <2>4, <2>5
       DEF Next, vars, agentVars, GrantResolverRole, RaiseDispute, Receive
<1> QED
  BY <1>1, <1>2, LinkCorrect, PTL DEF Spec

\* The same with the DisputeResolver as the holder of the role.
THEOREM StakesOwedInDisputes == Spec => []RegistrySolvent
BY SolvencyHolds, PTL DEF SolvencyInv

\* Only withdrawStake() pays stake out, and only after the delay it waits for.
LEMMA PaidLate ==
  ASSUME SolvencyInv, [AgentNext]_<<agentVars, now>>, NEW a \in Agents,
         PaysOut(a), exit[a].by = "deregister"
  PROVE  now >= exit[a].at + WithdrawalDelay
<1>1. agents'[a].stake < agents[a].stake /\ treasuryReceived' = treasuryReceived
  BY DEF PaysOut
<1>2. ASSUME NEW b \in Agents, NEW v \in Deposits, Register(b, v) PROVE FALSE
  <2>1. agents'[a].stake = IF a = b THEN agents[a].stake + v ELSE agents[a].stake
    BY <1>2, AgentFacts DEF Register
  <2> QED
    BY <1>1, <2>1, AgentFacts, AgentConstants
<1>3. ASSUME NEW b \in Agents, Deregister(b) PROVE FALSE
  <2>1. agents'[a].stake = agents[a].stake
    BY <1>3, AgentFacts DEF Deregister
  <2> QED
    BY <1>1, <2>1, AgentFacts
<1>4. ASSUME NEW b \in Agents, WithdrawStake(b)
      PROVE  now >= exit[a].at + WithdrawalDelay
  <2>1. a = b
    <3>1. a # b => agents'[a] = agents[a]
      BY <1>4, AgentFacts DEF WithdrawStake
    <3> QED
      BY <1>1, <3>1, AgentFacts
  <2>2. withdrawalUnlockTime[a] > 0 /\ now >= withdrawalUnlockTime[a]
    BY <1>4, <2>1 DEF WithdrawStake
  <2> QED
    BY <2>2, AgentFacts
<1>5. ASSUME NEW b \in Agents, NEW m \in SlashAmounts, Slash(b, m) PROVE FALSE
  <2>1. m \in Nat /\ treasuryReceived \in Nat
    BY AgentConstants DEF SolvencyInv, StakesTyped
  <2>2. m = 0
    BY <1>1, <1>5, <2>1 DEF Slash
  <2>3. agents'[a].stake = IF a = b THEN agents[a].stake - m ELSE agents[a].stake
    BY <1>5, AgentFacts DEF Slash, Slashed
  <2> QED
    BY <1>1, <2>2, <2>3, AgentFacts
<1>6. ASSUME NEW b \in Agents, NEW m \in Bonuses, AddReputation(b, m) PROVE FALSE
  <2>1. agents'[a].stake = agents[a].stake
    BY <1>6, AgentFacts DEF AddReputation
  <2> QED
    BY <1>1, <2>1, AgentFacts
<1>7. ~ UNCHANGED agents
  BY <1>1, AgentFacts
<1> QED
  BY <1>2, <1>3, <1>4, <1>5, <1>6, <1>7 DEF AgentNext, AgentCalls, GrantResolverRole, agentVars

\* An agent that left by deregister() is paid after the delay since it was last active,
\* also when it registered, deregistered and was slashed again in between.
THEOREM DeregisteredWait == AgentSpec => DeregisteredWaits
<1>1. ClockedInv /\ [AgentNext]_<<agentVars, now>> =>
        [\A a \in Agents :
           PaysOut(a) /\ exit[a].by = "deregister"
             => now >= exit[a].at + WithdrawalDelay]_<<agentVars, now>>
  BY PaidLate DEF ClockedInv
<1> QED
  BY <1>1, RegistryCorrect, PTL DEF AgentSpec, DeregisteredWaits

\* An inactive agent whose stake waits for its unlock time.
AwaitsStake(a) ==
  /\ ~agents[a].active
  /\ agents[a].stake > 0
  /\ withdrawalUnlockTime[a] > 0

\* It goes on waiting for the same time until it returns, is paid or has lost all of it.
LEMMA WaitGoesOn ==
  ASSUME SolvencyInv, [AgentNext]_<<agentVars, now>>, NEW a \in Agents, AwaitsStake(a)
  PROVE  \/ agents'[a].active
         \/ agents'[a].stake = 0
         \/ /\ AwaitsStake(a)'
            /\ withdrawalUnlockTime'[a] = withdrawalUnlockTime[a]
<1>1. /\ agents \in [Agents -> [stake : Nat, reputation : Nat, active : BOOLEAN]]
      /\ withdrawalUnlockTime \in [Agents -> Nat]
  BY AgentFacts
<1> SUFFICES ASSUME ~agents'[a].active, agents'[a].stake # 0
             PROVE  /\ agents'[a].stake > 0
                    /\ withdrawalUnlockTime'[a] = withdrawalUnlockTime[a]
  BY DEF AwaitsStake
<1>2. ASSUME NEW b \in Agents, NEW v \in Deposits, Register(b, v)
      PROVE  agents'[a].stake > 0 /\ withdrawalUnlockTime' = withdrawalUnlockTime
  <2>1. a # b /\ agents'[a] = agents[a]
    BY <1>1, <1>2 DEF Register
  <2> QED
    BY <1>2, <2>1 DEF Register, AwaitsStake
<1>3. ASSUME NEW b \in Agents, Deregister(b)
      PROVE  agents'[a].stake > 0 /\ withdrawalUnlockTime'[a] = withdrawalUnlockTime[a]
  <2>1. a # b
    BY <1>3 DEF Deregister, AwaitsStake
  <2> QED
    BY <1>1, <1>3, <2>1 DEF Deregister, AwaitsStake
<1>4. ASSUME NEW b \in Agents, WithdrawStake(b)
      PROVE  agents'[a].stake > 0 /\ withdrawalUnlockTime'[a] = withdrawalUnlockTime[a]
  <2>1. a # b
    BY <1>1, <1>4 DEF WithdrawStake
  <2> QED
    BY <1>1, <1>4, <2>1 DEF WithdrawStake, AwaitsStake
<1>5. ASSUME NEW b \in Agents, NEW m \in SlashAmounts, Slash(b, m)
      PROVE  agents'[a].stake > 0 /\ withdrawalUnlockTime' = withdrawalUnlockTime
  <2>1. agents'[a].stake = IF a = b THEN agents[a].stake - m ELSE agents[a].stake
    BY <1>1, <1>5 DEF Slash, Slashed
  <2>2. m \in Nat /\ (a = b => m <= agents[a].stake)
    BY <1>5, AgentConstants DEF Slash
  <2>3. agents[a].stake \in Nat
    BY <1>1
  <2> QED
    BY <1>5, <2>1, <2>2, <2>3 DEF Slash, AwaitsStake
<1>6. ASSUME NEW b \in Agents, NEW m \in Bonuses, AddReputation(b, m)
      PROVE  agents'[a].stake > 0 /\ withdrawalUnlockTime' = withdrawalUnlockTime
  <2>1. agents'[a].stake = agents[a].stake
    BY <1>1, <1>6 DEF AddReputation
  <2> QED
    BY <1>6, <2>1 DEF AddReputation, AwaitsStake
<1>7. CASE UNCHANGED <<agents, withdrawalUnlockTime>>
  BY <1>7 DEF AwaitsStake
<1> QED
  BY <1>2, <1>3, <1>4, <1>5, <1>6, <1>7
     DEF AgentNext, AgentCalls, GrantResolverRole, agentVars

\* What StakeReturned rests on besides fairness: nobody else's call keeps an agent that
\* left from the stake it waits for, moves its unlock time or takes the Ether it is owed.
THEOREM WithdrawalsStayDue ==
  AgentSpec =>
    /\ [](\A a \in Agents : agents[a].stake <= registryBalance)
    /\ [][\A a \in Agents :
            AwaitsStake(a) =>
              \/ agents'[a].active
              \/ agents'[a].stake = 0
              \/ /\ AwaitsStake(a)'
                 /\ withdrawalUnlockTime'[a] = withdrawalUnlockTime[a]]_<<agentVars, now>>
<1>1. SolvencyInv => \A a \in Agents : agents[a].stake <= registryBalance
  <2> SUFFICES ASSUME SolvencyInv, NEW a \in Agents PROVE agents[a].stake <= registryBalance
    OBVIOUS
  <2>1. IsFiniteSet(Agents) /\ Stakes \in [Agents -> Nat] /\ Stakes[a] = agents[a].stake
    BY AgentConstants DEF SolvencyInv, StakesTyped, Stakes
  <2>2. Stakes[a] <= Total(Stakes)
    BY <2>1, TermInTotal
  <2> QED
    BY <2>1, <2>2 DEF SolvencyInv, RegistrySolvent, Stakes
<1>2. ClockedInv /\ [AgentNext]_<<agentVars, now>> =>
        [\A a \in Agents :
           AwaitsStake(a) =>
             \/ agents'[a].active
             \/ agents'[a].stake = 0
             \/ /\ AwaitsStake(a)'
                /\ withdrawalUnlockTime'[a] = withdrawalUnlockTime[a]]_<<agentVars, now>>
  BY WaitGoesOn DEF ClockedInv
<1> QED
  BY <1>1, <1>2, RegistryCorrect, PTL DEF AgentSpec, ClockedInv

----------------------------------------------------------------------------
(* AgentRegistry implements an escrow *)

\* The stake an active agent has deposited, and what an inactive one is to be paid.
Deposited == [a \in Agents |-> IF agents[a].active THEN agents[a].stake ELSE 0]
Leaving == [a \in Agents |-> IF agents[a].active THEN 0 ELSE agents[a].stake]

\* When an agent last went inactive, and whom a slash made inactive.
LeftAt == [a \in Agents |-> exit[a].at]
Expelled == {a \in Agents : exit[a].by = "slash"}

\* An agent that never was made inactive has no unlock time.
NeverLeft ==
  \A a \in Agents : exit[a].by = "never" => withdrawalUnlockTime[a] = 0

EscrowInv == SolvencyInv /\ NeverLeft

\* What the escrow sees of a step that concerns one agent.
LEMMA EscrowMoves ==
  ASSUME NEW a \in Agents,
         \A b \in Agents \ {a} : agents'[b] = agents[b] /\ exit'[b] = exit[b]
  PROVE  /\ Deposited' = [Deposited EXCEPT ![a] =
                            IF agents'[a].active THEN agents'[a].stake ELSE 0]
         /\ Leaving' = [Leaving EXCEPT ![a] =
                          IF agents'[a].active THEN 0 ELSE agents'[a].stake]
         /\ LeftAt' = [LeftAt EXCEPT ![a] = exit'[a].at]
         /\ Expelled' = IF exit'[a].by = "slash" THEN Expelled \cup {a} ELSE Expelled \ {a}
<1>1. Deposited' = [Deposited EXCEPT ![a] =
                      IF agents'[a].active THEN agents'[a].stake ELSE 0]
  BY DEF Deposited
<1>2. Leaving' = [Leaving EXCEPT ![a] =
                    IF agents'[a].active THEN 0 ELSE agents'[a].stake]
  BY DEF Leaving
<1>3. LeftAt' = [LeftAt EXCEPT ![a] = exit'[a].at]
  BY DEF LeftAt
<1>4. Expelled' = IF exit'[a].by = "slash" THEN Expelled \cup {a} ELSE Expelled \ {a}
  BY DEF Expelled
<1> QED
  BY <1>1, <1>2, <1>3, <1>4

\* The escrow's account of an agent, and that it has left for the escrow to pay.
LEMMA Account ==
  ASSUME NEW a \in Agents
  PROVE  /\ Deposited[a] = IF agents[a].active THEN agents[a].stake ELSE 0
         /\ Leaving[a] = IF agents[a].active THEN 0 ELSE agents[a].stake
         /\ LeftAt[a] = exit[a].at
         /\ a \in Expelled <=> exit[a].by = "slash"
BY DEF Deposited, Leaving, LeftAt, Expelled

\* register(): the agent stays, with what it had not yet withdrawn.
LEMMA RegisterStays ==
  ASSUME EscrowInv, NEW a \in Agents, NEW v \in Deposits, Register(a, v), UNCHANGED now
  PROVE  AgentEscrow!EscrowNext
<1>1. /\ agents \in [Agents -> [stake : Nat, reputation : Nat, active : BOOLEAN]]
      /\ v \in Nat /\ v > 0 /\ ~agents[a].active
  BY AgentFacts, AgentConstants DEF EscrowInv, Register
<1>2. /\ agents'[a].active /\ agents'[a].stake = agents[a].stake + v
      /\ \A b \in Agents \ {a} : agents'[b] = agents[b]
      /\ exit' = exit /\ registryBalance' = registryBalance + v
      /\ treasuryReceived' = treasuryReceived
  BY <1>1 DEF Register
<1>3. Deposited[a] = 0 /\ Leaving[a] = agents[a].stake /\ agents[a].stake \in Nat
  BY <1>1, Account
<1>4. Deposited' = [Deposited EXCEPT ![a] = Deposited[a] + Leaving[a] + v]
  BY <1>1, <1>2, <1>3, EscrowMoves
<1>5. Leaving' = [Leaving EXCEPT ![a] = 0]
  BY <1>2, EscrowMoves
<1>6. UNCHANGED <<LeftAt, Expelled>>
  BY <1>2 DEF LeftAt, Expelled
<1>7. AgentEscrow!Stay(a, v)
  BY <1>1, <1>2, <1>4, <1>5, <1>6
     DEF AgentEscrow!Stay, Deposited, Leaving, LeftAt, Expelled
<1> QED
  BY <1>7 DEF AgentEscrow!EscrowNext

\* deregister() asks for the whole stake.
LEMMA DeregisterAsks ==
  ASSUME EscrowInv, NEW a \in Agents, Deregister(a), UNCHANGED now
  PROVE  AgentEscrow!EscrowNext
<1>1. /\ agents \in [Agents -> [stake : Nat, reputation : Nat, active : BOOLEAN]]
      /\ exit \in [Agents -> [at : Nat, by : ExitKinds]]
      /\ agents[a].active /\ agents[a].stake \in Nat
  BY AgentFacts DEF EscrowInv, Deregister
<1>2. /\ ~agents'[a].active /\ agents'[a].stake = agents[a].stake
      /\ exit'[a].at = now /\ exit'[a].by = "deregister"
      /\ \A b \in Agents \ {a} : agents'[b] = agents[b] /\ exit'[b] = exit[b]
      /\ UNCHANGED <<registryBalance, treasuryReceived>>
  BY <1>1 DEF Deregister
<1>3. Deposited[a] = agents[a].stake /\ Leaving[a] = 0
  BY <1>1, Account
<1> PICK v \in Nat : v = agents[a].stake
  BY <1>1
<1>4. Deposited' = [Deposited EXCEPT ![a] = Deposited[a] - v]
  BY <1>2, <1>3, EscrowMoves
<1>5. Leaving' = [Leaving EXCEPT ![a] = Leaving[a] + v]
  BY <1>2, <1>3, EscrowMoves
<1>6. LeftAt' = [LeftAt EXCEPT ![a] = now] /\ Expelled' = Expelled \ {a}
  BY <1>2, EscrowMoves
<1>7. AgentEscrow!Ask(a, v)
  BY <1>2, <1>4, <1>5, <1>6
     DEF AgentEscrow!Ask, Deposited, Leaving, LeftAt, Expelled
<1>8. v \in 0 .. Deposited[a]
  BY <1>3
<1> QED
  BY <1>7, <1>8 DEF AgentEscrow!EscrowNext, Deposited

\* withdrawStake() pays the whole stake: after the delay, or to whom a slash expelled.
LEMMA WithdrawPays ==
  ASSUME EscrowInv, NEW a \in Agents, WithdrawStake(a), UNCHANGED now
  PROVE  AgentEscrow!EscrowNext
<1>1. /\ agents \in [Agents -> [stake : Nat, reputation : Nat, active : BOOLEAN]]
      /\ exit \in [Agents -> [at : Nat, by : ExitKinds]]
      /\ ~agents[a].active /\ agents[a].stake > 0
  BY AgentFacts DEF EscrowInv, WithdrawStake
<1>2. /\ ~agents'[a].active /\ agents'[a].stake = 0
      /\ \A b \in Agents \ {a} : agents'[b] = agents[b]
      /\ exit' = exit /\ registryBalance' = registryBalance - agents[a].stake
      /\ treasuryReceived' = treasuryReceived
  BY <1>1 DEF WithdrawStake
<1>3. Deposited[a] = 0 /\ Leaving[a] = agents[a].stake
  BY <1>1, Account
<1>4. now >= LeftAt[a] + WithdrawalDelay \/ a \in Expelled
  <2>1. withdrawalUnlockTime[a] # 0 /\ now >= withdrawalUnlockTime[a]
    BY AgentFacts DEF EscrowInv, WithdrawStake
  <2>2. exit[a].by \in {"deregister", "slash"}
    BY <1>1, <2>1 DEF EscrowInv, NeverLeft, ExitKinds
  <2> QED
    BY <2>1, <2>2, AgentFacts, Account DEF EscrowInv
<1>5. Deposited' = Deposited
  BY <1>1, <1>2 DEF Deposited
<1>6. Leaving' = [Leaving EXCEPT ![a] = 0]
  BY <1>2, EscrowMoves
<1>7. UNCHANGED <<LeftAt, Expelled>>
  BY <1>2 DEF LeftAt, Expelled
<1>8. AgentEscrow!Pay(a)
  BY <1>1, <1>2, <1>3, <1>4, <1>5, <1>6, <1>7
     DEF AgentEscrow!Pay, Deposited, Leaving, LeftAt, Expelled
<1> QED
  BY <1>8 DEF AgentEscrow!EscrowNext

\* slash() seizes from an agent that stays active or was inactive, and expels the other.
LEMMA SlashSeizes ==
  ASSUME EscrowInv, NEW a \in Agents, NEW m \in Nat, Slash(a, m), UNCHANGED now
  PROVE  AgentEscrow!EscrowNext
<1>1. /\ agents \in [Agents -> [stake : Nat, reputation : Nat, active : BOOLEAN]]
      /\ exit \in [Agents -> [at : Nat, by : ExitKinds]]
      /\ agents[a].stake \in Nat /\ m <= agents[a].stake
  BY AgentFacts DEF EscrowInv, Slash
<1>2. /\ agents'[a].stake = agents[a].stake - m
      /\ agents'[a].active => agents[a].active
      /\ \A b \in Agents \ {a} : agents'[b] = agents[b]
      /\ registryBalance' = registryBalance - m
      /\ treasuryReceived' = treasuryReceived + m
  BY <1>1 DEF Slash, Slashed
<1>3. CASE agents[a].active /\ agents'[a].active
  <2>1. Deposited[a] = agents[a].stake /\ exit' = exit
    BY <1>3, Account DEF Slash
  <2>2. Deposited' = [Deposited EXCEPT ![a] = Deposited[a] - m]
    BY <1>2, <1>3, <2>1, EscrowMoves
  <2>3. UNCHANGED <<Leaving, LeftAt, Expelled>>
    BY <1>2, <1>3, <2>1 DEF Leaving, LeftAt, Expelled
  <2>4. AgentEscrow!Seize(a, m)
    BY <1>1, <1>2, <2>1, <2>2, <2>3
       DEF AgentEscrow!Seize, Deposited, Leaving, LeftAt, Expelled
  <2>5. Leaving[a] = 0
    BY <1>3, Account
  <2>6. m \in 0 .. (Deposited[a] + Leaving[a])
    BY <1>1, <2>1, <2>5
  <2> QED
    BY <2>4, <2>6 DEF AgentEscrow!EscrowNext, Deposited, Leaving
<1>4. CASE ~agents[a].active
  <2>1. Deposited[a] = 0 /\ Leaving[a] = agents[a].stake /\ exit' = exit
    BY <1>4, Account DEF Slash
  <2>2. Leaving' = [Leaving EXCEPT ![a] = Leaving[a] - m]
    BY <1>2, <1>4, <2>1, EscrowMoves
  <2>3. UNCHANGED <<Deposited, LeftAt, Expelled>>
    BY <1>2, <1>4, <2>1 DEF Deposited, LeftAt, Expelled
  <2>4. AgentEscrow!Seize(a, m)
    BY <1>1, <1>2, <2>1, <2>2, <2>3
       DEF AgentEscrow!Seize, Deposited, Leaving, LeftAt, Expelled
  <2>5. m \in 0 .. (Deposited[a] + Leaving[a])
    BY <1>1, <2>1
  <2> QED
    BY <2>4, <2>5 DEF AgentEscrow!EscrowNext, Deposited, Leaving
<1>5. CASE agents[a].active /\ ~agents'[a].active
  <2>1. Deposited[a] = agents[a].stake /\ Leaving[a] = 0
    BY <1>5, Account
  <2>2. /\ exit'[a].at = now /\ exit'[a].by = "slash"
        /\ \A b \in Agents \ {a} : exit'[b] = exit[b]
    BY <1>1, <1>5 DEF Slash
  <2>3. Deposited' = [Deposited EXCEPT ![a] = 0]
    BY <1>2, <1>5, <2>2, EscrowMoves
  <2>4. Leaving' = [Leaving EXCEPT ![a] = Leaving[a] + Deposited[a] - m]
    BY <1>1, <1>2, <1>5, <2>1, <2>2, EscrowMoves
  <2>5. LeftAt' = [LeftAt EXCEPT ![a] = now] /\ Expelled' = Expelled \cup {a}
    BY <1>2, <2>2, EscrowMoves
  <2>6. AgentEscrow!Expel(a, m)
    BY <1>2, <2>3, <2>4, <2>5
       DEF AgentEscrow!Expel, Deposited, Leaving, LeftAt, Expelled
  <2>7. m \in 1 .. Deposited[a]
    <3>1. agents[a].stake >= StakeAmount
      BY <1>5, AgentFacts DEF EscrowInv
    <3>2. ~(agents[a].stake - m >= StakeAmount)
      BY <1>1, <1>5 DEF Slash, Slashed
    <3> QED
      BY <1>1, <2>1, <3>1, <3>2, AgentConstants
  <2> QED
    BY <2>6, <2>7 DEF AgentEscrow!EscrowNext, Deposited
<1> QED
  BY <1>3, <1>4, <1>5

\* A reputation is none of the escrow's business, nor is what else leaves stakes alone.
LEMMA EscrowQuiet ==
  ASSUME \A a \in Agents : /\ agents'[a].stake = agents[a].stake
                           /\ agents'[a].active = agents[a].active,
         UNCHANGED <<exit, registryBalance, treasuryReceived, now>>
  PROVE  UNCHANGED AgentEscrow!escrowVars
BY DEF AgentEscrow!escrowVars

\* addReputation() is such a step.
LEMMA ReputationQuiet ==
  ASSUME EscrowInv, NEW a \in Agents, NEW m \in Nat, AddReputation(a, m), UNCHANGED now
  PROVE  UNCHANGED AgentEscrow!escrowVars
<1>1. agents \in [Agents -> [stake : Nat, reputation : Nat, active : BOOLEAN]]
  BY AgentFacts DEF EscrowInv
<1>2. \A b \in Agents : /\ agents'[b].stake = agents[b].stake
                        /\ agents'[b].active = agents[b].active
  BY <1>1 DEF AddReputation
<1> QED
  BY <1>2, EscrowQuiet DEF AddReputation

\* Time passes for the escrow too.
LEMMA AdvancePasses ==
  ASSUME Advance, UNCHANGED agentVars
  PROVE  AgentEscrow!EscrowNext
<1>1. AgentEscrow!Pass
  BY DEF Advance, agentVars, AgentEscrow!Pass
<1> QED
  BY <1>1 DEF AgentEscrow!EscrowNext

\* What the agents themselves call is a step of the escrow.
LEMMA AgentCallsRefine ==
  ASSUME EscrowInv, AgentCalls, UNCHANGED now
  PROVE  AgentEscrow!EscrowNext
<1> PICK a \in Agents : \/ \E v \in Deposits : Register(a, v)
                        \/ Deregister(a)
                        \/ WithdrawStake(a)
  BY DEF AgentCalls
<1> QED
  BY RegisterStays, DeregisterAsks, WithdrawPays

\* Only deregister() sets an unlock time.
LEMMA NeverLeftStep ==
  ASSUME EscrowInv, NEW a \in Agents,
         \/ \E v \in Deposits : Register(a, v)
         \/ Deregister(a)
         \/ WithdrawStake(a)
         \/ \E m \in Nat : Slash(a, m)
         \/ \E m \in Nat : AddReputation(a, m)
  PROVE  NeverLeft'
<1>1. /\ exit \in [Agents -> [at : Nat, by : ExitKinds]]
      /\ withdrawalUnlockTime \in [Agents -> Nat]
      /\ NeverLeft
  BY AgentFacts DEF EscrowInv
<1>2. CASE Deregister(a)
  BY <1>1, <1>2 DEF Deregister, NeverLeft
<1>3. CASE WithdrawStake(a)
  BY <1>1, <1>3 DEF WithdrawStake, NeverLeft
<1>4. CASE \E m \in Nat : Slash(a, m)
  BY <1>1, <1>4 DEF Slash, NeverLeft
<1>5. CASE UNCHANGED <<exit, withdrawalUnlockTime>>
  BY <1>1, <1>5 DEF NeverLeft
<1> QED
  BY <1>2, <1>3, <1>4, <1>5 DEF Register, AddReputation

\* Every step of the contract alone is a step of the escrow, or none.
LEMMA RegistryStepsRefine ==
  ClockedInv /\ NeverLeft /\ [AgentNext]_<<agentVars, now>> =>
    NeverLeft' /\ [AgentEscrow!EscrowNext]_(AgentEscrow!escrowVars)
<1> SUFFICES ASSUME EscrowInv, [AgentNext]_<<agentVars, now>>
             PROVE  NeverLeft' /\ [AgentEscrow!EscrowNext]_(AgentEscrow!escrowVars)
  BY DEF ClockedInv, EscrowInv
<1>1. CASE AgentCalls /\ UNCHANGED now
  BY <1>1, AgentCallsRefine, NeverLeftStep DEF AgentCalls
<1>2. ASSUME NEW a \in Agents, NEW m \in SlashAmounts, Slash(a, m) /\ UNCHANGED now
      PROVE  NeverLeft' /\ AgentEscrow!EscrowNext
  BY <1>2, AgentConstants, SlashSeizes, NeverLeftStep
<1>3. ASSUME NEW a \in Agents, NEW m \in Bonuses, AddReputation(a, m) /\ UNCHANGED now
      PROVE  NeverLeft' /\ UNCHANGED AgentEscrow!escrowVars
  BY <1>3, AgentConstants, ReputationQuiet, NeverLeftStep
<1>4. CASE Advance /\ UNCHANGED agentVars
  BY <1>4, AdvancePasses DEF agentVars, EscrowInv, NeverLeft
<1>5. CASE (GrantResolverRole /\ UNCHANGED now) \/ UNCHANGED <<agentVars, now>>
  BY <1>5, EscrowQuiet DEF GrantResolverRole, agentVars, EscrowInv, NeverLeft
<1> QED
  BY <1>1, <1>2, <1>3, <1>4, <1>5 DEF AgentNext

\* The contract starts as an escrow does, nobody having left.
LEMMA RegistryInitRefines ==
  ChainInit /\ AgentInit => NeverLeft /\ AgentEscrow!EscrowInit
BY DEF ChainInit, AgentInit, NeverLeft, AgentEscrow!EscrowInit

\* AgentRegistry is an escrow whose authority is the holder of the role, which may call
\* slash() as it likes (AgentRegistry.sol: register(), deregister(), withdrawStake(),
\* slash()): stake stays until its agent deregistered and the delay has passed, and is
\* then paid whole; a slash that makes the agent inactive is what may shorten that.
THEOREM AgentRegistryImplementsEscrow == AgentSpec => StakeEscrowed
BY RegistryCorrect, RegistryInitRefines, RegistryStepsRefine, PTL
   DEF AgentSpec, RegistryInit, StakeEscrowed, AgentEscrow!EscrowSpec

\* The same with the DisputeResolver as the holder of the role: its verdicts are the only
\* seizures, and nothing that is filed, disputed or donated touches the stakes.
THEOREM DisputesImplementEscrow == Spec => StakeEscrowed
<1>1. Init => NeverLeft /\ AgentEscrow!EscrowInit
  BY RegistryInitRefines DEF Init
<1>2. LinkInv /\ SolvencyInv /\ NeverLeft /\ [Next]_vars =>
        NeverLeft' /\ [AgentEscrow!EscrowNext]_(AgentEscrow!escrowVars)
  <2> SUFFICES ASSUME LinkInv, EscrowInv, [Next]_vars
               PROVE  NeverLeft' /\ [AgentEscrow!EscrowNext]_(AgentEscrow!escrowVars)
    BY DEF EscrowInv
  <2>0. SlashAmount \in Nat /\ AuditorBonus \in Nat
    BY ResolverConstants DEF SlashAmount
  <2>1. CASE AgentCalls /\ UNCHANGED now
    BY <2>1, AgentCallsRefine, NeverLeftStep DEF AgentCalls
  <2>2. ASSUME NEW i \in Positions, UpholdDispute(i)
        PROVE  NeverLeft' /\ AgentEscrow!EscrowNext
    <3>1. /\ disputes[i].auditor \in Agents /\ Slash(disputes[i].auditor, SlashAmount)
          /\ UNCHANGED now
      BY <2>2, OpenNamesAgent DEF UpholdDispute
    <3> QED
      BY <2>0, <3>1, SlashSeizes, NeverLeftStep
  <2>3. ASSUME NEW i \in Positions, RejectDispute(i)
        PROVE  NeverLeft' /\ UNCHANGED AgentEscrow!escrowVars
    <3>1. /\ disputes[i].auditor \in Agents
          /\ AddReputation(disputes[i].auditor, AuditorBonus) /\ UNCHANGED now
      BY <2>3, OpenNamesAgent DEF RejectDispute
    <3> QED
      BY <2>0, <3>1, ReputationQuiet, NeverLeftStep
  <2>4. CASE Advance /\ UNCHANGED agentVars
    BY <2>4, AdvancePasses DEF agentVars, EscrowInv, NeverLeft
  <2>5. CASE UNCHANGED <<agents, withdrawalUnlockTime, registryBalance, treasuryReceived, exit, now>>
    BY <2>5, EscrowQuiet DEF EscrowInv, NeverLeft
  <2> QED
    BY <2>1, <2>2, <2>3, <2>4, <2>5
       DEF Next, vars, agentVars, GrantResolverRole, SetDisputeResolver, RaiseDispute, Receive
<1>3. Spec => [](LinkInv /\ SolvencyInv)
  BY SolvencyHolds, LinkCorrect, PTL
<1> QED
  BY <1>1, <1>2, <1>3, PTL DEF Spec, StakeEscrowed, AgentEscrow!EscrowSpec

----------------------------------------------------------------------------
(* The submission counts of AuditRegistry *)

\* The records of an agent form a finite set of positions.
LEMMA RecordsFinite ==
  ASSUME LogTyped, NEW a \in Agents
  PROVE  /\ RecordsOf(a) \subseteq Positions
         /\ IsFiniteSet(RecordsOf(a)) /\ Cardinality(RecordsOf(a)) \in Nat
<1>1. RecordsOf(a) \subseteq 1 .. Len(audits) /\ Len(audits) <= MaxAudits /\ Len(audits) \in Nat
  BY AuditConstants DEF RecordsOf, LogTyped
<1>2. RecordsOf(a) \subseteq Positions
  BY <1>1, AuditConstants DEF Positions
<1> QED
  BY <1>2, PositionsFinite

\* Steps that leave the auditors of the log, the counts and the frauds alone keep them.
LEMMA QuietCounts ==
  ASSUME AuditReputationCounts, LogTyped, Len(audits') = Len(audits),
         \A i \in 1 .. Len(audits) : audits'[i].auditor = audits[i].auditor,
         agentReputation' = agentReputation,
         \A i \in Positions : verdict'[i] = "fraud" <=> verdict[i] = "fraud"
  PROVE  AuditReputationCounts'
<1> SUFFICES ASSUME NEW a \in Agents
             PROVE  /\ agentReputation'[a] <= Cardinality(RecordsOf(a)')
                    /\ (\A i \in RecordsOf(a)' : verdict'[i] # "fraud")
                         => agentReputation'[a] = Cardinality(RecordsOf(a)')
  BY DEF AuditReputationCounts
<1>1. RecordsOf(a)' = RecordsOf(a)
  BY DEF RecordsOf
<1>2. RecordsOf(a) \subseteq Positions
  BY RecordsFinite
<1> QED
  BY <1>1, <1>2 DEF AuditReputationCounts

\* A submission adds one record to its auditor and one to its count.
LEMMA SubmitCounts ==
  ASSUME LinkInv, AuditReputationCounts, NEW a \in Agents, SubmitAudit(a),
         verdict' = verdict
  PROVE  AuditReputationCounts'
<1> DEFINE n == Len(audits) + 1
<1>1. LogTyped /\ now \in Nat /\ agentReputation \in [Agents -> Nat] /\ Len(audits) \in Nat
  BY DEF LinkInv, NetTyped, LogTyped, Timestamps
<1>2. /\ Len(audits') = n /\ audits'[n].auditor = a
      /\ \A i \in 1 .. Len(audits) : audits'[i] = audits[i]
  <2>1. /\ Len(audits') = Len(audits) + 1
        /\ \A i \in 1 .. Len(audits) : audits'[i] = audits[i]
        /\ audits'[Len(audits) + 1] = [auditor |-> a, timestamp |-> now, disputed |-> FALSE]
    BY <1>1, SubmitFacts
  <2> QED
    BY <2>1
<1>3. \A i \in 1 .. n : i \in 1 .. Len(audits) \/ i = n
  BY <1>1
<1>4. n \notin 1 .. Len(audits) /\ 1 .. Len(audits) \subseteq 1 .. n /\ n \in 1 .. n
  BY <1>1
<1> SUFFICES ASSUME NEW b \in Agents
             PROVE  /\ agentReputation'[b] <= Cardinality(RecordsOf(b)')
                    /\ (\A i \in RecordsOf(b)' : verdict'[i] # "fraud")
                         => agentReputation'[b] = Cardinality(RecordsOf(b)')
  BY DEF AuditReputationCounts
<1>5. IsFiniteSet(RecordsOf(b)) /\ Cardinality(RecordsOf(b)) \in Nat
  BY <1>1, RecordsFinite
<1>6. /\ agentReputation[b] \in Nat /\ agentReputation[b] <= Cardinality(RecordsOf(b))
      /\ (\A i \in RecordsOf(b) : verdict[i] # "fraud")
           => agentReputation[b] = Cardinality(RecordsOf(b))
  BY <1>1 DEF AuditReputationCounts
<1> HIDE DEF n
<1>7. CASE b = a
  <2>1. RecordsOf(b)' = RecordsOf(b) \cup {n} /\ n \notin RecordsOf(b)
    BY <1>2, <1>3, <1>4, <1>7 DEF RecordsOf
  <2>2. Cardinality(RecordsOf(b)') = Cardinality(RecordsOf(b)) + 1
    BY <1>5, <2>1, FS_AddElement
  <2>3. agentReputation'[b] = agentReputation[b] + 1
    BY <1>1, <1>7 DEF SubmitAudit
  <2> QED
    BY <1>5, <1>6, <2>1, <2>2, <2>3
<1>8. CASE b # a
  <2>1. RecordsOf(b)' = RecordsOf(b)
    BY <1>2, <1>3, <1>4, <1>8 DEF RecordsOf
  <2>2. agentReputation'[b] = agentReputation[b]
    BY <1>1, <1>8 DEF SubmitAudit
  <2> QED
    BY <1>6, <2>1, <2>2
<1> QED
  BY <1>7, <1>8

\* A fraud zeroes the count of the auditor whose record it is.
LEMMA UpholdCounts ==
  ASSUME LinkInv, AuditReputationCounts, NEW i \in Positions, UpholdDispute(i)
  PROVE  AuditReputationCounts'
<1> DEFINE auditor == audits[i].auditor
<1>1. /\ LogTyped /\ agentReputation \in [Agents -> Nat]
      /\ verdict \in [Positions -> {"none", "cleared", "fraud"}]
  BY DEF LinkInv, NetTyped, LogTyped
<1>2. /\ i \in 1 .. Len(audits) /\ audits' = audits
      /\ agentReputation' = [agentReputation EXCEPT ![auditor] = 0]
      /\ verdict' = [verdict EXCEPT ![i] = "fraud"]
  BY DEF UpholdDispute, ResolveRecord, ReputationAfter
<1> SUFFICES ASSUME NEW b \in Agents
             PROVE  /\ agentReputation'[b] <= Cardinality(RecordsOf(b)')
                    /\ (\A j \in RecordsOf(b)' : verdict'[j] # "fraud")
                         => agentReputation'[b] = Cardinality(RecordsOf(b)')
  BY DEF AuditReputationCounts
<1>3. RecordsOf(b)' = RecordsOf(b)
  BY <1>2 DEF RecordsOf
<1>4. RecordsOf(b) \subseteq Positions /\ Cardinality(RecordsOf(b)) \in Nat
  BY <1>1, RecordsFinite
<1>5. CASE b = auditor
  <2>1. i \in RecordsOf(b) /\ verdict'[i] = "fraud"
    BY <1>1, <1>2, <1>5 DEF RecordsOf
  <2>2. agentReputation'[b] = 0
    BY <1>1, <1>2, <1>5
  <2> QED
    BY <1>3, <1>4, <2>1, <2>2
<1>6. CASE b # auditor
  <2>1. agentReputation'[b] = agentReputation[b]
    BY <1>1, <1>2, <1>6
  <2>2. \A j \in RecordsOf(b) : verdict'[j] = verdict[j]
    BY <1>1, <1>2, <1>4, <1>6 DEF RecordsOf
  <2> QED
    BY <1>3, <2>1, <2>2 DEF AuditReputationCounts
<1> QED
  BY <1>5, <1>6

\* A ruling of no fraud leaves the counts alone.
LEMMA RejectCounts ==
  ASSUME LinkInv, AuditReputationCounts, NEW i \in Positions, RejectDispute(i)
  PROVE  AuditReputationCounts'
<1>1. LogTyped /\ verdict \in [Positions -> {"none", "cleared", "fraud"}]
  BY DEF LinkInv, NetTyped
<1>2. /\ i \in 1 .. Len(audits) /\ audits' = [audits EXCEPT ![i].disputed = FALSE]
      /\ agentReputation' = agentReputation
      /\ verdict' = [verdict EXCEPT ![i] = IF @ = "fraud" THEN @ ELSE "cleared"]
  BY DEF RejectDispute, ResolveRecord, ReputationAfter
<1>3. Len(audits') = Len(audits)
  BY <1>1, <1>2, FlagType
<1>4. \A j \in 1 .. Len(audits) : audits'[j].auditor = audits[j].auditor
  BY <1>1, <1>2, FlagFacts
<1>5. \A j \in Positions : verdict'[j] = "fraud" <=> verdict[j] = "fraud"
  BY <1>1, <1>2
<1> QED
  BY <1>1, <1>2, <1>3, <1>4, <1>5, QuietCounts

\* Flagging a record leaves the counts alone.
LEMMA FlagCounts ==
  ASSUME LinkInv, AuditReputationCounts, NEW i \in Positions, DisputeAudit(i),
         verdict' = verdict
  PROVE  AuditReputationCounts'
<1>1. LogTyped
  BY DEF LinkInv, NetTyped
<1>2. /\ i \in 1 .. Len(audits) /\ audits' = [audits EXCEPT ![i].disputed = TRUE]
      /\ agentReputation' = agentReputation
  BY DEF DisputeAudit
<1>3. Len(audits') = Len(audits)
  BY <1>1, <1>2, FlagType
<1>4. \A j \in 1 .. Len(audits) : audits'[j].auditor = audits[j].auditor
  BY <1>1, <1>2, FlagFacts
<1> QED
  BY <1>1, <1>2, <1>3, <1>4, QuietCounts

\* An agent's submission count (AuditRegistry.sol) is the number of its records until one
\* of them is proven fraudulent, and never more, through submissions, disputes and rulings
\* of every kind.
THEOREM CountsMatch == Spec => []AuditReputationCounts
<1>1. Init => AuditReputationCounts
  <2> SUFFICES ASSUME Init, NEW a \in Agents
               PROVE  agentReputation[a] = 0 /\ Cardinality(RecordsOf(a)) = 0
    BY DEF AuditReputationCounts
  <2>1. RecordsOf(a) = {}
    BY DEF Init, AuditInit, RecordsOf
  <2> QED
    BY <2>1, FS_EmptySet DEF Init, AuditInit
<1>2. LinkInv /\ AuditReputationCounts /\ [Next]_vars => AuditReputationCounts'
  <2> SUFFICES ASSUME LinkInv, AuditReputationCounts, [Next]_vars
               PROVE  AuditReputationCounts'
    OBVIOUS
  <2>1. ASSUME NEW a \in Agents, SubmitAudit(a), UNCHANGED resolverVars
        PROVE  AuditReputationCounts'
    BY <2>1, SubmitCounts DEF resolverVars
  <2>2. ASSUME NEW i \in Positions, DisputeAudit(i), verdict' = verdict
        PROVE  AuditReputationCounts'
    BY <2>2, FlagCounts
  <2>3. ASSUME NEW i \in Positions, UpholdDispute(i) PROVE AuditReputationCounts'
    BY <2>3, UpholdCounts
  <2>4. ASSUME NEW i \in Positions, RejectDispute(i) PROVE AuditReputationCounts'
    BY <2>4, RejectCounts
  <2>5. CASE UNCHANGED <<audits, agentReputation, verdict>>
    BY <2>5, QuietCounts DEF LinkInv, NetTyped
  <2> QED
    BY <2>1, <2>2, <2>3, <2>4, <2>5
       DEF Next, vars, auditVars, resolverVars, SetDisputeResolver, RaiseDispute, Receive
<1> QED
  BY <1>1, <1>2, LinkCorrect, PTL DEF Spec
=============================================================================
