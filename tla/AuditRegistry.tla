--------------------------- MODULE AuditRegistry ---------------------------
(***************************************************************************)
(* contracts/AuditRegistry.sol: the append-only log of audit records.  The *)
(* arrays audits[contractHash] are one log here: a pair (contractHash,     *)
(* index) is a position in it.  The CID, score and risk level of a record  *)
(* are written once and read by nobody on chain, and are left out.         *)
(***************************************************************************)
EXTENDS AgentRegistry, Sequences

CONSTANTS
  ChallengeWindow,   \* the 72 hours of disputeAudit()
  MaxAudits          \* bound on the length of the log

ASSUME AuditConstants ==
  /\ ChallengeWindow \in Nat
  /\ MaxAudits \in Nat

\* 72 hours against 7 days.
ASSUME WindowEndsBeforeDelay == ChallengeWindow < WithdrawalDelay

VARIABLES
  audits,              \* the log: [auditor, timestamp, disputed]
  agentReputation,     \* address -> count of submissions, zeroed by a fraud
  disputeTimestamps,   \* position -> time of the last dispute, 0 when none
  disputeResolverSet   \* has setDisputeResolver() linked the resolver?

auditVars == <<audits, agentReputation, disputeTimestamps, disputeResolverSet>>

Positions == 1 .. MaxAudits

\* The constructor is given the zero address; scripts/deploy.ts links later.
AuditInit ==
  /\ audits = <<>>
  /\ agentReputation = [a \in Agents |-> 0]
  /\ disputeTimestamps = [i \in Positions |-> 0]
  /\ disputeResolverSet = FALSE

\* setDisputeResolver(), called once by the owner.
SetDisputeResolver ==
  /\ ~disputeResolverSet
  /\ disputeResolverSet' = TRUE
  /\ UNCHANGED <<audits, agentReputation, disputeTimestamps>>

\* The log with record r.
Logged(r) == Append(audits, r)

\* submitAudit(), called by agent a.
SubmitAudit(a) ==
  /\ IsAgentActive(a)
  /\ Len(audits) < MaxAudits
  /\ audits' = Logged([auditor |-> a, timestamp |-> now, disputed |-> FALSE])
  /\ agentReputation' = [agentReputation EXCEPT ![a] = @ + 1]
  /\ UNCHANGED <<disputeTimestamps, disputeResolverSet>>

\* The 72 hour challenge window of a record.
InWindow(record) == now <= record.timestamp + ChallengeWindow

\* disputeAudit(): anyone may call it, the DisputeResolver among others.
DisputeAudit(i) ==
  /\ i \in 1 .. Len(audits)
  /\ ~audits[i].disputed
  /\ InWindow(audits[i])
  /\ audits' = [audits EXCEPT ![i].disputed = TRUE]
  /\ disputeTimestamps' = [disputeTimestamps EXCEPT ![i] = now]
  /\ UNCHANGED <<agentReputation, disputeResolverSet>>

\* Proven fraud zeroes the auditor's count; in the mutation any ruling does.
ZeroedAnyway(i, fraudProven) == [agentReputation EXCEPT ![audits[i].auditor] = 0]
ReputationAfter(i, fraudProven) ==
  IF fraudProven THEN [agentReputation EXCEPT ![audits[i].auditor] = 0]
                 ELSE agentReputation

\* resolveDispute(), called by the linked DisputeResolver.
ResolveRecord(i, fraudProven) ==
  /\ disputeResolverSet
  /\ i \in 1 .. Len(audits)
  /\ audits[i].disputed
  /\ agentReputation' = ReputationAfter(i, fraudProven)
  /\ audits' = IF fraudProven THEN audits
                              ELSE [audits EXCEPT ![i].disputed = FALSE]
  /\ UNCHANGED <<disputeTimestamps, disputeResolverSet>>

----------------------------------------------------------------------------

AuditRecord == [auditor : Agents, timestamp : Nat, disputed : BOOLEAN]

\* The log and its counters ...
LogTyped ==
  /\ audits \in Seq(AuditRecord)
  /\ Len(audits) \in 0 .. MaxAudits
  /\ agentReputation \in [Agents -> Nat]
  /\ disputeTimestamps \in [Positions -> Nat]

\* ... and the whole state of the contract.
AuditTypeOK == LogTyped /\ disputeResolverSet \in BOOLEAN
=============================================================================
