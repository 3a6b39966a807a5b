-------------------------- MODULE DisputeResolver --------------------------
(***************************************************************************)
(* contracts/DisputeResolver.sol, with the two registries it calls: bonds, *)
(* verdicts, slashes and rewards.  A transaction that crosses contracts is *)
(* one action: if any call it makes reverts, nothing of it has happened.   *)
(***************************************************************************)
EXTENDS AuditRegistry

CONSTANTS
  Challengers,         \* addresses that raise disputes with a bond
  NoChallenger,        \* address(0)
  DisputeBond,         \* DISPUTE_BOND
  AuditorBonus,        \* reputation of an auditor cleared of fraud (5)
  TreasuryIsResolver,  \* was AgentRegistry deployed with the resolver as treasury?
  Donations,           \* the msg.values sent to receive()
  MaxBalance           \* bound on what donations raise the balance to

SlashAmount == 2 * DisputeBond

\* Three bonds; the mutation pays four.
FourBonds == 4 * DisputeBond
Reward == 3 * DisputeBond

ASSUME ResolverConstants ==
  /\ NoChallenger \notin Challengers
  /\ DisputeBond \in Nat \ {0}
  /\ AuditorBonus \in Nat
  /\ TreasuryIsResolver \in BOOLEAN
  /\ Donations \subseteq Nat
  /\ MaxBalance \in Nat

VARIABLES
  disputes,          \* position -> [challenger, auditor, bond, resolved]
  resolverBalance,   \* the Ether this contract holds
  verdict,           \* history: "none", "cleared" or "fraud", once proven for ever
  tainted            \* history: positions whose auditor was slashed afterwards

resolverVars == <<disputes, resolverBalance, verdict, tainted>>
vars == <<agentVars, auditVars, resolverVars, now>>

\* The auditor of an absent dispute is address(0) in the mapping as well.
NoDispute ==
  [challenger |-> NoChallenger, auditor |-> NoChallenger, bond |-> 0, resolved |-> FALSE]

ResolverInit ==
  /\ disputes = [i \in Positions |-> NoDispute]
  /\ resolverBalance = 0
  /\ verdict = [i \in Positions |-> "none"]
  /\ tainted = {}

Init == ChainInit /\ AgentInit /\ AuditInit /\ ResolverInit

Exists(i) == disputes[i].challenger # NoChallenger

IsOpen(i) == Exists(i) /\ ~disputes[i].resolved

OpenDisputes == {i \in Positions : IsOpen(i)}

Frauds == {i \in Positions : verdict[i] = "fraud"}

\* The entry raiseDispute() stores, with the auditor of the record it is about;
\* the mutation reads the first record instead.
FirstAuditor(c, i) ==
  [challenger |-> c, auditor |-> audits[1].auditor, bond |-> DisputeBond, resolved |-> FALSE]
NewDispute(c, i) ==
  [challenger |-> c, auditor |-> audits[i].auditor, bond |-> DisputeBond, resolved |-> FALSE]

\* raiseDispute(), sent by c with the bond.
RaiseDispute(c, i) ==
  /\ ~Exists(i)
  /\ DisputeAudit(i)
  /\ disputes' = [disputes EXCEPT ![i] = NewDispute(c, i)]
  /\ resolverBalance' = resolverBalance + DisputeBond
  /\ UNCHANGED <<verdict, tainted, agentVars, now>>

\* The entry of a dispute once ruled on; the mutation forgets to close it.
LeftOpen(d) == d
Closed(d) == [d EXCEPT !.resolved = TRUE]

\* The positions of an agent's records.
RecordsOf(a) == {j \in 1 .. Len(audits) : audits[j].auditor = a}

\* A resolver that is its own treasury receives what slash() pays.
FundsAfterSlash ==
  resolverBalance + (IF TreasuryIsResolver THEN SlashAmount ELSE 0)

\* resolveDispute(.., true): slash, then pay the reward if the balance has it
\* and else the bond alone.
UpholdDispute(i) ==
  LET funds   == FundsAfterSlash
      payment == IF funds >= Reward THEN Reward ELSE disputes[i].bond
  IN
  /\ IsOpen(i)
  /\ disputes' = [disputes EXCEPT ![i] = Closed(@)]
  /\ ResolveRecord(i, TRUE)
  /\ Slash(disputes[i].auditor, SlashAmount)
  /\ funds >= payment
  /\ resolverBalance' = funds - payment
  /\ verdict' = [verdict EXCEPT ![i] = "fraud"]
  /\ tainted' = tainted \cup RecordsOf(disputes[i].auditor)
  /\ UNCHANGED now

\* resolveDispute(.., false): the challenger gets the bond back and the
\* auditor's reputation rises.
RejectDispute(i) ==
  /\ IsOpen(i)
  /\ disputes' = [disputes EXCEPT ![i] = Closed(@)]
  /\ ResolveRecord(i, FALSE)
  /\ resolverBalance >= disputes[i].bond
  /\ resolverBalance' = resolverBalance - disputes[i].bond
  /\ AddReputation(disputes[i].auditor, AuditorBonus)
  /\ verdict' = [verdict EXCEPT ![i] = IF @ = "fraud" THEN @ ELSE "cleared"]
  /\ UNCHANGED <<tainted, now>>

\* receive(): anyone may send Ether.
Receive(v) ==
  /\ resolverBalance + v <= MaxBalance
  /\ resolverBalance' = resolverBalance + v
  /\ UNCHANGED <<disputes, verdict, tainted, agentVars, auditVars, now>>

Next ==
  \/ AgentCalls /\ UNCHANGED <<auditVars, resolverVars, now>>
  \/ GrantResolverRole /\ UNCHANGED <<auditVars, resolverVars, now>>
  \/ SetDisputeResolver /\ UNCHANGED <<agentVars, resolverVars, now>>
  \/ \E a \in Agents : SubmitAudit(a) /\ UNCHANGED <<agentVars, resolverVars, now>>
  \/ \E i \in Positions : DisputeAudit(i) /\ UNCHANGED <<agentVars, resolverVars, now>>
  \/ \E c \in Challengers, i \in Positions : RaiseDispute(c, i)
  \/ \E i \in Positions : UpholdDispute(i)
  \/ \E i \in Positions : RejectDispute(i)
  \/ \E v \in Donations : Receive(v)
  \/ Advance /\ UNCHANGED <<agentVars, auditVars, resolverVars>>

Spec == Init /\ [][Next]_vars

----------------------------------------------------------------------------

Dispute == [challenger : Challengers \cup {NoChallenger},
            auditor : Agents \cup {NoChallenger}, bond : Nat, resolved : BOOLEAN]

TypeOK ==
  /\ now \in Timestamps
  /\ AgentTypeOK
  /\ AuditTypeOK
  /\ disputes \in [Positions -> Dispute]
  /\ resolverBalance \in Int
  /\ verdict \in [Positions -> {"none", "cleared", "fraud"}]
  /\ tainted \subseteq Positions

\* An audit stays backed while it can be challenged: until its window closes
\* its auditor has a whole STAKE_AMOUNT at stake, although the auditor may
\* deregister and withdraw, unless another verdict slashed it meanwhile.
\* This is what WITHDRAWAL_DELAY being longer than the window is for.
OpenWindowBacked ==
  \A i \in 1 .. Len(audits) :
    (InWindow(audits[i]) /\ i \notin tainted)
      => agents[audits[i].auditor].stake >= StakeAmount

\* A record proven fraudulent stays flagged for ever: neither a second ruling
\* nor a direct dispute restores it.
FraudStaysFlagged ==
  \A i \in Positions :
    verdict[i] = "fraud" => (i <= Len(audits) /\ audits[i].disputed)

\* Each proven fraud costs its auditor exactly one slash: what the treasury
\* has received is one SlashAmount per record proven fraudulent.
OneSlashPerFraud ==
  treasuryReceived =
    SlashAmount * Cardinality(Frauds)

\* When the resolver is the treasury it can return the bond of every open
\* dispute: rewards are never paid out of other challengers' bonds.
BondsCovered ==
  TreasuryIsResolver =>
    resolverBalance >= DisputeBond * Cardinality(OpenDisputes)

\* A dispute names the auditor of the record it is about, and that record is
\* frozen for as long as the dispute is open.
OpenDisputeMatchesRecord ==
  \A i \in Positions : Exists(i) =>
    /\ i <= Len(audits)
    /\ disputes[i].auditor = audits[i].auditor
    /\ IsOpen(i) => audits[i].disputed

\* The submission count of an agent equals its records in the log until one
\* of them is proven fraudulent, and never exceeds it.
AuditReputationCounts ==
  \A a \in Agents :
    /\ agentReputation[a] <= Cardinality(RecordsOf(a))
    /\ (\A i \in RecordsOf(a) : verdict[i] # "fraud")
         => agentReputation[a] = Cardinality(RecordsOf(a))
=============================================================================
