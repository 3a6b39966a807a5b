--------------------------- MODULE ResumeRegistry ---------------------------
(***************************************************************************)
(* contracts/ResumeRegistry.sol: résumé proofs, accepted once per student  *)
(* and job, and the timelocked replacement of the verifier that judges     *)
(* them.  verifyProof() is a view of another contract: what each verifier  *)
(* accepts is a constant, and it cannot call back.                         *)
(***************************************************************************)
EXTENDS Integers, BlockTime

CONSTANTS
  Applicants,             \* addresses that submit proofs
  NoApplicant,            \* address(0)
  Positions,              \* values of jobId
  Proofs,            \* proofs: [qualified, score, student]
  Verifiers,         \* verifier contracts
  NoVerifier,        \* address(0)
  Accepts,           \* verifier -> the proofs it finds valid
  MinimumThreshold,  \* minimumThreshold
  TimelockDelay      \* TIMELOCK_DELAY

Students == {p.student : p \in Proofs}

ASSUME ResumeConstants ==
  /\ NoApplicant \notin Applicants
  /\ NoVerifier \notin Verifiers
  /\ \A p \in Proofs : p.qualified \in BOOLEAN /\ p.score \in Nat
  /\ Accepts \in [Verifiers -> SUBSET Proofs]
  /\ MinimumThreshold \in Nat
  /\ TimelockDelay \in Nat

VARIABLES
  verifier,                  \* the verifier in force
  usedNullifiers,            \* the nullifiers marked used
  records,                   \* nullifier -> [submitter, timestamp]
  pendingVerifier,           \* the proposed verifier, or NoVerifier
  verifierUpdateUnlockTime,  \* when the proposal may be executed
  proposed                   \* history: the time of each verifier's last proposal

recordVars == <<usedNullifiers, records>>
updateVars == <<verifier, pendingVerifier, verifierUpdateUnlockTime, proposed>>
resumeVars == <<recordVars, updateVars, now>>

\* The hash of student and job (chain id and address are fixed) is injective:
\* only one of its arguments has a variable length.
Nullifiers == Students \X Positions
Nullifier(p, job) == <<p.student, job>>

NoRecord == [submitter |-> NoApplicant, timestamp |-> 0]

ResumeInit ==
  /\ ChainInit
  /\ verifier \in Verifiers
  /\ usedNullifiers = {}
  /\ records = [n \in Nullifiers |-> NoRecord]
  /\ pendingVerifier = NoVerifier
  /\ verifierUpdateUnlockTime = 0
  /\ proposed = [v \in Verifiers |-> 0]

\* usedNullifiers[nullifier] is false.
Fresh(n) == n \notin usedNullifiers

\* The nullifiers after a proof is accepted; the mutation marks none.
Unmarked(n) == usedNullifiers
Marked(n) == usedNullifiers \cup {n}

\* submitProof(), sent by u.
SubmitProof(u, p, job) ==
  LET n == Nullifier(p, job) IN
  /\ p.qualified
  /\ p.score >= MinimumThreshold
  /\ Fresh(n)
  /\ p \in Accepts[verifier]
  /\ usedNullifiers' = Marked(n)
  /\ records' = [records EXCEPT ![n] = [submitter |-> u, timestamp |-> now]]
  /\ UNCHANGED <<updateVars, now>>

\* The unlock time of a new proposal; in the mutation the clock of a proposal
\* that is replaced runs on.
RunningClock ==
  IF pendingVerifier # NoVerifier THEN verifierUpdateUnlockTime
                                  ELSE TimelockEnd(TimelockDelay)
UnlockTime == TimelockEnd(TimelockDelay)

\* proposeVerifierUpdate(): replaces a proposal that is pending.
ProposeVerifierUpdate(v) ==
  /\ pendingVerifier' = v
  /\ verifierUpdateUnlockTime' = UnlockTime
  /\ proposed' = [proposed EXCEPT ![v] = now]
  /\ UNCHANGED <<verifier, recordVars, now>>

\* The verifier executeVerifierUpdate() installs; the mutation clears the
\* proposal first.
Cleared == NoVerifier
Installed == pendingVerifier

\* executeVerifierUpdate()
ExecuteVerifierUpdate ==
  /\ pendingVerifier # NoVerifier
  /\ TimelockOver(verifierUpdateUnlockTime)
  /\ verifier' = Installed
  /\ pendingVerifier' = NoVerifier
  /\ verifierUpdateUnlockTime' = 0
  /\ UNCHANGED <<proposed, recordVars, now>>

\* cancelVerifierUpdate()
CancelVerifierUpdate ==
  /\ pendingVerifier # NoVerifier
  /\ pendingVerifier' = NoVerifier
  /\ verifierUpdateUnlockTime' = 0
  /\ UNCHANGED <<verifier, proposed, recordVars, now>>

ResumeNext ==
  \/ \E u \in Applicants, p \in Proofs, job \in Positions : SubmitProof(u, p, job)
  \/ \E v \in Verifiers : ProposeVerifierUpdate(v)
  \/ ExecuteVerifierUpdate
  \/ CancelVerifierUpdate
  \/ Advance /\ UNCHANGED <<recordVars, updateVars>>

ResumeSpec == ResumeInit /\ [][ResumeNext]_resumeVars

----------------------------------------------------------------------------

ResumeTypeOK ==
  /\ now \in Timestamps
  /\ verifier \in Verifiers
  /\ usedNullifiers \subseteq Nullifiers
  /\ records \in [Nullifiers -> [submitter : Applicants \cup {NoApplicant}, timestamp : Nat]]
  /\ pendingVerifier \in Verifiers \cup {NoVerifier}
  /\ verifierUpdateUnlockTime \in Nat
  /\ proposed \in [Verifiers -> Nat]

\* A nullifier is spent exactly when there is a record of the proof that spent
\* it: no student is locked out of a job without a record, and no recorded
\* proof can be replayed.
SpentMatchesRecorded ==
  \A n \in Nullifiers :
    n \in usedNullifiers <=> records[n].submitter # NoApplicant

\* A verifier comes into force no earlier than the delay after its last
\* proposal, whatever was proposed, replaced or cancelled before, and as the
\* latest of the proposals.
VerifierAnnounced ==
  [][verifier' # verifier =>
       /\ proposed[verifier'] > 0
       /\ now >= proposed[verifier'] + TimelockDelay
       /\ \A v \in Verifiers : proposed[v] <= proposed[verifier']]_resumeVars
=============================================================================
