--------------------------- MODULE AuditJobQueue ----------------------------
(***************************************************************************)
(* contracts/AuditJobQueue.sol: users pay to submit audit jobs, several    *)
(* worker nodes report on them without claiming them first, and the admin  *)
(* collects the fees.  The source's IPFS hash and the timestamp are left   *)
(* out; the result's is "" or a member of Results.                         *)
(***************************************************************************)
EXTENDS Integers, Sequences

CONSTANTS
  Clients,      \* addresses that submit jobs
  Fees,       \* fees the admin sets, and msg.values of submitJob()
  Results,    \* result hashes the workers report; may hold ""
  MaxJobs     \* bound on the number of jobs

ASSUME QueueConstants == Fees \subseteq Nat /\ MaxJobs \in Nat

JobStatus == {"PENDING", "PROCESSING", "COMPLETED", "FAILED"}

VARIABLES
  auditFee,       \* the least msg.value of a submission
  nextJobId,      \* the id of the next job
  jobs,           \* job id -> [submitter, status, result], defined on the ids in use
  userJobs,       \* user -> the ids of its jobs
  feesHeld       \* the fees not withdrawn yet

queueVars == <<auditFee, nextJobId, jobs, userJobs, feesHeld>>

QueueInit ==
  /\ auditFee \in Fees
  /\ nextJobId = 1
  /\ jobs = <<>>
  /\ userJobs = [u \in Clients |-> <<>>]
  /\ feesHeld = 0

\* setAuditFee(), called by the admin.
SetAuditFee(fee) ==
  /\ auditFee' = fee
  /\ UNCHANGED <<nextJobId, jobs, userJobs, feesHeld>>

NewJob(u) == [submitter |-> u, status |-> "PENDING", result |-> ""]

\* The id after a submission; the mutation forgets the increment.
SameId == nextJobId
IdAfterSubmit == nextJobId + 1

\* submitJob(), sent by u with v.  The mapping's next entry is written.
SubmitJob(u, v) ==
  /\ v >= auditFee
  /\ nextJobId <= MaxJobs
  /\ nextJobId' = IdAfterSubmit
  /\ jobs' = [id \in DOMAIN jobs \cup {nextJobId} |->
                IF id = nextJobId THEN NewJob(u) ELSE jobs[id]]
  /\ userJobs' = [userJobs EXCEPT ![u] = Append(@, nextJobId)]
  /\ feesHeld' = feesHeld + v
  /\ UNCHANGED auditFee

\* May a worker still report on job id?
Reportable(id) == jobs[id].status # "COMPLETED"

\* updateJobStatus(), called by any worker with any status.
UpdateJobStatus(id, status, result) ==
  /\ id \in DOMAIN jobs
  /\ Reportable(id)
  /\ jobs' = [jobs EXCEPT ![id].status = status, ![id].result = result]
  /\ UNCHANGED <<auditFee, nextJobId, userJobs, feesHeld>>

\* withdrawFees(), called by the admin.
WithdrawFees ==
  /\ feesHeld > 0
  /\ feesHeld' = 0
  /\ UNCHANGED <<auditFee, nextJobId, jobs, userJobs>>

QueueNext ==
  \/ \E fee \in Fees : SetAuditFee(fee)
  \/ \E u \in Clients, v \in Fees : SubmitJob(u, v)
  \/ \E id \in 1 .. MaxJobs, status \in JobStatus, result \in Results :
       UpdateJobStatus(id, status, result)
  \/ WithdrawFees

QueueSpec == QueueInit /\ [][QueueNext]_queueVars

----------------------------------------------------------------------------

AuditJob == [submitter : Clients, status : JobStatus, result : Results \cup {""}]

QueueTypeOK ==
  /\ auditFee \in Fees
  /\ nextJobId \in 1 .. MaxJobs + 1
  /\ jobs \in Seq(AuditJob)
  /\ userJobs \in [Clients -> Seq(1 .. MaxJobs)]
  /\ feesHeld \in Nat

\* The per-user lists partition the jobs: each job is listed once, under the
\* user that submitted it and in the order of submission.
JobsPartitioned ==
  /\ Len(jobs) = nextJobId - 1
  /\ \A u \in Clients :
       /\ \A id \in 1 .. Len(jobs) :
            jobs[id].submitter = u <=> \E k \in 1 .. Len(userJobs[u]) : userJobs[u][k] = id
       /\ \A k \in 1 .. Len(userJobs[u]) : userJobs[u][k] \in 1 .. Len(jobs)
       /\ \A k, l \in 1 .. Len(userJobs[u]) : k < l => userJobs[u][k] < userJobs[u][l]
=============================================================================
