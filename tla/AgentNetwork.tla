---------------------------- MODULE AgentNetwork ----------------------------
(***************************************************************************)
(* legacy/src/network: jobs and results published on two gossipsub topics, *)
(* agent processes that run the pipeline on every job they receive, and    *)
(* the process that listens for results and looks for a consensus.         *)
(* gossipsub is external: a publication reaches a subscriber at any time,  *)
(* in any order, at most once, or never.  The jobs are about one contract. *)
(***************************************************************************)
EXTENDS Integers, FiniteSets

CONSTANTS
  Agents,          \* agent processes
  Jobs,            \* job ids; broadcastJob() makes a new one each time
  Scores,          \* what a pipeline run may conclude
  NoScore,         \* none
  Threshold        \* consensusThreshold, 2 by default

ASSUME NetworkConstants ==
  /\ IsFiniteSet(Agents)
  /\ NoScore \notin Scores
  /\ Threshold \in Nat \ {0}

VARIABLES
  published,     \* jobs that were broadcast
  stage,         \* agent, job -> how far handleJob() is
  score,         \* agent, job -> the score it came to
  indexed,       \* the audit the subgraph answers first for the contract, or NoScore
  inbox,         \* results the listener has not received: [from, job, score]
  votes,         \* job -> score -> count         (state.scores)
  reports,       \* job -> the results received   (state.reports)
  resolved,      \* job -> BOOLEAN                (state.resolved)
  finals         \* history: job -> score -> finalizeConsensus() calls

agentVars == <<stage, score>>
listenerVars == <<votes, reports, resolved, finals>>
networkVars == <<published, agentVars, indexed, inbox, listenerVars>>

NetworkInit ==
  /\ published = {}
  /\ stage = [a \in Agents |-> [j \in Jobs |-> "idle"]]
  /\ score = [a \in Agents |-> [j \in Jobs |-> NoScore]]
  /\ indexed = NoScore
  /\ inbox = {}
  /\ votes = [j \in Jobs |-> [s \in Scores |-> 0]]
  /\ reports = [j \in Jobs |-> {}]
  /\ resolved = [j \in Jobs |-> FALSE]
  /\ finals = [j \in Jobs |-> [s \in Scores |-> 0]]

\* broadcastJob()
BroadcastJob(j) ==
  /\ j \notin published
  /\ published' = published \cup {j}
  /\ UNCHANGED <<agentVars, indexed, inbox, listenerVars>>

\* An audit of the contract enters AuditRegistry, and the subgraph (which is
\* asked for no order) answers it first.
IndexAudit(s) ==
  /\ indexed' = s
  /\ UNCHANGED <<published, agentVars, inbox, listenerVars>>

\* handleJob() begins: the pipeline asks the subgraph for an audit.
ReceiveJob(a, j) ==
  /\ j \in published
  /\ stage[a][j] = "idle"
  /\ stage' = [stage EXCEPT ![a][j] = "lookup"]
  /\ UNCHANGED <<published, score, indexed, inbox, listenerVars>>

\* An audit found is taken as the result; without one, or when the query
\* fails, the contract is analysed.
Lookup(a, j) ==
  /\ stage[a][j] = "lookup"
  /\ \/ /\ indexed # NoScore
        /\ score' = [score EXCEPT ![a][j] = indexed]
        /\ stage' = [stage EXCEPT ![a][j] = "broadcast"]
     \/ /\ stage' = [stage EXCEPT ![a][j] = "analyse"]
        /\ UNCHANGED score
  /\ UNCHANGED <<published, indexed, inbox, listenerVars>>

\* The analyses, an AI's among them, end with some score.
Analyse(a, j, s) ==
  /\ stage[a][j] = "analyse"
  /\ score' = [score EXCEPT ![a][j] = s]
  /\ stage' = [stage EXCEPT ![a][j] = "broadcast"]
  /\ UNCHANGED <<published, indexed, inbox, listenerVars>>

\* An error anywhere in handleJob() is logged, and the job is dropped.
Fail(a, j) ==
  /\ stage[a][j] \in {"lookup", "analyse", "broadcast"}
  /\ stage' = [stage EXCEPT ![a][j] = "failed"]
  /\ UNCHANGED <<published, score, indexed, inbox, listenerVars>>

\* broadcastResult()
BroadcastResult(a, j) ==
  /\ stage[a][j] = "broadcast"
  /\ stage' = [stage EXCEPT ![a][j] = "done"]
  /\ inbox' = inbox \cup {[from |-> a, job |-> j, score |-> score[a][j]]}
  /\ UNCHANGED <<published, score, indexed, listenerVars>>

\* The early return of handleConsensusResult().
Unresolved(j) == ~resolved[j]

\* The votes after a result.
Counted(r) == [votes EXCEPT ![r.job][r.score] = @ + 1]

\* Do so many votes decide?  One too few in the mutation.
OneShort(n) == n >= Threshold - 1
Decides(n) == n >= Threshold

\* handleConsensusResult()
HandleResult(r) ==
  LET j == r.job IN
  /\ inbox' = inbox \ {r}
  /\ \/ /\ Unresolved(j)
        /\ reports' = [reports EXCEPT ![j] = @ \cup {r}]
        /\ votes' = Counted(r)
        /\ IF Decides(votes'[j][r.score])
             THEN /\ resolved' = [resolved EXCEPT ![j] = TRUE]
                  /\ finals' = [finals EXCEPT ![j][r.score] = @ + 1]
             ELSE UNCHANGED <<resolved, finals>>
     \/ ~Unresolved(j) /\ UNCHANGED listenerVars
  /\ UNCHANGED <<published, agentVars, indexed>>

\* A result is lost.
LoseResult(r) ==
  /\ inbox' = inbox \ {r}
  /\ UNCHANGED <<published, agentVars, indexed, listenerVars>>

NetworkNext ==
  \/ \E j \in Jobs : BroadcastJob(j)
  \/ \E s \in Scores : IndexAudit(s)
  \/ \E a \in Agents, j \in Jobs : ReceiveJob(a, j)
  \/ \E a \in Agents, j \in Jobs : Lookup(a, j)
  \/ \E a \in Agents, j \in Jobs, s \in Scores : Analyse(a, j, s)
  \/ \E a \in Agents, j \in Jobs : Fail(a, j)
  \/ \E a \in Agents, j \in Jobs : BroadcastResult(a, j)
  \/ \E r \in inbox : HandleResult(r)
  \/ \E r \in inbox : LoseResult(r)

NetworkSpec == NetworkInit /\ [][NetworkNext]_networkVars

----------------------------------------------------------------------------

Result == [from : Agents, job : Jobs, score : Scores]

NetworkTypeOK ==
  /\ published \subseteq Jobs
  /\ stage \in [Agents -> [Jobs -> {"idle", "lookup", "analyse", "broadcast", "done",
                               "failed"}]]
  /\ score \in [Agents -> [Jobs -> Scores \cup {NoScore}]]
  /\ indexed \in Scores \cup {NoScore}
  /\ inbox \subseteq Result
  /\ votes \in [Jobs -> [Scores -> Nat]]
  /\ reports \in [Jobs -> SUBSET Result]
  /\ resolved \in [Jobs -> BOOLEAN]
  /\ finals \in [Jobs -> [Scores -> Nat]]

\* The abstract state: who has broadcast what, and what was finalized.
CastVotes ==
  UNION {{[from |-> a, job |-> j, score |-> score[a][j]] :
            j \in {k \in Jobs : stage[a][k] = "done"}} : a \in Agents}
Finalized(j, s) == finals[j][s] > 0
Decisions ==
  [j \in Jobs |-> IF \E s \in Scores : Finalized(j, s)
                  THEN CHOOSE s \in Scores : Finalized(j, s) ELSE NoScore]

C == INSTANCE Consensus WITH cast <- CastVotes, decision <- Decisions

\* The network is a consensus: in whatever order results arrive, however many are
\* lost or late, a job gets at most one decision, which no late result takes back,
\* and one that enough different agents have voted for.
ConsensusReached == C!ConsensusSpec

Reporters(j, s) == {a \in Agents : [from |-> a, job |-> j, score |-> s] \in reports[j]}

\* The score finalizeConsensus() is given was reported for this job by as many
\* agents as the threshold asks, and as soon as a score was, the job is finalized.
FinalWasReported ==
  \A j \in Jobs, s \in Scores :
    Finalized(j, s) <=> Cardinality(Reporters(j, s)) >= Threshold
=============================================================================
