-------------------------- MODULE AgentNetworkProofs --------------------------
(***************************************************************************)
(* The agents' consensus for any agents, jobs, scores and threshold: what  *)
(* is finalized was reported often enough, and the network implements      *)
(* Consensus.  The inductive invariant follows one result on its way: it   *)
(* is in flight or received, never both, so that no vote counts twice; and *)
(* a job is resolved exactly when a score of it has reached the threshold, *)
(* so that no second score can.                                            *)
(***************************************************************************)
EXTENDS AgentNetwork, FiniteSetTheorems, TLAPS

\* A result says what its agent concluded of the job.
Authentic(r) == stage[r.from][r.job] = "done" /\ score[r.from][r.job] = r.score

\* An agent about to publish has a score.
Concluded ==
  \A a \in Agents, j \in Jobs :
    stage[a][j] \in {"broadcast", "done"} => score[a][j] \in Scores

InFlight == \A r \in inbox : Authentic(r)

Received == \A j \in Jobs : \A r \in reports[j] : r.job = j /\ r \notin inbox /\ Authentic(r)

Tallied == \A j \in Jobs, s \in Scores : votes[j][s] = Cardinality(Reporters(j, s))

Settled ==
  /\ \A j \in Jobs, s \in Scores : Finalized(j, s) <=> votes[j][s] >= Threshold
  /\ \A j \in Jobs, s \in Scores : Finalized(j, s) => resolved[j]
  /\ \A j \in Jobs : \A s, t \in Scores : Finalized(j, s) /\ Finalized(j, t) => s = t

NetInv == NetworkTypeOK /\ Concluded /\ InFlight /\ Received /\ Tallied /\ Settled

----------------------------------------------------------------------------
(* Type correctness *)

\* Reporters and supporters are some of the agents.
LEMMA ReportersFinite ==
  ASSUME NEW j, NEW s
  PROVE  IsFiniteSet(Reporters(j, s)) /\ Cardinality(Reporters(j, s)) \in Nat
<1>1. Reporters(j, s) \in SUBSET Agents
  BY DEF Reporters
<1> QED
  BY <1>1, FS_Subset, FS_CardinalityType, NetworkConstants

\* Nothing has happened yet.
LEMMA NetworkInitInv == NetworkInit => NetInv
<1> SUFFICES ASSUME NetworkInit PROVE NetInv
  OBVIOUS
<1>1. NetworkTypeOK
  BY DEF NetworkInit, NetworkTypeOK
<1>2. Concluded /\ InFlight /\ Received
  BY DEF NetworkInit, Concluded, InFlight, Received
<1>3. Tallied
  <2> SUFFICES ASSUME NEW j \in Jobs, NEW s \in Scores
               PROVE  votes[j][s] = Cardinality(Reporters(j, s))
    BY DEF Tallied
  <2>1. Reporters(j, s) = {}
    BY DEF NetworkInit, Reporters
  <2> QED
    BY <2>1, FS_EmptySet DEF NetworkInit
<1>4. Settled
  BY NetworkConstants DEF NetworkInit, Settled, Finalized
<1> QED
  BY <1>1, <1>2, <1>3, <1>4 DEF NetInv

----------------------------------------------------------------------------
(* The agents *)

\* A job, an indexed audit, a run that begins, looks up, analyses or fails: what
\* has been published stays what it is, and the listener sees none of it.
LEMMA AgentStepsKeep ==
  ASSUME NetInv,
         \/ \E j \in Jobs : BroadcastJob(j)
         \/ \E s \in Scores : IndexAudit(s)
         \/ \E a \in Agents, j \in Jobs :
              \/ ReceiveJob(a, j) \/ Lookup(a, j) \/ Fail(a, j)
              \/ \E s \in Scores : Analyse(a, j, s)
  PROVE  /\ NetInv'
         /\ \A a \in Agents, j \in Jobs :
              /\ stage'[a][j] = "done" <=> stage[a][j] = "done"
              /\ stage[a][j] = "done" => score'[a][j] = score[a][j]
<1> USE DEF NetInv
<1>1. /\ UNCHANGED <<inbox, listenerVars>>
      /\ published' \subseteq Jobs /\ indexed' \in Scores \cup {NoScore}
  BY DEF NetworkTypeOK, BroadcastJob, IndexAudit, ReceiveJob, Lookup, Fail, Analyse, listenerVars
<1> DEFINE Kept ==
      /\ stage' \in [Agents -> [Jobs -> {"idle", "lookup", "analyse", "broadcast", "done",
                                        "failed"}]]
      /\ score' \in [Agents -> [Jobs -> Scores \cup {NoScore}]]
      /\ \A a \in Agents, j \in Jobs :
           /\ stage'[a][j] = "done" <=> stage[a][j] = "done"
           /\ stage[a][j] = "done" => score'[a][j] = score[a][j]
      /\ Concluded'
<1> USE DEF NetworkTypeOK, Concluded
<1>2. ASSUME UNCHANGED agentVars PROVE Kept
  BY <1>2 DEF agentVars
<1>3. ASSUME NEW a \in Agents, NEW j \in Jobs, ReceiveJob(a, j) PROVE Kept
  BY <1>3 DEF ReceiveJob
<1>4. ASSUME NEW a \in Agents, NEW j \in Jobs, Lookup(a, j) PROVE Kept
  <2>1. CASE indexed # NoScore /\ score' = [score EXCEPT ![a][j] = indexed]
             /\ stage' = [stage EXCEPT ![a][j] = "broadcast"]
    BY <1>4, <2>1 DEF Lookup
  <2>2. CASE stage' = [stage EXCEPT ![a][j] = "analyse"] /\ UNCHANGED score
    BY <1>4, <2>2 DEF Lookup
  <2> QED
    BY <1>4, <2>1, <2>2 DEF Lookup
<1>5. ASSUME NEW a \in Agents, NEW j \in Jobs, Fail(a, j) PROVE Kept
  BY <1>5 DEF Fail
<1>6. ASSUME NEW a \in Agents, NEW j \in Jobs, NEW s \in Scores, Analyse(a, j, s) PROVE Kept
  BY <1>6 DEF Analyse
<1>7. Kept
  BY <1>2, <1>3, <1>4, <1>5, <1>6 DEF BroadcastJob, IndexAudit
<1>8. NetworkTypeOK'
  BY <1>1, <1>7 DEF NetworkTypeOK, listenerVars
<1>9. InFlight'
  BY <1>1, <1>7 DEF InFlight, Authentic, Result
<1>10. Received'
  BY <1>1, <1>7 DEF Received, Authentic, Result, listenerVars
<1>11. Tallied' /\ Settled'
  BY <1>1 DEF Tallied, Settled, Reporters, Finalized, listenerVars
<1> QED
  BY <1>7, <1>8, <1>9, <1>10, <1>11

\* broadcastResult(): the result in flight is the one its agent came to, and is new.
LEMMA BroadcastKeeps ==
  ASSUME NetInv, NEW a \in Agents, NEW j \in Jobs, BroadcastResult(a, j)
  PROVE  NetInv'
<1> USE DEF NetInv
<1> DEFINE r == [from |-> a, job |-> j, score |-> score[a][j]]
<1>1. r \in Result
  BY DEF Concluded, BroadcastResult, Result
<1>2. NetworkTypeOK'
  BY <1>1 DEF NetworkTypeOK, BroadcastResult, listenerVars
<1>3. \A b \in Agents, k \in Jobs :
        stage'[b][k] = IF b = a /\ k = j THEN "done" ELSE stage[b][k]
  BY DEF NetworkTypeOK, BroadcastResult
<1>4. Concluded'
  BY <1>3 DEF Concluded, BroadcastResult
<1>5. InFlight'
  BY <1>1, <1>3 DEF NetworkTypeOK, InFlight, Authentic, Result, BroadcastResult
<1>6. Received'
  <2> SUFFICES ASSUME NEW k \in Jobs, NEW q \in reports[k]
               PROVE  q.job = k /\ q \notin inbox' /\ Authentic(q)'
    BY DEF Received, BroadcastResult, listenerVars
  <2>1. q \in Result /\ q.job = k /\ q \notin inbox /\ Authentic(q)
    BY DEF NetworkTypeOK, Received
  <2>2. q # r
    BY <2>1 DEF Authentic, BroadcastResult
  <2> QED
    BY <2>1, <2>2, <1>3 DEF Authentic, BroadcastResult, Result
<1>7. Tallied' /\ Settled'
  BY DEF Tallied, Settled, Reporters, Finalized, BroadcastResult, listenerVars
<1> QED
  BY <1>2, <1>4, <1>5, <1>6, <1>7
----------------------------------------------------------------------------
(* The listener *)

\* A result that is lost, or comes when its job is resolved, changes no vote.
LEMMA DropKeeps ==
  ASSUME NetInv, inbox' \subseteq inbox, UNCHANGED <<published, agentVars, indexed, listenerVars>>
  PROVE  NetInv'
<1> USE DEF NetInv, agentVars, listenerVars
<1>1. NetworkTypeOK'
  BY DEF NetworkTypeOK
<1>2. Concluded' /\ InFlight' /\ Received'
  BY DEF Concluded, InFlight, Received, Authentic
<1>3. Tallied' /\ Settled'
  BY DEF Tallied, Settled, Reporters, Finalized
<1> QED
  BY <1>1, <1>2, <1>3

\* A result that is received while its job is open adds one reporter to its score, and
\* to no other.
LEMMA CountedReporters ==
  ASSUME NetInv, NEW r \in inbox,
         reports' = [reports EXCEPT ![r.job] = @ \cup {r}], NEW j \in Jobs, NEW s \in Scores
  PROVE  /\ r.job = j /\ r.score = s =>
              /\ Reporters(j, s)' = Reporters(j, s) \cup {r.from}
              /\ r.from \notin Reporters(j, s)
         /\ r.job # j \/ r.score # s => Reporters(j, s)' = Reporters(j, s)
<1>1. r \in Result /\ reports \in [Jobs -> SUBSET Result]
  BY DEF NetInv, NetworkTypeOK
<1>2. r = [from |-> r.from, job |-> r.job, score |-> r.score] /\ r.from \in Agents
  BY <1>1 DEF Result
<1>3. ASSUME r.job = j, r.score = s
      PROVE  /\ Reporters(j, s)' = Reporters(j, s) \cup {r.from}
             /\ r.from \notin Reporters(j, s)
  <2>1. reports'[j] = reports[j] \cup {r} /\ r \notin reports[j]
    BY <1>1, <1>3 DEF NetInv, Received
  <2>2. \A a \in Agents : [from |-> a, job |-> j, score |-> s] = r <=> a = r.from
    BY <1>2, <1>3
  <2> QED
    BY <1>2, <2>1, <2>2 DEF Reporters
<1>4. ASSUME r.job # j \/ r.score # s PROVE Reporters(j, s)' = Reporters(j, s)
  <2>1. reports'[j] = reports[j] \/ reports'[j] = reports[j] \cup {r}
    BY <1>1
  <2>2. \A a \in Agents : [from |-> a, job |-> j, score |-> s] # r
    BY <1>2, <1>4
  <2> QED
    BY <2>1, <2>2 DEF Reporters
<1> QED
  BY <1>3, <1>4

\* handleConsensusResult() of a job that is open.
LEMMA CountKeeps ==
  ASSUME NetInv, NEW r \in inbox, HandleResult(r), Unresolved(r.job)
  PROVE  NetInv'
<1> USE DEF NetInv
<1>1. r \in Result /\ r.job \in Jobs /\ r.score \in Scores /\ r.from \in Agents
  BY DEF NetworkTypeOK, Result
<1>2. /\ inbox' = inbox \ {r}
      /\ reports' = [reports EXCEPT ![r.job] = @ \cup {r}]
      /\ votes' = [votes EXCEPT ![r.job][r.score] = @ + 1]
      /\ UNCHANGED <<published, stage, score, indexed>>
  BY DEF HandleResult, Counted, agentVars
<1>3. IF votes'[r.job][r.score] >= Threshold
      THEN /\ resolved' = [resolved EXCEPT ![r.job] = TRUE]
           /\ finals' = [finals EXCEPT ![r.job][r.score] = @ + 1]
      ELSE UNCHANGED <<resolved, finals>>
  BY DEF HandleResult, Decides
<1>4. NetworkTypeOK'
  <2>1. reports' \in [Jobs -> SUBSET Result] /\ votes' \in [Jobs -> [Scores -> Nat]]
    BY <1>1, <1>2 DEF NetworkTypeOK
  <2>2. resolved' \in [Jobs -> BOOLEAN]
    BY <1>1, <1>3 DEF NetworkTypeOK
  <2>3. finals' \in [Jobs -> [Scores -> Nat]]
    <3>1. CASE UNCHANGED finals
      BY <3>1 DEF NetworkTypeOK
    <3>2. CASE finals' = [finals EXCEPT ![r.job][r.score] = @ + 1]
      BY <1>1, <3>2 DEF NetworkTypeOK
    <3> QED
      BY <1>3, <3>1, <3>2
  <2> QED
    BY <1>2, <2>1, <2>2, <2>3 DEF NetworkTypeOK
<1>5. Concluded' /\ InFlight'
  BY <1>2 DEF Concluded, InFlight, Authentic
<1>6. Received'
  <2> SUFFICES ASSUME NEW j \in Jobs, NEW q \in reports'[j]
               PROVE  q.job = j /\ q \notin inbox' /\ Authentic(q)'
    BY DEF Received
  <2>1. CASE q = r
    BY <1>1, <1>2, <2>1 DEF NetworkTypeOK, Received, InFlight, Authentic
  <2>2. CASE q # r
    <3>1. q \in reports[j]
      BY <1>1, <1>2, <2>2 DEF NetworkTypeOK
    <3> QED
      BY <1>2, <3>1 DEF Received, Authentic
  <2> QED
    BY <2>1, <2>2
<1>7. \A j \in Jobs, s \in Scores :
        votes'[j][s] = IF j = r.job /\ s = r.score THEN votes[j][s] + 1 ELSE votes[j][s]
  BY <1>1, <1>2 DEF NetworkTypeOK
<1>8. Tallied'
  <2> SUFFICES ASSUME NEW j \in Jobs, NEW s \in Scores
               PROVE  votes'[j][s] = Cardinality(Reporters(j, s)')
    BY DEF Tallied
  <2>1. votes[j][s] = Cardinality(Reporters(j, s)) /\ IsFiniteSet(Reporters(j, s))
    BY ReportersFinite DEF Tallied
  <2>2. /\ r.job = j /\ r.score = s =>
             /\ Reporters(j, s)' = Reporters(j, s) \cup {r.from}
             /\ r.from \notin Reporters(j, s)
        /\ r.job # j \/ r.score # s => Reporters(j, s)' = Reporters(j, s)
    BY <1>2, CountedReporters
  <2>3. Cardinality(Reporters(j, s) \cup {r.from})
          = IF r.from \in Reporters(j, s) THEN Cardinality(Reporters(j, s))
                                         ELSE Cardinality(Reporters(j, s)) + 1
    BY <2>1, FS_AddElement
  <2>4. CASE r.job = j /\ r.score = s
    <3>1. votes'[j][s] = votes[j][s] + 1
      BY <1>7, <2>4
    <3>2. Cardinality(Reporters(j, s)') = Cardinality(Reporters(j, s) \cup {r.from})
      BY <2>2, <2>4
    <3>3. Cardinality(Reporters(j, s) \cup {r.from}) = Cardinality(Reporters(j, s)) + 1
      BY <2>2, <2>3, <2>4
    <3> QED
      BY <2>1, <3>1, <3>2, <3>3
  <2>5. CASE r.job # j \/ r.score # s
    <3>1. votes'[j][s] = votes[j][s]
      BY <1>7, <2>5
    <3> QED
      BY <2>1, <2>2, <2>5, <3>1
  <2> QED
    BY <2>4, <2>5
<1>9. Settled'
  <2>1. \A s \in Scores : finals[r.job][s] = 0 /\ votes[r.job][s] < Threshold
    <3> SUFFICES ASSUME NEW s \in Scores PROVE finals[r.job][s] = 0 /\ votes[r.job][s] < Threshold
      OBVIOUS
    <3>1. ~Finalized(r.job, s) /\ ~(votes[r.job][s] >= Threshold)
      BY <1>1 DEF Settled, Unresolved
    <3>2. finals[r.job][s] \in Nat /\ votes[r.job][s] \in Nat /\ Threshold \in Nat
      BY <1>1, NetworkConstants DEF NetworkTypeOK
    <3> QED
      BY <3>1, <3>2 DEF Finalized
  <2>2. \A j \in Jobs, s \in Scores :
          finals'[j][s] = IF j = r.job /\ s = r.score /\ votes'[j][s] >= Threshold
                          THEN 1 ELSE finals[j][s]
    BY <1>1, <1>3, <2>1 DEF NetworkTypeOK
  <2>3. \A j \in Jobs :
          resolved[j] \/ (j = r.job /\ votes'[j][r.score] >= Threshold) => resolved'[j]
    BY <1>1, <1>3 DEF NetworkTypeOK
  <2>4. \A j \in Jobs, s \in Scores : Finalized(j, s)' <=> votes'[j][s] >= Threshold
    BY <1>7, <2>1, <2>2 DEF Settled, Finalized
  <2>5. \A j \in Jobs, s \in Scores : Finalized(j, s)' => resolved'[j]
    <3> SUFFICES ASSUME NEW j \in Jobs, NEW s \in Scores, finals'[j][s] > 0
                 PROVE  resolved'[j]
      BY DEF Finalized
    <3>1. CASE j = r.job /\ s = r.score /\ votes'[j][s] >= Threshold
      BY <2>3, <3>1
    <3>2. CASE ~(j = r.job /\ s = r.score /\ votes'[j][s] >= Threshold)
      <4>1. finals[j][s] > 0
        BY <2>2, <3>2
      <4> QED
        BY <2>3, <4>1 DEF Settled, Finalized
    <3> QED
      BY <3>1, <3>2
  <2>6. \A j \in Jobs : \A s, t \in Scores : Finalized(j, s)' /\ Finalized(j, t)' => s = t
    BY <2>1, <2>2 DEF Settled, Finalized
  <2> QED
    BY <2>4, <2>5, <2>6 DEF Settled
<1> QED
  BY <1>4, <1>5, <1>6, <1>8, <1>9

----------------------------------------------------------------------------
(* The invariant *)

\* Every step keeps the invariant.
LEMMA NetworkNextInv == NetInv /\ [NetworkNext]_networkVars => NetInv'
<1> SUFFICES ASSUME NetInv, [NetworkNext]_networkVars PROVE NetInv'
  OBVIOUS
<1>1. CASE \/ \E j \in Jobs : BroadcastJob(j)
           \/ \E s \in Scores : IndexAudit(s)
           \/ \E a \in Agents, j \in Jobs :
                \/ ReceiveJob(a, j) \/ Lookup(a, j) \/ Fail(a, j)
                \/ \E s \in Scores : Analyse(a, j, s)
  BY <1>1, AgentStepsKeep
<1>2. CASE \E a \in Agents, j \in Jobs : BroadcastResult(a, j)
  BY <1>2, BroadcastKeeps
<1>3. ASSUME NEW r \in inbox, HandleResult(r) PROVE NetInv'
  <2>1. CASE Unresolved(r.job)
    BY <1>3, <2>1, CountKeeps
  <2>2. CASE ~Unresolved(r.job)
    <3>1. inbox' \subseteq inbox /\ UNCHANGED <<published, agentVars, indexed, listenerVars>>
      BY <1>3, <2>2 DEF HandleResult
    <3> QED
      BY <3>1, DropKeeps
  <2> QED
    BY <2>1, <2>2
<1>4. ASSUME NEW r \in inbox, LoseResult(r) PROVE NetInv'
  <2>1. inbox' \subseteq inbox /\ UNCHANGED <<published, agentVars, indexed, listenerVars>>
    BY <1>4 DEF LoseResult
  <2> QED
    BY <2>1, DropKeeps
<1>5. CASE UNCHANGED networkVars
  <2>1. inbox' \subseteq inbox /\ UNCHANGED <<published, agentVars, indexed, listenerVars>>
    BY <1>5 DEF networkVars
  <2> QED
    BY <2>1, DropKeeps
<1> QED
  BY <1>1, <1>2, <1>3, <1>4, <1>5 DEF NetworkNext

\* The inductive invariant holds of the network.
LEMMA NetworkInvariant == NetworkSpec => []NetInv
BY NetworkInitInv, NetworkNextInv, PTL DEF NetworkSpec

\* The variables of the network keep their types.
THEOREM NetworkTypeCorrect == NetworkSpec => []NetworkTypeOK
<1>1. NetInv => NetworkTypeOK
  BY DEF NetInv
<1> QED
  BY <1>1, NetworkInvariant, PTL

\* A job is finalized with a score exactly when as many agents as the threshold asks
\* have been heard to report it: no result counts twice, none is forgotten, and the
\* listener acts on the last one it needs (handleConsensusResult()).
THEOREM FinalReported == NetworkSpec => []FinalWasReported
<1>1. NetInv => FinalWasReported
  BY DEF NetInv, Tallied, Settled, FinalWasReported
<1> QED
  BY <1>1, NetworkInvariant, PTL

----------------------------------------------------------------------------
(* The network implements Consensus *)

\* Runs whose results are as they were have cast the same votes.
LEMMA CastKept ==
  ASSUME \A a \in Agents, j \in Jobs :
           /\ stage'[a][j] = "done" <=> stage[a][j] = "done"
           /\ stage[a][j] = "done" => score'[a][j] = score[a][j]
  PROVE  CastVotes' = CastVotes
BY DEF CastVotes, Result

\* Without a finalizeConsensus(), the decisions are as they were.
LEMMA DecisionsKept == ASSUME UNCHANGED finals PROVE Decisions' = Decisions
BY DEF Decisions, Finalized

\* To publish a result is to cast a vote, the first of its agent for the job.
LEMMA BroadcastCasts ==
  ASSUME NetInv, NEW a \in Agents, NEW j \in Jobs, BroadcastResult(a, j)
  PROVE  C!Cast(a, j, score[a][j])
<1> USE DEF NetInv
<1>1. score[a][j] \in Scores /\ UNCHANGED <<score, finals>>
  BY DEF Concluded, BroadcastResult, listenerVars
<1>2. \A b \in Agents, k \in Jobs :
        stage'[b][k] = IF b = a /\ k = j THEN "done" ELSE stage[b][k]
  BY DEF NetworkTypeOK, BroadcastResult
<1>3. \A v \in CastVotes : <<v.from, v.job>> # <<a, j>>
  BY DEF CastVotes, BroadcastResult
<1>4. CastVotes' = CastVotes \cup {[from |-> a, job |-> j, score |-> score[a][j]]}
  BY <1>1, <1>2 DEF CastVotes, Result
<1> QED
  BY <1>1, <1>3, <1>4, DecisionsKept DEF C!Cast

\* Who has been heard to report a score has cast a vote for it (after a step).
LEMMA ReportersSupport ==
  ASSUME NetInv', NEW j \in Jobs, NEW s \in Scores
  PROVE  /\ Cardinality(C!Supporters(j, s)') \in Nat
         /\ votes'[j][s] <= Cardinality(C!Supporters(j, s)')
<1>1. Reporters(j, s)' \subseteq C!Supporters(j, s)'
  BY DEF NetInv, NetworkTypeOK, Received, Authentic, Reporters, C!Supporters, CastVotes, Result
<1>2. C!Supporters(j, s)' \subseteq Agents
  BY DEF C!Supporters
<1>3. IsFiniteSet(C!Supporters(j, s)')
  BY <1>2, FS_Subset, NetworkConstants
<1>4. votes'[j][s] = Cardinality(Reporters(j, s)')
  BY DEF NetInv, Tallied
<1> QED
  BY <1>1, <1>3, <1>4, FS_Subset, FS_CardinalityType

\* A result that is received either decides its job or leaves the decisions alone.
LEMMA HandleDecides ==
  ASSUME NetInv, NetInv', NEW r \in inbox, HandleResult(r)
  PROVE  C!Decide(r.job, r.score) \/ UNCHANGED <<CastVotes, Decisions>>
<1>1. r.job \in Jobs /\ r.score \in Scores
  BY DEF NetInv, NetworkTypeOK, Result
<1>2. CastVotes' = CastVotes
  BY DEF HandleResult, agentVars, CastVotes, Result
<1>3. CASE UNCHANGED finals
  BY <1>2, <1>3, DecisionsKept
<1>4. CASE /\ Unresolved(r.job) /\ votes'[r.job][r.score] >= Threshold
           /\ finals' = [finals EXCEPT ![r.job][r.score] = @ + 1]
  <2>1. \A s \in Scores : ~Finalized(r.job, s)
    BY <1>1, <1>4 DEF NetInv, Settled, Unresolved
  <2>2. Decisions[r.job] = NoScore
    BY <1>1, <2>1 DEF Decisions
  <2>3. Cardinality(C!Supporters(r.job, r.score)) >= Threshold
    <3>1. C!Supporters(r.job, r.score)' = C!Supporters(r.job, r.score)
      BY <1>2 DEF C!Supporters
    <3>2. /\ Cardinality(C!Supporters(r.job, r.score)') \in Nat
          /\ votes'[r.job][r.score] <= Cardinality(C!Supporters(r.job, r.score)')
      BY <1>1, ReportersSupport
    <3>3. votes'[r.job][r.score] \in Nat /\ Threshold \in Nat
      BY <1>1, NetworkConstants DEF NetInv, NetworkTypeOK
    <3> QED
      BY <1>4, <3>1, <3>2, <3>3
  <2>4. \A s \in Scores : Finalized(r.job, s)' <=> s = r.score
    <3>1. Finalized(r.job, r.score)'
      BY <1>1, <1>4 DEF NetInv, NetworkTypeOK, Finalized
    <3> QED
      BY <1>1, <3>1 DEF NetInv, Settled
  <2>5. \A j \in Jobs, s \in Scores : j # r.job => (Finalized(j, s)' <=> Finalized(j, s))
    BY <1>1, <1>4 DEF NetInv, NetworkTypeOK, Finalized
  <2>6. Decisions' = [Decisions EXCEPT ![r.job] = r.score]
    BY <1>1, <2>4, <2>5 DEF Decisions
  <2>7. C!Cardinality(C!Supporters(r.job, r.score)) >= Threshold
    BY <2>3 DEF Cardinality, C!Cardinality
  <2> QED
    BY <1>2, <2>2, <2>6, <2>7 DEF C!Decide
<1> QED
  BY <1>3, <1>4 DEF HandleResult, Decides, listenerVars

\* Every step of the network is a step of the consensus, or none.
LEMMA NetworkStepsRefine ==
  NetInv /\ NetInv' /\ [NetworkNext]_networkVars => [C!ConsensusNext]_(C!consensusVars)
<1> SUFFICES ASSUME NetInv, NetInv', [NetworkNext]_networkVars
             PROVE  C!ConsensusNext \/ UNCHANGED <<CastVotes, Decisions>>
  BY DEF C!consensusVars
<1>1. CASE \/ \E j \in Jobs : BroadcastJob(j)
           \/ \E s \in Scores : IndexAudit(s)
           \/ \E a \in Agents, j \in Jobs :
                \/ ReceiveJob(a, j) \/ Lookup(a, j) \/ Fail(a, j)
                \/ \E s \in Scores : Analyse(a, j, s)
  <2>1. UNCHANGED finals
    BY <1>1 DEF BroadcastJob, IndexAudit, ReceiveJob, Lookup, Fail, Analyse, listenerVars
  <2> QED
    BY <1>1, <2>1, AgentStepsKeep, CastKept, DecisionsKept
<1>2. ASSUME NEW a \in Agents, NEW j \in Jobs, BroadcastResult(a, j) PROVE C!ConsensusNext
  <2>1. score[a][j] \in Scores
    BY <1>2 DEF NetInv, Concluded, BroadcastResult
  <2> QED
    BY <1>2, <2>1, BroadcastCasts DEF C!ConsensusNext
<1>3. ASSUME NEW r \in inbox, HandleResult(r)
      PROVE  C!ConsensusNext \/ UNCHANGED <<CastVotes, Decisions>>
  <2>1. r.job \in Jobs /\ r.score \in Scores
    BY DEF NetInv, NetworkTypeOK, Result
  <2> QED
    BY <1>3, <2>1, HandleDecides DEF C!ConsensusNext
<1>4. CASE UNCHANGED <<stage, score, finals>>
  BY <1>4, CastKept, DecisionsKept
<1>5. \A r : LoseResult(r) => UNCHANGED <<stage, score, finals>>
  BY DEF LoseResult, agentVars, listenerVars
<1> QED
  BY <1>1, <1>2, <1>3, <1>4, <1>5 DEF NetworkNext, networkVars, agentVars, listenerVars

\* The network starts as a consensus does.
LEMMA NetworkInitRefines == NetworkInit => C!ConsensusInit
BY DEF NetworkInit, C!ConsensusInit, CastVotes, Decisions, Finalized, Result

\* The network is a consensus (network/agent.ts, consensus.ts): an agent votes once for
\* a job, and a job gets at most one decision, for good, from enough different agents,
\* whichever results are lost or late and in whatever order they arrive.
THEOREM NetworkImplementsConsensus == NetworkSpec => ConsensusReached
BY NetworkInvariant, NetworkInitRefines, NetworkStepsRefine, PTL
   DEF NetworkSpec, ConsensusReached, C!ConsensusSpec
=============================================================================
