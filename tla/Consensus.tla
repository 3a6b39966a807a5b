------------------------------ MODULE Consensus ------------------------------
(***************************************************************************)
(* What the agent network promises: agents cast at most one score per job, *)
(* and a job is decided at most once, for good, and for a score that at    *)
(* least Threshold different agents have cast for it.  Whoever decides may *)
(* do so late or never, and need not know of every vote.                   *)
(***************************************************************************)
EXTENDS Integers, FiniteSets

CONSTANTS Agents, Jobs, Scores, NoScore, Threshold

VARIABLES
  cast,       \* votes: [from, job, score]
  decision    \* job -> the score decided, or NoScore

consensusVars == <<cast, decision>>

ConsensusInit ==
  /\ cast = {}
  /\ decision = [j \in Jobs |-> NoScore]

Cast(a, j, s) ==
  /\ \A v \in cast : <<v.from, v.job>> # <<a, j>>
  /\ cast' = cast \cup {[from |-> a, job |-> j, score |-> s]}
  /\ UNCHANGED decision

Supporters(j, s) == {a \in Agents : [from |-> a, job |-> j, score |-> s] \in cast}

Decide(j, s) ==
  /\ decision[j] = NoScore
  /\ Cardinality(Supporters(j, s)) >= Threshold
  /\ decision' = [decision EXCEPT ![j] = s]
  /\ UNCHANGED cast

ConsensusNext ==
  \/ \E a \in Agents, j \in Jobs, s \in Scores : Cast(a, j, s)
  \/ \E j \in Jobs, s \in Scores : Decide(j, s)

ConsensusSpec == ConsensusInit /\ [][ConsensusNext]_consensusVars
=============================================================================
