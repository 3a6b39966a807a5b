----------------------------- MODULE MCComponents -----------------------------
(***************************************************************************)
(* Components for TLC: a behaviour picks one of Parts and is one of that   *)
(* component's.  The variables of the others keep one initial state, so    *)
(* that the state space is the union of theirs and not the product.  What  *)
(* the components do is left alone; what those that call them do is        *)
(* bounded.                                                                *)
(***************************************************************************)
EXTENDS Components

CONSTANTS Parts, v1, v2, s1, s2, exploiter, mallory, bob

ASSUME PartsAssumption == Parts \subseteq ComponentNames

VARIABLE part

Init ==
  /\ part \in Parts
  /\ ComponentsInit
  /\ part # "ResumeRegistry" => verifier = v1
  /\ part # "AuditJobQueue" => auditFee = 0
  /\ part # "Wallet" => provider.account = NoAccount /\ provider.chain = 1

\* Audits have no names of their own: they start in order.
InOrder ==
  \A a \in Audits :
    audit[a].stage = "free" /\ audit'[a].stage # "free" =>
      a = CHOOSE b \in Audits : audit[b].stage = "free"

\* A write of a report that no other process has goes through at once: nobody could
\* tell when its steps are taken.  Where one has, it is the first audit's first write
\* that others interrupt, for as long as they run.
Interrupted == CHOOSE a \in Audits : TRUE
WritesAtOnce ==
  \A a \in Audits :
    /\ writing[a].at # "idle"
    /\ OneProcess(audit[a].scan) \/ a # Interrupted \/ Cardinality(wrote[a]) > 1
    => writing'[a].at # writing[a].at

\* Audits of the command line beside each other, where the clock ticks before a
\* directory is named, only the first audit has a contract of its own and a key for the
\* model, and of two that share no directory the first goes on first; and the page
\* beside the server's.
PipelineOnly ==
  /\ InOrder /\ WritesAtOnce
  /\ \A a \in Audits :
       /\ audit'[a].stage = "free" \/ audit'[a].origin = "cli"
       /\ a # Interrupted => /\ audit'[a].contract = NotStarted.contract
                             /\ audit'[a].score \in {0, 15}
                             /\ audit'[a].attempts = 0
  /\ millis' # millis => \E a \in Audits : audit[a].stage = "lookup"
  /\ \A a \in Audits :
       /\ audit[a].stage \in Scanning /\ audit[Interrupted].stage \in Scanning
       /\ audit[a].scan # audit[Interrupted].scan
       => audit'[a] = audit[a]

\* The page mints last, keeps its file and changes its tab between runs; what the
\* subgraph answers has one score, all audits start in one millisecond, and all
\* uploads have one name, and only they another contract.  Only the first audit fails
\* or is answered by the subgraph.
ServerOnly ==
  /\ InOrder /\ WritesAtOnce
  /\ \A a \in Audits :
       /\ audit'[a].stage = "free" \/ audit'[a].origin # "cli"
       /\ audit'[a].shared = (audit'[a].origin = "upload")
       /\ audit'[a].contract = NotStarted.contract \/ audit'[a].shared
       /\ audit'[a].score \in {0, 15, 80}
       /\ a # Interrupted => audit'[a].score # 80 /\ audit'[a].stage # "failed"
  /\ pageMinted = {}
  /\ loaded => loaded'
  /\ Running => tab' = tab
  /\ UNCHANGED millis

\* Bounds on what others do, for smaller state spaces: one address registered at
\* the frontend, two kinds of new event, and one of new alert and of scan left behind.
WebDbBound == \A address \in Addresses \ {BootAddress} : webDb'[address] = {}
WebBound ==
  /\ fortaAlerts'[1] \in {fortaAlerts[1], "Medium"}
  /\ \A severity \in {"High", "Medium"} :
       Count(siemEvents', severity) = Count(siemEvents, severity)
  /\ \A k \in Scans : scan'[k].here \/ scan'[k].demo \in {"none", "reentrancy"}

\* The subgraph's first answer changes once; and a run that fails, at whichever await,
\* has published nothing and fails at the first.
NetworkBound ==
  /\ indexed \in {NoScore, indexed'}
  /\ \A a \in Agents, j \in Jobs :
       stage'[a][j] = "failed" => stage[a][j] \in {"lookup", "failed"}

Bounds ==
  /\ part = "AuditPipeline" => PipelineOnly
  /\ part = "AuditStore" => ServerOnly
  /\ part = "TenantRegistry" => WebDbBound
  /\ part = "WebApp" => WebBound
  /\ part = "AgentNetwork" => NetworkBound

Next == StepOf(part) /\ Bounds /\ UNCHANGED part

Spec == Init /\ [][Next]_<<part, componentVars>>

----------------------------------------------------------------------------
(* ResumeRegistry: one proof that passes, one of another student that only *)
(* the second verifier accepts, and two the contract itself refuses.       *)

Proof(s, q, n) == [qualified |-> q, score |-> n, student |-> s]
MCProofs == {Proof(s1, TRUE, 2), Proof(s2, TRUE, 1), Proof(s1, TRUE, 0), Proof(s2, FALSE, 2)}
MCAccepts == v1 :> (MCProofs \ {Proof(s2, TRUE, 1)}) @@ v2 :> MCProofs

(* AuditPipeline: a contract that passes the ZK checks, and one that does  *)
(* not parse; all options but --ipfs and --monitor, only that, and none;    *)
(* and owner/repository, with and without a directory of that name.        *)

Complete == [parses |-> TRUE, nullifier |-> TRUE, first |-> TRUE, second |-> TRUE,
             timelock |-> TRUE]
MCContracts == {Complete, [Complete EXCEPT !.parses = FALSE]}
Sealing == [mythril |-> TRUE, ai |-> TRUE, ipfs |-> FALSE, eas |-> TRUE, mint |-> TRUE,
            force |-> TRUE, monitor |-> FALSE]
MCTargets == {[form |-> "short", onDisk |-> FALSE], [form |-> "short", onDisk |-> TRUE]}
MCOptions == {Sealing, [ServerOptions EXCEPT !.monitor = TRUE]}

(* Forta: every rule, alone and in some lists, and transactions that touch *)
(* the bot's contract in one way each, or not at all.                      *)

MCAlertCounts == {[critical |-> 3, high |-> 0, medium |-> 1]}
Words == {FortaMap[i].word : i \in DOMAIN FortaMap} \cup {"other"}
Finding(w) == [word |-> w, severe |-> w = "other"]
MCFindingLists ==
  {{Finding(w)} : w \in Words} \cup {{Finding("missing"), Finding(w)} : w \in Words}
    \cup {{}, {Finding("calls"), Finding("weak"), Finding("unchecked")}}
Quiet == [from |-> "other", to |-> "other", origin |-> "other", calls |-> 0, ether |-> 0,
          transfers |-> {}, owner |-> "same", zscore |-> 0]
MCTransactions ==
  {Quiet, [Quiet EXCEPT !.ether = 10], [Quiet EXCEPT !.transfers = {"other"}],
   [Quiet EXCEPT !.transfers = {"target"}], [Quiet EXCEPT !.calls = 3],
   [Quiet EXCEPT !.to = "target", !.zscore = 5], [Quiet EXCEPT !.to = "target", !.ether = 10],
   [Quiet EXCEPT !.zscore = 5], [Quiet EXCEPT !.from = "target"]}
    \cup {[Quiet EXCEPT !.owner = o] : o \in {"zero", "trusted", "stranger"}}

(* Analytics: the panel's scenarios, and events that several rules match.  *)

MCFeeds == {[address |-> mallory, risk |-> 9], [address |-> mallory, risk |-> 1],
            [address |-> exploiter, risk |-> 2]}
Kinds == {"baseline", "reentrancy", "flashloan", "threat_intel", "governance", "selfdestruct"}
TextSwap == [Scenario("flashloan") EXCEPT !.value = "text"]
TextTransfer == [Plain EXCEPT !.value = "text"]
Touching == [Plain EXCEPT !.touches = <<mallory, exploiter>>]
HeavyOwner == [Plain EXCEPT !.name = "OwnershipTransferred", !.heavy = TRUE, !.value = "some"]
MCBatches ==
  {<<Scenario(k)>> : k \in Kinds} \cup {<<TextSwap>>, <<Touching>>, <<HeavyOwner>>}
    \cup {<<Plain, TextTransfer>>, <<TextSwap, Plain>>, <<Plain, Scenario("reentrancy")>>}
=============================================================================
