----------------------------- MODULE AuditStore -----------------------------
(***************************************************************************)
(* The dashboard's audit page: dashboard/src/store/useAuditStore.ts and    *)
(* the buttons of LiveAuditSimulator.tsx, with the server's /stream and    *)
(* /api/reports/latest (server.ts) and the audits of AuditPipeline that    *)
(* it starts or that run beside it.  The only telemetry event the store    *)
(* acts on is (`parse', `complete'); the others are log lines.             *)
(***************************************************************************)
EXTENDS AuditPipeline

CONSTANTS Clicks,   \* runs of the store that call the server
          KeyAdded,    \* does a gateway add the key that /stream requires?
          MaxTriages   \* bound on the runs in the browser under way

ASSUME StoreConstants == KeyAdded \in BOOLEAN /\ MaxTriages \in Nat

VARIABLES
  simStatus,  \* "IDLE", "RUNNING", "COMPLETED", "ERROR"
  tab,        \* "upload" or "github"
  loaded,     \* is a .sol file loaded?
  triages,    \* calls of runAiTriage() under way
  request,    \* click -> its POST: "none", "sent", "answered"
  stream,     \* click -> its EventSource: "none", "connecting", "open", "closed"
  heard,      \* click -> has a (parse, complete) event arrived and not been read?
  fetching,   \* click -> is it fetching the latest report?
  shown,      \* the report shown, if any: see AuditXReport
  pageMinted  \* scores of the tokens the page minted, all with the ZK seal

auditStoreVars ==
  <<simStatus, tab, loaded, triages, request, stream, heard, fetching, shown, pageMinted>>
storeRest == <<tab, loaded, triages, pageMinted>>

\* A report is the score that would be minted, CVSS times ten.
AuditXReport == 0 .. 100

StoreInit ==
  /\ simStatus = "IDLE" /\ tab = "upload" /\ loaded = FALSE
  /\ triages = 0
  /\ request = [i \in Clicks |-> "none"]
  /\ stream = [i \in Clicks |-> "none"]
  /\ heard = [i \in Clicks |-> FALSE]
  /\ fetching = [i \in Clicks |-> FALSE]
  /\ shown = {} /\ pageMinted = {}

Running == simStatus = "RUNNING"

----------------------------------------------------------------------------
(* The operator. *)

\* setSourceTab(), and a file that has been read, or is cleared: both work at any
\* time.
SetSourceTab(t) ==
  /\ tab # t
  /\ tab' = t
  /\ UNCHANGED <<simStatus, loaded, triages, request, stream, heard, fetching, shown, pageMinted>>

SetFile ==
  /\ loaded' = ~loaded
  /\ UNCHANGED <<simStatus, tab, triages, request, stream, heard, fetching, shown, pageMinted>>

\* resetAudit(), whose button is disabled while running: nothing is cancelled.
ResetAudit ==
  /\ simStatus \in {"COMPLETED", "ERROR"}
  /\ simStatus' = "IDLE"
  /\ shown' = {}
  /\ UNCHANGED <<storeRest, request, stream, heard, fetching>>

\* The button that runs an audit needs a file, or some text for a repository.
RunOffered(t) == ~Running /\ tab = t /\ (t = "upload" => loaded)

\* runAudit()
RunAudit ==
  /\ RunOffered("upload")
  /\ triages < MaxTriages
  /\ simStatus' = "RUNNING"
  /\ shown' = {}
  /\ triages' = triages + 1
  /\ UNCHANGED <<tab, loaded, request, stream, heard, fetching, pageMinted>>

\* runGithubAudit(): the stream is opened and the request is sent.
RunGithubAudit ==
  /\ RunOffered("github")
  /\ \E i \in Clicks : request[i] = "none"
  /\ LET i == CHOOSE c \in Clicks : request[c] = "none"
     IN /\ request' = [request EXCEPT ![i] = "sent"]
        /\ stream' = [stream EXCEPT ![i] = "connecting"]
  /\ simStatus' = "RUNNING"
  /\ shown' = {}
  /\ UNCHANGED <<storeRest, heard, fetching>>

----------------------------------------------------------------------------
(* What comes back. *)

\* runAiTriage() gives the model's report, or throws: for the want of a key, an error
\* or an answer that is no report.
RunAiTriage == {{score} : score \in CvssScores} \cup {{}}

\* It settles whichever run is shown by now.
TriageSettles ==
  /\ triages > 0
  /\ triages' = triages - 1
  /\ \E report \in RunAiTriage :
       \/ report # {} /\ simStatus' = "COMPLETED" /\ shown' = report
       \/ report = {} /\ simStatus' = "ERROR" /\ UNCHANGED shown
  /\ UNCHANGED <<tab, loaded, request, stream, heard, fetching, pageMinted>>

\* GET /stream: the listeners are attached, if the request carries a key, which an
\* EventSource cannot add; or the connection is refused or breaks, and onerror
\* closes it for good.
StreamOpens(i) ==
  /\ KeyAdded
  /\ stream[i] = "connecting"
  /\ stream' = [stream EXCEPT ![i] = "open"]
  /\ UNCHANGED <<storeRest, simStatus, request, heard, fetching, shown>>

StreamFails(i) ==
  /\ stream[i] \in {"connecting", "open"}
  /\ stream' = [stream EXCEPT ![i] = "closed"]
  /\ heard' = [heard EXCEPT ![i] = FALSE]
  /\ UNCHANGED <<storeRest, simStatus, request, fetching, shown>>

\* POST /api/audit/github is accepted: the audit starts in the background.
PostAccepted(i, a, contract, target) ==
  /\ request[i] = "sent"
  /\ ImportRepository(a, contract, target)
  /\ request' = [request EXCEPT ![i] = "answered"]
  /\ UNCHANGED <<storeRest, simStatus, stream, heard, fetching, shown>>

\* It is accepted, and the repository cannot be cloned or has no contract: the
\* failure is only logged.
ImportLost(i) ==
  /\ request[i] = "sent"
  /\ request' = [request EXCEPT ![i] = "answered"]
  /\ UNCHANGED <<storeRest, simStatus, stream, heard, fetching, shown>>

\* It is refused, and the stream closed; or it fails on the way, and the stream
\* is forgotten.
PostFails(i) ==
  /\ request[i] = "sent"
  /\ request' = [request EXCEPT ![i] = "answered"]
  /\ simStatus' = "ERROR"
  /\ stream' \in {stream, [stream EXCEPT ![i] = "closed"]}
  /\ heard' = [heard EXCEPT ![i] = @ /\ stream'[i] # "closed"]
  /\ UNCHANGED <<storeRest, fetching, shown>>

\* The step listener: the stream is closed and the latest report is asked for.
OnComplete(i) ==
  /\ stream[i] = "open" /\ heard[i]
  /\ stream' = [stream EXCEPT ![i] = "closed"]
  /\ heard' = [heard EXCEPT ![i] = FALSE]
  /\ fetching' = [fetching EXCEPT ![i] = TRUE]
  /\ UNCHANGED <<storeRest, simStatus, request, shown>>

\* GET /api/reports/latest: the report of the last directory, whosever it is and
\* whatever is in it, or an error body.  Its score is read where no report has one
\* (none of ReportParts is called cvssScore), so that it is always 1.5, EMERALD.
LatestScore == 15

FetchSettles(i) ==
  /\ fetching[i]
  /\ fetching' = [fetching EXCEPT ![i] = FALSE]
  /\ \/ simStatus' = "COMPLETED" /\ shown' = {LatestScore}
     \/ simStatus' = "ERROR" /\ UNCHANGED shown
  /\ UNCHANGED <<storeRest, request, stream, heard>>

\* handleMintBadge(): the wallet of the page mints the report that was shown, as one
\* that passed the ZK checks, or nothing happens.
MintShown ==
  /\ simStatus = "COMPLETED"
  /\ \E score \in shown :
       Mintable(score) /\ pageMinted' = pageMinted \cup {score}
  /\ UNCHANGED <<tab, loaded, triages, simStatus, request, stream, heard, fetching, shown>>

----------------------------------------------------------------------------
(* Audits. *)

\* emitStep() reaches every open stream, if the audit runs in the server.
Emit(a, complete) ==
  heard' = [i \in Clicks |->
              heard[i] \/ (complete /\ audit[a].origin # "cli" /\ stream[i] = "open")]

\* writeIncrementalReport() emits when the file is written; what the pipeline adds
\* itself, on its way to the mint, is not announced.
AuditStep(a) ==
  /\ \/ PutReport(a) /\ Emit(a, audit[a].stage # "mint")
     \/ LookupAttestation(a) /\ Emit(a, audit'[a].stage = "done")
     \/ MintBadge(a) /\ Emit(a, audit'[a].stage = "done" /\ ~audit[a].opts.mint)
     \/ /\ \/ Truncate(a) \/ ResolveTarget(a) \/ RunSlither(a) \/ RunMythril(a)
           \/ RunSurya(a) \/ SkipAI(a) \/ TriageAnswered(a) \/ TriageFailed(a)
           \/ MonitorForta(a) \/ UploadReport(a) \/ Attest(a) \/ Annotate(a)
        /\ UNCHANGED heard
  /\ UNCHANGED <<storeRest, simStatus, request, stream, fetching, shown>>

\* The command line, on the server's machine or another.
CommandLine ==
  /\ \E a \in Audits, contract \in Contracts, opts \in Options, target \in Targets,
        address \in {"none", "malformed", "given"} :
       AuditCommand(a, contract, opts, target, address)
  /\ UNCHANGED auditStoreVars

\* The server, its audits and the page.
ServerNext ==
  \/ \E a \in Audits : AuditStep(a)
  \/ /\ \/ ClockTicks
        \/ \E a \in Audits, contract \in Contracts, shared \in BOOLEAN :
             UploadCode(a, contract, shared)
     /\ UNCHANGED auditStoreVars
  \/ \E i \in Clicks, a \in Audits, contract \in Contracts, target \in Targets :
       PostAccepted(i, a, contract, target)
  \/ /\ \/ \E t \in {"upload", "github"} : SetSourceTab(t)
        \/ SetFile \/ ResetAudit \/ RunAudit \/ RunGithubAudit \/ TriageSettles
        \/ MintShown
        \/ \E i \in Clicks : \/ StreamOpens(i) \/ StreamFails(i) \/ PostFails(i)
                             \/ ImportLost(i)
                             \/ OnComplete(i) \/ FetchSettles(i)
     /\ UNCHANGED pipelineVars

AuditNext == ServerNext \/ CommandLine

AuditSpec ==
  PipelineInit /\ StoreInit /\ [][AuditNext]_<<pipelineVars, auditStoreVars>>

----------------------------------------------------------------------------

StoreTypeOK ==
  /\ simStatus \in {"IDLE", "RUNNING", "COMPLETED", "ERROR"}
  /\ tab \in {"upload", "github"} /\ loaded \in BOOLEAN
  /\ shown \subseteq AuditXReport /\ Cardinality(shown) <= 1 /\ pageMinted \subseteq AuditXReport
  /\ triages \in 0 .. MaxTriages
  /\ request \in [Clicks -> {"none", "sent", "answered"}]
  /\ stream \in [Clicks -> {"none", "connecting", "open", "closed"}]
  /\ heard \in [Clicks -> BOOLEAN] /\ fetching \in [Clicks -> BOOLEAN]

\* No badge is for a score of 7.0 or more, whoever mints it and whatever was
\* audited beside it; what those of the pipeline say of the ZK checks and the grade
\* is so.  (Those of the page say that the checks passed, and nobody made them.)
BadgesEarned ==
  /\ ZkSealEarned
  /\ \A token \in minted : token.score < 70
  /\ \A score \in pageMinted : score < 70

\* While the page shows "Analyzing..." and takes no other audit, the outcome of one
\* is still to come: a run in the browser, an answer, or the telemetry that the
\* store connects to before it posts (useAuditStore.ts:178).  Nothing ends the
\* wait when /stream is refused.
AnalyzingIsUnderWay ==
  Running =>
    \/ triages > 0
    \/ \E i \in Clicks : \/ request[i] = "sent" \/ fetching[i]
                         \/ stream[i] \in {"connecting", "open"}
=============================================================================
