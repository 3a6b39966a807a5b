---------------------------- MODULE AuditPipeline ----------------------------
(***************************************************************************)
(* legacy/src/pipeline.ts with the runners it calls, as the CLI            *)
(* (cli.ts) and the server's two audit endpoints (server.ts) start it.     *)
(* Audits run concurrently over one directory of reports: the server's in  *)
(* its process, one of the command line in a process of its own.  A step   *)
(* here is the code between two awaits, and less when it writes a report,  *)
(* which it reads, truncates and writes in three steps of its own: other   *)
(* processes may come between.  Tools, networks and models may fail at     *)
(* every call.  A contract is what the ZK checks read of it; a report is   *)
(* the set of parts in its file, and the findings are left out.            *)
(***************************************************************************)
EXTENDS Integers, FiniteSets, Forta

CONSTANTS
  Audits,      \* calls of runPipeline()
  Contracts,   \* the contracts audited: see Contract
  Options,     \* the option records of the command line: see Option
  MaxMillis,   \* bound on the clock that names the reports
  MaxAttempts, \* 3 calls of the model
  CvssScores,  \* CVSS times ten the model may answer
  Targets      \* what an audit may be asked of: see Target

Contract == [parses : BOOLEAN, nullifier : BOOLEAN, first : BOOLEAN,
             second : BOOLEAN, timelock : BOOLEAN]
Option == [mythril : BOOLEAN, ai : BOOLEAN, ipfs : BOOLEAN, eas : BOOLEAN,
           mint : BOOLEAN, force : BOOLEAN, monitor : BOOLEAN]

\* The text of a target, and whether a local path has that name.
Target == [form : {"url", "short", "path"}, onDisk : BOOLEAN]

ASSUME PipelineConstants ==
  /\ Contracts \subseteq Contract /\ Contracts # {}
  /\ Options \subseteq Option /\ Targets \subseteq Target
  /\ MaxMillis \in Nat \ {0} /\ MaxAttempts \in Nat \ {0}
  /\ CvssScores \subseteq 0 .. 100

VARIABLES
  audit,       \* audit -> where it is and what it has found
  millis,      \* Date.now()
  reportFile,  \* time -> scan_<time>/audit_report.json: see Report
  writing,     \* audit -> how far it is in a write of its report: see NotWriting
  wrote,       \* audit -> the parts it has written (no variable of the code)
  scans,       \* times whose directory exists
  minted       \* tokens of AuditBadgeNFT minted for it: [contract, score, zk]

files == <<reportFile, writing, wrote>>
pipelineVars == <<audit, millis, files, scans, minted>>

ServerOptions ==
  [mythril |-> FALSE, ai |-> FALSE, ipfs |-> FALSE, eas |-> FALSE,
   mint |-> FALSE, force |-> FALSE, monitor |-> FALSE]

NotStarted ==
  [stage |-> "free", origin |-> "cli", contract |-> CHOOSE c \in Contracts : TRUE,
   shared |-> FALSE,
   opts |-> ServerOptions, scan |-> 0, zk |-> FALSE, attempts |-> 0, score |-> 0,
   forta |-> "NOT_MONITORED"]

\* The file: JSON with those parts (none, if it is not there yet), truncated and not
\* yet written, or what two writers left that does not parse.
ReportParts ==
  {"slither", "mythril", "surya", "aiAnalysis", "aiAnalysisError", "ipfsCid", "easUid",
   "fortaRisk", "mintTx"}
Report == [kind : {"json", "empty", "broken"}, parts : SUBSET ReportParts]
NoReport == [kind |-> "json", parts |-> {}]

\* A write in which the file has been "read", or is "open" and truncated, and the
\* parts it is going to hold.
NotWriting == [at |-> "idle", parts |-> {}]

PipelineInit ==
  /\ audit = [a \in Audits |-> NotStarted]
  /\ millis = 1
  /\ reportFile = [t \in 1 .. MaxMillis |-> NoReport]
  /\ writing = [a \in Audits |-> NotWriting]
  /\ wrote = [a \in Audits |-> {}]
  /\ scans = {}
  /\ minted = {}

\* Two audits of one process: its code goes on only where it awaits, so that none of
\* them takes a step while one is in the middle of a write (`Held').
SameProcess(a, b) == a = b \/ (audit[a].origin # "cli" /\ audit[b].origin # "cli")
Held(a) == \E b \in Audits : SameProcess(a, b) /\ writing[b].at # "idle"
ServerHeld == \E b \in Audits : audit[b].origin # "cli" /\ writing[b].at # "idle"

\* The audit is there and may take a step, and goes on.
At(a, stage) == audit[a].stage = stage /\ ~Held(a)
Continue(a, stage) == audit' = [audit EXCEPT ![a].stage = stage]

\* writeIncrementalReport() reads what is on file, which is nothing if it does not
\* parse, and adds the new part; the mutation does not merge.
Replaced(scan, part) == {part}
ReportWith(scan, part) == reportFile[scan].parts \cup {part}
Write(a, part) ==
  /\ writing' = [writing EXCEPT ![a] = [at |-> "read",
                                       parts |-> ReportWith(audit[a].scan, part)]]
  /\ wrote' = [wrote EXCEPT ![a] = @ \cup {part}]
  /\ UNCHANGED reportFile

\* writeFileSync() opens the file, which truncates it ...
Truncate(a) ==
  /\ writing[a].at = "read"
  /\ writing' = [writing EXCEPT ![a].at = "open"]
  /\ reportFile' = [reportFile EXCEPT ![audit[a].scan] = [kind |-> "empty", parts |-> {}]]
  /\ UNCHANGED <<audit, millis, wrote, scans, minted>>

\* ... and writes it.  Over what another process wrote since, the longer text's end
\* stays.
PutReport(a) ==
  /\ writing[a].at = "open"
  /\ writing' = [writing EXCEPT ![a] = NotWriting]
  /\ \/ reportFile' = [reportFile EXCEPT ![audit[a].scan] =
                         [kind |-> "json", parts |-> writing[a].parts]]
     \/ /\ reportFile[audit[a].scan].kind # "empty"
        /\ reportFile' = [reportFile EXCEPT ![audit[a].scan] =
                            [kind |-> "broken", parts |-> {}]]
  /\ UNCHANGED <<audit, millis, wrote, scans, minted>>

----------------------------------------------------------------------------
(* Starting an audit. *)

\* parseGithubImport(): a URL of github.com, or owner/repository with or without
\* a path, unless a file or a directory of the process has that name.
IsImport(target) == target.form = "url" \/ (target.form = "short" /\ ~target.onDisk)

\* resolveTarget() of the command line up to its first wait: a repository is cloned,
\* a local path is read, if it is there and has a contract.
Resolutions(target) ==
  IF IsImport(target) THEN {"cloning"}
  ELSE {"failed"} \cup (IF target.onDisk THEN {"lookup"} ELSE {})

\* The background of POST /api/audit/github, and `auditx audit'.
StartAudit(a, origin, contract, opts, stage) ==
  /\ audit[a].stage = "free"
  /\ origin = "cli" \/ ~ServerHeld
  /\ audit' = [audit EXCEPT ![a].stage = stage, ![a].origin = origin,
                            ![a].contract = contract, ![a].opts = opts]
  /\ UNCHANGED <<millis, files, scans, minted>>

\* The code is written to the file of the name that the client gives, where it may
\* replace (`shared') what another audit is going to read.
UploadCode(a, contract, shared) ==
  /\ audit[a].stage = "free" /\ ~ServerHeld
  /\ audit' = [b \in Audits |->
                IF b = a
                THEN [audit[b] EXCEPT !.stage = "lookup", !.origin = "upload",
                                      !.contract = contract, !.shared = shared]
                ELSE IF shared /\ audit[b].shared
                THEN [audit[b] EXCEPT !.contract = contract] ELSE audit[b]]
  /\ UNCHANGED <<millis, files, scans, minted>>

\* The request is answered before the repository is cloned.
ImportRepository(a, contract, target) ==
  /\ IsImport(target)
  /\ StartAudit(a, "github", contract, ServerOptions, "cloning")

\* The options of `auditx audit' it will not go on with: --monitor needs the address
\* of a contract, and one that is given must look like one.
Refused(opts, address) == address = "malformed" \/ (opts.monitor /\ address = "none")

\* `auditx audit'
AuditCommand(a, contract, opts, target, address) ==
  \E stage \in IF Refused(opts, address) THEN {"failed"} ELSE Resolutions(target) :
    StartAudit(a, "cli", contract, opts, stage)

\* The repository is cloned and has the file that was asked for, or any .sol file;
\* or the audit ends with a line in a log.
ResolveTarget(a) ==
  /\ At(a, "cloning")
  /\ \E next \in {"lookup", "failed"} : Continue(a, next)
  /\ UNCHANGED <<millis, files, scans, minted>>

\* lookupAttestation(): an answer of the subgraph ends the audit unless --force is
\* set; a failed query counts as no answer.
LookupAttestation(a) ==
  /\ At(a, "lookup")
  /\ \/ /\ ~audit[a].opts.force
        /\ \E score \in CvssScores :
             audit' = [audit EXCEPT ![a].stage = "done", ![a].score = score]
        /\ UNCHANGED scans
     \/ /\ audit' = [audit EXCEPT ![a].stage = "slither", ![a].scan = millis]
        /\ scans' = scans \cup {millis}
  /\ UNCHANGED <<millis, files, minted>>

----------------------------------------------------------------------------
(* The scanners. *)

\* runSlither(): its detectors, or the error when it cannot be run or read, are its
\* part of the report.  A path it will not pass on ends the audit.
RunSlither(a) ==
  /\ At(a, "slither")
  /\ \/ /\ Continue(a, IF audit[a].opts.mythril THEN "mythril" ELSE "surya")
        /\ Write(a, "slither")
     \/ /\ Continue(a, "failed")
        /\ UNCHANGED files
  /\ UNCHANGED <<millis, scans, minted>>

\* runMythril()
RunMythril(a) ==
  /\ At(a, "mythril")
  /\ Continue(a, "surya")
  /\ Write(a, "mythril")
  /\ UNCHANGED <<millis, scans, minted>>

\* runZKChecks(): five results, or none for a file that does not parse.  One call
\* of keccak256 counts for two of the rules.
ZkResults(contract) ==
  IF contract.parses
  THEN <<contract.nullifier, contract.first, contract.second, contract.nullifier,
         contract.timelock>>
  ELSE <<>>

\* zkChecksPassed; the mutation leaves out that there must be five.
AllOfThose(results) == \A i \in DOMAIN results : results[i]
ZkPassed(results) == DOMAIN results = 1 .. 5 /\ \A i \in DOMAIN results : results[i]

\* runSurya(), then the ZK checks; without the model, the score is that of no risk
\* level.
RunSurya(a) ==
  /\ At(a, "surya")
  /\ audit' = [audit EXCEPT ![a].stage = IF audit[a].opts.ai THEN "ai" ELSE "forta",
                            ![a].zk = ZkPassed(ZkResults(audit[a].contract)),
                            ![a].score = 15]
  /\ Write(a, "surya")
  /\ UNCHANGED <<millis, scans, minted>>

----------------------------------------------------------------------------
(* The model, Forta, and what is put on chain. *)

\* runAIAnalysis() without a key: its own risk level has the score of none.
SkipAI(a) ==
  /\ At(a, "ai") /\ audit[a].attempts = 0
  /\ Continue(a, "forta")
  /\ UNCHANGED <<millis, files, scans, minted>>

\* A call that is answered with JSON.
TriageAnswered(a) ==
  /\ At(a, "ai")
  /\ \E score \in CvssScores :
       audit' = [audit EXCEPT ![a].stage = "forta", ![a].score = score]
  /\ Write(a, "aiAnalysis")
  /\ UNCHANGED <<millis, scans, minted>>

\* A call that fails is repeated, after a delay that doubles, twice; then the
\* report has no findings, and no score.
TriageFailed(a) ==
  /\ At(a, "ai")
  /\ \/ /\ audit[a].attempts + 1 < MaxAttempts
        /\ audit' = [audit EXCEPT ![a].attempts = @ + 1]
        /\ UNCHANGED files
     \/ /\ audit[a].attempts + 1 = MaxAttempts
        /\ audit' = [audit EXCEPT ![a].stage = "forta", ![a].score = 0]
        /\ Write(a, "aiAnalysisError")
  /\ UNCHANGED <<millis, scans, minted>>

\* The --monitor part: analyzeDeployedContract(), and a bot for the findings; a
\* failure leaves the report without any of it.
MonitorForta(a) ==
  /\ At(a, "forta")
  /\ \/ /\ audit[a].opts.monitor
        /\ \E alerts \in AlertCounts, scam \in BOOLEAN :
             audit' = [audit EXCEPT ![a].stage = "ipfs",
                                    ![a].forta = OverallRisk(RiskScore(alerts, scam))]
     \/ Continue(a, "ipfs")
  /\ UNCHANGED <<millis, files, scans, minted>>

\* Is the report uploaded?
Pinned(opts) == opts.ipfs \/ opts.eas \/ opts.mint

\* ipfsUpload(), which makes up a CID, and easAttest(), which makes up a UID, cannot
\* fail.
IpfsUpload(a) == Write(a, "ipfsCid")
EasAttest(a) == Write(a, "easUid")

UploadReport(a) ==
  /\ At(a, "ipfs")
  /\ Continue(a, "eas")
  /\ IF Pinned(audit[a].opts) THEN IpfsUpload(a) ELSE UNCHANGED files
  /\ UNCHANGED <<millis, scans, minted>>

Attest(a) ==
  /\ At(a, "eas")
  /\ IF audit[a].opts.eas
     THEN Continue(a, "annotate") /\ EasAttest(a)
     ELSE Continue(a, "mint") /\ UNCHANGED files
  /\ UNCHANGED <<millis, scans, minted>>

\* The pipeline itself then adds what Forta said to the attested report, if it parses.
Annotate(a) ==
  /\ At(a, "annotate")
  /\ Continue(a, "mint")
  /\ IF reportFile[audit[a].scan].kind = "json" THEN Write(a, "fortaRisk") ELSE UNCHANGED files
  /\ UNCHANGED <<millis, scans, minted>>

\* AuditBadgeNFT.mintBadge() takes scores below 7.0.
Mintable(score) == score < 70

\* badgeMint(): without keys the mint is simulated, and only the report tells of it;
\* otherwise the contract mints a token, or the transaction fails.
SimulateMint(a) == Write(a, "mintTx") /\ UNCHANGED minted
BadgeMint(a) ==
  /\ Mintable(audit[a].score)
  /\ minted' = minted \cup {[contract |-> audit[a].contract, score |-> audit[a].score,
                             zk |-> audit[a].zk]}
  /\ Write(a, "mintTx")

\* A mint that fails ends the audit, whatever has been attested.  Otherwise the
\* HTML report is written, and the audit is complete.
MintBadge(a) ==
  /\ At(a, "mint")
  /\ \/ /\ ~audit[a].opts.mint
        /\ Continue(a, "done")
        /\ UNCHANGED <<files, minted>>
     \/ /\ audit[a].opts.mint
        /\ Continue(a, "done")
        /\ SimulateMint(a) \/ BadgeMint(a)
     \/ /\ audit[a].opts.mint
        /\ Continue(a, "failed")
        /\ UNCHANGED <<files, minted>>
  /\ UNCHANGED <<millis, scans>>

ClockTicks ==
  /\ millis < MaxMillis
  /\ millis' = millis + 1
  /\ UNCHANGED <<audit, files, scans, minted>>

----------------------------------------------------------------------------

\* The stages in which an audit writes to its report, and all of them.
Scanning == {"slither", "mythril", "surya", "ai", "forta", "ipfs", "eas", "annotate", "mint"}
AuditStages == {"free", "cloning", "lookup", "done", "failed"} \cup Scanning
AuditState ==
  [stage : AuditStages, origin : {"cli", "upload", "github"}, contract : Contracts,
   shared : BOOLEAN, opts : Option, scan : 0 .. MaxMillis, zk : BOOLEAN,
   attempts : 0 .. MaxAttempts - 1, score : 0 .. 100, forta : Risks \cup {"NOT_MONITORED"}]

PipelineTypeOK ==
  /\ audit \in [Audits -> AuditState]
  /\ millis \in 1 .. MaxMillis
  /\ reportFile \in [1 .. MaxMillis -> Report]
  /\ writing \in [Audits -> [at : {"idle", "read", "open"}, parts : SUBSET ReportParts]]
  /\ wrote \in [Audits -> SUBSET ReportParts]
  /\ scans \subseteq 1 .. millis
  /\ minted \subseteq [contract : Contracts, score : 0 .. 100, zk : BOOLEAN]

\* The audits that write the report of a time, whether one process has them all, and
\* what they have written.
Writers(t) == {a \in Audits : audit[a].scan = t}
OneProcess(t) == \A a, b \in Writers(t) : SameProcess(a, b)
PartsOf(t) == UNION {wrote[a] : a \in Writers(t)}

Sealed(parts) == parts \cap {"easUid", "mintTx"} # {}

\* An audit pins its report before it attests to it or mints for it, and a report has
\* only what its audits wrote.  Where all of them run in one process, though several
\* may have begun in one millisecond and share the file, no write loses what another
\* has put there: between writes the file parses and has every part, and one with an
\* attestation or a badge has its CID.  (Audits of two processes that share the
\* directory may lose parts, the CID among them: writeIncrementalReport() takes no
\* lock.)
ReportsKept ==
  /\ \A a \in Audits : Sealed(wrote[a]) => "ipfsCid" \in wrote[a]
  /\ \A t \in scans :
       /\ reportFile[t].parts \subseteq PartsOf(t)
       /\ OneProcess(t) /\ (\A a \in Writers(t) : writing[a].at = "idle") =>
            /\ reportFile[t] = [kind |-> "json", parts |-> PartsOf(t)]
            /\ Sealed(reportFile[t].parts) => "ipfsCid" \in reportFile[t].parts

\* The grade of tokenURI().
BadgeGrade(token) ==
  IF token.score >= 70 \/ (~token.zk /\ token.score >= 50) THEN "AMBER" ELSE "EMERALD"

\* A badge the pipeline mints says that the ZK checks passed only for a contract that
\* parses and has all that the five rules look for; and an EMERALD one has either
\* that seal or a score below 5.0.
ZkSealEarned ==
  \A b \in minted :
    /\ b.zk => /\ b.contract.parses /\ b.contract.nullifier
               /\ b.contract.first /\ b.contract.second /\ b.contract.timelock
    /\ BadgeGrade(b) = "EMERALD" => b.zk \/ b.score < 50
=============================================================================
