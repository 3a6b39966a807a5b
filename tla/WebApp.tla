-------------------------------- MODULE WebApp --------------------------------
(***************************************************************************)
(* frontend/app, as `next dev' serves it: the pages of one browser tab     *)
(* (siem/page.tsx, audit/page.tsx, ReportClient.tsx) and the routes they   *)
(* call, api/siem, api/forta/alerts, api/audit and api/audit/[id].  Every  *)
(* answer may come late, be an error, or never come; nothing cancels a     *)
(* call.  A call of a page that was left changes no page: only the scan's  *)
(* is kept then, which still moves the tab, and what others post to the    *)
(* routes stands for the rest.  An event or an alert is its severity, a    *)
(* report the demo it describes.                                           *)
(***************************************************************************)
EXTENDS Integers, Sequences, SequencesExt

CONSTANTS
  Polls,      \* calls of fetchSIEMData() under way; one that is over is reused
  Scans,      \* calls of startDemoOrScan(), likewise
  MaxEvents   \* bound on the events in the store

ASSUME WebConstants == Polls # {} /\ MaxEvents \in Nat

VARIABLES
  siemEvents,   \* SIEM_EVENTS of api/siem, newest first
  fortaAlerts,  \* FORTA_ALERTS of api/forta/alerts, newest first
  route,        \* the page in the tab
  siemPage,     \* its answers: [events, metrics, alerts, loading]
  poll,         \* call -> [at, ok, events, again]
  simulating,   \* the page's flag
  simulation,   \* the POST of triggerSimulation(): [at, severity]
  auditPage,    \* [loading, input]
  scan,         \* call -> [at, demo, here]
  reportPage    \* [id, report, loading]

siemVars == <<siemPage, poll, simulating, simulation>>
webVars == <<siemEvents, fortaAlerts, route, siemVars, auditPage, scan, reportPage>>

Severities == {"Critical", "High", "Medium", "Info"}
Demos == {"clean", "reentrancy", "fullstack"}

\* The POST of api/siem, by scenario.
Scenarios ==
  [flashloan |-> "Critical", reentrancy |-> "Critical", crosslayer |-> "Critical",
   ownership |-> "High", gasspike |-> "Medium"]

\* SIEM_RULES, by the scenario that names the rule.
SiemRules ==
  [flashloan |-> "Critical", reentrancy |-> "Critical", ownership |-> "High",
   gasspike |-> "Medium", crosslayer |-> "Critical"]

\* The POST of api/forta/alerts, by bot.
Bots == [reentrancy_bot |-> "Critical", flashloan_bot |-> "Critical",
         permit2_bot |-> "High", other |-> "Medium"]

\* The GET of api/siem.
Count(events, severity) == Len(SelectSeq(events, LAMBDA e : e = severity))
Metrics(events) ==
  [total |-> Len(events), critical |-> Count(events, "Critical"),
   high |-> Count(events, "High"),
   status |-> IF Count(events, "Critical") > 0 THEN "ALERTING" ELSE "SECURE"]

\* The demos of api/audit/[id], and of the dashboard's list: CVSS times ten and badge.
DemoReport ==
  [clean |-> [cvss |-> 18, badge |-> 42], reentrancy |-> [cvss |-> 85, badge |-> 0],
   fullstack |-> [cvss |-> 98, badge |-> 0]]
DashboardRow ==
  [clean |-> [cvss |-> 18, badge |-> 42], reentrancy |-> [cvss |-> 85, badge |-> 0],
   fullstack |-> [cvss |-> 98, badge |-> 0]]

\* The GET of api/badge/[id]: EMERALD for the clean one, AMBER for every other.
BadgeSvg(id) ==
  [cvss |-> CASE id = "reentrancy" -> 85 [] id = "fullstack" -> 98
              [] id = "clean" -> 18 [] OTHER -> 55,
   guard |-> IF id = "clean" THEN "EMERALD" ELSE "AMBER"]

NoPage == [events |-> <<>>, metrics |-> Metrics(<<>>), alerts |-> <<>>, loading |-> TRUE]
NoPoll == [at |-> "idle", ok |-> FALSE, events |-> <<>>, again |-> FALSE]
NewPoll == [NoPoll EXCEPT !.at = "siem"]
NoSimulation == [at |-> "none", severity |-> "Info"]
NoScan == [at |-> "idle", demo |-> "none", here |-> FALSE]
NewReport(id) == [id |-> id, report |-> "none", loading |-> TRUE]

\* What the stores hold when the server starts.
SiemSeed == <<"High", "Critical">>
FortaSeed == <<"Critical", "Critical", "High">>

WebInit ==
  /\ siemEvents = SiemSeed
  /\ fortaAlerts = FortaSeed
  /\ route = "home"
  /\ siemPage = NoPage
  /\ poll = [p \in Polls |-> NoPoll]
  /\ simulating = FALSE /\ simulation = NoSimulation
  /\ auditPage = [loading |-> FALSE, input |-> FALSE]
  /\ scan = [k \in Scans |-> NoScan]
  /\ reportPage = NewReport("clean")

----------------------------------------------------------------------------
(* The routes, as anyone may call them. *)

\* unshift()
Unshifted(events, e) == <<e>> \o events

PostEvent(severity) ==
  /\ Len(siemEvents) < MaxEvents
  /\ siemEvents' = Unshifted(siemEvents, severity)
  /\ UNCHANGED <<fortaAlerts, route, siemVars, auditPage, scan, reportPage>>

PostBot(bot) ==
  /\ Len(fortaAlerts) < 4
  /\ fortaAlerts' = <<Bots[bot]>> \o fortaAlerts
  /\ UNCHANGED <<siemEvents, route, siemVars, auditPage, scan, reportPage>>

----------------------------------------------------------------------------
(* The tab. *)

\* A page is mounted, and the one before it is not any more.
Goto(page, id) ==
  /\ route' = page
  /\ reportPage' = NewReport(id)
  /\ siemPage' = NoPage
  /\ poll' = [p \in Polls |->
                IF page = "siem" /\ p = (CHOOSE q \in Polls : TRUE) THEN NewPoll ELSE NoPoll]
  /\ simulating' = FALSE /\ simulation' = NoSimulation
  /\ auditPage' = [loading |-> FALSE, input |-> FALSE]

\* Scans go on without their page; that of a contract will not be heard of again.
Orphaned(scans) ==
  [k \in Scans |-> IF scans[k].demo = "none" THEN NoScan ELSE [scans[k] EXCEPT !.here = FALSE]]

\* A link of the header.
Navigate(page) ==
  /\ page # route
  /\ Goto(page, "clean")
  /\ scan' = Orphaned(scan)
  /\ UNCHANGED <<siemEvents, fortaAlerts>>

\* `View Report' of the dashboard, or the URL.
OpenReport(id) ==
  /\ route \in {"home", "siem"}
  /\ Goto("report", id)
  /\ scan' = Orphaned(scan)
  /\ UNCHANGED <<siemEvents, fortaAlerts>>

----------------------------------------------------------------------------
(* siem/page.tsx *)

\* fetchSIEMData(), of the interval or of the button: two requests in turn.
FetchSIEMData(p) ==
  /\ route = "siem" /\ poll[p].at = "idle"
  /\ poll' = [poll EXCEPT ![p] = NewPoll]
  /\ UNCHANGED <<siemEvents, fortaAlerts, route, siemPage, simulating, simulation,
                 auditPage, scan, reportPage>>

\* The end of a call, also of one that threw: `finally', and that of
\* triggerSimulation() when it waited for it; the mutation frees the buttons at the
\* end of any call.
EndedForAll(p) ==
  /\ poll' = [poll EXCEPT ![p] = NoPoll]
  /\ simulating' = FALSE
  /\ simulation' = IF poll[p].again THEN NoSimulation ELSE simulation
Ended(p) ==
  /\ poll' = [poll EXCEPT ![p] = NoPoll]
  /\ simulating' = (simulating /\ ~poll[p].again)
  /\ simulation' = IF poll[p].again THEN NoSimulation ELSE simulation

\* The answer of api/siem, or an error of the server.
SiemAnswered(p) ==
  /\ poll[p].at = "siem"
  /\ \E ok \in BOOLEAN :
       poll' = [poll EXCEPT ![p].at = "forta", ![p].ok = ok,
                            ![p].events = IF ok THEN siemEvents ELSE <<>>]
  /\ UNCHANGED <<siemEvents, fortaAlerts, route, siemPage, simulating, simulation,
                 auditPage, scan, reportPage>>

\* The answer of api/forta/alerts: what api/siem answered before is shown only now.
FortaAnswered(p) ==
  /\ poll[p].at = "forta"
  /\ \E ok \in BOOLEAN :
       siemPage' = [events |-> IF poll[p].ok THEN poll[p].events ELSE siemPage.events,
                    metrics |-> IF poll[p].ok THEN Metrics(poll[p].events) ELSE siemPage.metrics,
                    alerts |-> IF ok THEN fortaAlerts ELSE siemPage.alerts,
                    loading |-> FALSE]
  /\ Ended(p)
  /\ UNCHANGED <<siemEvents, fortaAlerts, route, auditPage, scan, reportPage>>

\* A request fails, and the call throws.
PollFails(p) ==
  /\ poll[p].at # "idle"
  /\ siemPage' = [siemPage EXCEPT !.loading = FALSE]
  /\ Ended(p)
  /\ UNCHANGED <<siemEvents, fortaAlerts, route, auditPage, scan, reportPage>>

\* triggerSimulation(), whose buttons are disabled meanwhile.
TriggerSimulation(scenario) ==
  /\ route = "siem" /\ ~simulating
  /\ simulating' = TRUE
  /\ simulation' = [at |-> "posting", severity |-> Scenarios[scenario]]
  /\ UNCHANGED <<siemEvents, fortaAlerts, route, siemPage, poll, auditPage, scan, reportPage>>

\* The POST is answered, and the page asks again; or it fails, having arrived or
\* not.
SimulationPosted ==
  /\ simulation.at = "posting"
  /\ \/ /\ Len(siemEvents) < MaxEvents
        /\ siemEvents' = Unshifted(siemEvents, simulation.severity)
        /\ \E p \in Polls :
             /\ poll[p].at = "idle"
             /\ poll' = [poll EXCEPT ![p] = [NewPoll EXCEPT !.again = TRUE]]
        /\ simulation' = [simulation EXCEPT !.at = "refreshing"]
        /\ UNCHANGED simulating
     \/ /\ siemEvents' \in {siemEvents, Unshifted(siemEvents, simulation.severity)}
        /\ Len(siemEvents') <= MaxEvents
        /\ simulation' = NoSimulation
        /\ simulating' = FALSE
        /\ UNCHANGED poll
  /\ UNCHANGED <<fortaAlerts, route, siemPage, auditPage, scan, reportPage>>

----------------------------------------------------------------------------
(* audit/page.tsx and ReportClient.tsx *)

\* Source, file or URL are typed or cleared, also while a scan runs.
EditInput ==
  /\ route = "audit"
  /\ auditPage' = [auditPage EXCEPT !.input = ~@]
  /\ UNCHANGED <<siemEvents, fortaAlerts, route, siemVars, scan, reportPage>>

\* startDemoOrScan(): a series of timeouts passes for progress, and then the
\* request is sent.
StartScan(k, demo) ==
  /\ route = "audit" /\ ~auditPage.loading /\ scan[k].at = "idle"
  /\ demo # "none" \/ auditPage.input
  /\ auditPage' = [auditPage EXCEPT !.loading = TRUE]
  /\ scan' = [scan EXCEPT ![k] = [at |-> "running", demo |-> demo, here |-> TRUE]]
  /\ UNCHANGED <<siemEvents, fortaAlerts, route, siemVars, reportPage>>

\* api/audit answers a demo with its name, and the tab goes to its report from
\* wherever it is by now.
DemoAnswered(k) ==
  /\ scan[k].at = "running" /\ scan[k].demo # "none"
  /\ Goto("report", scan[k].demo)
  /\ scan' = [Orphaned(scan) EXCEPT ![k] = NoScan]
  /\ UNCHANGED <<siemEvents, fortaAlerts>>

\* The request fails; and of a contract it always does, as the route names a
\* constant that is not defined when it has written the source to a file.
ScanFails(k) ==
  /\ scan[k].at = "running"
  /\ auditPage' = [auditPage EXCEPT !.loading = @ /\ ~scan[k].here]
  /\ scan' = [scan EXCEPT ![k] = NoScan]
  /\ UNCHANGED <<siemEvents, fortaAlerts, route, siemVars, reportPage>>

\* fetchReport(): an answer that is not ok is replaced by a report of a clean
\* contract with badge 42; a request that fails leaves the page without any, and it
\* says "Loading..." for good, as nothing asks again.
ReportSettles ==
  /\ route = "report" /\ reportPage.loading
  /\ \E report \in {reportPage.id, "placeholder", "none"} :
       reportPage' = [reportPage EXCEPT !.report = report, !.loading = FALSE]
  /\ UNCHANGED <<siemEvents, fortaAlerts, route, siemVars, auditPage, scan>>

WebNext ==
  \/ \E severity \in Severities : PostEvent(severity)
  \/ \E bot \in DOMAIN Bots : PostBot(bot)
  \/ \E page \in {"home", "siem", "audit"} : Navigate(page)
  \/ \E id \in Demos : OpenReport(id)
  \/ \E p \in Polls : FetchSIEMData(p) \/ SiemAnswered(p) \/ FortaAnswered(p) \/ PollFails(p)
  \/ \E scenario \in DOMAIN Scenarios : TriggerSimulation(scenario)
  \/ SimulationPosted
  \/ EditInput
  \/ \E k \in Scans, demo \in Demos \cup {"none"} : StartScan(k, demo)
  \/ \E k \in Scans : DemoAnswered(k) \/ ScanFails(k)
  \/ ReportSettles

WebSpec == WebInit /\ [][WebNext]_webVars

----------------------------------------------------------------------------

WebTypeOK ==
  /\ siemEvents \in Seq(Severities) /\ fortaAlerts \in Seq(Severities)
  /\ route \in {"home", "siem", "audit", "report"}
  /\ \A p \in Polls : poll[p].at \in {"idle", "siem", "forta"}
  /\ simulating \in BOOLEAN
  /\ simulation.at \in {"none", "posting", "refreshing"}
  /\ auditPage \in [loading : BOOLEAN, input : BOOLEAN]
  /\ scan \in [Scans -> [at : {"idle", "running"},
                         demo : Demos \cup {"none"}, here : BOOLEAN]]
  /\ reportPage.report \in Demos \cup {"none", "placeholder"}

\* The flags that disable a button, and the SIEM page's first "loading".
FlagsMatchCalls ==
  /\ simulating <=> simulation.at # "none"
  /\ simulation.at = "refreshing" <=> \E p \in Polls : poll[p].again
  /\ route = "siem" /\ siemPage.loading => \E p \in Polls : poll[p].at # "idle"
  /\ auditPage.loading <=> \E k \in Scans : scan[k].here
  /\ \A j, k \in Scans : scan[j].here /\ scan[k].here => j = k

\* The buttons of the SIEM and the audit page are disabled just while the one call of
\* this page that will free them is under way, however polls overlap it, calls fail or
\* outlive their page.  The list of the SIEM page is the store's at some time, never a
\* mixture of two answers, with the counts of that list, and a simulated event has the
\* severity of the rule it names.  A demo's report is shown on its own page, as the
\* dashboard and its badge describe it.  (Not said: that the list is the newest that
\* was answered, that a scan leaves the tab alone once its page was left, or that a
\* report page ends loading.  None of them holds: see FortaAnswered, DemoAnswered and
\* ReportSettles.)
PagesConsistent ==
  /\ FlagsMatchCalls
  /\ IsSuffix(siemPage.events, siemEvents)
  /\ siemPage.metrics = Metrics(siemPage.events)
  /\ simulation.at # "none" =>
       \E name \in DOMAIN SiemRules :
         Scenarios[name] = SiemRules[name] /\ simulation.severity = SiemRules[name]
  /\ reportPage.report \in Demos =>
       LET id == reportPage.report
       IN /\ id = reportPage.id
          /\ DemoReport[id] = DashboardRow[id] /\ DemoReport[id].cvss = BadgeSvg(id).cvss
          /\ DemoReport[id].badge # 0 <=> BadgeSvg(id).guard = "EMERALD"
=============================================================================
