----------------------------- MODULE SiemServer -----------------------------
(***************************************************************************)
(* legacy/src/server.ts around AlertManager, with its two kinds of client: *)
(* a REST caller, and the WebSocket of dashboard/src/store/useSIEMStore.ts *)
(* in one browser tab, operated through SIEMPanel.tsx.                     *)
(*                                                                         *)
(* SIEMEngine.process() classifies, scores and enriches a batch before its *)
(* first await; what AlertManager reads of the outcome is the batch itself.*)
(* (The module trains the engine when it is loaded, so no request does.)   *)
(* The baseline the server also broadcasts is statistics for display and   *)
(* left out.  A connection carries what the server sends in order.         *)
(***************************************************************************)
EXTENDS AlertManager, SequencesExt, Subsequences

CONSTANTS
  Sockets,     \* the WebSocket objects the tab creates
  None,        \* no socket
  ListLimit,   \* alerts the store keeps: 200
  MaxClicks    \* bound on the status changes asked for

ASSUME ServerConstants ==
  /\ None \notin Sockets
  /\ ListLimit \in Nat \ {0} /\ MaxClicks \in Nat

VARIABLES
  overHttp,   \* request -> did it come over HTTP, not over a socket?
  clients,    \* wss.clients
  toClient,   \* socket -> messages from the server, in order
  toServer,   \* socket -> status changes on their way to the server
  readyState, \* socket -> its state in the browser
  ws,         \* the store's socket
  wsStatus,   \* the store's connection status
  shown,      \* the store's alerts, newest first: [id, status]
  removed,    \* alerts cleared from the list or pushed out of it (history)
  source,     \* the socket whose open alerts the list began with (history)
  clicks      \* number of status changes, for the bound

serverVars == <<overHttp, clients, toClient>>
storeVars == <<toServer, readyState, ws, wsStatus, shown, removed, source, clicks>>
vars == <<alertVars, serverVars, storeVars>>

Init ==
  /\ AlertInit
  /\ overHttp = [r \in Requests |-> FALSE]
  /\ clients = {}
  /\ toClient = [s \in Sockets |-> <<>>]
  /\ toServer = [s \in Sockets |-> <<>>]
  /\ readyState = [s \in Sockets |-> "new"]
  /\ ws = None
  /\ wsStatus = "disconnected"
  /\ shown = <<>>
  /\ removed = {}
  /\ source = None
  /\ clicks = 0

Ids(list) == {list[i].id : i \in DOMAIN list}

\* broadcastAlert(), for each alert in turn, with the status it has by now.
AlertMessage(id) == [type |-> "alert", alert |-> [id |-> id, status |-> alerts'[id].status]]
Broadcast(ids) ==
  [s \in Sockets |->
     IF s \in clients
     THEN toClient[s] \o [i \in DOMAIN ids |-> AlertMessage(ids[i])]
     ELSE toClient[s]]

\* What a new connection is sent: the open alerts, newest first.  The mutation
\* takes the alerts of the batches that have returned.
AlertRows == [i \in DOMAIN alerts |-> [id |-> i, status |-> alerts[i].status]]
OpenIds == {i \in DOMAIN alerts : alerts[i].status = "OPEN"}
StaleOpenAlerts ==
  Subsequence(AlertRows, IF \A r \in Requests : stage[r] = "idle" THEN OpenIds ELSE {})
OpenAlerts == Subsequence(AlertRows, OpenIds)

----------------------------------------------------------------------------
(* The buttons of the panel. *)

\* ConnectPill: one button connects, and disconnects when connected.
ConnectOffered == wsStatus # "connected"

\* AlertRow: the buttons of a row of that status.
Offered(status) ==
  CASE status = "RESOLVED" -> {}
    [] status = "ACKNOWLEDGED" -> {"RESOLVED"}
    [] OTHER -> {"ACKNOWLEDGED", "RESOLVED"}

\* The deck of simulations, whose events ingestEvents() sends over an open socket.
SimulationOffered == wsStatus = "connected"
IngestSent == ws # None /\ readyState[ws] = "open"

----------------------------------------------------------------------------
(* The server. *)

\* POST /api/siem/ingest, or an ingest message over a socket.  Requests have no
\* names of their own: any that is idle stands for the next one.
Ingest(batch, http) ==
  LET r == CHOOSE q \in Requests : stage[q] = "idle" IN
  /\ \E q \in Requests : stage[q] = "idle"
  /\ http \/ (SimulationOffered /\ IngestSent)
  /\ ReceiveBatch(r, batch)
  /\ overHttp' = [overHttp EXCEPT ![r] = http]
  /\ UNCHANGED <<clients, toClient, storeVars>>

\* AlertManager at work for a request; an alert that is stored is broadcast.
Work(r) ==
  /\ \/ (DropEvent(r) \/ SuppressEvent(r) \/ BuildAlert(r)) /\ UNCHANGED toClient
     \/ StoreAlert(r) /\ toClient' = Broadcast(<<building[r]>>)
  /\ UNCHANGED <<overHttp, clients, storeVars>>

\* processBatch() returns, the webhooks have been tried (the request waits for
\* them, their failures are only logged) and the request is answered.  Over HTTP, every alert of the
\* batch is broadcast once more.
Reply(r) ==
  /\ stage[r] = "next" /\ todo[r] = <<>>
  /\ stage' = [stage EXCEPT ![r] = "idle"]
  /\ overHttp' = [overHttp EXCEPT ![r] = FALSE]
  /\ results' = [results EXCEPT ![r] = <<>>]
  /\ UNCHANGED <<now, dedupCache, alerts, todo, building, received>>
  /\ toClient' = IF overHttp[r] THEN Broadcast(results[r]) ELSE toClient
  /\ UNCHANGED <<clients, storeVars>>

\* PATCH /api/siem/alerts/:id: the sockets are told nothing.
PatchAlert(id, status) ==
  /\ clicks < MaxClicks
  /\ clicks' = clicks + 1
  /\ UpdateStatus(id, status)
  /\ UNCHANGED <<serverVars, toServer, readyState, ws, wsStatus, shown, removed, source>>

\* A connection with access is sent the open alerts and belongs to wss.clients;
\* one without is left to open and is closed again.
Accept(s) ==
  /\ readyState[s] = "connecting" /\ s \notin clients
  /\ toClient' = [toClient EXCEPT
                    ![s] = <<[type |-> "init", alerts |-> Reverse(OpenAlerts)]>>]
  /\ clients' = clients \cup {s}
  /\ UNCHANGED <<alertVars, overHttp, storeVars>>

\* An acknowledge or a resolve message of a socket arrives; the answer goes to
\* that socket only, and the store reads no answer of this type.
HandleStatus(s) ==
  /\ s \in clients /\ toServer[s] # <<>>
  /\ UpdateStatus(Head(toServer[s]).id, Head(toServer[s]).status)
  /\ toServer' = [toServer EXCEPT ![s] = Tail(@)]
  /\ UNCHANGED <<serverVars, readyState, ws, wsStatus, shown, removed, source, clicks>>

----------------------------------------------------------------------------
(* The store in the browser. *)

\* connect(), with a new socket: the button is there unless the status is
\* `connected'.
Connect ==
  LET s == CHOOSE t \in Sockets : readyState[t] = "new" IN
  /\ ConnectOffered
  /\ \E t \in Sockets : readyState[t] = "new"
  /\ readyState' = [t \in Sockets |->
       IF t = s THEN "connecting"
       ELSE IF t = ws /\ readyState[t] \in {"connecting", "open"} THEN "closing"
       ELSE readyState[t]]
  /\ ws' = s
  /\ wsStatus' = "connecting"
  /\ UNCHANGED <<alertVars, serverVars, toServer, shown, removed, source, clicks>>

\* disconnect()
Disconnect ==
  /\ ~ConnectOffered
  /\ readyState' = IF ws = None THEN readyState ELSE [readyState EXCEPT ![ws] = "closing"]
  /\ ws' = None
  /\ wsStatus' = "disconnected"
  /\ UNCHANGED <<alertVars, serverVars, toServer, shown, removed, source, clicks>>

\* onopen
Open(s) ==
  /\ readyState[s] = "connecting"
  /\ readyState' = [readyState EXCEPT ![s] = "open"]
  /\ wsStatus' = "connected"
  /\ UNCHANGED <<alertVars, serverVars, toServer, ws, shown, removed, source, clicks>>

\* onclose, of any socket, the store's present one or not: the connection was
\* closed from here or by the server, or it failed (onerror comes first and
\* its status is overwritten at once).
Closed(s) ==
  /\ readyState[s] \in {"connecting", "open", "closing"}
  /\ readyState' = [readyState EXCEPT ![s] = "closed"]
  /\ wsStatus' = "disconnected"
  /\ ws' = None
  /\ clients' = clients \ {s}
  /\ toClient' = [toClient EXCEPT ![s] = <<>>]
  /\ toServer' = [toServer EXCEPT ![s] = <<>>]
  /\ UNCHANGED <<alertVars, overHttp, shown, removed, source, clicks>>

\* slice(0, 200)
Newest(list) == SubSeq(list, 1, Min({Len(list), ListLimit}))

\* onmessage, which every open socket still calls.
OnMessage(s) ==
  /\ readyState[s] = "open" /\ toClient[s] # <<>>
  /\ toClient' = [toClient EXCEPT ![s] = Tail(@)]
  /\ LET msg == Head(toClient[s])
     IN \/ /\ msg.type = "init"
           /\ shown' = msg.alerts
           /\ removed' = {}
           /\ source' = s
        \/ /\ msg.type = "alert"
           /\ shown' = Newest(<<msg.alert>> \o shown)
           /\ removed' = (removed \cup Ids(shown)) \ Ids(shown')
           /\ UNCHANGED source
  /\ UNCHANGED <<alertVars, overHttp, clients, toServer, readyState, ws, wsStatus, clicks>>

\* acknowledge() and resolve(), from the buttons of a row: the message is sent
\* only when the store has an open socket, the list is changed in any case.
Click(id, status) ==
  /\ clicks < MaxClicks
  /\ \E i \in DOMAIN shown : shown[i].id = id /\ status \in Offered(shown[i].status)
  /\ clicks' = clicks + 1
  /\ toServer' = IF ws # None /\ readyState[ws] = "open"
                 THEN [toServer EXCEPT ![ws] = Append(@, [id |-> id, status |-> status])]
                 ELSE toServer
  /\ shown' = [i \in DOMAIN shown |->
                 IF shown[i].id = id THEN [shown[i] EXCEPT !.status = status] ELSE shown[i]]
  /\ UNCHANGED <<alertVars, serverVars, readyState, ws, wsStatus, removed, source>>

\* clearResolved()
ClearResolved ==
  /\ \E i \in DOMAIN shown : shown[i].status = "RESOLVED"
  /\ shown' = Subsequence(shown, {i \in DOMAIN shown : shown[i].status # "RESOLVED"})
  /\ removed' = removed \cup (Ids(shown) \ Ids(shown'))
  /\ UNCHANGED <<alertVars, serverVars, toServer, readyState, ws, wsStatus, source, clicks>>

----------------------------------------------------------------------------

Proceed(r) == Work(r) \/ Reply(r)

Next ==
  \/ \E batch \in Batches, http \in BOOLEAN : Ingest(batch, http)
  \/ \E r \in Requests : Proceed(r)
  \/ \E id \in DOMAIN alerts, status \in {"ACKNOWLEDGED", "RESOLVED"} :
       PatchAlert(id, status) \/ Click(id, status)
  \/ \E s \in Sockets :
       Accept(s) \/ HandleStatus(s) \/ Open(s) \/ Closed(s) \/ OnMessage(s)
  \/ Connect
  \/ Disconnect
  \/ ClearResolved
  \/ Tick /\ UNCHANGED <<serverVars, storeVars>>

Spec == Init /\ [][Next]_vars

\* Every await is on a promise that settles, and the event loop resumes it.
FairSpec == Spec /\ \A r \in Requests : WF_vars(Proceed(r))

----------------------------------------------------------------------------

Row == [id : DOMAIN alerts, status : Operated \cup {"OPEN"}]

ServerTypeOK ==
  /\ AlertTypeOK
  /\ overHttp \in [Requests -> BOOLEAN]
  /\ clients \subseteq Sockets
  /\ \A s \in Sockets : \A i \in DOMAIN toClient[s] :
       \/ toClient[s][i].type = "alert" /\ toClient[s][i].alert \in Row
       \/ toClient[s][i].type = "init" /\ toClient[s][i].alerts \in Seq(Row)
  /\ \A s \in Sockets : toServer[s] \in Seq(Row)
  /\ readyState \in [Sockets -> {"new", "connecting", "open", "closing", "closed"}]
  /\ ws \in Sockets \cup {None}
  /\ wsStatus \in {"disconnected", "connecting", "connected"}
  /\ shown \in Seq(Row)
  /\ removed \subseteq DOMAIN alerts
  /\ source \in Sockets \cup {None}

\* A list that began with the open alerts of one connection, and has taken in
\* all that connection has been sent since, holds every alert that is open on
\* the server, though the alert may have been stored while the tab was
\* connecting or reconnecting, and whatever other sockets of the tab deliver or
\* lose.  Missing are only alerts the operator cleared or newer ones pushed out
\* of a full list.
OpenAlertsShown ==
  \A s \in clients :
    (source = s /\ toClient[s] = <<>>) => OpenIds \subseteq Ids(shown) \cup removed
=============================================================================
