---------------------------- MODULE AlertManager ----------------------------
(***************************************************************************)
(* legacy/src/siem/AlertManager.ts on Node's event loop, one call of       *)
(* processBatch() per request of SiemServer.  Code between two awaits is   *)
(* one step, and any other request may run at an await.                    *)
(* Events arrive enriched: the dedup key and the escalated severity are    *)
(* all that is read of them.  Failed uploads are swallowed by their catch, *)
(* so an upload that succeeds and one that fails are one step here.        *)
(***************************************************************************)
EXTENDS Integers, Sequences

CONSTANTS
  Requests,      \* concurrent callers of processBatch()
  Keys,          \* dedup keys: contract, event name and category
  Severities,    \* ordered as SEVERITY_ORDER, 0 for INFO and so on
  Threshold,     \* the alertThreshold option
  DedupWindow,   \* DEDUP_WINDOW_MS
  Batches,       \* the batches a request may carry: [key, severity] sequences
  MaxBatches,    \* bound on the batches received
  MaxTime        \* bound on the clock

ASSUME AlertConstants ==
  /\ Severities \subseteq Nat /\ Threshold \in Nat
  /\ DedupWindow \in Nat
  /\ Batches \subseteq Seq([key : Keys, severity : Severities])
  /\ MaxBatches \in Nat /\ MaxTime \in Nat \ {0}

VARIABLES
  now,          \* Date.now()
  dedupCache,   \* key -> timestamp, 0 when the key is not in the map
  alerts,       \* the alerts built: [key, severity, timestamp, status]
  todo,         \* request -> the events of its batch not yet processed
  stage,        \* request -> where it waits
  building,     \* request -> the alert it has built and not stored, or 0
  results,      \* request -> the alerts its batch has created
  received      \* number of batches received, for the bound

requestVars == <<todo, stage, building, results>>
alertVars == <<now, dedupCache, alerts, requestVars, received>>

AlertInit ==
  /\ now = 1
  /\ dedupCache = [k \in Keys |-> 0]
  /\ alerts = <<>>
  /\ todo = [r \in Requests |-> <<>>]
  /\ stage = [r \in Requests |-> "idle"]
  /\ building = [r \in Requests |-> 0]
  /\ results = [r \in Requests |-> <<>>]
  /\ received = 0

\* A request of the server calls processBatch().
ReceiveBatch(r, batch) ==
  /\ stage[r] = "idle"
  /\ received < MaxBatches
  /\ received' = received + 1
  /\ todo' = [todo EXCEPT ![r] = batch]
  /\ stage' = [stage EXCEPT ![r] = "next"]
  /\ results' = [results EXCEPT ![r] = <<>>]
  /\ UNCHANGED <<now, dedupCache, alerts, building>>

\* meetsThreshold(); the mutation drops the events right at the threshold.
AboveThreshold(event) == event.severity > Threshold
MeetsThreshold(event) == event.severity >= Threshold

\* Was the key seen within the window?
Duplicate(key) == dedupCache[key] # 0 /\ now - dedupCache[key] < DedupWindow

\* The cache after an event of the key, duplicate or not; the mutation leaves
\* it as it was.
NotNoted(key) == dedupCache
Noted(key) == [dedupCache EXCEPT ![key] = now]

\* buildAlert(); UNSTORED until this.alerts.set().  The mutation stores it
\* before its uploads.
StoredAtOnce(event) ==
  [key |-> event.key, severity |-> event.severity, timestamp |-> now,
   status |-> "OPEN"]
NewAlert(event) ==
  [key |-> event.key, severity |-> event.severity, timestamp |-> now,
   status |-> "UNSTORED"]

\* processEvent() returns null: below the threshold ...
DropEvent(r) ==
  /\ stage[r] = "next" /\ todo[r] # <<>>
  /\ ~MeetsThreshold(Head(todo[r]))
  /\ todo' = [todo EXCEPT ![r] = Tail(@)]
  /\ UNCHANGED <<now, dedupCache, alerts, stage, building, results, received>>

\* ... or a duplicate, which prolongs the window.
SuppressEvent(r) ==
  /\ stage[r] = "next" /\ todo[r] # <<>>
  /\ MeetsThreshold(Head(todo[r]))
  /\ Duplicate(Head(todo[r]).key)
  /\ dedupCache' = Noted(Head(todo[r]).key)
  /\ todo' = [todo EXCEPT ![r] = Tail(@)]
  /\ UNCHANGED <<now, alerts, stage, building, results, received>>

\* processEvent() up to its first await: the alert is built, not stored.
BuildAlert(r) ==
  /\ stage[r] = "next" /\ todo[r] # <<>>
  /\ MeetsThreshold(Head(todo[r]))
  /\ ~Duplicate(Head(todo[r]).key)
  /\ dedupCache' = Noted(Head(todo[r]).key)
  /\ alerts' = Append(alerts, NewAlert(Head(todo[r])))
  /\ building' = [building EXCEPT ![r] = Len(alerts) + 1]
  /\ todo' = [todo EXCEPT ![r] = Tail(@)]
  /\ stage' = [stage EXCEPT ![r] = "attaching"]
  /\ UNCHANGED <<now, results, received>>

\* The awaits of attachIpfs() and attachEas() have returned: the alert is stored,
\* and emitted to the listeners, which SiemServer adds to this step.
StoreAlert(r) ==
  /\ stage[r] = "attaching"
  /\ alerts' = [alerts EXCEPT ![building[r]].status = "OPEN"]
  /\ building' = [building EXCEPT ![r] = 0]
  /\ results' = [results EXCEPT ![r] = Append(@, building[r])]
  /\ stage' = [stage EXCEPT ![r] = "next"]
  /\ UNCHANGED <<now, dedupCache, todo, received>>

\* updateStatus(), for acknowledge(), resolve() and suppress(): any stored
\* alert takes any of the three statuses, whatever it had before; an id that is
\* not stored is answered with false.
UpdateStatus(id, status) ==
  /\ alerts' = IF alerts[id].status = "UNSTORED" THEN alerts
               ELSE [alerts EXCEPT ![id].status = status]
  /\ UNCHANGED <<now, dedupCache, requestVars, received>>

Tick ==
  /\ now < MaxTime
  /\ now' = now + 1
  /\ UNCHANGED <<dedupCache, alerts, requestVars, received>>

Operated == {"ACKNOWLEDGED", "RESOLVED", "SUPPRESSED"}

----------------------------------------------------------------------------

Alert == [key : Keys, severity : Severities, timestamp : Nat,
          status : Operated \cup {"UNSTORED", "OPEN"}]

AlertTypeOK ==
  /\ now \in 1 .. MaxTime
  /\ dedupCache \in [Keys -> 0 .. now]
  /\ alerts \in Seq(Alert)
  /\ todo \in [Requests -> Seq([key : Keys, severity : Severities])]
  /\ stage \in [Requests -> {"idle", "next", "attaching"}]
  /\ results \in [Requests -> Seq(DOMAIN alerts)]
  /\ building \in [Requests -> 0 .. Len(alerts)]
  /\ received \in 0 .. MaxBatches
  /\ \A i \in DOMAIN alerts :
       alerts[i].status = "UNSTORED" <=> \E r \in Requests : building[r] = i

\* Two alerts of one key are at least the window apart, although concurrent
\* requests check and write the cache and store their alerts much later.
OneAlertPerWindow ==
  \A i, j \in DOMAIN alerts :
    (i < j /\ alerts[i].key = alerts[j].key)
      => alerts[j].timestamp - alerts[i].timestamp >= DedupWindow

\* No event that meets the threshold is lost: an alert of its key is stored
\* in the end, its own or the one it is a duplicate of, which may still be
\* waiting for its uploads in another request.
EventsAreAlerted ==
  \A k \in Keys :
    (\E r \in Requests : /\ todo[r] # <<>> /\ Head(todo[r]).key = k
                         /\ Head(todo[r]).severity >= Threshold)
      ~> \E i \in DOMAIN alerts :
           alerts[i].key = k /\ alerts[i].status # "UNSTORED"
=============================================================================
