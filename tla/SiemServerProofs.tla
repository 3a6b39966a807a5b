-------------------------- MODULE SiemServerProofs ---------------------------
(***************************************************************************)
(* Proofs about SiemServer and the AlertManager in it: the types of the    *)
(* server, its connections and the browser's list; alerts of one key are a *)
(* window apart; and the list of a tab holds every open alert.             *)
(***************************************************************************)
EXTENDS SiemServer, CountingTheorems, SequenceTheorems

----------------------------------------------------------------------------
(* AlertManager: its types.                                                *)

EventOf == [key : Keys, severity : Severities]

\* The alerts that have been stored.
Stored == {i \in DOMAIN alerts : alerts[i].status # "UNSTORED"}

AlertsTyped ==
  /\ now \in 1 .. MaxTime
  /\ dedupCache \in [Keys -> 0 .. now]
  /\ alerts \in Seq(Alert)
  /\ todo \in [Requests -> Seq(EventOf)]
  /\ stage \in [Requests -> {"idle", "next", "attaching"}]
  /\ results \in [Requests -> Seq(Stored)]
  /\ building \in [Requests -> 0 .. Len(alerts)]
  /\ received \in 0 .. MaxBatches
  /\ \A i \in DOMAIN alerts :
       alerts[i].status = "UNSTORED" <=> \E r \in Requests : building[r] = i
  /\ \A r \in Requests : stage[r] = "attaching" <=> building[r] # 0
  /\ \A r, q \in Requests : (building[r] = building[q] /\ building[r] # 0) => r = q

\* A request that has returned goes idle.
Returned(r) ==
  /\ stage[r] = "next" /\ todo[r] = <<>>
  /\ stage' = [stage EXCEPT ![r] = "idle"]
  /\ results' = [results EXCEPT ![r] = <<>>]
  /\ UNCHANGED <<now, dedupCache, alerts, todo, building, received>>

\* What a step of the server is to the alert manager.
AlertStep ==
  \/ \E r \in Requests, batch \in Batches : ReceiveBatch(r, batch)
  \/ \E r \in Requests : \/ DropEvent(r) \/ SuppressEvent(r) \/ BuildAlert(r)
                         \/ StoreAlert(r) \/ Returned(r)
  \/ \E id \in DOMAIN alerts, status \in {"ACKNOWLEDGED", "RESOLVED"} :
       UpdateStatus(id, status)
  \/ Tick
  \/ UNCHANGED alertVars

\* What no step takes from the alerts there are: their number only grows, key
\* and time of an alert stay, one that is stored stays stored, and none is open
\* that was neither open nor being built.
AlertsKept ==
  /\ Len(alerts) <= Len(alerts')
  /\ \A i \in DOMAIN alerts :
       /\ alerts'[i].key = alerts[i].key
       /\ alerts'[i].timestamp = alerts[i].timestamp
       /\ alerts'[i].status = "OPEN" => alerts[i].status \in {"OPEN", "UNSTORED"}
       /\ i \in Stored => alerts'[i].status # "UNSTORED"

\* An alert whose status is set is an alert still.
LEMMA StatusSet ==
  ASSUME alerts \in Seq(Alert), NEW i \in DOMAIN alerts,
         NEW v \in Operated \cup {"UNSTORED", "OPEN"},
         alerts' = [alerts EXCEPT ![i] = [alerts[i] EXCEPT !.status = v]]
  PROVE  /\ alerts' \in Seq(Alert) /\ Len(alerts') = Len(alerts)
         /\ DOMAIN alerts' = DOMAIN alerts
         /\ \A j \in DOMAIN alerts :
              /\ alerts'[j].key = alerts[j].key /\ alerts'[j].timestamp = alerts[j].timestamp
              /\ alerts'[j].status = IF j = i THEN v ELSE alerts[j].status
<1> DEFINE e == [alerts[i] EXCEPT !.status = v]
<1>1. alerts[i] \in Alert
  BY ElementOfSeq
<1>2. e \in Alert /\ e.key = alerts[i].key /\ e.timestamp = alerts[i].timestamp
        /\ e.status = v
  BY <1>1 DEF Alert
<1>3. i \in 1 .. Len(alerts) /\ DOMAIN alerts = 1 .. Len(alerts)
  OBVIOUS
<1>4. alerts' = [alerts EXCEPT ![i] = e]
  OBVIOUS
<1> HIDE DEF e
<1>5. /\ alerts' \in Seq(Alert) /\ Len(alerts') = Len(alerts)
      /\ \A j \in 1 .. Len(alerts) : alerts'[j] = IF j = i THEN e ELSE alerts[j]
  BY <1>2, <1>3, <1>4, ExceptSeq
<1> QED
  BY <1>2, <1>3, <1>5

\* The alert manager starts typed.
LEMMA AlertsTypedInit ==
  ASSUME AlertInit
  PROVE  AlertsTyped
BY AlertConstants DEF AlertInit, AlertsTyped

\* Every step of the alert manager keeps its types.
LEMMA AlertsTypedStep ==
  ASSUME AlertsTyped, AlertStep
  PROVE  AlertsTyped' /\ AlertsKept
<1> USE AlertConstants
<1>t. /\ now \in 1 .. MaxTime /\ MaxTime \in Nat
      /\ dedupCache \in [Keys -> 0 .. now]
      /\ alerts \in Seq(Alert) /\ Len(alerts) \in Nat
      /\ DOMAIN alerts = 1 .. Len(alerts)
      /\ todo \in [Requests -> Seq(EventOf)]
      /\ stage \in [Requests -> {"idle", "next", "attaching"}]
      /\ results \in [Requests -> Seq(Stored)]
      /\ building \in [Requests -> 0 .. Len(alerts)]
      /\ received \in 0 .. MaxBatches
  BY DEF AlertsTyped
<1>k. ASSUME UNCHANGED alerts PROVE AlertsKept /\ Stored' = Stored
  BY <1>k, <1>t DEF AlertsKept, Stored
<1>s. ASSUME AlertsKept, alerts' \in Seq(Alert)
      PROVE  Stored \subseteq Stored' /\ results \in [Requests -> Seq(Stored')]
  <2>1. Stored \subseteq Stored'
    BY <1>s, <1>t DEF AlertsKept, Stored
  <2>2. Seq(Stored) \subseteq Seq(Stored')
    BY <2>1, SeqMonotonic
  <2> QED
    BY <1>t, <2>1, <2>2
<1>n. dedupCache' \in [Keys -> 0 .. now]
  <2>1. \A k : [dedupCache EXCEPT ![k] = now] \in [Keys -> 0 .. now]
    <3>1. now \in 0 .. now
      BY <1>t
    <3> QED
      BY <1>t, <3>1
  <2>2. dedupCache' = dedupCache \/ \E k : dedupCache' = [dedupCache EXCEPT ![k] = now]
    BY DEF AlertStep, ReceiveBatch, DropEvent, SuppressEvent, BuildAlert, StoreAlert,
           Returned, UpdateStatus, Tick, alertVars, Noted
  <2> QED
    BY <1>t, <2>1, <2>2
<1>h. ASSUME NEW r \in Requests, todo[r] # <<>>
      PROVE  Head(todo[r]) \in EventOf /\ [todo EXCEPT ![r] = Tail(@)] \in [Requests -> Seq(EventOf)]
  <2>1. todo[r] \in Seq(EventOf)
    BY <1>t
  <2>2. Head(todo[r]) \in EventOf /\ Tail(todo[r]) \in Seq(EventOf)
    BY <1>h, <2>1, HeadTailProperties
  <2> QED
    BY <1>t, <2>2
<1>1. ASSUME NEW r \in Requests, NEW batch \in Batches, ReceiveBatch(r, batch)
      PROVE  AlertsTyped' /\ AlertsKept
  <2>1. batch \in Seq(EventOf)
    BY DEF EventOf
  <2>2. /\ todo' \in [Requests -> Seq(EventOf)]
        /\ stage' \in [Requests -> {"idle", "next", "attaching"}]
        /\ stage' = [stage EXCEPT ![r] = "next"] /\ stage[r] = "idle"
        /\ results' \in [Requests -> Seq(Stored)]
        /\ received' \in 0 .. MaxBatches
        /\ UNCHANGED <<now, dedupCache, alerts, building>>
    BY <1>t, <1>1, <2>1 DEF ReceiveBatch
  <2> QED
    BY <1>t, <1>k, <2>2 DEF AlertsTyped
<1>2. ASSUME NEW r \in Requests, DropEvent(r) \/ SuppressEvent(r)
      PROVE  AlertsTyped' /\ AlertsKept
  <2>1. /\ todo' \in [Requests -> Seq(EventOf)]
        /\ UNCHANGED <<now, alerts, stage, building, results, received>>
    BY <1>2, <1>h DEF DropEvent, SuppressEvent
  <2> QED
    BY <1>t, <1>k, <1>n, <2>1 DEF AlertsTyped
<1>3. ASSUME NEW r \in Requests, BuildAlert(r)
      PROVE  AlertsTyped' /\ AlertsKept
  <2> DEFINE e == NewAlert(Head(todo[r]))
             n == Len(alerts) + 1
  <2>1. /\ stage[r] = "next" /\ todo[r] # <<>>
        /\ alerts' = Append(alerts, e)
        /\ building' = [building EXCEPT ![r] = n]
        /\ todo' = [todo EXCEPT ![r] = Tail(@)]
        /\ stage' = [stage EXCEPT ![r] = "attaching"]
        /\ UNCHANGED <<now, results, received>>
    BY <1>3 DEF BuildAlert
  <2>2. e \in Alert /\ e.status = "UNSTORED"
    BY <1>t, <1>h, <2>1 DEF EventOf, Alert, NewAlert
  <2> HIDE DEF e
  <2>3. /\ alerts' \in Seq(Alert) /\ Len(alerts') = n /\ n \in Nat
        /\ DOMAIN alerts' = 1 .. n /\ alerts'[n] = e
        /\ \A i \in DOMAIN alerts : alerts'[i] = alerts[i]
    BY <1>t, <2>1, <2>2, AppendProperties
  <2>4. AlertsKept
    BY <1>t, <2>3 DEF AlertsKept, Stored
  <2>5. todo' \in [Requests -> Seq(EventOf)]
    BY <1>h, <2>1
  <2>6. results' \in [Requests -> Seq(Stored')]
    BY <1>s, <2>1, <2>3, <2>4
  <2>7. /\ building' \in [Requests -> 0 .. Len(alerts')]
        /\ stage' \in [Requests -> {"idle", "next", "attaching"}]
    BY <1>t, <2>1, <2>3
  <2>8. ASSUME NEW i \in DOMAIN alerts'
        PROVE  alerts'[i].status = "UNSTORED" <=> \E q \in Requests : building'[q] = i
    <3>1. CASE i = n
      BY <1>t, <2>1, <2>2, <2>3, <3>1
    <3>2. CASE i # n
      <4>1. i \in DOMAIN alerts /\ alerts'[i] = alerts[i] /\ i # 0
        BY <1>t, <2>3, <3>2
      <4>2. building[r] = 0
        BY <2>1 DEF AlertsTyped
      <4>3. \A q \in Requests : building'[q] = i <=> building[q] = i
        BY <1>t, <2>1, <3>2, <4>1, <4>2
      <4> QED
        BY <4>1, <4>3 DEF AlertsTyped
    <3> QED
      BY <3>1, <3>2
  <2>9. \A q \in Requests : stage'[q] = "attaching" <=> building'[q] # 0
    BY <1>t, <2>1, <2>3 DEF AlertsTyped
  <2>10. \A q, p \in Requests :
           (building'[q] = building'[p] /\ building'[q] # 0) => q = p
    BY <1>t, <2>1 DEF AlertsTyped
  <2> QED
    BY <1>t, <1>n, <2>1, <2>3, <2>4, <2>5, <2>6, <2>7, <2>8, <2>9, <2>10 DEF AlertsTyped
<1>4. ASSUME NEW r \in Requests, StoreAlert(r)
      PROVE  AlertsTyped' /\ AlertsKept
  <2> DEFINE b == building[r]
  <2>1. /\ stage[r] = "attaching"
        /\ alerts' = [alerts EXCEPT ![b].status = "OPEN"]
        /\ building' = [building EXCEPT ![r] = 0]
        /\ results' = [results EXCEPT ![r] = Append(@, b)]
        /\ stage' = [stage EXCEPT ![r] = "next"]
        /\ UNCHANGED <<now, dedupCache, todo, received>>
    BY <1>4 DEF StoreAlert
  <2>2. b # 0 /\ b \in DOMAIN alerts /\ alerts[b].status = "UNSTORED"
    <3>1. b # 0 /\ b \in 0 .. Len(alerts)
      BY <1>t, <2>1 DEF AlertsTyped
    <3>2. b \in DOMAIN alerts
      BY <1>t, <3>1
    <3> QED
      BY <3>1, <3>2 DEF AlertsTyped
  <2> HIDE DEF b
  <2>3. /\ alerts' \in Seq(Alert) /\ Len(alerts') = Len(alerts)
        /\ DOMAIN alerts' = DOMAIN alerts
        /\ \A j \in DOMAIN alerts :
             /\ alerts'[j].key = alerts[j].key /\ alerts'[j].timestamp = alerts[j].timestamp
             /\ alerts'[j].status = IF j = b THEN "OPEN" ELSE alerts[j].status
    <3>1. /\ alerts' \in Seq(Alert) /\ Len(alerts') = Len(alerts)
          /\ \A j \in DOMAIN alerts :
               /\ alerts'[j].key = alerts[j].key
               /\ alerts'[j].timestamp = alerts[j].timestamp
               /\ alerts'[j].status = IF j = b THEN "OPEN" ELSE alerts[j].status
      <4>1. PICK v \in Operated \cup {"UNSTORED", "OPEN"} : v = "OPEN"
        OBVIOUS
      <4>2. alerts' = [alerts EXCEPT ![b] = [alerts[b] EXCEPT !.status = v]]
        BY <2>1, <4>1
      <4> QED
        BY <1>t, <2>2, <4>1, <4>2, StatusSet
    <3> QED
      BY <1>t, <3>1
  <2>4. AlertsKept
    <3>1. ASSUME NEW i \in DOMAIN alerts
          PROVE  /\ alerts'[i].status = "OPEN" => alerts[i].status \in {"OPEN", "UNSTORED"}
                 /\ i \in Stored => alerts'[i].status # "UNSTORED"
      BY <2>2, <2>3 DEF Stored
    <3> QED
      BY <1>t, <2>3, <3>1 DEF AlertsKept
  <2>5. results' \in [Requests -> Seq(Stored')]
    <3>1. results[r] \in Seq(Stored') /\ results \in [Requests -> Seq(Stored')]
      BY <1>s, <2>3, <2>4
    <3>2. b \in Stored'
      BY <2>2, <2>3 DEF Stored
    <3>3. Append(results[r], b) \in Seq(Stored')
      BY <3>1, <3>2, AppendProperties
    <3> QED
      BY <2>1, <3>1, <3>3
  <2>6. /\ building' \in [Requests -> 0 .. Len(alerts')]
        /\ stage' \in [Requests -> {"idle", "next", "attaching"}]
    BY <1>t, <2>1, <2>3
  <2>7. ASSUME NEW i \in DOMAIN alerts'
        PROVE  alerts'[i].status = "UNSTORED" <=> \E q \in Requests : building'[q] = i
    <3>1. CASE i = b
      <4>1. alerts'[i].status = "OPEN"
        BY <2>2, <2>3, <3>1
      <4>2. \A q \in Requests : building'[q] # i
        BY <1>t, <2>1, <2>2, <3>1 DEF AlertsTyped, b
      <4> QED
        BY <4>1, <4>2
    <3>2. CASE i # b
      <4>1. i \in DOMAIN alerts /\ alerts'[i].status = alerts[i].status /\ i # 0
        BY <1>t, <2>3, <3>2
      <4>2. \A q \in Requests : building'[q] = i <=> building[q] = i
        BY <1>t, <2>1, <3>2, <4>1 DEF b
      <4> QED
        BY <4>1, <4>2 DEF AlertsTyped
    <3> QED
      BY <3>1, <3>2
  <2>8. /\ \A q \in Requests : stage'[q] = "attaching" <=> building'[q] # 0
        /\ \A q, p \in Requests :
             (building'[q] = building'[p] /\ building'[q] # 0) => q = p
    BY <1>t, <2>1 DEF AlertsTyped
  <2> QED
    BY <1>t, <2>1, <2>3, <2>4, <2>5, <2>6, <2>7, <2>8 DEF AlertsTyped
<1>5. ASSUME NEW r \in Requests, Returned(r)
      PROVE  AlertsTyped' /\ AlertsKept
  <2>1. /\ stage' \in [Requests -> {"idle", "next", "attaching"}]
        /\ stage' = [stage EXCEPT ![r] = "idle"] /\ stage[r] = "next"
        /\ results' \in [Requests -> Seq(Stored)]
        /\ UNCHANGED <<now, dedupCache, alerts, todo, building, received>>
    BY <1>t, <1>5 DEF Returned
  <2> QED
    BY <1>t, <1>k, <2>1 DEF AlertsTyped
<1>6. ASSUME NEW id \in DOMAIN alerts, NEW status \in {"ACKNOWLEDGED", "RESOLVED"},
             UpdateStatus(id, status)
      PROVE  AlertsTyped' /\ AlertsKept
  <2>1. UNCHANGED <<now, dedupCache, todo, stage, building, results, received>>
    BY <1>6 DEF UpdateStatus, requestVars
  <2>2. CASE alerts[id].status = "UNSTORED"
    <3>1. UNCHANGED alerts
      BY <1>6, <2>2 DEF UpdateStatus
    <3> QED
      BY <1>t, <1>k, <2>1, <3>1 DEF AlertsTyped
  <2>3. CASE alerts[id].status # "UNSTORED"
    <3>1. alerts' = [alerts EXCEPT ![id].status = status]
      BY <1>6, <2>3 DEF UpdateStatus
    <3>2. /\ alerts' \in Seq(Alert) /\ Len(alerts') = Len(alerts)
          /\ DOMAIN alerts' = DOMAIN alerts
          /\ \A j \in DOMAIN alerts :
               /\ alerts'[j].key = alerts[j].key /\ alerts'[j].timestamp = alerts[j].timestamp
               /\ alerts'[j].status = IF j = id THEN status ELSE alerts[j].status
      <4>1. id \in DOMAIN alerts /\ status \in Operated \cup {"UNSTORED", "OPEN"}
        BY DEF Operated
      <4> HIDE DEF Operated
      <4>2. /\ alerts' \in Seq(Alert) /\ Len(alerts') = Len(alerts)
            /\ \A j \in DOMAIN alerts :
                 /\ alerts'[j].key = alerts[j].key
                 /\ alerts'[j].timestamp = alerts[j].timestamp
                 /\ alerts'[j].status = IF j = id THEN status ELSE alerts[j].status
        <5>1. alerts' = [alerts EXCEPT ![id] = [alerts[id] EXCEPT !.status = status]]
          BY <3>1
        <5> QED
          BY <1>t, <4>1, <5>1, StatusSet
      <4> QED
        BY <1>t, <4>2
    <3>3. AlertsKept
      BY <1>t, <2>3, <3>2 DEF AlertsKept, Stored
    <3>4. \A i \in DOMAIN alerts' :
            alerts'[i].status = "UNSTORED" <=> alerts[i].status = "UNSTORED"
      BY <2>3, <3>2
    <3> QED
      BY <1>t, <1>s, <2>1, <3>2, <3>3, <3>4 DEF AlertsTyped
  <2> QED
    BY <2>2, <2>3
<1>7. CASE Tick
  <2>1. /\ now' \in 1 .. MaxTime /\ 0 .. now \subseteq 0 .. now'
        /\ UNCHANGED <<dedupCache, alerts, todo, stage, building, results, received>>
    BY <1>t, <1>7 DEF Tick, requestVars
  <2>2. dedupCache' \in [Keys -> (0 .. now)']
    BY <1>t, <2>1
  <2> QED
    BY <1>t, <1>k, <2>1, <2>2 DEF AlertsTyped
<1>8. CASE UNCHANGED alertVars
  BY <1>8, <1>k DEF alertVars, requestVars, AlertsTyped, Stored
<1> QED
  BY <1>1, <1>2, <1>3, <1>4, <1>5, <1>6, <1>7, <1>8 DEF AlertStep

----------------------------------------------------------------------------
(* One alert per window: the cache is never behind an alert of its key.    *)

WindowInv ==
  /\ OneAlertPerWindow
  /\ \A i \in DOMAIN alerts :
       /\ 1 <= alerts[i].timestamp
       /\ alerts[i].timestamp <= dedupCache[alerts[i].key]

\* Every step of the alert manager keeps the alerts of a key apart.
LEMMA WindowStep ==
  ASSUME AlertsTyped, WindowInv, AlertStep
  PROVE  WindowInv'
<1>t. /\ now \in Nat /\ now >= 1 /\ DedupWindow \in Nat
      /\ dedupCache \in [Keys -> Nat] /\ \A k \in Keys : dedupCache[k] <= now
      /\ alerts \in Seq(Alert) /\ Len(alerts) \in Nat
      /\ DOMAIN alerts = 1 .. Len(alerts)
  BY AlertConstants DEF AlertsTyped
<1>a. \A i \in DOMAIN alerts : alerts[i].key \in Keys /\ alerts[i].timestamp \in Nat
  <2>1. \A i \in DOMAIN alerts : alerts[i] \in Alert
    BY <1>t, ElementOfSeq
  <2> QED
    BY <2>1 DEF Alert
<1>k. AlertsTyped' /\ AlertsKept
  BY AlertsTypedStep
<1>1. ASSUME NEW r \in Requests, BuildAlert(r) PROVE WindowInv'
  <2> DEFINE k == Head(todo[r]).key
             e == NewAlert(Head(todo[r]))
             n == Len(alerts) + 1
  <2>1. /\ todo[r] # <<>> /\ ~Duplicate(k)
        /\ dedupCache' = [dedupCache EXCEPT ![k] = now]
        /\ alerts' = Append(alerts, e)
    BY <1>1 DEF BuildAlert, Noted
  <2>2. k \in Keys /\ e \in Alert /\ e.key = k /\ e.timestamp = now
    <3>1. todo[r] \in Seq(EventOf)
      BY DEF AlertsTyped
    <3>2. Head(todo[r]) \in EventOf
      BY <2>1, <3>1, HeadTailProperties
    <3> QED
      BY <1>t, <3>2 DEF EventOf, Alert, NewAlert
  <2> HIDE DEF k, e
  <2>3. dedupCache[k] = 0 \/ now - dedupCache[k] >= DedupWindow
    BY <1>t, <2>1, <2>2 DEF Duplicate
  <2>4. /\ Len(alerts') = n /\ n \in Nat
        /\ DOMAIN alerts' = 1 .. n /\ alerts'[n] = e
        /\ \A i \in DOMAIN alerts : alerts'[i] = alerts[i]
    BY <1>t, <2>1, <2>2, AppendProperties
  <2>5. ASSUME NEW i \in DOMAIN alerts'
        PROVE  1 <= alerts'[i].timestamp /\ alerts'[i].timestamp <= dedupCache'[alerts'[i].key]
    <3>1. CASE i = n
      BY <1>t, <2>1, <2>2, <2>4, <3>1
    <3>2. CASE i # n
      <4>1. i \in DOMAIN alerts /\ alerts'[i] = alerts[i]
        BY <1>t, <2>4, <3>2
      <4>2. 1 <= alerts[i].timestamp /\ alerts[i].timestamp <= dedupCache[alerts[i].key]
        BY <4>1 DEF WindowInv
      <4>3. dedupCache[alerts[i].key] <= dedupCache'[alerts[i].key]
        BY <1>t, <1>a, <2>1, <2>2, <4>1
      <4>4. dedupCache'[alerts[i].key] \in Nat
        BY <1>t, <1>a, <2>1, <2>2, <4>1
      <4> QED
        BY <1>t, <1>a, <4>1, <4>2, <4>3, <4>4
    <3> QED
      BY <3>1, <3>2
  <2>6. ASSUME NEW i \in DOMAIN alerts', NEW j \in DOMAIN alerts', i < j,
               alerts'[i].key = alerts'[j].key
        PROVE  alerts'[j].timestamp - alerts'[i].timestamp >= DedupWindow
    <3>1. i \in DOMAIN alerts /\ alerts'[i] = alerts[i]
      BY <1>t, <2>4, <2>6
    <3>2. CASE j = n
      <4>1. alerts[i].key = k /\ alerts'[j].timestamp = now
        BY <2>2, <2>4, <2>6, <3>1, <3>2
      <4>2. 1 <= alerts[i].timestamp /\ alerts[i].timestamp <= dedupCache[k]
        BY <3>1, <4>1 DEF WindowInv
      <4> QED
        BY <1>t, <1>a, <2>2, <2>3, <3>1, <4>1, <4>2
    <3>3. CASE j # n
      <4>1. j \in DOMAIN alerts /\ alerts'[j] = alerts[j]
        BY <1>t, <2>4, <3>3
      <4> QED
        BY <2>6, <3>1, <4>1 DEF WindowInv, OneAlertPerWindow
    <3> QED
      BY <3>2, <3>3
  <2> QED
    BY <2>5, <2>6 DEF WindowInv, OneAlertPerWindow
<1>2. ASSUME Len(alerts') = Len(alerts), now' >= now,
             \/ UNCHANGED dedupCache
             \/ \E k \in Keys : dedupCache' = [dedupCache EXCEPT ![k] = now]
      PROVE  WindowInv'
  <2>1. DOMAIN alerts' = DOMAIN alerts
    BY <1>t, <1>k, <1>2 DEF AlertsTyped
  <2>2. \A i \in DOMAIN alerts :
          alerts'[i].key = alerts[i].key /\ alerts'[i].timestamp = alerts[i].timestamp
    BY <1>k DEF AlertsKept
  <2>3. \A k \in Keys : dedupCache[k] <= dedupCache'[k] /\ dedupCache'[k] \in Nat
    BY <1>t, <1>2
  <2>4. ASSUME NEW i \in DOMAIN alerts
        PROVE  alerts[i].timestamp <= dedupCache'[alerts[i].key]
    <3>1. alerts[i].timestamp <= dedupCache[alerts[i].key]
      BY DEF WindowInv
    <3> QED
      BY <1>t, <1>a, <2>3, <3>1
  <2> QED
    BY <2>1, <2>2, <2>4 DEF WindowInv, OneAlertPerWindow
<1>3. ASSUME NEW r \in Requests, SuppressEvent(r) PROVE WindowInv'
  <2>1. todo[r] \in Seq(EventOf) /\ todo[r] # <<>>
    BY <1>3 DEF AlertsTyped, SuppressEvent
  <2>2. Head(todo[r]).key \in Keys
    <3>1. Head(todo[r]) \in EventOf
      BY <2>1, HeadTailProperties
    <3> QED
      BY <3>1 DEF EventOf
  <2>3. /\ dedupCache' = [dedupCache EXCEPT ![Head(todo[r]).key] = now]
        /\ UNCHANGED <<now, alerts>>
    BY <1>3 DEF SuppressEvent, Noted
  <2>4. /\ Len(alerts') = Len(alerts) /\ now' >= now
        /\ \E k \in Keys : dedupCache' = [dedupCache EXCEPT ![k] = now]
    <3>1. \E k \in Keys : dedupCache' = [dedupCache EXCEPT ![k] = now]
      BY <2>2, <2>3
    <3>2. Len(alerts') = Len(alerts) /\ now' >= now
      BY <1>t, <2>3
    <3> QED
      BY <3>1, <3>2
  <2> QED
    BY <1>2, <2>4
<1>4. ASSUME NEW r \in Requests, StoreAlert(r) PROVE WindowInv'
  <2>1. UNCHANGED <<now, dedupCache>> /\ Len(alerts') = Len(alerts)
    BY <1>t, <1>4 DEF StoreAlert
  <2> QED
    BY <1>t, <1>2, <2>1
<1>5. ASSUME NEW id \in DOMAIN alerts, NEW status, UpdateStatus(id, status) PROVE WindowInv'
  <2>1. UNCHANGED <<now, dedupCache>> /\ Len(alerts') = Len(alerts)
    BY <1>t, <1>5 DEF UpdateStatus
  <2> QED
    BY <1>t, <1>2, <2>1
<1>6. CASE Tick
  BY <1>t, <1>2, <1>6 DEF Tick
<1>7. CASE UNCHANGED <<now, dedupCache, alerts>>
  BY <1>t, <1>2, <1>7
<1> QED
  BY <1>1, <1>3, <1>4, <1>5, <1>6, <1>7
  DEF AlertStep, ReceiveBatch, DropEvent, Returned, alertVars

----------------------------------------------------------------------------
(* The server's connections and the list of the tab.                       *)

\* A status change asked for over a socket, and a message of the server.
Change == [id : DOMAIN alerts, status : {"ACKNOWLEDGED", "RESOLVED"}]
Message == [type : {"alert"}, alert : Row] \cup [type : {"init"}, alerts : Seq(Row)]

ConnectionsTyped ==
  /\ overHttp \in [Requests -> BOOLEAN]
  /\ clients \subseteq Sockets
  /\ toClient \in [Sockets -> Seq(Message)]
  /\ toServer \in [Sockets -> Seq(Change)]
  /\ readyState \in [Sockets -> {"new", "connecting", "open", "closing", "closed"}]
  /\ ws \in Sockets \cup {None}
  /\ wsStatus \in {"disconnected", "connecting", "connected"}
  /\ shown \in Seq(Row)
  /\ removed \subseteq DOMAIN alerts
  /\ source \in Sockets \cup {None}

ServerTyped == AlertsTyped /\ ConnectionsTyped

\* The types grow with the alerts.
LEMMA TypesGrow ==
  ASSUME AlertsTyped, AlertsTyped', AlertsKept
  PROVE  /\ DOMAIN alerts \subseteq DOMAIN alerts'
         /\ Row \subseteq Row' /\ Seq(Row) \subseteq Seq(Row')
         /\ Change \subseteq Change' /\ Seq(Change) \subseteq Seq(Change')
         /\ Message \subseteq Message' /\ Seq(Message) \subseteq Seq(Message')
<1>1. DOMAIN alerts \subseteq DOMAIN alerts'
  BY DEF AlertsTyped, AlertsKept
<1>2. Row \subseteq Row' /\ Change \subseteq Change'
  BY <1>1 DEF Row, Change
<1>3. Seq(Row) \subseteq Seq(Row') /\ Seq(Change) \subseteq Seq(Change')
  BY <1>2, SeqMonotonic
<1>4. Message \subseteq Message'
  BY <1>2, <1>3 DEF Message
<1> QED
  BY <1>1, <1>2, <1>3, <1>4, SeqMonotonic

\* Every step of the server is one of the alert manager, or none to it.
LEMMA ServerIsAlertStep ==
  ASSUME ServerTyped, [Next]_vars
  PROVE  AlertStep
<1>1. ASSUME NEW batch \in Batches, NEW http \in BOOLEAN, Ingest(batch, http)
      PROVE  AlertStep
  BY <1>1 DEF Ingest, AlertStep
<1>2. ASSUME NEW r \in Requests, Proceed(r) PROVE AlertStep
  BY <1>2 DEF Proceed, Work, Reply, AlertStep, Returned
<1>3. ASSUME NEW s \in Sockets, HandleStatus(s) PROVE AlertStep
  <2>1. toServer[s] \in Seq(Change) /\ toServer[s] # <<>>
    BY <1>3 DEF ServerTyped, ConnectionsTyped, HandleStatus
  <2>2. Head(toServer[s]) \in Change
    BY <2>1, HeadTailProperties
  <2>3. /\ Head(toServer[s]).id \in DOMAIN alerts
        /\ Head(toServer[s]).status \in {"ACKNOWLEDGED", "RESOLVED"}
    BY <2>2 DEF Change
  <2> QED
    BY <1>3, <2>3 DEF HandleStatus, AlertStep
<1>4. ASSUME NEW id \in DOMAIN alerts, NEW status \in {"ACKNOWLEDGED", "RESOLVED"},
             PatchAlert(id, status)
      PROVE  AlertStep
  BY <1>4 DEF PatchAlert, AlertStep
<1>5. ASSUME UNCHANGED alertVars PROVE AlertStep
  BY <1>5 DEF AlertStep
<1>6. ASSUME \/ \E id, status : Click(id, status)
             \/ \E s : Accept(s) \/ Open(s) \/ Closed(s) \/ OnMessage(s)
             \/ Connect \/ Disconnect \/ ClearResolved \/ UNCHANGED vars
      PROVE  AlertStep
  BY <1>5, <1>6 DEF Click, Accept, Open, Closed, OnMessage, Connect, Disconnect,
                    ClearResolved, vars
<1>7. CASE Tick
  BY <1>7 DEF AlertStep
<1> QED
  BY <1>1, <1>2, <1>3, <1>4, <1>6, <1>7 DEF Next

\* What the server sends of stored alerts is typed.
LEMMA BroadcastTyped ==
  ASSUME AlertsTyped', toClient \in [Sockets -> Seq(Message')],
         NEW ids \in Seq(Stored')
  PROVE  Broadcast(ids) \in [Sockets -> Seq(Message')]
<1> DEFINE news == [i \in DOMAIN ids |-> AlertMessage(ids[i])]
<1>1. ASSUME NEW i \in DOMAIN ids PROVE AlertMessage(ids[i]) \in Message'
  <2>1. ids[i] \in Stored'
    BY ElementOfSeq
  <2>2. ids[i] \in DOMAIN alerts' /\ alerts'[ids[i]].status # "UNSTORED"
    BY <2>1 DEF Stored
  <2>3. alerts'[ids[i]] \in Alert
    BY <2>2, ElementOfSeq DEF AlertsTyped
  <2>4. alerts'[ids[i]].status \in Operated \cup {"OPEN"}
    BY <2>2, <2>3 DEF Alert
  <2>5. [id |-> ids[i], status |-> alerts'[ids[i]].status] \in Row'
    BY <2>2, <2>4 DEF Row
  <2> QED
    BY <2>5 DEF AlertMessage, Message
<1>2. news \in Seq(Message')
  <2>1. Len(ids) \in Nat /\ DOMAIN ids = 1 .. Len(ids)
    OBVIOUS
  <2>2. news \in [1 .. Len(ids) -> Message']
    BY <1>1, <2>1
  <2> QED
    BY <2>1, <2>2, SeqDef
<1> HIDE DEF news
<1>3. \A s \in Sockets : toClient[s] \o news \in Seq(Message')
  BY <1>2, ConcatProperties
<1>4. Broadcast(ids) = [s \in Sockets |-> IF s \in clients THEN toClient[s] \o news
                                          ELSE toClient[s]]
  BY DEF Broadcast, news
<1> QED
  BY <1>3, <1>4

\* The open alerts, newest first, are rows, one for each of them.
LEMMA OpenAlertsTyped ==
  ASSUME AlertsTyped
  PROVE  /\ Reverse(OpenAlerts) \in Seq(Row)
         /\ OpenIds \subseteq Ids(Reverse(OpenAlerts))
<1> DEFINE row(i) == [id |-> i, status |-> alerts[i].status]
           Rows == {row(i) : i \in DOMAIN alerts}
           n == Len(OpenAlerts)
<1>1. /\ AlertRows \in Seq(Rows) /\ DOMAIN AlertRows = DOMAIN alerts
      /\ \A i \in DOMAIN alerts : AlertRows[i] = row(i)
  <2>1. Len(alerts) \in Nat /\ DOMAIN alerts = 1 .. Len(alerts)
    BY DEF AlertsTyped
  <2>2. AlertRows \in [1 .. Len(alerts) -> Rows]
    BY <2>1 DEF AlertRows
  <2>3. AlertRows \in Seq(Rows)
    BY <2>1, <2>2, SeqDef
  <2> QED
    BY <2>3 DEF AlertRows
<1>2. OpenIds \in SUBSET DOMAIN AlertRows
  BY <1>1 DEF OpenIds
<1> HIDE DEF Rows
<1>3. /\ OpenAlerts \in Seq(Rows) /\ n \in Nat
      /\ \A k \in 1 .. n : \E i \in OpenIds : OpenAlerts[k] = AlertRows[i]
      /\ \A i \in OpenIds : \E k \in 1 .. n : OpenAlerts[k] = AlertRows[i]
  <2>1. /\ OpenAlerts \in Seq(Rows)
        /\ \A k \in 1 .. n : \E i \in OpenIds : OpenAlerts[k] = AlertRows[i]
        /\ \A i \in OpenIds : \E k \in 1 .. n : OpenAlerts[k] = AlertRows[i]
    BY <1>1, <1>2, SubsequenceElements DEF OpenAlerts
  <2> QED
    BY <2>1
<1>4. ASSUME NEW k \in 1 .. n PROVE OpenAlerts[k] \in Row
  <2>1. PICK i \in OpenIds : OpenAlerts[k] = row(i)
    BY <1>1, <1>2, <1>3
  <2> QED
    BY <2>1 DEF OpenIds, Row
<1>5. /\ Reverse(OpenAlerts) = [k \in 1 .. n |-> OpenAlerts[(n - k) + 1]]
      /\ \A k \in 1 .. n : (n - k) + 1 \in 1 .. n /\ (n - ((n - k) + 1)) + 1 = k
  BY <1>3 DEF Reverse
<1>6. Reverse(OpenAlerts) \in Seq(Row) /\ DOMAIN Reverse(OpenAlerts) = 1 .. n
  <2>1. Reverse(OpenAlerts) \in [1 .. n -> Row]
    BY <1>4, <1>5
  <2> QED
    BY <1>3, <2>1, SeqDef
<1>7. ASSUME NEW i \in OpenIds PROVE i \in Ids(Reverse(OpenAlerts))
  <2>1. PICK k \in 1 .. n : OpenAlerts[k] = row(i)
    BY <1>1, <1>2, <1>3
  <2>2. /\ (n - k) + 1 \in DOMAIN Reverse(OpenAlerts)
        /\ Reverse(OpenAlerts)[(n - k) + 1] = OpenAlerts[k]
    BY <1>5, <1>6
  <2>3. Reverse(OpenAlerts)[(n - k) + 1].id = i
    BY <2>1, <2>2
  <2> QED
    BY <2>2, <2>3 DEF Ids
<1> QED
  BY <1>6, <1>7

\* The newest of a list are such a list, and begin as it does.
LEMMA NewestTyped ==
  ASSUME NEW S, NEW list \in Seq(S), list # <<>>
  PROVE  /\ Newest(list) \in Seq(S)
         /\ Len(Newest(list)) # 0 /\ Newest(list)[1] = list[1]
<1> DEFINE m == Min({Len(list), ListLimit})
<1>1. Len(list) \in Nat \ {0} /\ ListLimit \in Nat \ {0}
  BY ServerConstants, EmptySeq
<1>2. m \in {Len(list), ListLimit} /\ m <= Len(list)
  <2>1. \E x \in {Len(list), ListLimit} : \A y \in {Len(list), ListLimit} : x <= y
    BY <1>1
  <2> QED
    BY <1>1, <2>1 DEF Min
<1> HIDE DEF m
<1>3. m \in Nat \ {0}
  BY <1>1, <1>2
<1>4. \A i \in 1 .. m : list[i] \in S
  <2>1. \A i \in 1 .. m : i \in 1 .. Len(list)
    BY <1>1, <1>2, <1>3
  <2> QED
    BY <2>1, ElementOfSeq
<1>5. SubSeq(list, 1, m) = [i \in 1 .. m |-> list[i]]
  BY <1>3
<1>6. SubSeq(list, 1, m) \in [1 .. m -> S]
  BY <1>4, <1>5
<1>7. SubSeq(list, 1, m) \in Seq(S)
  BY <1>3, <1>6, SeqDef
<1>8. Len(SubSeq(list, 1, m)) = m /\ SubSeq(list, 1, m)[1] = list[1]
  BY <1>3, <1>5
<1> QED
  BY <1>3, <1>7, <1>8 DEF Newest, m

\* A new alert comes first in the list, which pushes out no other one unseen.
LEMMA AlertTakenIn ==
  ASSUME shown \in Seq(Row), NEW a \in Row,
         shown' = Newest(<<a>> \o shown),
         removed' = (removed \cup Ids(shown)) \ Ids(shown')
  PROVE  /\ shown' \in Seq(Row)
         /\ a.id \in Ids(shown')
         /\ Ids(shown) \cup removed \subseteq Ids(shown') \cup removed'
         /\ removed' \subseteq Ids(shown) \cup removed
<1>1. <<a>> \in Seq(Row) /\ Len(<<a>>) = 1 /\ <<a>>[1] = a
  OBVIOUS
<1>2. /\ <<a>> \o shown \in Seq(Row) /\ Len(<<a>> \o shown) = 1 + Len(shown)
      /\ (<<a>> \o shown)[1] = a
  BY <1>1, ConcatProperties
<1>3. <<a>> \o shown # <<>>
  BY <1>2, EmptySeq
<1>4. shown' \in Seq(Row) /\ Len(shown') # 0 /\ shown'[1] = a
  BY <1>2, <1>3, NewestTyped
<1>5. 1 \in DOMAIN shown'
  BY <1>4
<1> QED
  BY <1>4, <1>5 DEF Ids

\* The list without the resolved alerts.
LEMMA ListCleared ==
  ASSUME shown \in Seq(Row), ClearResolved
  PROVE  /\ shown' \in Seq(Row)
         /\ Ids(shown) \cup removed \subseteq Ids(shown') \cup removed'
         /\ removed' \subseteq Ids(shown) \cup removed
<1>1. {i \in DOMAIN shown : shown[i].status # "RESOLVED"} \in SUBSET DOMAIN shown
  OBVIOUS
<1>2. shown' \in Seq(Row)
  BY <1>1, SubsequenceElements DEF ClearResolved
<1> QED
  BY <1>2 DEF ClearResolved

\* The list with the status of some of its rows changed.
LEMMA ListClicked ==
  ASSUME shown \in Seq(Row), NEW id \in DOMAIN alerts,
         NEW status \in {"ACKNOWLEDGED", "RESOLVED"}, Click(id, status)
  PROVE  shown' \in Seq(Row) /\ Ids(shown') = Ids(shown)
<1>1. \A i \in DOMAIN shown : shown[i] \in Row
  BY ElementOfSeq
<1>2. shown' = [i \in DOMAIN shown |->
                  IF shown[i].id = id THEN [shown[i] EXCEPT !.status = status] ELSE shown[i]]
  BY DEF Click
<1>3. \A i \in DOMAIN shown : shown'[i] \in Row /\ shown'[i].id = shown[i].id
  BY <1>1, <1>2 DEF Row, Operated
<1>4. DOMAIN shown' = DOMAIN shown
  BY <1>2
<1>5. shown' \in Seq(Row)
  <2>1. DOMAIN shown = 1 .. Len(shown) /\ Len(shown) \in Nat
    OBVIOUS
  <2>2. shown' \in [1 .. Len(shown) -> Row]
    BY <1>2, <1>3, <2>1
  <2> QED
    BY <2>1, <2>2, SeqDef
<1> QED
  BY <1>3, <1>4, <1>5 DEF Ids

\* Every step keeps the server typed.
LEMMA ServerTypedStep ==
  ASSUME ServerTyped, [Next]_vars
  PROVE  ServerTyped' /\ AlertsKept
<1> USE ServerConstants
<1>a. AlertsTyped /\ AlertsTyped' /\ AlertsKept
  BY ServerIsAlertStep, AlertsTypedStep DEF ServerTyped
<1>g. /\ DOMAIN alerts \subseteq DOMAIN alerts'
      /\ Row \subseteq Row' /\ Seq(Row) \subseteq Seq(Row')
      /\ Change \subseteq Change' /\ Seq(Change) \subseteq Seq(Change')
      /\ Message \subseteq Message' /\ Seq(Message) \subseteq Seq(Message')
  BY <1>a, TypesGrow
<1> DEFINE States == {"new", "connecting", "open", "closing", "closed"}
<1>t. /\ overHttp \in [Requests -> BOOLEAN] /\ clients \subseteq Sockets
      /\ toClient \in [Sockets -> Seq(Message)] /\ toServer \in [Sockets -> Seq(Change)]
      /\ readyState \in [Sockets -> States]
      /\ ws \in Sockets \cup {None}
      /\ wsStatus \in {"disconnected", "connecting", "connected"}
      /\ shown \in Seq(Row) /\ removed \subseteq DOMAIN alerts
      /\ source \in Sockets \cup {None}
  BY DEF ServerTyped, ConnectionsTyped
<1>m. /\ toClient \in [Sockets -> Seq(Message')] /\ toServer \in [Sockets -> Seq(Change')]
      /\ shown \in Seq(Row') /\ removed \subseteq DOMAIN alerts'
  BY <1>g, <1>t
<1>i. Ids(shown) \subseteq DOMAIN alerts
  <2>1. \A i \in DOMAIN shown : shown[i] \in Row
    BY <1>t, ElementOfSeq
  <2> QED
    BY <2>1 DEF Ids, Row
<1>1. ASSUME NEW batch \in Batches, NEW http \in BOOLEAN, Ingest(batch, http)
      PROVE  ConnectionsTyped'
  <2>1. overHttp' \in [Requests -> BOOLEAN] /\ UNCHANGED <<clients, toClient, storeVars>>
    BY <1>t, <1>1 DEF Ingest
  <2> QED
    BY <1>t, <1>m, <2>1 DEF ConnectionsTyped, storeVars
<1>2. ASSUME NEW r \in Requests, Work(r) PROVE ConnectionsTyped'
  <2>1. toClient' \in [Sockets -> Seq(Message')]
    <3>1. CASE UNCHANGED toClient
      BY <1>m, <3>1
    <3>2. CASE StoreAlert(r) /\ toClient' = Broadcast(<<building[r]>>)
      <4>1. building[r] \in DOMAIN alerts /\ building[r] # 0
        BY <1>a, <3>2 DEF StoreAlert, AlertsTyped
      <4>2. alerts' = [alerts EXCEPT ![building[r]] = [alerts[building[r]] EXCEPT !.status = "OPEN"]]
        BY <3>2 DEF StoreAlert
      <4>3. alerts[building[r]] \in Alert
        BY <1>a, <4>1, ElementOfSeq DEF AlertsTyped
      <4>4. alerts'[building[r]].status = "OPEN"
        BY <1>a, <4>1, <4>2, <4>3 DEF AlertsTyped, Alert
      <4>5. building[r] \in Stored'
        BY <1>g, <4>1, <4>4 DEF Stored
      <4>6. <<building[r]>> \in Seq(Stored')
        BY <4>5
      <4> QED
        BY <1>a, <1>m, <3>2, <4>6, BroadcastTyped
    <3> QED
      BY <1>2, <3>1, <3>2 DEF Work
  <2>2. UNCHANGED <<overHttp, clients, storeVars>>
    BY <1>2 DEF Work
  <2> QED
    BY <1>t, <1>m, <2>1, <2>2 DEF ConnectionsTyped, storeVars
<1>3. ASSUME NEW r \in Requests, Reply(r) PROVE ConnectionsTyped'
  <2>1. Stored' = Stored
    BY <1>3 DEF Reply, Stored
  <2>2. results[r] \in Seq(Stored')
    BY <1>a, <2>1 DEF AlertsTyped
  <2>3. Broadcast(results[r]) \in [Sockets -> Seq(Message')]
    BY <1>a, <1>m, <2>2, BroadcastTyped
  <2>4. toClient' \in [Sockets -> Seq(Message')]
    BY <1>3, <1>m, <2>3 DEF Reply
  <2>5. /\ overHttp' \in [Requests -> BOOLEAN]
        /\ UNCHANGED <<clients, storeVars>>
    BY <1>3, <1>t DEF Reply
  <2> QED
    BY <1>t, <1>m, <2>4, <2>5 DEF ConnectionsTyped, storeVars
<1>4. ASSUME NEW id \in DOMAIN alerts, NEW status \in {"ACKNOWLEDGED", "RESOLVED"},
             PatchAlert(id, status)
      PROVE  ConnectionsTyped'
  BY <1>4, <1>t, <1>m DEF PatchAlert, ConnectionsTyped, serverVars
<1>5. ASSUME NEW id \in DOMAIN alerts, NEW status \in {"ACKNOWLEDGED", "RESOLVED"},
             Click(id, status)
      PROVE  ConnectionsTyped'
  <2>1. shown' \in Seq(Row) /\ UNCHANGED <<alerts, serverVars, readyState, ws, wsStatus, removed, source>>
    BY <1>5, <1>t, ListClicked DEF Click, alertVars
  <2>2. toServer' \in [Sockets -> Seq(Change)]
    <3>1. CASE ws # None /\ readyState[ws] = "open"
      <4>1. [id |-> id, status |-> status] \in Change
        BY DEF Change
      <4>2. ws \in Sockets /\ toServer[ws] \in Seq(Change)
        BY <1>t, <3>1
      <4>3. Append(toServer[ws], [id |-> id, status |-> status]) \in Seq(Change)
        BY <4>1, <4>2, AppendProperties
      <4>4. toServer' = [toServer EXCEPT ![ws] = Append(@, [id |-> id, status |-> status])]
        BY <1>5, <3>1 DEF Click
      <4> QED
        BY <1>t, <4>2, <4>3, <4>4
    <3>2. CASE ~(ws # None /\ readyState[ws] = "open")
      BY <1>5, <1>t, <3>2 DEF Click
    <3> QED
      BY <3>1, <3>2
  <2>3. shown' \in Seq(Row') /\ toServer' \in [Sockets -> Seq(Change')]
    BY <1>g, <2>1, <2>2
  <2> QED
    BY <1>t, <1>m, <2>1, <2>3 DEF ConnectionsTyped, serverVars
<1>6. ASSUME NEW s \in Sockets, Accept(s) PROVE ConnectionsTyped'
  <2>1. Reverse(OpenAlerts) \in Seq(Row)
    BY <1>a, OpenAlertsTyped
  <2>2. [type |-> "init", alerts |-> Reverse(OpenAlerts)] \in Message
    BY <2>1 DEF Message
  <2>3. <<[type |-> "init", alerts |-> Reverse(OpenAlerts)]>> \in Seq(Message)
    BY <2>2
  <2>4. toClient' \in [Sockets -> Seq(Message)] /\ clients' \subseteq Sockets
    BY <1>6, <1>t, <2>3 DEF Accept
  <2>5. toClient' \in [Sockets -> Seq(Message')]
    BY <1>g, <2>4
  <2> QED
    BY <1>6, <1>t, <1>m, <2>4, <2>5 DEF Accept, ConnectionsTyped, storeVars
<1>7. ASSUME NEW s \in Sockets, HandleStatus(s) PROVE ConnectionsTyped'
  <2>1. Tail(toServer[s]) \in Seq(Change)
    BY <1>7, <1>t, HeadTailProperties DEF HandleStatus
  <2>2. toServer' \in [Sockets -> Seq(Change)]
    BY <1>7, <1>t, <2>1 DEF HandleStatus
  <2>3. toServer' \in [Sockets -> Seq(Change')]
    BY <1>g, <2>2
  <2> QED
    BY <1>7, <1>t, <1>m, <2>3 DEF HandleStatus, ConnectionsTyped, serverVars
<1>8. ASSUME NEW s \in Sockets, Open(s) PROVE ConnectionsTyped'
  BY <1>8, <1>t, <1>m DEF Open, ConnectionsTyped, serverVars
<1>9. ASSUME NEW s \in Sockets, Closed(s) PROVE ConnectionsTyped'
  <2>1. /\ toClient' \in [Sockets -> Seq(Message')]
        /\ toServer' \in [Sockets -> Seq(Change')]
        /\ readyState' \in [Sockets -> States] /\ clients' \subseteq Sockets
    BY <1>9, <1>t, <1>m DEF Closed
  <2> QED
    BY <1>9, <1>t, <1>m, <2>1 DEF Closed, ConnectionsTyped
<1>10. ASSUME NEW s \in Sockets, OnMessage(s) PROVE ConnectionsTyped'
  <2>1. /\ Head(toClient[s]) \in Message /\ Tail(toClient[s]) \in Seq(Message)
    BY <1>10, <1>t, HeadTailProperties DEF OnMessage
  <2>2. toClient' \in [Sockets -> Seq(Message)]
    BY <1>10, <1>t, <2>1 DEF OnMessage
  <2>3. toClient' \in [Sockets -> Seq(Message')]
    BY <1>g, <2>2
  <2>4. shown' \in Seq(Row) /\ removed' \subseteq DOMAIN alerts /\ source' \in Sockets \cup {None}
    <3>1. CASE Head(toClient[s]).type = "init"
      <4>1. Head(toClient[s]).alerts \in Seq(Row)
        BY <2>1, <3>1 DEF Message
      <4> QED
        BY <1>10, <3>1, <4>1 DEF OnMessage
    <3>2. CASE Head(toClient[s]).type = "alert"
      <4>1. Head(toClient[s]).alert \in Row
        BY <2>1, <3>2 DEF Message
      <4>2. /\ shown' = Newest(<<Head(toClient[s]).alert>> \o shown)
            /\ removed' = (removed \cup Ids(shown)) \ Ids(shown')
            /\ source' = source
        BY <1>10, <3>2 DEF OnMessage
      <4>3. shown' \in Seq(Row) /\ removed' \subseteq Ids(shown) \cup removed
        BY <1>t, <4>1, <4>2, AlertTakenIn
      <4> QED
        BY <1>i, <1>t, <4>2, <4>3
    <3> QED
      BY <1>10, <3>1, <3>2 DEF OnMessage
  <2>5. shown' \in Seq(Row') /\ removed' \subseteq DOMAIN alerts'
    BY <1>g, <2>4
  <2> QED
    BY <1>10, <1>t, <1>m, <2>3, <2>4, <2>5 DEF OnMessage, ConnectionsTyped
<1>11. ASSUME Connect PROVE ConnectionsTyped'
  <2> DEFINE s == CHOOSE t \in Sockets : readyState[t] = "new"
  <2>1. s \in Sockets
    BY <1>11 DEF Connect
  <2>2. readyState' \in [Sockets -> States]
    <3> HIDE DEF s
    <3>1. readyState' = [t \in Sockets |->
             IF t = s THEN "connecting"
             ELSE IF t = ws /\ readyState[t] \in {"connecting", "open"} THEN "closing"
             ELSE readyState[t]]
      BY <1>11 DEF Connect, s
    <3> QED
      BY <1>t, <3>1
  <2> QED
    BY <1>11, <1>t, <1>m, <2>1, <2>2 DEF Connect, ConnectionsTyped, serverVars
<1>12. ASSUME Disconnect PROVE ConnectionsTyped'
  BY <1>12, <1>t, <1>m DEF Disconnect, ConnectionsTyped, serverVars
<1>13. ASSUME ClearResolved PROVE ConnectionsTyped'
  <2>1. shown' \in Seq(Row) /\ removed' \subseteq DOMAIN alerts
    BY <1>13, <1>i, <1>t, ListCleared
  <2>2. shown' \in Seq(Row') /\ removed' \subseteq DOMAIN alerts'
    BY <1>g, <2>1
  <2> QED
    BY <1>13, <1>t, <1>m, <2>2 DEF ClearResolved, ConnectionsTyped, serverVars
<1>14. ASSUME UNCHANGED <<serverVars, storeVars>> PROVE ConnectionsTyped'
  BY <1>14, <1>t, <1>m DEF ConnectionsTyped, serverVars, storeVars
<1> QED
  <2>1. ConnectionsTyped'
    BY <1>1, <1>2, <1>3, <1>4, <1>5, <1>6, <1>7, <1>8, <1>9, <1>10, <1>11, <1>12,
       <1>13, <1>14 DEF Next, Proceed, vars
  <2> QED
    BY <1>a, <2>1 DEF ServerTyped

----------------------------------------------------------------------------
(* The list of the tab: an open alert it does not hold is still on its way *)
(* to it.                                                                  *)

\* A message about the alert is on its way over the socket.
Delivers(s, id) ==
  \E i \in DOMAIN toClient[s] :
    toClient[s][i].type = "alert" /\ toClient[s][i].alert.id = id

\* The open alerts are on their way over the socket.
Opening(s) == toClient[s] # <<>> /\ toClient[s][1].type = "init"

\* The list that began with what this socket brought has every open alert, or
\* is going to have it.
Complete(s) ==
  \A id \in OpenIds :
    /\ source = s => (id \in Ids(shown) \cup removed \/ Delivers(s, id))
    /\ Opening(s) => (id \in Ids(toClient[s][1].alerts) \/ Delivers(s, id))

ShownInv ==
  /\ \A s \in Sockets : s \notin clients => toClient[s] = <<>>
  /\ \A s \in Sockets : source = s => readyState[s] \in {"open", "closing", "closed"}
  /\ \A s \in clients : \A i \in DOMAIN toClient[s] :
       toClient[s][i].type = "init" => (i = 1 /\ source # s)
  /\ \A s \in clients : Complete(s)

\* Alerts are opened by StoreAlert() only.
LEMMA OpenedByStore ==
  ASSUME AlertsTyped, AlertStep
  PROVE  OpenIds' \subseteq OpenIds
           \cup {building[r] : r \in {q \in Requests : StoreAlert(q)}}
<1>t. alerts \in Seq(Alert) /\ DOMAIN alerts = 1 .. Len(alerts) /\ Len(alerts) \in Nat
  BY DEF AlertsTyped
<1>1. CASE UNCHANGED alerts
  BY <1>1 DEF OpenIds
<1>2. ASSUME NEW r \in Requests, BuildAlert(r) PROVE OpenIds' \subseteq OpenIds
  <2> DEFINE e == NewAlert(Head(todo[r]))
  <2>1. alerts' = Append(alerts, e) /\ e.status = "UNSTORED"
    BY <1>2 DEF BuildAlert, NewAlert
  <2> HIDE DEF e
  <2>2. /\ DOMAIN alerts' = 1 .. (Len(alerts) + 1) /\ alerts'[Len(alerts) + 1] = e
        /\ \A i \in DOMAIN alerts : alerts'[i] = alerts[i]
    BY <1>t, <2>1
  <2>3. ASSUME NEW i \in OpenIds' PROVE i \in OpenIds
    <3>1. i \in DOMAIN alerts' /\ alerts'[i].status = "OPEN"
      BY <2>3 DEF OpenIds
    <3>2. i # Len(alerts) + 1
      BY <2>1, <2>2, <3>1
    <3>3. i \in DOMAIN alerts
      BY <1>t, <2>2, <3>1, <3>2
    <3> QED
      BY <2>2, <3>1, <3>3 DEF OpenIds
  <2> QED
    BY <2>3
<1>3. ASSUME NEW r \in Requests, StoreAlert(r)
      PROVE  OpenIds' \subseteq OpenIds \cup {building[r]}
  <2>1. alerts' = [alerts EXCEPT ![building[r]].status = "OPEN"]
    BY <1>3 DEF StoreAlert
  <2>2. /\ DOMAIN alerts' = DOMAIN alerts
        /\ \A i \in DOMAIN alerts : i # building[r] => alerts'[i] = alerts[i]
    BY <2>1
  <2> QED
    BY <2>2 DEF OpenIds
<1>4. ASSUME NEW id \in DOMAIN alerts, NEW status \in {"ACKNOWLEDGED", "RESOLVED"},
             UpdateStatus(id, status)
      PROVE  OpenIds' \subseteq OpenIds
  <2>1. alerts[id] \in Alert
    BY <1>t, ElementOfSeq
  <2>2. \/ UNCHANGED alerts
        \/ alerts' = [alerts EXCEPT ![id].status = status]
    BY <1>4 DEF UpdateStatus
  <2>3. CASE alerts' = [alerts EXCEPT ![id].status = status]
    <3>1. /\ DOMAIN alerts' = DOMAIN alerts
          /\ \A i \in DOMAIN alerts : i # id => alerts'[i] = alerts[i]
          /\ alerts'[id].status = status
      BY <2>1, <2>3 DEF Alert
    <3>2. status # "OPEN"
      OBVIOUS
    <3> QED
      BY <3>1, <3>2 DEF OpenIds
  <2> QED
    BY <2>2, <2>3 DEF OpenIds
<1> QED
  BY <1>1, <1>2, <1>3, <1>4
  DEF AlertStep, ReceiveBatch, DropEvent, SuppressEvent, Returned, Tick, alertVars

\* A step that sends nothing, drops nothing and opens nothing.
LEMMA NothingSent ==
  ASSUME ShownInv, UNCHANGED <<clients, toClient, source>>,
         OpenIds' \subseteq OpenIds,
         Ids(shown) \cup removed \subseteq Ids(shown') \cup removed',
         \A s \in Sockets : readyState[s] \in {"open", "closing", "closed"}
                              => readyState'[s] \in {"open", "closing", "closed"}
  PROVE  ShownInv'
<1>1. \A s \in clients' : Complete(s)'
  BY DEF ShownInv, Complete, Opening, Delivers
<1> QED
  BY <1>1 DEF ShownInv

\* A step that broadcasts every alert it opens.
LEMMA AlertsSent ==
  ASSUME ServerTyped, ShownInv, NEW ids \in Seq(Nat), toClient' = Broadcast(ids),
         UNCHANGED <<clients, source, shown, removed, readyState>>,
         OpenIds' \subseteq OpenIds \cup {ids[k] : k \in DOMAIN ids}
  PROVE  ShownInv'
<1> DEFINE news == [k \in DOMAIN ids |-> AlertMessage(ids[k])]
<1>t. toClient \in [Sockets -> Seq(Message)] /\ clients \subseteq Sockets
  BY DEF ServerTyped, ConnectionsTyped
<1>n. /\ DOMAIN news = DOMAIN ids /\ news \in Seq({AlertMessage(ids[k]) : k \in DOMAIN ids})
      /\ \A k \in DOMAIN news : news[k].type = "alert" /\ news[k].alert.id = ids[k]
  <2>1. DOMAIN ids = 1 .. Len(ids) /\ Len(ids) \in Nat
    OBVIOUS
  <2>2. \A k \in DOMAIN news : news[k] = AlertMessage(ids[k])
    OBVIOUS
  <2>3. news \in [1 .. Len(ids) -> {AlertMessage(ids[k]) : k \in DOMAIN ids}]
    BY <2>1, <2>2
  <2> QED
    BY <2>1, <2>2, <2>3, SeqDef DEF AlertMessage
<1>b. /\ \A s \in clients : toClient'[s] = toClient[s] \o news
      /\ \A s \in Sockets : s \notin clients => toClient'[s] = toClient[s]
  BY <1>t DEF Broadcast
<1> HIDE DEF news
<1>c. ASSUME NEW s \in clients
      PROVE  /\ DOMAIN toClient'[s] = 1 .. (Len(toClient[s]) + Len(news))
             /\ Len(toClient[s]) \in Nat /\ Len(news) \in Nat
             /\ DOMAIN toClient[s] = 1 .. Len(toClient[s]) /\ DOMAIN news = 1 .. Len(news)
             /\ \A i \in 1 .. Len(toClient[s]) : toClient'[s][i] = toClient[s][i]
             /\ \A k \in 1 .. Len(news) : toClient'[s][Len(toClient[s]) + k] = news[k]
  <2>1. toClient[s] \in Seq(Message) /\ toClient'[s] = toClient[s] \o news
    BY <1>b, <1>t
  <2>2. /\ Len(toClient'[s]) = Len(toClient[s]) + Len(news)
        /\ Len(toClient[s]) \in Nat /\ Len(news) \in Nat
    BY <1>n, <2>1
  <2> QED
    BY <1>n, <2>1, <2>2
<1>d. ASSUME NEW s \in clients, NEW i \in DOMAIN toClient'[s]
      PROVE  \/ i \in DOMAIN toClient[s] /\ toClient'[s][i] = toClient[s][i]
             \/ toClient'[s][i].type = "alert"
  <2>1. CASE i \in 1 .. Len(toClient[s])
    BY <1>c, <2>1
  <2>2. CASE i \notin 1 .. Len(toClient[s])
    <3>1. /\ i - Len(toClient[s]) \in 1 .. Len(news)
          /\ i = Len(toClient[s]) + (i - Len(toClient[s]))
      BY <1>c, <2>2
    <3>2. toClient'[s][i] = news[i - Len(toClient[s])]
      BY <1>c, <3>1
    <3> QED
      BY <1>c, <1>n, <3>1, <3>2
  <2> QED
    BY <2>1, <2>2
<1>e. ASSUME NEW s \in clients, NEW id, Delivers(s, id) \/ \E k \in DOMAIN ids : id = ids[k]
      PROVE  Delivers(s, id)'
  <2>1. CASE Delivers(s, id)
    <3>1. PICK i \in DOMAIN toClient[s] : toClient[s][i].type = "alert" /\ toClient[s][i].alert.id = id
      BY <2>1 DEF Delivers
    <3>2. i \in 1 .. Len(toClient[s])
      BY <1>c, <3>1
    <3>3. i \in DOMAIN toClient'[s]
      BY <1>c, <3>2
    <3>4. toClient'[s][i] = toClient[s][i]
      BY <1>c, <3>2
    <3> QED
      BY <3>1, <3>3, <3>4 DEF Delivers
  <2>2. CASE \E k \in DOMAIN ids : id = ids[k]
    <3>1. PICK k \in 1 .. Len(news) : news[k].type = "alert" /\ news[k].alert.id = id
      BY <1>c, <1>n, <2>2
    <3>2. /\ Len(toClient[s]) + k \in DOMAIN toClient'[s]
          /\ toClient'[s][Len(toClient[s]) + k] = news[k]
      BY <1>c, <3>1
    <3> QED
      BY <3>1, <3>2 DEF Delivers
  <2> QED
    BY <1>e, <2>1, <2>2
<1>1. ASSUME NEW s \in clients PROVE Complete(s)'
  <2>1. ASSUME NEW id \in OpenIds', source' = s
        PROVE  id \in Ids(shown') \cup removed' \/ Delivers(s, id)'
    <3>1. CASE id \in OpenIds
      BY <1>e, <2>1, <3>1 DEF ShownInv, Complete
    <3>2. CASE \E k \in DOMAIN ids : id = ids[k]
      BY <1>e, <3>2
    <3> QED
      BY <3>1, <3>2
  <2>2. ASSUME NEW id \in OpenIds', Opening(s)'
        PROVE  id \in Ids(toClient'[s][1].alerts) \/ Delivers(s, id)'
    <3>1. CASE id \in OpenIds
      <4>1. toClient'[s] # <<>> /\ toClient'[s][1].type = "init"
        BY <2>2 DEF Opening
      <4>2. 1 \in DOMAIN toClient'[s]
        <5>1. Len(toClient'[s]) # 0 /\ Len(toClient'[s]) \in Nat /\ DOMAIN toClient'[s] = 1 .. Len(toClient'[s])
          <6>1. toClient'[s] = toClient[s] \o news /\ toClient[s] \in Seq(Message)
            BY <1>b, <1>t
          <6> QED
            BY <1>n, <4>1, <6>1
        <5> QED
          BY <5>1
      <4>3. 1 \in DOMAIN toClient[s] /\ toClient'[s][1] = toClient[s][1]
        BY <1>d, <4>1, <4>2
      <4>4. Opening(s)
        BY <1>t, <4>1, <4>3 DEF Opening
      <4> QED
        BY <1>e, <3>1, <4>3, <4>4 DEF ShownInv, Complete
    <3>2. CASE \E k \in DOMAIN ids : id = ids[k]
      BY <1>e, <3>2
    <3> QED
      BY <3>1, <3>2
  <2> QED
    BY <2>1, <2>2 DEF Complete
<1>2. \A s \in clients : \A i \in DOMAIN toClient'[s] :
        toClient'[s][i].type = "init" => (i = 1 /\ source # s)
  BY <1>d DEF ShownInv
<1> QED
  BY <1>1, <1>2, <1>b DEF ShownInv

\* Every step keeps what the tab's list is owed.
LEMMA ShownStep ==
  ASSUME ServerTyped, ShownInv, [Next]_vars
  PROVE  ShownInv'
<1>a. AlertsTyped /\ AlertStep /\ ServerTyped'
  BY ServerIsAlertStep, ServerTypedStep DEF ServerTyped
<1>o. OpenIds' \subseteq OpenIds
        \cup {building[r] : r \in {q \in Requests : StoreAlert(q)}}
  BY <1>a, OpenedByStore
<1>k. UNCHANGED alerts => OpenIds' = OpenIds
  BY DEF OpenIds
<1>t. /\ clients \subseteq Sockets /\ toClient \in [Sockets -> Seq(Message)]
      /\ readyState \in [Sockets -> {"new", "connecting", "open", "closing", "closed"}]
      /\ ws \in Sockets \cup {None} /\ shown \in Seq(Row)
  BY DEF ServerTyped, ConnectionsTyped
<1>u. ASSUME NEW id \in DOMAIN alerts, NEW status \in {"ACKNOWLEDGED", "RESOLVED"},
             UpdateStatus(id, status)
      PROVE  OpenIds' \subseteq OpenIds
  <2>1. UNCHANGED stage
    BY <1>u DEF UpdateStatus, requestVars
  <2>2. \A r \in Requests : ~StoreAlert(r)
    <3>1. ASSUME NEW r \in Requests, StoreAlert(r) PROVE FALSE
      BY <2>1, <3>1, <1>a DEF StoreAlert, AlertsTyped
    <3> QED
      BY <3>1
  <2> QED
    BY <1>o, <2>2
<1>1. ASSUME NEW batch \in Batches, NEW http \in BOOLEAN, Ingest(batch, http) PROVE ShownInv'
  <2>1. UNCHANGED <<alerts, clients, toClient, source, shown, removed, readyState>>
    BY <1>1 DEF Ingest, ReceiveBatch, storeVars
  <2> QED
    BY <1>k, <2>1, NothingSent DEF Ids
<1>2. ASSUME NEW r \in Requests, Work(r) PROVE ShownInv'
  <2>1. UNCHANGED <<clients, source, shown, removed, readyState>>
    BY <1>2 DEF Work, storeVars
  <2>2. CASE (DropEvent(r) \/ SuppressEvent(r) \/ BuildAlert(r)) /\ UNCHANGED toClient
    <3>1. \A q \in Requests : ~StoreAlert(q)
      <4>1. \/ UNCHANGED stage
            \/ stage[r] = "next" /\ stage' = [stage EXCEPT ![r] = "attaching"]
        BY <2>2 DEF DropEvent, SuppressEvent, BuildAlert
      <4>2. stage \in [Requests -> {"idle", "next", "attaching"}]
        BY <1>a DEF AlertsTyped
      <4>3. ASSUME NEW q \in Requests, StoreAlert(q) PROVE FALSE
        <5>1. stage[q] = "attaching" /\ stage'[q] = "next"
          BY <4>2, <4>3 DEF StoreAlert
        <5> QED
          BY <4>1, <4>2, <5>1
      <4> QED
        BY <4>3
    <3>2. OpenIds' \subseteq OpenIds
      BY <1>o, <3>1
    <3> QED
      BY <2>1, <2>2, <3>2, NothingSent DEF Ids
  <2>3. CASE StoreAlert(r) /\ toClient' = Broadcast(<<building[r]>>)
    <3>1. building[r] \in Nat /\ <<building[r]>> \in Seq(Nat)
      BY <1>a DEF AlertsTyped
    <3>2. \A q \in Requests : StoreAlert(q) => q = r
      <4>1. ASSUME NEW q \in Requests, StoreAlert(q), q # r PROVE FALSE
        <5>1. stage'[r] = "next" /\ stage[r] = "attaching"
          BY <1>a, <2>3 DEF StoreAlert, AlertsTyped
        <5>2. stage' = [stage EXCEPT ![q] = "next"]
          BY <4>1 DEF StoreAlert
        <5>3. stage'[r] = stage[r]
          BY <4>1, <5>2, <1>a DEF AlertsTyped
        <5> QED
          BY <5>1, <5>3
      <4> QED
        BY <4>1
    <3>3. OpenIds' \subseteq OpenIds \cup {<<building[r]>>[k] : k \in DOMAIN <<building[r]>>}
      <4>1. OpenIds' \subseteq OpenIds \cup {building[r]}
        BY <1>o, <3>2
      <4>2. 1 \in DOMAIN <<building[r]>> /\ <<building[r]>>[1] = building[r]
        OBVIOUS
      <4> QED
        BY <4>1, <4>2
    <3> QED
      BY <2>1, <2>3, <3>1, <3>3, AlertsSent
  <2> QED
    BY <1>2, <2>2, <2>3 DEF Work
<1>3. ASSUME NEW r \in Requests, Reply(r) PROVE ShownInv'
  <2>1. UNCHANGED <<alerts, clients, source, shown, removed, readyState>>
    BY <1>3 DEF Reply, storeVars
  <2>2. CASE toClient' = toClient
    BY <1>k, <2>1, <2>2, NothingSent DEF Ids
  <2>3. CASE toClient' = Broadcast(results[r])
    <3>1. Stored \subseteq Nat /\ results[r] \in Seq(Stored)
      BY <1>a DEF AlertsTyped, Stored
    <3>2. results[r] \in Seq(Nat)
      BY <3>1, SeqMonotonic
    <3> QED
      BY <1>k, <2>1, <2>3, <3>2, AlertsSent
  <2> QED
    BY <1>3, <2>2, <2>3 DEF Reply
<1>4. ASSUME NEW id \in DOMAIN alerts, NEW status \in {"ACKNOWLEDGED", "RESOLVED"},
             PatchAlert(id, status)
      PROVE  ShownInv'
  <2>1. /\ UNCHANGED <<clients, toClient, source, shown, removed, readyState>>
        /\ OpenIds' \subseteq OpenIds
    BY <1>4, <1>u DEF PatchAlert, serverVars
  <2> QED
    BY <2>1, NothingSent DEF Ids
<1>5. ASSUME NEW id \in DOMAIN alerts, NEW status \in {"ACKNOWLEDGED", "RESOLVED"},
             Click(id, status)
      PROVE  ShownInv'
  <2>1. UNCHANGED <<alerts, clients, toClient, source, removed, readyState>>
    BY <1>5 DEF Click, alertVars, serverVars
  <2>2. Ids(shown') = Ids(shown)
    BY <1>5, <1>t, ListClicked
  <2> QED
    BY <1>k, <2>1, <2>2, NothingSent
<1>6. ASSUME NEW s \in Sockets, Accept(s) PROVE ShownInv'
  <2> DEFINE msg == [type |-> "init", alerts |-> Reverse(OpenAlerts)]
  <2>1. /\ readyState[s] = "connecting" /\ s \notin clients
        /\ toClient' = [toClient EXCEPT ![s] = <<msg>>]
        /\ clients' = clients \cup {s}
        /\ UNCHANGED <<alerts, source, shown, removed, readyState>>
    BY <1>6 DEF Accept, alertVars, storeVars
  <2>2. OpenIds \subseteq Ids(msg.alerts) /\ msg.type = "init"
    BY <1>a, OpenAlertsTyped
  <2> HIDE DEF msg
  <2>3. source # s
    BY <2>1 DEF ShownInv
  <2>4. toClient'[s] = <<msg>> /\ \A q \in Sockets : q # s => toClient'[q] = toClient[q]
    BY <1>t, <2>1
  <2>5. OpenIds' = OpenIds
    BY <1>k, <2>1
  <2>6. ASSUME NEW q \in clients' PROVE Complete(q)'
    <3>1. CASE q = s
      BY <2>1, <2>2, <2>3, <2>4, <2>5, <3>1 DEF Complete
    <3>2. CASE q # s
      <4>1. q \in clients /\ toClient'[q] = toClient[q]
        BY <1>t, <2>1, <2>4, <3>2
      <4>2. Complete(q)
        BY <4>1 DEF ShownInv
      <4> QED
        BY <2>1, <2>5, <4>1, <4>2 DEF Complete, Opening, Delivers
    <3> QED
      BY <3>1, <3>2
  <2>7. ASSUME NEW q \in clients', NEW i \in DOMAIN toClient'[q], toClient'[q][i].type = "init"
        PROVE  i = 1 /\ source' # q
    <3>1. CASE q = s
      BY <2>1, <2>3, <2>4, <2>7, <3>1
    <3>2. CASE q # s
      <4>1. q \in clients /\ toClient'[q] = toClient[q]
        BY <1>t, <2>1, <2>4, <3>2
      <4> QED
        BY <2>1, <2>7, <4>1 DEF ShownInv
    <3> QED
      BY <3>1, <3>2
  <2>8. \A q \in Sockets : q \notin clients' => toClient'[q] = <<>>
    BY <2>1, <2>4 DEF ShownInv
  <2> QED
    BY <2>1, <2>6, <2>7, <2>8 DEF ShownInv
<1>7. ASSUME NEW s \in Sockets, HandleStatus(s) PROVE ShownInv'
  <2>1. toServer[s] \in Seq(Change) /\ toServer[s] # <<>>
    BY <1>7 DEF ServerTyped, ConnectionsTyped, HandleStatus
  <2>2. Head(toServer[s]) \in Change
    BY <2>1, HeadTailProperties
  <2>3. /\ Head(toServer[s]).id \in DOMAIN alerts
        /\ Head(toServer[s]).status \in {"ACKNOWLEDGED", "RESOLVED"}
    BY <2>2 DEF Change
  <2>4. /\ UNCHANGED <<clients, toClient, source, shown, removed, readyState>>
        /\ OpenIds' \subseteq OpenIds
    BY <1>7, <1>u, <2>3 DEF HandleStatus, serverVars
  <2> QED
    BY <2>4, NothingSent DEF Ids
<1>8. ASSUME NEW s \in Sockets, Open(s) PROVE ShownInv'
  <2>1. /\ UNCHANGED <<alerts, clients, toClient, source, shown, removed>>
        /\ readyState' = [readyState EXCEPT ![s] = "open"]
    BY <1>8 DEF Open, alertVars, serverVars
  <2>2. \A q \in Sockets : readyState[q] \in {"open", "closing", "closed"}
                            => readyState'[q] \in {"open", "closing", "closed"}
    BY <1>t, <2>1
  <2> QED
    BY <1>k, <2>1, <2>2, NothingSent DEF Ids
<1>9. ASSUME NEW s \in Sockets, Closed(s) PROVE ShownInv'
  <2>1. /\ UNCHANGED <<alerts, source, shown, removed>>
        /\ clients' = clients \ {s}
        /\ toClient' = [toClient EXCEPT ![s] = <<>>]
        /\ readyState' = [readyState EXCEPT ![s] = "closed"]
    BY <1>9 DEF Closed, alertVars
  <2>2. /\ toClient'[s] = <<>>
        /\ \A q \in Sockets : q # s => toClient'[q] = toClient[q]
    BY <1>t, <2>1
  <2>3. OpenIds' = OpenIds
    BY <1>k, <2>1
  <2>4. ASSUME NEW q \in clients'
        PROVE  q \in clients /\ q \in Sockets /\ toClient'[q] = toClient[q]
    BY <1>t, <2>1, <2>2
  <2>5. ASSUME NEW q \in clients' PROVE Complete(q)'
    <3>1. Complete(q)
      BY <2>4 DEF ShownInv
    <3> QED
      BY <2>1, <2>3, <2>4, <3>1 DEF Complete, Opening, Delivers
  <2>6. \A q \in Sockets : source' = q => readyState'[q] \in {"open", "closing", "closed"}
    BY <1>t, <2>1 DEF ShownInv
  <2>7. \A q \in Sockets : q \notin clients' => toClient'[q] = <<>>
    BY <2>1, <2>2 DEF ShownInv
  <2>8. \A q \in clients' : \A i \in DOMAIN toClient'[q] :
          toClient'[q][i].type = "init" => (i = 1 /\ source' # q)
    BY <2>1, <2>4 DEF ShownInv
  <2> QED
    BY <2>5, <2>6, <2>7, <2>8 DEF ShownInv
<1>10. ASSUME NEW s \in Sockets, OnMessage(s) PROVE ShownInv'
  <2> DEFINE msg == Head(toClient[s])
             n == Len(toClient[s])
  <2>1. /\ readyState[s] = "open" /\ toClient[s] # <<>>
        /\ toClient' = [toClient EXCEPT ![s] = Tail(@)]
        /\ UNCHANGED <<alerts, clients, readyState>>
    BY <1>10 DEF OnMessage, alertVars
  <2>2. s \in clients
    BY <2>1 DEF ShownInv
  <2>3. /\ toClient[s] \in Seq(Message) /\ msg = toClient[s][1]
        /\ msg \in Message /\ n \in Nat \ {0} /\ DOMAIN toClient[s] = 1 .. n
        /\ DOMAIN Tail(toClient[s]) = 1 .. (n - 1)
        /\ \A i \in 1 .. (n - 1) : Tail(toClient[s])[i] = toClient[s][i + 1]
    <3>1. toClient[s] \in Seq(Message) /\ toClient[s] # <<>>
      BY <1>t, <2>1
    <3>2. n \in Nat \ {0} /\ DOMAIN toClient[s] = 1 .. n
      BY <3>1, EmptySeq
    <3>3. msg \in Message /\ msg = toClient[s][1]
      BY <3>1, HeadTailProperties
    <3>4. /\ DOMAIN Tail(toClient[s]) = 1 .. (n - 1)
          /\ \A i \in 1 .. (n - 1) : Tail(toClient[s])[i] = toClient[s][i + 1]
      BY <3>1, <3>2
    <3> QED
      BY <3>1, <3>2, <3>3, <3>4
  <2>4. /\ toClient'[s] = Tail(toClient[s])
        /\ \A q \in Sockets : q # s => toClient'[q] = toClient[q]
    BY <1>t, <2>1
  <2>5. OpenIds' = OpenIds
    BY <1>k, <2>1
  <2>6. ASSUME NEW i \in DOMAIN toClient'[s] PROVE toClient'[s][i].type # "init"
    <3>1. i + 1 \in 1 .. n /\ i + 1 # 1 /\ toClient'[s][i] = toClient[s][i + 1]
      BY <2>3, <2>4
    <3> QED
      BY <2>2, <2>3, <3>1 DEF ShownInv
  <2>7. ~Opening(s)'
    <3>1. ASSUME Opening(s)' PROVE FALSE
      <4>1. toClient'[s] # <<>> /\ toClient'[s] \in Seq(Message)'
        BY <1>a, <3>1 DEF Opening, ServerTyped, ConnectionsTyped
      <4>2. Len(toClient'[s]) # 0 /\ Len(toClient'[s]) \in Nat
            /\ DOMAIN toClient'[s] = 1 .. Len(toClient'[s])
        BY <4>1, EmptySeq
      <4>3. 1 \in DOMAIN toClient'[s]
        BY <4>2
      <4> QED
        BY <2>6, <3>1, <4>3 DEF Opening
    <3> QED
      BY <3>1
  <2>8. ASSUME NEW id, Delivers(s, id)
        PROVE  Delivers(s, id)' \/ (msg.type = "alert" /\ msg.alert.id = id)
    <3>1. PICK i \in 1 .. n : toClient[s][i].type = "alert" /\ toClient[s][i].alert.id = id
      BY <2>3, <2>8 DEF Delivers
    <3>2. CASE i = 1
      BY <2>3, <3>1, <3>2
    <3>3. CASE i # 1
      <4>1. /\ i - 1 \in 1 .. (n - 1) /\ (i - 1) + 1 = i
        BY <2>3, <3>3
      <4>2. i - 1 \in DOMAIN toClient'[s] /\ toClient'[s][i - 1] = toClient[s][i]
        BY <2>3, <2>4, <4>1
      <4> QED
        BY <3>1, <4>2 DEF Delivers
    <3> QED
      BY <3>2, <3>3
  <2>9. CASE msg.type = "init"
    <3>1. shown' = msg.alerts /\ removed' = {} /\ source' = s
      BY <1>10, <2>9 DEF OnMessage
    <3>2. Opening(s) /\ Complete(s)
      BY <2>1, <2>2, <2>3, <2>9 DEF Opening, ShownInv
    <3>3. Complete(s)'
      <4>1. ASSUME NEW id \in OpenIds
            PROVE  id \in Ids(shown') \/ Delivers(s, id)'
        BY <2>3, <2>8, <2>9, <3>1, <3>2 DEF Complete
      <4> QED
        BY <2>5, <2>7, <4>1 DEF Complete
    <3>4. ASSUME NEW q \in clients, q # s PROVE Complete(q)'
      <4>1. Complete(q) /\ toClient'[q] = toClient[q]
        BY <1>t, <2>4, <3>4 DEF ShownInv
      <4> QED
        BY <2>5, <3>1, <3>4, <4>1 DEF Complete, Opening, Delivers
    <3>5. \A q \in clients' : \A i \in DOMAIN toClient'[q] :
            toClient'[q][i].type = "init" => (i = 1 /\ source' # q)
      BY <1>t, <2>1, <2>4, <2>6, <3>1 DEF ShownInv
    <3>6. \A q \in Sockets : q \notin clients' => toClient'[q] = <<>>
      BY <2>1, <2>2, <2>4 DEF ShownInv
    <3>7. \A q \in Sockets : source' = q => readyState'[q] \in {"open", "closing", "closed"}
      BY <2>1, <3>1
    <3>8. \A q \in clients' : Complete(q)'
      BY <2>1, <3>3, <3>4
    <3> QED
      BY <3>5, <3>6, <3>7, <3>8 DEF ShownInv
  <2>10. CASE msg.type = "alert"
    <3>1. /\ shown' = Newest(<<msg.alert>> \o shown)
          /\ removed' = (removed \cup Ids(shown)) \ Ids(shown')
          /\ source' = source
      BY <1>10, <2>10 DEF OnMessage
    <3>2. msg.alert \in Row
      BY <2>3, <2>10 DEF Message
    <3>3. /\ msg.alert.id \in Ids(shown')
          /\ Ids(shown) \cup removed \subseteq Ids(shown') \cup removed'
      BY <1>t, <3>1, <3>2, AlertTakenIn
    <3>4. Complete(s)'
      <4>1. Complete(s)
        BY <2>2 DEF ShownInv
      <4> QED
        BY <2>5, <2>7, <2>8, <3>1, <3>3, <4>1 DEF Complete
    <3>5. ASSUME NEW q \in clients, q # s PROVE Complete(q)'
      <4>1. Complete(q) /\ toClient'[q] = toClient[q]
        BY <1>t, <2>4, <3>5 DEF ShownInv
      <4> QED
        BY <2>5, <3>1, <3>3, <4>1 DEF Complete, Opening, Delivers
    <3>6. \A q \in clients' : \A i \in DOMAIN toClient'[q] :
            toClient'[q][i].type = "init" => (i = 1 /\ source' # q)
      BY <1>t, <2>1, <2>4, <2>6, <3>1 DEF ShownInv
    <3>7. \A q \in Sockets : q \notin clients' => toClient'[q] = <<>>
      BY <2>1, <2>2, <2>4 DEF ShownInv
    <3>8. \A q \in clients' : Complete(q)'
      BY <2>1, <3>4, <3>5
    <3> QED
      BY <2>1, <3>1, <3>6, <3>7, <3>8 DEF ShownInv
  <2> QED
    BY <1>10, <2>9, <2>10 DEF OnMessage
<1>11. ASSUME Connect PROVE ShownInv'
  <2> DEFINE s == CHOOSE t \in Sockets : readyState[t] = "new"
  <2>1. s \in Sockets /\ readyState[s] = "new"
    BY <1>11 DEF Connect
  <2>2. readyState' = [t \in Sockets |->
             IF t = s THEN "connecting"
             ELSE IF t = ws /\ readyState[t] \in {"connecting", "open"} THEN "closing"
             ELSE readyState[t]]
    BY <1>11 DEF Connect
  <2> HIDE DEF s
  <2>3. \A q \in Sockets : readyState[q] \in {"open", "closing", "closed"}
                            => readyState'[q] \in {"open", "closing", "closed"}
    BY <2>1, <2>2
  <2>4. UNCHANGED <<alerts, clients, toClient, source, shown, removed>>
    BY <1>11 DEF Connect, alertVars, serverVars
  <2> QED
    BY <1>k, <2>3, <2>4, NothingSent DEF Ids
<1>12. ASSUME Disconnect PROVE ShownInv'
  <2>1. /\ UNCHANGED <<alerts, clients, toClient, source, shown, removed>>
        /\ \/ readyState' = readyState
           \/ readyState' = [readyState EXCEPT ![ws] = "closing"]
    BY <1>12 DEF Disconnect, alertVars, serverVars
  <2>2. \A q \in Sockets : readyState[q] \in {"open", "closing", "closed"}
                            => readyState'[q] \in {"open", "closing", "closed"}
    BY <1>t, <2>1
  <2> QED
    BY <1>k, <2>1, <2>2, NothingSent DEF Ids
<1>13. ASSUME ClearResolved PROVE ShownInv'
  <2>1. UNCHANGED <<alerts, clients, toClient, source, readyState>>
    BY <1>13 DEF ClearResolved, alertVars, serverVars
  <2>2. Ids(shown) \cup removed \subseteq Ids(shown') \cup removed'
    BY <1>13, <1>t, ListCleared
  <2> QED
    BY <1>k, <2>1, <2>2, NothingSent
<1>14. ASSUME UNCHANGED <<alerts, serverVars, storeVars>> PROVE ShownInv'
  BY <1>14, <1>k, NothingSent DEF serverVars, storeVars, Ids
<1>15. Tick => UNCHANGED alerts
  BY DEF Tick
<1>16. UNCHANGED vars => UNCHANGED <<alerts, serverVars, storeVars>>
  BY DEF vars, alertVars
<1> QED
  BY <1>1, <1>2, <1>3, <1>4, <1>5, <1>6, <1>7, <1>8, <1>9, <1>10, <1>11, <1>12,
     <1>13, <1>14, <1>15, <1>16 DEF Next, Proceed

----------------------------------------------------------------------------
(* No event is lost: what the dedup cache knows of has its alert.          *)

\* There is an alert of the key, stored or with a request that attaches its proofs.
Alerted(k) ==
  \E i \in DOMAIN alerts :
    /\ alerts[i].key = k
    /\ \/ alerts[i].status # "UNSTORED"
       \/ \E r \in Requests : stage[r] = "attaching" /\ building[r] = i

\* A key in the cache has an alert; and only a request that is under way has events.
NotedInv ==
  /\ \A k \in Keys : dedupCache[k] # 0 => \E i \in DOMAIN alerts : alerts[i].key = k
  /\ \A r \in Requests : todo[r] # <<>> => stage[r] # "idle"

\* An alert there is, is stored or being built.
LEMMA AlertsAlerted ==
  ASSUME AlertsTyped, NEW k \in Keys, \E i \in DOMAIN alerts : alerts[i].key = k
  PROVE  Alerted(k)
<1>1. PICK i \in DOMAIN alerts : alerts[i].key = k
  OBVIOUS
<1>2. CASE alerts[i].status = "UNSTORED"
  <2>1. PICK r \in Requests : building[r] = i
    BY <1>2 DEF AlertsTyped
  <2>2. i # 0
    BY DEF AlertsTyped
  <2>3. stage[r] = "attaching"
    BY <2>1, <2>2 DEF AlertsTyped
  <2> QED
    BY <1>1, <2>1, <2>3 DEF Alerted
<1> QED
  BY <1>1, <1>2 DEF Alerted

\* A step that notes no new key and takes up no event keeps both.
LEMMA NotedKept ==
  ASSUME AlertsTyped, NotedInv, AlertsKept,
         \A k \in Keys : dedupCache'[k] # 0 => dedupCache[k] # 0,
         \A r \in Requests : todo'[r] # <<>> => stage'[r] # "idle",
         alerts' \in Seq(Alert)
  PROVE  NotedInv'
<1>1. DOMAIN alerts \subseteq DOMAIN alerts'
  BY DEF AlertsTyped, AlertsKept
<1> QED
  BY <1>1 DEF NotedInv, AlertsKept

\* The event a request goes on to is one of the events it can carry.
LEMMA NextEvent ==
  ASSUME AlertsTyped, NEW r \in Requests, todo[r] # <<>>
  PROVE  Head(todo[r]).key \in Keys
<1>1. todo[r] \in Seq(EventOf)
  BY DEF AlertsTyped
<1>2. Head(todo[r]) \in EventOf
  BY <1>1, HeadTailProperties
<1> QED
  BY <1>2 DEF EventOf

\* An alert that is built is of the event's key, and notes that key and no other.
LEMMA BuildNotes ==
  ASSUME AlertsTyped, NotedInv, NEW r \in Requests, BuildAlert(r)
  PROVE  NotedInv' /\ \E i \in DOMAIN alerts' : alerts'[i].key = Head(todo[r]).key
<1> DEFINE k == Head(todo[r]).key
           e == NewAlert(Head(todo[r]))
<1>1. /\ alerts' = Append(alerts, e) /\ e.key = k /\ k \in Keys
      /\ dedupCache' = [dedupCache EXCEPT ![k] = now]
      /\ alerts \in Seq(Alert)
  BY NextEvent DEF BuildAlert, Noted, NewAlert, AlertsTyped
<1>2. e \in Alert
  <2>1. todo[r] # <<>> /\ todo[r] \in Seq(EventOf)
    BY DEF BuildAlert, AlertsTyped
  <2>2. Head(todo[r]) \in EventOf
    BY <2>1, HeadTailProperties
  <2>3. now \in Nat
    BY AlertConstants DEF AlertsTyped
  <2> QED
    BY <2>2, <2>3 DEF NewAlert, EventOf, Alert
<1> HIDE DEF k, e
<1>3. /\ Len(alerts) + 1 \in DOMAIN alerts' /\ alerts'[Len(alerts) + 1].key = k
      /\ \A i \in DOMAIN alerts : i \in DOMAIN alerts' /\ alerts'[i].key = alerts[i].key
  BY <1>1, <1>2, AppendProperties
<1>4. \A x \in Keys : dedupCache'[x] # 0 => x = k \/ dedupCache[x] # 0
  BY <1>1 DEF AlertsTyped
<1>5. \A x \in Keys : dedupCache'[x] # 0 => \E i \in DOMAIN alerts' : alerts'[i].key = x
  BY <1>3, <1>4 DEF NotedInv
<1>6. \A q \in Requests : todo'[q] # <<>> => stage'[q] # "idle"
  BY DEF BuildAlert, AlertsTyped, NotedInv
<1> QED
  BY <1>3, <1>5, <1>6 DEF NotedInv, k

\* Every step of the alert manager keeps the keys alerted.
LEMMA NotedStep ==
  ASSUME AlertsTyped, NotedInv, AlertStep
  PROVE  NotedInv'
<1>k. AlertsTyped' /\ AlertsKept /\ alerts' \in Seq(Alert)
  BY AlertsTypedStep DEF AlertsTyped
<1>1. ASSUME NEW r \in Requests, BuildAlert(r) PROVE NotedInv'
  BY <1>1, BuildNotes
<1>2. ASSUME NEW r \in Requests, SuppressEvent(r) PROVE NotedInv'
  <2>1. /\ todo[r] # <<>> /\ dedupCache[Head(todo[r]).key] # 0
        /\ dedupCache' = [dedupCache EXCEPT ![Head(todo[r]).key] = now]
    BY <1>2 DEF SuppressEvent, Duplicate, Noted
  <2>2. \A k \in Keys : dedupCache'[k] # 0 => dedupCache[k] # 0
    BY <2>1 DEF AlertsTyped
  <2>3. \A q \in Requests : todo'[q] # <<>> => stage'[q] # "idle"
    BY <1>2 DEF SuppressEvent, NotedInv, AlertsTyped
  <2> QED
    BY <1>k, <2>2, <2>3, NotedKept
<1>3. ASSUME UNCHANGED dedupCache,
             \A r \in Requests : todo'[r] # <<>> => stage'[r] # "idle"
      PROVE  NotedInv'
  BY <1>k, <1>3, NotedKept
<1>4. ASSUME NEW r \in Requests, DropEvent(r) \/ StoreAlert(r) \/ Returned(r)
      PROVE  NotedInv'
  <2>1. UNCHANGED dedupCache
    BY <1>4 DEF DropEvent, StoreAlert, Returned
  <2>2. \A q \in Requests : todo'[q] # <<>> => stage'[q] # "idle"
    BY <1>4 DEF DropEvent, StoreAlert, Returned, NotedInv, AlertsTyped
  <2> QED
    BY <1>3, <2>1, <2>2
<1>5. ASSUME NEW r \in Requests, NEW batch \in Batches, ReceiveBatch(r, batch)
      PROVE  NotedInv'
  <2>1. UNCHANGED dedupCache
    BY <1>5 DEF ReceiveBatch
  <2>2. \A q \in Requests : todo'[q] # <<>> => stage'[q] # "idle"
    BY <1>5 DEF ReceiveBatch, NotedInv, AlertsTyped
  <2> QED
    BY <1>3, <2>1, <2>2
<1>6. ASSUME UNCHANGED <<dedupCache, requestVars>> PROVE NotedInv'
  BY <1>3, <1>6 DEF requestVars, NotedInv
<1> QED
  BY <1>1, <1>2, <1>4, <1>5, <1>6 DEF AlertStep, UpdateStatus, Tick, alertVars

\* An event that meets the threshold is taken up only with an alert of its key there.
LEMMA TakenUp ==
  ASSUME AlertsTyped, NotedInv, AlertStep, NEW r \in Requests, NEW k \in Keys,
         todo[r] # <<>>, todo'[r] # todo[r],
         MeetsThreshold(Head(todo[r])), Head(todo[r]).key = k
  PROVE  todo'[r] = Tail(todo[r]) /\ Alerted(k)'
<1>k. AlertsTyped' /\ AlertsKept
  BY AlertsTypedStep
<1>1. \/ DropEvent(r) \/ SuppressEvent(r) \/ BuildAlert(r)
  <2>1. stage[r] # "idle"
    BY DEF NotedInv
  <2>2. ASSUME NEW q \in Requests, NEW batch \in Batches, ReceiveBatch(q, batch) PROVE FALSE
    BY <2>1, <2>2 DEF ReceiveBatch, AlertsTyped
  <2>3. ASSUME NEW q \in Requests, DropEvent(q) \/ SuppressEvent(q) \/ BuildAlert(q)
        PROVE  q = r
    BY <2>3 DEF DropEvent, SuppressEvent, BuildAlert, AlertsTyped
  <2> QED
    BY <2>2, <2>3 DEF AlertStep, StoreAlert, Returned, UpdateStatus, Tick, alertVars, requestVars
<1>2. ~DropEvent(r)
  BY DEF DropEvent
<1>3. todo'[r] = Tail(todo[r])
  BY <1>1, <1>2 DEF SuppressEvent, BuildAlert, AlertsTyped
<1>4. \E i \in DOMAIN alerts' : alerts'[i].key = k
  <2>1. CASE BuildAlert(r)
    BY <2>1, BuildNotes
  <2>2. CASE SuppressEvent(r)
    <3>1. dedupCache[k] # 0 /\ alerts' = alerts
      BY <2>2 DEF SuppressEvent, Duplicate
    <3> QED
      BY <3>1 DEF NotedInv
  <2> QED
    BY <1>1, <1>2, <2>1, <2>2
<1>5. Alerted(k)'
  <2>1. PICK i \in DOMAIN alerts' : alerts'[i].key = k
    BY <1>4
  <2>2. CASE alerts'[i].status = "UNSTORED"
    <3>1. PICK q \in Requests : building'[q] = i
      BY <1>k, <2>2 DEF AlertsTyped
    <3>2. i # 0
      <4>1. alerts' \in Seq(Alert)
        BY <1>k DEF AlertsTyped
      <4> QED
        BY <4>1
    <3>3. stage'[q] = "attaching"
      BY <1>k, <3>1, <3>2 DEF AlertsTyped
    <3> QED
      BY <2>1, <3>1, <3>3 DEF Alerted
  <2> QED
    BY <2>1, <2>2 DEF Alerted
<1> QED
  BY <1>3, <1>5

----------------------------------------------------------------------------
(* The theorems.                                                           *)

ServerInv == ServerTyped /\ WindowInv /\ ShownInv

LEMMA ServerInvariant == Spec => []ServerInv
<1>1. Init => ServerInv
  <2> SUFFICES ASSUME Init PROVE ServerInv
    OBVIOUS
  <2>1. AlertInit
    BY DEF Init
  <2>2. AlertsTyped
    BY <2>1, AlertsTypedInit
  <2>3. /\ clients = {} /\ toClient = [s \in Sockets |-> <<>>]
        /\ toServer = [s \in Sockets |-> <<>>] /\ shown = <<>> /\ source = None
        /\ alerts = <<>>
    BY <2>1 DEF Init, AlertInit
  <2>4. ConnectionsTyped
    BY <2>3 DEF Init, ConnectionsTyped
  <2>5. WindowInv
    BY <2>3 DEF WindowInv, OneAlertPerWindow
  <2>6. ShownInv
    BY <2>3, ServerConstants DEF ShownInv
  <2> QED
    BY <2>2, <2>4, <2>5, <2>6 DEF ServerInv, ServerTyped
<1>2. ServerInv /\ [Next]_vars => ServerInv'
  BY ServerTypedStep, ServerIsAlertStep, WindowStep, ShownStep
  DEF ServerInv, ServerTyped
<1> QED
  BY <1>1, <1>2, PTL DEF Spec

\* The server, its connections and the browser's list have their types: every
\* message, row and id on the way between them is of an alert that was stored.
THEOREM ServerTypeCorrect == Spec => []ServerTypeOK
<1>1. ServerTyped => ServerTypeOK
  <2> SUFFICES ASSUME ServerTyped PROVE ServerTypeOK
    OBVIOUS
  <2>1. AlertTypeOK
    <3>1. Stored \subseteq DOMAIN alerts
      BY DEF Stored
    <3>2. Seq(Stored) \subseteq Seq(DOMAIN alerts)
      BY <3>1, SeqMonotonic
    <3> QED
      BY <3>2 DEF ServerTyped, AlertsTyped, AlertTypeOK, EventOf
  <2>2. Change \subseteq Row
    BY DEF Change, Row, Operated
  <2>3. Seq(Change) \subseteq Seq(Row)
    BY <2>2, SeqMonotonic
  <2>4. ASSUME NEW s \in Sockets, NEW i \in DOMAIN toClient[s]
        PROVE  \/ toClient[s][i].type = "alert" /\ toClient[s][i].alert \in Row
               \/ toClient[s][i].type = "init" /\ toClient[s][i].alerts \in Seq(Row)
    <3>1. toClient[s] \in Seq(Message)
      BY DEF ServerTyped, ConnectionsTyped
    <3>2. toClient[s][i] \in Message
      BY <3>1, ElementOfSeq
    <3> QED
      BY <3>2 DEF Message
  <2> QED
    BY <2>1, <2>3, <2>4 DEF ServerTyped, ConnectionsTyped, ServerTypeOK
<1> QED
  BY <1>1, ServerInvariant, PTL DEF ServerInv

\* Two alerts of one key are a window apart, however the requests interleave.
THEOREM AlertsApart == Spec => []OneAlertPerWindow
BY ServerInvariant, PTL DEF ServerInv, WindowInv

\* A list that began with the open alerts of a connection misses no open alert
\* once it has taken in all that connection was sent, for any number of sockets.
THEOREM OpenAlertsArrive == Spec => []OpenAlertsShown
<1>1. ShownInv => OpenAlertsShown
  BY DEF ShownInv, OpenAlertsShown, Complete, Delivers
<1> QED
  BY <1>1, ServerInvariant, PTL DEF ServerInv

LEMMA NotedInvariant == Spec => []NotedInv
<1>1. Init => NotedInv
  BY DEF Init, AlertInit, NotedInv
<1>2. ServerInv /\ NotedInv /\ [Next]_vars => NotedInv'
  BY ServerIsAlertStep, NotedStep DEF ServerInv, ServerTyped
<1> QED
  BY <1>1, <1>2, ServerInvariant, PTL DEF Spec

\* A key the cache suppresses has an alert, stored or with a request that will store it
\* when its uploads are over: no event is a duplicate of an alert nobody builds.
THEOREM SuppressedIsAlerted ==
  Spec => [](\A k \in Keys : dedupCache[k] # 0 => Alerted(k))
<1>1. ServerInv /\ NotedInv => \A k \in Keys : dedupCache[k] # 0 => Alerted(k)
  BY AlertsAlerted DEF ServerInv, ServerTyped, NotedInv
<1> QED
  BY <1>1, ServerInvariant, NotedInvariant, PTL

\* A request leaves an event at the threshold behind only when there is an alert of its
\* key, its own or the one it is a duplicate of, and loses none to another batch.
THEOREM NoEventLost ==
  Spec => [][\A r \in Requests, k \in Keys :
               (/\ todo[r] # <<>> /\ todo'[r] # todo[r]
                /\ MeetsThreshold(Head(todo[r])) /\ Head(todo[r]).key = k)
                 => todo'[r] = Tail(todo[r]) /\ Alerted(k)']_vars
<1>1. ServerInv /\ NotedInv /\ [Next]_vars =>
        \A r \in Requests, k \in Keys :
          (/\ todo[r] # <<>> /\ todo'[r] # todo[r]
           /\ MeetsThreshold(Head(todo[r])) /\ Head(todo[r]).key = k)
            => todo'[r] = Tail(todo[r]) /\ Alerted(k)'
  BY ServerIsAlertStep, TakenUp DEF ServerInv, ServerTyped
<1> QED
  BY <1>1, ServerInvariant, NotedInvariant, PTL DEF Spec
=============================================================================
