------------------------ MODULE IdentityLoginProofs -------------------------
(***************************************************************************)
(* Proofs about IdentityLogin: the types of the service's store and of the *)
(* assessments, nonces consumed once in their time to live, the velocity   *)
(* limit for concurrent logins, and the cold start that no race shortens.  *)
(***************************************************************************)
EXTENDS IdentityLogin, CountingTheorems, SequenceTheorems

----------------------------------------------------------------------------
(* The list of devices.                                                    *)

\* The devices with d moved to the front are typed, each listed once, and one
\* more than before unless d was among them.
LEMMA MovedToFront ==
  ASSUME NEW devices \in Seq(Devices), NEW d \in Devices,
         \A i, j \in DOMAIN devices : devices[i] = devices[j] => i = j
  PROVE  LET latest == <<d>> \o Without(devices, d)
         IN /\ latest \in Seq(Devices)
            /\ \A i, j \in DOMAIN latest : latest[i] = latest[j] => i = j
<1> DEFINE others == Without(devices, d)
           latest == <<d>> \o others
<1>1. /\ others \in Seq(Devices)
      /\ \A i \in DOMAIN others : others[i] # d
      /\ \A i, j \in DOMAIN others : others[i] = others[j] => i = j
  <2>1. CASE ~Contains(devices, d)
    BY <2>1 DEF Without, Contains
  <2>2. CASE Contains(devices, d)
    <3> DEFINE k == CHOOSE i \in DOMAIN devices : devices[i] = d
    <3>1. k \in 1 .. Len(devices) /\ devices[k] = d
      BY <2>2 DEF Contains
    <3>2. others = RemoveAt(devices, k)
      BY <2>2 DEF Without
    <3> HIDE DEF k
    <3> DEFINE front == SubSeq(devices, 1, k - 1)
               back  == SubSeq(devices, k + 1, Len(devices))
    <3>3. /\ front \in Seq(Devices) /\ Len(front) = k - 1
          /\ \A i \in 1 .. k - 1 : front[i] = devices[i]
      BY <3>1
    <3>4. /\ back \in Seq(Devices) /\ Len(back) = Len(devices) - k
          /\ \A i \in 1 .. Len(devices) - k : back[i] = devices[i + k]
      BY <3>1
    <3>5. others = front \o back
      BY <3>2 DEF RemoveAt
    <3> HIDE DEF front, back, others
    <3>6. /\ others \in Seq(Devices) /\ Len(others) = Len(devices) - 1
          /\ \A i \in 1 .. Len(others) :
               others[i] = IF i < k THEN devices[i] ELSE devices[i + 1]
      <4>1. /\ others \in Seq(Devices) /\ Len(others) = (k - 1) + (Len(devices) - k)
            /\ \A i \in 1 .. Len(others) :
                 others[i] = IF i <= k - 1 THEN front[i] ELSE back[i - (k - 1)]
        <5>1. /\ front \o back \in Seq(Devices)
              /\ Len(front \o back) = Len(front) + Len(back)
              /\ \A i \in 1 .. Len(front \o back) :
                   (front \o back)[i] = IF i <= Len(front) THEN front[i]
                                        ELSE back[i - Len(front)]
          BY <3>3, <3>4, ConcatProperties
        <5> QED
          BY <3>3, <3>4, <3>5, <5>1
      <4>2. ASSUME NEW i \in 1 .. Len(others), ~(i < k)
            PROVE  others[i] = devices[i + 1]
        <5>1. i - (k - 1) \in 1 .. Len(devices) - k
          BY <3>1, <4>1, <4>2
        <5>2. back[i - (k - 1)] = devices[(i - (k - 1)) + k]
          BY <3>4, <5>1
        <5>3. (i - (k - 1)) + k = i + 1
          BY <3>1, <4>2
        <5> QED
          BY <3>1, <4>1, <4>2, <5>2, <5>3
      <4>3. ASSUME NEW i \in 1 .. Len(others), i < k
            PROVE  others[i] = devices[i]
        BY <3>1, <3>3, <4>1, <4>3
      <4>4. Len(others) = Len(devices) - 1
        BY <3>1, <4>1
      <4> QED
        BY <4>1, <4>2, <4>3, <4>4
    <3> DEFINE from(i) == IF i < k THEN i ELSE i + 1
    <3>7. \A i \in 1 .. Len(others) :
            /\ from(i) \in 1 .. Len(devices) /\ from(i) # k
            /\ others[i] = devices[from(i)]
      BY <3>1, <3>6
    <3>8. \A i, j \in 1 .. Len(others) : from(i) = from(j) => i = j
      BY <3>1, <3>6
    <3>9. DOMAIN others = 1 .. Len(others) /\ DOMAIN devices = 1 .. Len(devices)
      BY <3>6
    <3> HIDE DEF from
    <3>10. \A i \in DOMAIN others : others[i] # d
      BY <3>1, <3>7, <3>9
    <3>11. \A i, j \in DOMAIN others : others[i] = others[j] => i = j
      BY <3>7, <3>8, <3>9
    <3> QED
      BY <3>6, <3>10, <3>11
  <2> QED
    BY <2>1, <2>2
<1> HIDE DEF others
<1>2. /\ latest \in Seq(Devices) /\ Len(latest) = Len(others) + 1
      /\ latest[1] = d
      /\ \A i \in 2 .. Len(latest) : latest[i] = others[i - 1]
  BY <1>1
<1>3. ASSUME NEW i \in 1 .. Len(latest), NEW j \in 1 .. Len(latest),
             latest[i] = latest[j]
      PROVE  i = j
  <2>1. CASE i = 1 /\ j = 1
    BY <2>1
  <2>2. CASE i = 1 /\ j # 1
    <3>1. j - 1 \in DOMAIN others
      BY <1>1, <1>2, <2>2
    <3> QED
      BY <1>1, <1>2, <1>3, <2>2, <3>1
  <2>3. CASE i # 1 /\ j = 1
    <3>1. i - 1 \in DOMAIN others
      BY <1>1, <1>2, <2>3
    <3> QED
      BY <1>1, <1>2, <1>3, <2>3, <3>1
  <2>4. CASE i # 1 /\ j # 1
    <3>1. i - 1 \in DOMAIN others /\ j - 1 \in DOMAIN others
      BY <1>1, <1>2, <2>4
    <3>2. others[i - 1] = others[j - 1]
      BY <1>2, <1>3, <2>4
    <3> QED
      BY <1>1, <3>1, <3>2
  <2> QED
    BY <2>1, <2>2, <2>3, <2>4
<1> QED
  BY <1>2, <1>3 DEF others

\* What is kept of a list of devices is such a list again.
LEMMA ListKept ==
  ASSUME NEW latest \in Seq(Devices),
         \A i, j \in DOMAIN latest : latest[i] = latest[j] => i = j
  PROVE  LET kept == IF Len(latest) > MaxDevices
                       THEN SubSeq(latest, 1, MaxDevices) ELSE latest
         IN kept \in Seq(Devices) /\ DevicesListed(kept)
<1>1. MaxDevices \in Nat \ {0}
  BY IdentityConstants
<1>2. CASE Len(latest) > MaxDevices
  <2> DEFINE kept == SubSeq(latest, 1, MaxDevices)
  <2>1. /\ kept \in Seq(Devices) /\ Len(kept) = MaxDevices
        /\ \A i \in 1 .. MaxDevices : kept[i] = latest[i]
    BY <1>1, <1>2
  <2> HIDE DEF kept
  <2>2. DevicesListed(kept)
    BY <1>1, <1>2, <2>1 DEF DevicesListed
  <2> QED
    BY <1>2, <2>1, <2>2 DEF kept
<1>3. CASE ~(Len(latest) > MaxDevices)
  BY <1>1, <1>3 DEF DevicesListed
<1> QED
  BY <1>2, <1>3

\* record_login() keeps a baseline a baseline.
LEMMA BaselineKept ==
  ASSUME NEW b \in Baseline, DevicesListed(b.devices), NEW m \in Login, NEW at \in Nat
  PROVE  /\ WithLogin(b, m, at) \in Baseline
         /\ DevicesListed(WithLogin(b, m, at).devices)
         /\ WithLogin(b, m, at).loginCount = b.loginCount + 1
<1> DEFINE latest == <<m.device>> \o Without(b.devices, m.device)
           kept   == IF Len(latest) > MaxDevices
                       THEN SubSeq(latest, 1, MaxDevices) ELSE latest
<1>1. /\ b.devices \in Seq(Devices) /\ b.loginCount \in Nat
      /\ b.place \in Places \cup {NoPlace}
      /\ m.device \in Devices /\ m.place \in Places \cup {NoPlace}
  BY DEF Baseline, Login
<1>2. \A i, j \in DOMAIN b.devices : b.devices[i] = b.devices[j] => i = j
  BY DEF DevicesListed
<1>3. /\ latest \in Seq(Devices)
      /\ \A i, j \in DOMAIN latest : latest[i] = latest[j] => i = j
  BY <1>1, <1>2, MovedToFront
<1> HIDE DEF latest
<1>4. kept \in Seq(Devices) /\ DevicesListed(kept)
  BY <1>3, ListKept
<1>5. WithLogin(b, m, at) =
        [loginCount |-> b.loginCount + 1, devices |-> kept,
         place |-> IF m.place # NoPlace THEN m.place ELSE b.place, lastLogin |-> at]
  BY DEF WithLogin, latest
<1> HIDE DEF kept
<1> QED
  BY <1>1, <1>4, <1>5 DEF Baseline

----------------------------------------------------------------------------
(* The types.                                                              *)

Consumption == [nonce : Nonces, at : Times]

IdentityTyped ==
  /\ IdentityTypeOK
  /\ \A r \in Slots : DevicesListed(local[r].baseline.devices)
  /\ consumed \in Seq(Consumption)

\* A login in a slot has the fields of a login.
LEMMA LoginTyped ==
  ASSUME IdentityTyped, NEW r \in Slots
  PROVE  /\ login[r] \in Login
         /\ login[r].nonce \in Nonces /\ login[r].wallet \in Wallets
         /\ login[r].ip \in Ips /\ login[r].device \in Devices
<1>1. login[r] \in Login
  BY IdentityConstants DEF IdentityTyped, IdentityTypeOK
<1> QED
  BY <1>1 DEF Login

\* The empty baseline is a baseline, and every state starts typed.
LEMMA IdentityTypedInit ==
  ASSUME Init
  PROVE  IdentityTyped
<1> USE IdentityConstants DEF Init
<1>1. EmptyBaseline \in Baseline /\ DevicesListed(EmptyBaseline.devices)
  BY DEF EmptyBaseline, Baseline, DevicesListed
<1>2. now \in 1 .. MaxTime /\ 0 \in 0 .. now
  OBVIOUS
<1>3. expiry \in [Nonces -> Nat] /\ attempts \in [Wallets \cup Ips -> [Times -> Nat]]
  OBVIOUS
<1>4. /\ baselines \in [Wallets -> Baseline]
      /\ \A w \in Wallets : DevicesListed(baselines[w].devices)
  BY <1>1
<1>5. stage \in [Slots -> Running \cup {"unsent", "replied", "answered"}]
  OBVIOUS
<1>6. started \in [Slots -> 0 .. now] /\ verified \in [Slots -> 0 .. now]
  BY <1>2
<1>7. /\ local \in [Slots -> [at : 0 .. now, count : Nat, baseline : Baseline]]
      /\ \A r \in Slots : DevicesListed(local[r].baseline.devices)
  BY <1>1, <1>2
<1>8. /\ result \in [Slots -> Outcomes]
      /\ answer \in [Slots -> {"none", "ALLOW", "STEP_UP", "DENY", "ERROR"}]
  BY DEF Outcomes
<1>9. consumed \in Seq(Consumption)
  OBVIOUS
<1> QED
  BY <1>2, <1>3, <1>4, <1>5, <1>6, <1>7, <1>8, <1>9 DEF IdentityTyped, IdentityTypeOK

\* What record_attempt() leaves is typed.
LEMMA RecordedTyped ==
  ASSUME IdentityTyped, NEW k, NEW at \in Nat
  PROVE  Recorded(k, at) \in [Wallets \cup Ips -> [Times -> Nat]]
<1>1. attempts \in [Wallets \cup Ips -> [Times -> Nat]]
  BY DEF IdentityTyped, IdentityTypeOK
<1>2. CASE k \in Wallets \cup Ips
  <2>1. attempts[k] \in [Times -> Nat]
    BY <1>1, <1>2
  <2>2. [t \in Times |-> IF t >= now - Retention
                           THEN attempts[k][t] + (IF t = at THEN 1 ELSE 0) ELSE 0]
          \in [Times -> Nat]
    BY <2>1
  <2> QED
    BY <1>1, <2>2 DEF Recorded
<1>3. CASE k \notin Wallets \cup Ips
  BY <1>1, <1>3 DEF Recorded
<1> QED
  BY <1>2, <1>3

\* A sum over the moments of a window is a number.
LEMMA SinceTyped ==
  ASSUME attempts \in [Wallets \cup Ips -> [Times -> Nat]], MaxTime \in Nat,
         NEW k \in Wallets \cup Ips, NEW s \in Int
  PROVE  /\ IsFiniteSet(Times)
         /\ Since(k, s) \in [Times -> Nat] /\ Total(Since(k, s)) \in Nat
<1>1. Since(k, s) \in [Times -> Nat]
  BY DEF Since
<1>2. IsFiniteSet(Times)
  BY FS_Interval DEF Times
<1>3. IsFiniteSet(Units(Since(k, s)))
  BY <1>1, <1>2, UnitsFinite
<1> QED
  BY <1>1, <1>2, <1>3, FS_CardinalityType DEF Total

\* Every step keeps the types.
LEMMA IdentityTypedStep ==
  ASSUME IdentityTyped, [Next]_vars
  PROVE  IdentityTyped'
<1> USE IdentityConstants
<1>t. /\ now \in 1 .. MaxTime
      /\ expiry \in [Nonces -> Nat]
      /\ attempts \in [Wallets \cup Ips -> [Times -> Nat]]
      /\ baselines \in [Wallets -> Baseline]
      /\ \A w \in Wallets : DevicesListed(baselines[w].devices)
      /\ login \in [Slots -> Logins]
      /\ stage \in [Slots -> Running \cup {"unsent", "replied", "answered"}]
      /\ started \in [Slots -> 0 .. now]
      /\ verified \in [Slots -> 0 .. now]
      /\ local \in [Slots -> [at : 0 .. now, count : Nat, baseline : Baseline]]
      /\ result \in [Slots -> Outcomes]
      /\ answer \in [Slots -> {"none", "ALLOW", "STEP_UP", "DENY", "ERROR"}]
      /\ \A r \in Slots : DevicesListed(local[r].baseline.devices)
      /\ consumed \in Seq(Consumption)
  BY DEF IdentityTyped, IdentityTypeOK
<1>0. /\ now \in Nat /\ now \in 0 .. now /\ now \in Times
      /\ \A s \in Running \cup {"replied", "answered"} :
           s \in Running \cup {"unsent", "replied", "answered"}
  BY <1>t DEF Times
<1>1. ASSUME NEW r \in Slots, Send(r) PROVE IdentityTyped'
  BY <1>t, <1>0, <1>1 DEF IdentityTyped, IdentityTypeOK, Send, Goto, store, Running
<1>2. ASSUME NEW r \in Slots, Verify(r) PROVE IdentityTyped'
  <2>1. /\ result' \in [Slots -> Outcomes]
        /\ stage' \in [Slots -> Running \cup {"unsent", "replied", "answered"}]
    BY <1>t, <1>2 DEF Verify, Finish, Goto, Running, Outcomes
  <2>2. verified' \in [Slots -> 0 .. now]
    BY <1>t, <1>0, <1>2 DEF Verify
  <2> QED
    BY <1>t, <1>2, <2>1, <2>2 DEF IdentityTyped, IdentityTypeOK, Verify, store
<1>3. ASSUME NEW r \in Slots, ConsumeNonce(r) PROVE IdentityTyped'
  <2>1. CASE Remembered(login[r].nonce) /\ Finish(r, "DENY")
               /\ UNCHANGED <<expiry, consumed, local>>
    <3>1. /\ result' \in [Slots -> Outcomes]
          /\ stage' \in [Slots -> Running \cup {"unsent", "replied", "answered"}]
      BY <1>t, <2>1 DEF Finish, Goto, Running, Outcomes
    <3> QED
      BY <1>t, <1>3, <2>1, <3>1 DEF IdentityTyped, IdentityTypeOK, ConsumeNonce
  <2>2. CASE ~Remembered(login[r].nonce) /\ Goto(r, "recordWallet") /\ UNCHANGED result
    <3>1. /\ expiry' = [expiry EXCEPT ![login[r].nonce] = now + NonceTtl]
          /\ consumed' = Append(consumed, [nonce |-> login[r].nonce, at |-> now])
          /\ local' = [local EXCEPT ![r].at = now]
      BY <1>3, <2>2 DEF ConsumeNonce
    <3>2. expiry' \in [Nonces -> Nat]
      <4>1. now + NonceTtl \in Nat
        BY <1>0
      <4> QED
        BY <1>t, <3>1, <4>1
    <3>3. consumed' \in Seq(Consumption)
      <4>1. [nonce |-> login[r].nonce, at |-> now] \in Consumption
        BY <1>0, LoginTyped DEF Consumption
      <4> QED
        BY <1>t, <3>1, <4>1
    <3>4. /\ local' \in [Slots -> [at : 0 .. now, count : Nat, baseline : Baseline]]
          /\ \A q \in Slots : local'[q].baseline = local[q].baseline
      <4> DEFINE own == [local[r] EXCEPT !.at = now]
      <4>1. /\ own \in [at : 0 .. now, count : Nat, baseline : Baseline]
          /\ own.baseline = local[r].baseline
        <5>1. local[r] \in [at : 0 .. now, count : Nat, baseline : Baseline]
          BY <1>t
        <5> QED
          BY <5>1, <1>0
      <4>2. local' = [local EXCEPT ![r] = own]
        BY <3>1
      <4> HIDE DEF own
      <4> QED
        BY <1>t, <4>1, <4>2
    <3>5. stage' \in [Slots -> Running \cup {"unsent", "replied", "answered"}]
      BY <1>t, <2>2 DEF Goto, Running
    <3> QED
      BY <1>t, <1>3, <2>2, <3>2, <3>3, <3>4, <3>5
      DEF IdentityTyped, IdentityTypeOK, ConsumeNonce
  <2> QED
    BY <1>3, <2>1, <2>2 DEF ConsumeNonce
<1>4. ASSUME NEW r \in Slots, RecordWallet(r) \/ RecordIp(r) PROVE IdentityTyped'
  <2>1. /\ stage' \in [Slots -> Running \cup {"unsent", "replied", "answered"}]
        /\ UNCHANGED <<now, expiry, baselines, login, started, verified, local, result,
                       answer, consumed>>
    BY <1>t, <1>4 DEF RecordWallet, RecordIp, Goto, Running
  <2>2. local[r].at \in Nat
    BY <1>t
  <2>3. attempts' \in [Wallets \cup Ips -> [Times -> Nat]]
    <3>1. PICK k : attempts' = Recorded(k, local[r].at)
      BY <1>4 DEF RecordWallet, RecordIp
    <3> QED
      BY <2>2, <3>1, RecordedTyped
  <2> QED
    BY <1>t, <2>1, <2>3 DEF IdentityTyped, IdentityTypeOK
<1>5. ASSUME NEW r \in Slots, ReadAttempts(r) PROVE IdentityTyped'
  <2>1. RecentAttempts(login[r].wallet) \in Nat
    BY <1>t, SinceTyped, LoginTyped DEF RecentAttempts
  <2>2. /\ local' = [local EXCEPT ![r].count = RecentAttempts(login[r].wallet)]
        /\ UNCHANGED <<now, store, login, started, verified, result, answer, consumed>>
    BY <1>5 DEF ReadAttempts
  <2>3. /\ local' \in [Slots -> [at : 0 .. now, count : Nat, baseline : Baseline]]
        /\ \A q \in Slots : local'[q].baseline = local[q].baseline
    <3> DEFINE own == [local[r] EXCEPT !.count = RecentAttempts(login[r].wallet)]
    <3>1. /\ own \in [at : 0 .. now, count : Nat, baseline : Baseline]
        /\ own.baseline = local[r].baseline
      <4>1. local[r] \in [at : 0 .. now, count : Nat, baseline : Baseline]
        BY <1>t
      <4> QED
        BY <4>1, <2>1
    <3>2. local' = [local EXCEPT ![r] = own]
      BY <2>2
    <3> HIDE DEF own
    <3> QED
      BY <1>t, <3>1, <3>2
  <2>4. stage' \in [Slots -> Running \cup {"unsent", "replied", "answered"}]
    BY <1>t, <1>5 DEF ReadAttempts, Goto, Running
  <2> QED
    BY <1>t, <2>2, <2>3, <2>4 DEF IdentityTyped, IdentityTypeOK, store
<1>6. ASSUME NEW r \in Slots, ReadBaseline(r) PROVE IdentityTyped'
  <2>1. /\ baselines[login[r].wallet] \in Baseline
        /\ DevicesListed(baselines[login[r].wallet].devices)
    BY <1>t, LoginTyped
  <2>2. /\ local' = [local EXCEPT ![r].baseline = baselines[login[r].wallet]]
        /\ UNCHANGED <<now, store, login, started, verified, result, answer, consumed>>
    BY <1>6 DEF ReadBaseline
  <2>3. /\ local' \in [Slots -> [at : 0 .. now, count : Nat, baseline : Baseline]]
        /\ \A q \in Slots : DevicesListed(local'[q].baseline.devices)
    <3> DEFINE own == [local[r] EXCEPT !.baseline = baselines[login[r].wallet]]
    <3>1. /\ own \in [at : 0 .. now, count : Nat, baseline : Baseline]
          /\ own.baseline = baselines[login[r].wallet]
      <4>1. local[r] \in [at : 0 .. now, count : Nat, baseline : Baseline]
        BY <1>t
      <4> QED
        BY <2>1, <4>1
    <3>2. local' = [local EXCEPT ![r] = own]
      BY <2>2
    <3> HIDE DEF own
    <3> QED
      BY <1>t, <2>1, <3>1, <3>2
  <2>4. stage' \in [Slots -> Running \cup {"unsent", "replied", "answered"}]
    BY <1>t, <1>6 DEF ReadBaseline, Goto, Running
  <2> QED
    BY <1>t, <2>2, <2>3, <2>4 DEF IdentityTyped, IdentityTypeOK, store
<1>7. ASSUME NEW r \in Slots, Assess(r) PROVE IdentityTyped'
  <2> DEFINE written == WithLogin(local[r].baseline, login[r], verified[r])
             decided == Decision(Deductions(login[r], local[r].baseline, verified[r],
                                            local[r].count))
  <2>1. written \in Baseline /\ DevicesListed(written.devices)
    <3>1. verified[r] \in Nat /\ local[r].baseline \in Baseline
      BY <1>t
    <3> QED
      BY <1>t, <3>1, LoginTyped, BaselineKept
  <2>2. decided \in Outcomes
    BY DEF Decision, Outcomes
  <2>3. /\ baselines' = [baselines EXCEPT ![login[r].wallet] = written]
        /\ result' = [result EXCEPT ![r] = decided]
        /\ stage' = [stage EXCEPT ![r] = "replied"]
        /\ UNCHANGED <<now, expiry, attempts, login, started, verified, local, answer,
                       consumed>>
    BY <1>7 DEF Assess, Finish, Goto
  <2> HIDE DEF written, decided
  <2>4. /\ baselines' \in [Wallets -> Baseline]
        /\ \A w \in Wallets : DevicesListed(baselines'[w].devices)
    BY <1>t, <2>1, <2>3
  <2>5. /\ result' \in [Slots -> Outcomes]
        /\ stage' \in [Slots -> Running \cup {"unsent", "replied", "answered"}]
    BY <1>t, <2>2, <2>3
  <2> QED
    BY <1>t, <2>3, <2>4, <2>5 DEF IdentityTyped, IdentityTypeOK
<1>8. ASSUME NEW r \in Slots, Answer(r) PROVE IdentityTyped'
  BY <1>t, <1>8 DEF IdentityTyped, IdentityTypeOK, Answer, Goto, Forwarded, Outcomes, store
<1>9. ASSUME NEW r \in Slots, Timeout(r) PROVE IdentityTyped'
  <2>1. /\ result' \in [Slots -> Outcomes]
        /\ stage' \in [Slots -> Running \cup {"unsent", "replied", "answered"}]
    BY <1>t, <1>9 DEF Timeout, Finish, Goto, Outcomes
  <2> QED
    BY <1>t, <1>9, <2>1 DEF IdentityTyped, IdentityTypeOK, Timeout, store
<1>10. ASSUME NEW r \in Slots, Fallback(r) PROVE IdentityTyped'
  <2>1. /\ answer' \in [Slots -> {"none", "ALLOW", "STEP_UP", "DENY", "ERROR"}]
        /\ stage' \in [Slots -> Running \cup {"unsent", "replied", "answered"}]
    BY <1>t, <1>10 DEF Fallback, Goto
  <2> QED
    BY <1>t, <1>10, <2>1 DEF IdentityTyped, IdentityTypeOK, Fallback, store
<1>11. CASE Tick
  <2>1. now' \in 1 .. MaxTime /\ 0 .. now \subseteq 0 .. now'
    BY <1>t, <1>11 DEF Tick
  <2>2. /\ started' \in [Slots -> (0 .. now)']
        /\ verified' \in [Slots -> (0 .. now)']
    BY <1>t, <1>11, <2>1 DEF Tick
  <2>3. local' \in [Slots -> [at : (0 .. now)', count : Nat, baseline : Baseline]]
    <3>1. local' = local
      BY <1>11 DEF Tick
    <3>2. [at : 0 .. now, count : Nat, baseline : Baseline]
            \subseteq [at : 0 .. now', count : Nat, baseline : Baseline]
      BY <2>1
    <3> QED
      BY <1>t, <3>1, <3>2
  <2> QED
    BY <1>t, <1>11, <2>1, <2>2, <2>3 DEF IdentityTyped, IdentityTypeOK, Tick, store
<1>12. CASE UNCHANGED vars
  BY <1>t, <1>12 DEF IdentityTyped, IdentityTypeOK, vars, store
<1> QED
  BY <1>1, <1>2, <1>3, <1>4, <1>5, <1>6, <1>7, <1>8, <1>9, <1>10, <1>11, <1>12
  DEF Next, Proceed

\* The state of the store and of the assessments is well typed, and the list
\* of a wallet's devices names none twice and no more than the limit.
THEOREM IdentityTypeCorrect == Spec => []IdentityTypeOK
<1>1. Init => IdentityTyped
  BY IdentityTypedInit
<1>2. IdentityTyped /\ [Next]_vars => IdentityTyped'
  BY IdentityTypedStep
<1>3. IdentityTyped => IdentityTypeOK
  BY DEF IdentityTyped
<1> QED
  BY <1>1, <1>2, <1>3, PTL DEF Spec

----------------------------------------------------------------------------
(* Nonces: an entry that is forgotten has outlived its time.               *)

NonceInv ==
  /\ NonceOncePerTtl
  /\ \A i \in DOMAIN consumed :
       consumed[i].at + NonceTtl <= expiry[consumed[i].nonce]

\* Every step keeps the nonces apart.
LEMMA NonceStep ==
  ASSUME IdentityTyped, NonceInv, [Next]_vars
  PROVE  NonceInv'
<1>t. /\ now \in Times /\ now \in Nat /\ NonceTtl \in Nat
      /\ expiry \in [Nonces -> Nat]
      /\ consumed \in Seq(Consumption)
      /\ \A i \in DOMAIN consumed : consumed[i].at \in Nat /\ consumed[i].nonce \in Nonces
  <2>1. /\ now \in Times /\ now \in Nat /\ NonceTtl \in Nat
        /\ expiry \in [Nonces -> Nat]
        /\ consumed \in Seq(Consumption)
    BY IdentityConstants DEF IdentityTyped, IdentityTypeOK, Times
  <2>2. \A i \in DOMAIN consumed : consumed[i] \in Consumption
    BY <2>1, ElementOfSeq
  <2>3. Times \subseteq Nat
    BY DEF Times
  <2> QED
    BY <2>1, <2>2, <2>3 DEF Consumption
<1>1. ASSUME NEW r \in Slots, ConsumeNonce(r), ~UNCHANGED <<expiry, consumed>>
      PROVE  NonceInv'
  <2> DEFINE n == login[r].nonce
             e == [nonce |-> n, at |-> now]
             last == Len(consumed) + 1
  <2>1. /\ expiry[n] <= now
        /\ expiry' = [expiry EXCEPT ![n] = now + NonceTtl]
        /\ consumed' = Append(consumed, e)
    BY <1>1, <1>t, LoginTyped DEF ConsumeNonce, Remembered
  <2>2. n \in Nonces /\ last \in Nat
    BY <1>t, LoginTyped
  <2>3. e.nonce = n /\ e.at = now
    OBVIOUS
  <2> HIDE DEF n, e
  <2>4. /\ DOMAIN consumed' = 1 .. last
        /\ \A i \in DOMAIN consumed : i < last /\ consumed'[i] = consumed[i]
        /\ consumed'[last] = e
        /\ \A i \in 1 .. last : i \in DOMAIN consumed \/ i = last
    <3>1. Len(consumed) \in Nat /\ DOMAIN consumed = 1 .. Len(consumed)
      BY <1>t
    <3>2. e \in Consumption
      BY <1>t, <2>2 DEF e, Consumption
    <3>3. /\ Len(consumed') = last
          /\ \A i \in 1 .. Len(consumed) : consumed'[i] = consumed[i]
          /\ consumed'[last] = e
          /\ DOMAIN consumed' = 1 .. last
      BY <1>t, <2>1, <3>2, AppendProperties
    <3> QED
      BY <3>1, <3>3
  <2>5. ASSUME NEW i \in DOMAIN consumed'
        PROVE  consumed'[i].at + NonceTtl <= expiry'[consumed'[i].nonce]
    <3>1. CASE i = last
      BY <1>t, <2>1, <2>2, <2>3, <2>4, <3>1
    <3>2. CASE i \in DOMAIN consumed /\ consumed[i].nonce = n
      <4>1. consumed[i].at + NonceTtl <= expiry[n]
        BY <3>2 DEF NonceInv
      <4>2. consumed[i].at + NonceTtl <= now + NonceTtl
        BY <1>t, <2>1, <2>2, <3>2, <4>1
      <4> QED
        BY <1>t, <2>1, <2>2, <2>4, <3>2, <4>2
    <3>3. CASE i \in DOMAIN consumed /\ consumed[i].nonce # n
      <4>1. consumed[i].at + NonceTtl <= expiry[consumed[i].nonce]
        BY <3>3 DEF NonceInv
      <4> QED
        BY <1>t, <2>1, <2>2, <2>4, <3>3, <4>1
    <3> QED
      BY <2>4, <3>1, <3>2, <3>3
  <2>6. ASSUME NEW i \in DOMAIN consumed', NEW j \in DOMAIN consumed',
               i < j, consumed'[i].nonce = consumed'[j].nonce
        PROVE  consumed'[j].at - consumed'[i].at >= NonceTtl
    <3>1. CASE j = last
      <4>1. i \in DOMAIN consumed /\ consumed[i].nonce = n
        BY <2>3, <2>4, <2>6, <3>1
      <4>2. consumed[i].at + NonceTtl <= expiry[n]
        BY <4>1 DEF NonceInv
      <4> QED
        BY <1>t, <2>1, <2>2, <2>3, <2>4, <3>1, <4>1, <4>2
    <3>2. CASE j \in DOMAIN consumed
      <4>1. i \in DOMAIN consumed
        BY <2>2, <2>4, <2>6, <3>2
      <4> QED
        BY <2>4, <2>6, <3>2, <4>1 DEF NonceInv, NonceOncePerTtl
    <3> QED
      BY <2>4, <3>1, <3>2
  <2> QED
    BY <2>5, <2>6 DEF NonceInv, NonceOncePerTtl
<1>2. CASE UNCHANGED <<expiry, consumed>>
  BY <1>2 DEF NonceInv, NonceOncePerTtl
<1> QED
  BY <1>1, <1>2
  DEF Next, Proceed, Send, Verify, RecordWallet, RecordIp, ReadAttempts, ReadBaseline,
      Assess, Answer, Timeout, Fallback, Tick, vars, store

\* No nonce is consumed twice within its time to live, for any number of
\* concurrent logins.
THEOREM NoncesOnce == Spec => []NonceOncePerTtl
<1>1. Init => IdentityTyped /\ NonceInv
  BY IdentityTypedInit DEF Init, NonceInv, NonceOncePerTtl
<1>2. IdentityTyped /\ NonceInv /\ [Next]_vars => (IdentityTyped /\ NonceInv)'
  BY IdentityTypedStep, NonceStep
<1>3. NonceInv => NonceOncePerTtl
  BY DEF NonceInv
<1> QED
  BY <1>1, <1>2, <1>3, PTL DEF Spec

----------------------------------------------------------------------------
(* The stages of an assessment and its clocks.                             *)

\* The stages after the attempt's timestamp was taken.
Attempting == {"recordWallet", "recordIp", "readAttempts", "readBaseline", "assess"}

\* An assessment has no answer while it runs, and its clocks are in order.
Timed ==
  \A r \in Slots :
    /\ stage[r] \in Running \cup {"unsent"} => result[r] = "none"
    /\ stage[r] \in Running => 1 <= started[r] /\ now <= started[r] + RequestTimeout
    /\ stage[r] \in Running \ {"verify"} => started[r] <= verified[r]
    /\ stage[r] \in Attempting => verified[r] <= local[r].at

\* Every step keeps them so.
LEMMA TimedStep ==
  ASSUME IdentityTyped, Timed, [Next]_vars
  PROVE  Timed'
<1>t. /\ now \in Nat /\ now >= 1 /\ RequestTimeout \in Nat
      /\ stage \in [Slots -> Running \cup {"unsent", "replied", "answered"}]
      /\ started \in [Slots -> Nat] /\ \A r \in Slots : started[r] <= now
      /\ verified \in [Slots -> Nat] /\ \A r \in Slots : verified[r] <= now
      /\ result \in [Slots -> Outcomes]
      /\ local \in [Slots -> [at : 0 .. now, count : Nat, baseline : Baseline]]
  BY IdentityConstants DEF IdentityTyped, IdentityTypeOK
<1> USE DEF Running, Attempting
<1>1. ASSUME NEW r \in Slots, Send(r) PROVE Timed'
  BY <1>t, <1>1 DEF Timed, Send, Goto
<1>2. ASSUME NEW r \in Slots, Verify(r) PROVE Timed'
  BY <1>t, <1>2 DEF Timed, Verify, Goto, Finish
<1>3. ASSUME NEW r \in Slots, ConsumeNonce(r) PROVE Timed'
  <2>1. CASE UNCHANGED local
    BY <1>t, <1>3, <2>1 DEF Timed, ConsumeNonce, Goto, Finish
  <2>2. CASE local' = [local EXCEPT ![r].at = now]
    <3>1. \A q \in Slots : local'[q].at = IF q = r THEN now ELSE local[q].at
      BY <1>t, <2>2
    <3> QED
      BY <1>t, <1>3, <3>1 DEF Timed, ConsumeNonce, Goto, Finish
  <2> QED
    BY <1>3, <2>1, <2>2 DEF ConsumeNonce
<1>4. ASSUME NEW r \in Slots, RecordWallet(r) \/ RecordIp(r) PROVE Timed'
  BY <1>t, <1>4 DEF Timed, RecordWallet, RecordIp, Goto
<1>5. ASSUME NEW r \in Slots, ReadAttempts(r) \/ ReadBaseline(r) PROVE Timed'
  <2>1. \A q \in Slots : local'[q].at = local[q].at
    BY <1>t, <1>5 DEF ReadAttempts, ReadBaseline
  <2> QED
    BY <1>t, <1>5, <2>1 DEF Timed, ReadAttempts, ReadBaseline, Goto
<1>6. ASSUME NEW r \in Slots, Assess(r) \/ Timeout(r) \/ Fallback(r) \/ Answer(r)
      PROVE  Timed'
  <2>1. /\ stage'[r] \in {"replied", "answered"}
        /\ \A q \in Slots \ {r} : stage'[q] = stage[q] /\ result'[q] = result[q]
        /\ UNCHANGED <<now, started, verified, local>>
    BY <1>t, <1>6 DEF Assess, Timeout, Fallback, Answer, Finish, Goto
  <2> QED
    BY <1>t, <2>1 DEF Timed
<1>7. CASE Tick
  BY <1>t, <1>7 DEF Timed, Tick
<1>8. CASE UNCHANGED vars
  BY <1>8 DEF Timed, vars
<1> QED
  BY <1>1, <1>2, <1>3, <1>4, <1>5, <1>6, <1>7, <1>8 DEF Next, Proceed

\* Every state that can be reached is typed and its clocks are in order.
LEMMA TimedInit ==
  ASSUME Init
  PROVE  Timed
BY DEF Init, Timed, Running, Attempting

\* A finished assessment keeps what it answered and what it had read.
LEMMA FinishedKept ==
  ASSUME IdentityTyped, Timed, [Next]_vars, NEW q \in Slots, result[q] # "none"
  PROVE  /\ result'[q] = result[q] /\ local'[q] = local[q]
         /\ verified'[q] = verified[q] /\ login'[q] = login[q]
<1>1. /\ stage[q] \in {"replied", "answered"}
      /\ login' = login
  BY DEF IdentityTyped, IdentityTypeOK, Timed, Next, Proceed, Send, Verify, ConsumeNonce,
         RecordWallet, RecordIp, ReadAttempts, ReadBaseline, Assess, Answer, Timeout,
         Fallback, Tick, vars, store
<1>t. /\ result \in [Slots -> Outcomes] /\ verified \in [Slots -> 0 .. now]
      /\ local \in [Slots -> [at : 0 .. now, count : Nat, baseline : Baseline]]
  BY DEF IdentityTyped, IdentityTypeOK
<1>2. ASSUME NEW r \in Slots, r # q, UNCHANGED result \/ \E o : result' = [result EXCEPT ![r] = o],
             UNCHANGED verified \/ \E v : verified' = [verified EXCEPT ![r] = v],
             UNCHANGED local \/ \E v : local' = [local EXCEPT ![r] = v]
      PROVE  result'[q] = result[q] /\ local'[q] = local[q] /\ verified'[q] = verified[q]
  BY <1>t, <1>2
<1>3. ASSUME NEW r \in Slots, Verify(r)
      PROVE  result'[q] = result[q] /\ local'[q] = local[q] /\ verified'[q] = verified[q]
  BY <1>t, <1>1, <1>3 DEF Verify, Finish
<1>4. ASSUME NEW r \in Slots, ConsumeNonce(r)
      PROVE  result'[q] = result[q] /\ local'[q] = local[q] /\ verified'[q] = verified[q]
  BY <1>t, <1>1, <1>4 DEF ConsumeNonce, Finish
<1>5. ASSUME NEW r \in Slots, ReadAttempts(r) \/ ReadBaseline(r)
      PROVE  result'[q] = result[q] /\ local'[q] = local[q] /\ verified'[q] = verified[q]
  BY <1>t, <1>1, <1>5 DEF ReadAttempts, ReadBaseline
<1>6. ASSUME NEW r \in Slots, Assess(r) \/ Timeout(r)
      PROVE  result'[q] = result[q] /\ local'[q] = local[q] /\ verified'[q] = verified[q]
  BY <1>t, <1>1, <1>6 DEF Assess, Timeout, Finish, Running
<1>7. ASSUME \/ \E r \in Slots : \/ Send(r) \/ RecordWallet(r) \/ RecordIp(r)
                                \/ Answer(r) \/ Fallback(r)
             \/ Tick \/ UNCHANGED vars
      PROVE  result'[q] = result[q] /\ local'[q] = local[q] /\ verified'[q] = verified[q]
  BY <1>7 DEF Send, RecordWallet, RecordIp, Answer, Fallback, Tick, vars
<1> QED
  BY <1>1, <1>3, <1>4, <1>5, <1>6, <1>7 DEF Next, Proceed

----------------------------------------------------------------------------
(* The velocity limit: each attempt that is counted was recorded before.   *)

\* The assessments of w verified since s that have recorded their attempt and
\* have not been dropped.
CountedIn(w, s) ==
  {r \in Slots : /\ login[r].wallet = w
                 /\ verified[r] >= s
                 /\ \/ stage[r] \in Attempting \ {"recordWallet"}
                    \/ result[r] \in {"ALLOW", "STEP_UP"}}

\* Those of them that have read a count within the limit, verified so early in
\* the window from s that they have read within it.
UnflaggedSoFar(w, s) ==
  {r \in Slots : /\ login[r].wallet = w
                 /\ ~VelocityAbuse(local[r].count)
                 /\ verified[r] \in s .. (s + VelocityWindow - RequestTimeout)
                 /\ \/ stage[r] \in {"readBaseline", "assess"}
                    \/ result[r] \in {"ALLOW", "STEP_UP"}}

AttemptsCounted ==
  \A w \in Wallets, s \in Times :
    now - VelocityWindow <= s => Cardinality(CountedIn(w, s)) <= Total(Since(w, s))

WithinLimit ==
  \A w \in Wallets, s \in Times : Cardinality(UnflaggedSoFar(w, s)) <= MaxAttempts

VelocityInv == AttemptsCounted /\ WithinLimit

\* Recording an attempt adds one to each sum it falls in, and takes nothing
\* from the sums of the last hour.
LEMMA RecordedMore ==
  ASSUME IdentityTyped, NEW k \in Wallets \cup Ips, NEW at \in Times,
         attempts' = Recorded(k, at),
         NEW j \in Wallets \cup Ips, NEW s \in Int, now - Retention <= s
  PROVE  /\ Total(Since(j, s)) \in Nat /\ Total(Since(j, s)') \in Nat
         /\ Total(Since(j, s)') >= Total(Since(j, s))
         /\ j = k /\ at >= s => Total(Since(j, s)') = Total(Since(j, s)) + 1
<1> DEFINE f == Since(j, s)
           g == Since(j, s)'
<1>t. /\ attempts \in [Wallets \cup Ips -> [Times -> Nat]]
      /\ now \in Nat /\ MaxTime \in Nat /\ Retention \in Nat
      /\ Times \subseteq Nat
  BY IdentityConstants DEF IdentityTyped, IdentityTypeOK, Times
<1>1. f \in [Times -> Nat] /\ IsFiniteSet(Times) /\ Total(f) \in Nat
  BY <1>t, SinceTyped
<1>2. at \in Nat
  BY <1>t
<1>3. CASE j = k
  <2>1. \A t \in Times :
          attempts'[j][t] = IF t >= now - Retention
                              THEN attempts[j][t] + (IF t = at THEN 1 ELSE 0) ELSE 0
    BY <1>t, <1>3 DEF Recorded
  <2>2. g = [t \in Times |-> IF t >= s THEN attempts'[j][t] ELSE 0]
    BY DEF Since
  <2>3. f = [t \in Times |-> IF t >= s THEN attempts[j][t] ELSE 0]
    BY DEF Since
  <2>4. \A t \in Times : attempts[j][t] \in Nat
    BY <1>t
  <2> HIDE DEF f, g
  <2>5. \A t \in Times : g[t] = IF t = at /\ at >= s THEN f[t] + 1 ELSE f[t]
    BY <1>t, <2>1, <2>2, <2>3, <2>4
  <2>6. g \in [Times -> Nat]
    <3>1. \A t \in Times : f[t] \in Nat /\ f[t] + 1 \in Nat
      BY <1>1
    <3>2. \A t \in Times : g[t] \in Nat
      BY <2>5, <3>1
    <3> QED
      BY <2>2, <3>2
  <2>7. CASE at >= s
    <3>1. g[at] = f[at] + 1 /\ \A t \in Times \ {at} : g[t] = f[t]
      BY <2>5, <2>7
    <3>2. Total(g) \in Nat /\ Total(g) = Total(f) + g[at] - f[at]
      BY <1>1, <2>6, <3>1, TotalChange
    <3>3. f[at] \in Nat
      BY <1>1
    <3>4. Total(g) = Total(f) + 1
      BY <1>1, <3>1, <3>2, <3>3
    <3> QED
      BY <1>1, <3>2, <3>4 DEF f, g
  <2>8. CASE ~(at >= s)
    <3>1. g = f
      BY <1>1, <2>5, <2>6, <2>8
    <3> QED
      BY <1>1, <2>8, <3>1 DEF f, g
  <2> QED
    BY <2>7, <2>8
<1>4. CASE j # k
  <2>1. attempts'[j] = attempts[j]
    BY <1>t, <1>4 DEF Recorded
  <2>2. g = f
    BY <2>1 DEF Since
  <2> QED
    BY <1>1, <1>4, <2>2
<1> QED
  BY <1>3, <1>4

\* Sets of assessments are finite.
LEMMA SlotSets ==
  ASSUME NEW A \in SUBSET Slots, NEW B \in SUBSET A
  PROVE  /\ IsFiniteSet(A) /\ Cardinality(A) \in Nat /\ Cardinality(B) \in Nat
         /\ Cardinality(B) <= Cardinality(A)
<1>1. IsFiniteSet(A) /\ IsFiniteSet(B)
  BY IdentityConstants, FS_Subset
<1> QED
  BY <1>1, FS_Subset, FS_CardinalityType

\* The attempts that are counted are never fewer than the assessments that
\* recorded them.
LEMMA AttemptsStep ==
  ASSUME IdentityTyped, Timed, AttemptsCounted, [Next]_vars
  PROVE  AttemptsCounted'
<1>t. /\ now \in Nat /\ now \in Times /\ MaxTime \in Nat /\ Times \subseteq Nat
      /\ VelocityWindow \in Nat /\ Retention \in Nat /\ VelocityWindow <= Retention
      /\ attempts \in [Wallets \cup Ips -> [Times -> Nat]]
      /\ login \in [Slots -> Logins]
      /\ stage \in [Slots -> Running \cup {"unsent", "replied", "answered"}]
      /\ verified \in [Slots -> 0 .. now]
      /\ result \in [Slots -> Outcomes]
      /\ local \in [Slots -> [at : 0 .. now, count : Nat, baseline : Baseline]]
  BY IdentityConstants DEF IdentityTyped, IdentityTypeOK, Times
<1>0. SUFFICES ASSUME NEW w \in Wallets, NEW s \in Times, now' - VelocityWindow <= s
               PROVE  Cardinality(CountedIn(w, s)') <= Total(Since(w, s)')
  BY DEF AttemptsCounted
<1>1. /\ CountedIn(w, s) \in SUBSET Slots
      /\ CountedIn(w, s)' \in SUBSET Slots
      /\ Total(Since(w, s)) \in Nat
      /\ s \in Int
  BY <1>t, SinceTyped DEF CountedIn
<1>2. ASSUME UNCHANGED now, CountedIn(w, s)' \subseteq CountedIn(w, s),
             Total(Since(w, s)') \in Nat, Total(Since(w, s)') >= Total(Since(w, s))
      PROVE  Cardinality(CountedIn(w, s)') <= Total(Since(w, s)')
  <2>1. Cardinality(CountedIn(w, s)) <= Total(Since(w, s))
    BY <1>0, <1>2 DEF AttemptsCounted
  <2>2. /\ Cardinality(CountedIn(w, s)') \in Nat /\ Cardinality(CountedIn(w, s)) \in Nat
        /\ Cardinality(CountedIn(w, s)') <= Cardinality(CountedIn(w, s))
    BY <1>1, <1>2, SlotSets
  <2> QED
    BY <1>1, <1>2, <2>1, <2>2
<1>3. ASSUME UNCHANGED attempts PROVE Since(w, s)' = Since(w, s)
  BY <1>3 DEF Since
<1>4. ASSUME NEW r \in Slots, RecordWallet(r)
      PROVE  Cardinality(CountedIn(w, s)') <= Total(Since(w, s)')
  <2>1. /\ attempts' = Recorded(login[r].wallet, local[r].at)
        /\ stage[r] = "recordWallet" /\ stage' = [stage EXCEPT ![r] = "recordIp"]
        /\ UNCHANGED <<now, login, verified, result>>
    BY <1>4 DEF RecordWallet, Goto
  <2>2. result[r] = "none" /\ verified[r] <= local[r].at /\ started[r] >= 1
          /\ started[r] <= verified[r]
    BY <2>1 DEF Timed, Running, Attempting
  <2>3. local[r].at \in Times /\ login[r].wallet \in Wallets
    <3>1. local[r].at \in 0 .. now /\ verified[r] \in Nat /\ started[r] \in Nat /\ now <= MaxTime
      BY <1>t DEF IdentityTyped, IdentityTypeOK
    <3> QED
      BY <1>t, <2>2, <3>1, LoginTyped DEF Times
  <2>4. /\ Total(Since(w, s)) \in Nat /\ Total(Since(w, s)') \in Nat
        /\ Total(Since(w, s)') >= Total(Since(w, s))
        /\ w = login[r].wallet /\ local[r].at >= s
             => Total(Since(w, s)') = Total(Since(w, s)) + 1
    <3>1. now - Retention <= s
      BY <1>t, <1>0, <2>1
    <3> DEFINE k == login[r].wallet
               at == local[r].at
    <3>2. /\ k \in Wallets \cup Ips /\ w \in Wallets \cup Ips
          /\ at \in Times /\ attempts' = Recorded(k, at)
      BY <2>1, <2>3
    <3> HIDE DEF Recorded, k, at
    <3>3. /\ Total(Since(w, s)) \in Nat /\ Total(Since(w, s)') \in Nat
          /\ Total(Since(w, s)') >= Total(Since(w, s))
          /\ w = k /\ at >= s => Total(Since(w, s)') = Total(Since(w, s)) + 1
      BY <1>1, <3>1, <3>2, RecordedMore
    <3> QED
      BY <3>3 DEF k, at
  <2>5. CASE w = login[r].wallet /\ verified[r] >= s
    <3>1. CountedIn(w, s)' \subseteq CountedIn(w, s) \cup {r}
      BY <1>t, <2>1 DEF CountedIn, Attempting
    <3>2. r \notin CountedIn(w, s)
      BY <2>1, <2>2 DEF CountedIn, Attempting
    <3>3. IsFiniteSet(CountedIn(w, s)) /\ Cardinality(CountedIn(w, s)) \in Nat
      BY <1>1, SlotSets
    <3>4. Cardinality(CountedIn(w, s) \cup {r}) = Cardinality(CountedIn(w, s)) + 1
      BY <3>2, <3>3, FS_AddElement
    <3>5. /\ Cardinality(CountedIn(w, s)') \in Nat
          /\ Cardinality(CountedIn(w, s)') <= Cardinality(CountedIn(w, s) \cup {r})
      BY <1>1, <3>1, SlotSets
    <3>6. Cardinality(CountedIn(w, s)) <= Total(Since(w, s))
      BY <1>0, <2>1 DEF AttemptsCounted
    <3>7. local[r].at >= s
      BY <1>t, <1>1, <2>2, <2>3, <2>5
    <3> QED
      BY <2>4, <2>5, <3>3, <3>4, <3>5, <3>6, <3>7
  <2>6. CASE ~(w = login[r].wallet /\ verified[r] >= s)
    <3>1. CountedIn(w, s)' \subseteq CountedIn(w, s)
      BY <1>t, <2>1, <2>6 DEF CountedIn, Attempting
    <3> QED
      BY <1>2, <2>1, <2>4, <3>1
  <2> QED
    BY <2>5, <2>6
<1>5. ASSUME NEW r \in Slots, RecordIp(r)
      PROVE  Cardinality(CountedIn(w, s)') <= Total(Since(w, s)')
  <2>1. /\ attempts' = Recorded(login[r].ip, local[r].at)
        /\ stage[r] = "recordIp" /\ stage' = [stage EXCEPT ![r] = "readAttempts"]
        /\ UNCHANGED <<now, login, verified, result>>
    BY <1>5 DEF RecordIp, Goto
  <2>2. verified[r] <= local[r].at /\ started[r] >= 1 /\ started[r] <= verified[r]
    BY <2>1 DEF Timed, Running, Attempting
  <2>3. local[r].at \in Times /\ login[r].ip \in Ips
    <3>1. local[r].at \in 0 .. now /\ verified[r] \in Nat /\ started[r] \in Nat /\ now <= MaxTime
      BY <1>t DEF IdentityTyped, IdentityTypeOK
    <3> QED
      BY <1>t, <2>2, <3>1, LoginTyped DEF Times
  <2>4. /\ Total(Since(w, s)') \in Nat
        /\ Total(Since(w, s)') >= Total(Since(w, s))
    <3>1. now - Retention <= s
      BY <1>t, <1>0, <2>1
    <3> HIDE DEF Recorded
    <3> QED
      BY <1>1, <2>1, <2>3, <3>1, RecordedMore
  <2>5. CountedIn(w, s)' \subseteq CountedIn(w, s)
    BY <1>t, <2>1 DEF CountedIn, Attempting
  <2> QED
    BY <1>2, <2>1, <2>4, <2>5
<1>6. ASSUME NEW r \in Slots,
             \/ Send(r) \/ Verify(r) \/ ConsumeNonce(r) \/ ReadAttempts(r)
             \/ ReadBaseline(r) \/ Assess(r) \/ Answer(r) \/ Timeout(r) \/ Fallback(r)
      PROVE  Cardinality(CountedIn(w, s)') <= Total(Since(w, s)')
  <2>1. UNCHANGED <<now, attempts, login>>
    BY <1>6 DEF Send, Verify, ConsumeNonce, ReadAttempts, ReadBaseline, Assess, Answer,
                Timeout, Fallback, store
  <2>2. \A q \in Slots \ {r} : /\ stage'[q] = stage[q] /\ verified'[q] = verified[q]
                               /\ result'[q] = result[q]
    BY <1>t, <1>6 DEF Send, Verify, ConsumeNonce, ReadAttempts, ReadBaseline, Assess, Answer,
                Timeout, Fallback, Goto, Finish
  <2>3. r \in CountedIn(w, s)' => r \in CountedIn(w, s)
    <3>1. CASE Send(r) \/ Verify(r)
      <4>1. result[r] = "none"
        BY <3>1 DEF Send, Verify, Timed, Running
      <4>2. /\ stage'[r] \notin Attempting
            /\ result'[r] \in {"none", "BAD_REQUEST", "DENY"}
        BY <1>t, <3>1, <4>1 DEF Send, Verify, Goto, Finish, Attempting
      <4> QED
        BY <4>2 DEF CountedIn
    <3>2. CASE ConsumeNonce(r)
      <4>1. result[r] = "none"
        BY <3>2 DEF ConsumeNonce, Timed, Running
      <4>2. /\ stage'[r] \in {"recordWallet", "replied"}
            /\ result'[r] \in {"none", "DENY"}
        BY <1>t, <3>2, <4>1 DEF ConsumeNonce, Goto, Finish
      <4> QED
        BY <4>2 DEF CountedIn, Attempting
    <3>3. CASE ReadAttempts(r) \/ ReadBaseline(r) \/ Assess(r)
      BY <1>t, <3>3 DEF ReadAttempts, ReadBaseline, Assess, Goto, Finish, CountedIn,
                        Attempting
    <3>4. CASE Answer(r) \/ Timeout(r) \/ Fallback(r)
      BY <1>t, <3>4 DEF Answer, Timeout, Fallback, Goto, Finish, CountedIn, Attempting
    <3> QED
      BY <1>6, <3>1, <3>2, <3>3, <3>4
  <2>4. CountedIn(w, s)' \subseteq CountedIn(w, s)
    BY <2>1, <2>2, <2>3 DEF CountedIn
  <2> QED
    BY <1>1, <1>2, <1>3, <2>1, <2>4
<1>7. CASE Tick
  <2>1. /\ now' = now + 1
        /\ UNCHANGED <<attempts, login, stage, verified, result>>
    BY <1>7 DEF Tick, store
  <2>2. now - VelocityWindow <= s
    BY <1>t, <1>0, <1>1, <2>1
  <2>3. CountedIn(w, s)' = CountedIn(w, s)
    BY <2>1 DEF CountedIn
  <2> QED
    BY <1>3, <2>1, <2>2, <2>3 DEF AttemptsCounted
<1>8. CASE UNCHANGED vars
  <2>1. UNCHANGED <<now, attempts>> /\ CountedIn(w, s)' = CountedIn(w, s)
    BY <1>8 DEF vars, store, CountedIn
  <2> QED
    BY <1>0, <1>3, <2>1 DEF AttemptsCounted
<1> QED
  BY <1>4, <1>5, <1>6, <1>7, <1>8 DEF Next, Proceed

\* An assessment that has recorded its attempt counts it, and with it every
\* other one verified since a moment in its window.
LEMMA CountCovers ==
  ASSUME IdentityTyped, AttemptsCounted, NEW w \in Wallets, NEW s \in Times,
         now - VelocityWindow <= s
  PROVE  /\ RecentAttempts(w) \in Nat
         /\ Cardinality(CountedIn(w, s)) <= RecentAttempts(w)
<1> DEFINE f == Since(w, s)
           g == Since(w, now - VelocityWindow)
<1>t. /\ attempts \in [Wallets \cup Ips -> [Times -> Nat]] /\ MaxTime \in Nat
      /\ Times \subseteq Nat /\ now - VelocityWindow \in Int /\ s \in Int
  BY IdentityConstants DEF IdentityTyped, IdentityTypeOK, Times
<1>1. /\ IsFiniteSet(Times) /\ f \in [Times -> Nat] /\ g \in [Times -> Nat]
      /\ Total(f) \in Nat /\ Total(g) \in Nat
  BY <1>t, SinceTyped
<1>2. \A t \in Times : attempts[w][t] \in Nat
  BY <1>t
<1>3. \A t \in Times : f[t] <= g[t]
  BY <1>t, <1>2 DEF Since
<1>4. Cardinality(CountedIn(w, s)) <= Total(f)
  BY DEF AttemptsCounted
<1>5. Cardinality(CountedIn(w, s)) \in Nat
  BY SlotSets DEF CountedIn
<1> HIDE DEF f, g
<1>6. Total(f) <= Total(g)
  BY <1>1, <1>3, TotalMonotone
<1>7. RecentAttempts(w) = Total(g)
  BY DEF RecentAttempts, g
<1> QED
  BY <1>1, <1>4, <1>5, <1>6, <1>7

\* Every step keeps within the limit.
LEMMA LimitStep ==
  ASSUME IdentityTyped, Timed, VelocityInv, [Next]_vars
  PROVE  WithinLimit'
<1>t. /\ now \in Nat /\ now \in Times /\ MaxTime \in Nat /\ Times \subseteq Nat
      /\ VelocityWindow \in Nat /\ RequestTimeout \in Nat /\ MaxAttempts \in Nat
      /\ login \in [Slots -> Logins]
      /\ stage \in [Slots -> Running \cup {"unsent", "replied", "answered"}]
      /\ started \in [Slots -> 0 .. now]
      /\ verified \in [Slots -> 0 .. now]
      /\ result \in [Slots -> Outcomes]
      /\ local \in [Slots -> [at : 0 .. now, count : Nat, baseline : Baseline]]
  BY IdentityConstants DEF IdentityTyped, IdentityTypeOK, Times
<1>0. SUFFICES ASSUME NEW w \in Wallets, NEW s \in Times
               PROVE  Cardinality(UnflaggedSoFar(w, s)') <= MaxAttempts
  BY DEF WithinLimit
<1>1. /\ UnflaggedSoFar(w, s) \in SUBSET Slots
      /\ UnflaggedSoFar(w, s)' \in SUBSET Slots
      /\ Cardinality(UnflaggedSoFar(w, s)) <= MaxAttempts
  BY DEF UnflaggedSoFar, VelocityInv, WithinLimit
<1>2. ASSUME UnflaggedSoFar(w, s)' \subseteq UnflaggedSoFar(w, s)
      PROVE  Cardinality(UnflaggedSoFar(w, s)') <= MaxAttempts
  BY <1>1, <1>2, <1>t, SlotSets
<1>3. ASSUME NEW r \in Slots, ReadAttempts(r)
      PROVE  Cardinality(UnflaggedSoFar(w, s)') <= MaxAttempts
  <2>1. /\ stage[r] = "readAttempts" /\ stage' = [stage EXCEPT ![r] = "readBaseline"]
        /\ local' = [local EXCEPT ![r].count = RecentAttempts(login[r].wallet)]
        /\ UNCHANGED <<now, login, verified, result>>
    BY <1>3 DEF ReadAttempts, Goto
  <2>2. UnflaggedSoFar(w, s)' \subseteq UnflaggedSoFar(w, s) \cup {r}
    BY <1>t, <2>1 DEF UnflaggedSoFar, VelocityAbuse
  <2>3. CASE r \notin UnflaggedSoFar(w, s)'
    BY <1>2, <2>2, <2>3
  <2>4. CASE r \in UnflaggedSoFar(w, s)'
    <3>1. /\ login[r].wallet = w
          /\ verified[r] \in s .. (s + VelocityWindow - RequestTimeout)
          /\ ~(local'[r].count > MaxAttempts)
      BY <2>1, <2>4 DEF UnflaggedSoFar, VelocityAbuse
    <3>2. local'[r].count = RecentAttempts(w)
      BY <1>t, <2>1, <3>1
    <3>3. /\ started[r] <= verified[r] /\ now <= started[r] + RequestTimeout
      BY <2>1 DEF Timed, Running
    <3>4. now - VelocityWindow <= s
      <4>1. /\ started[r] \in Nat /\ verified[r] \in Nat /\ s \in Nat
            /\ verified[r] <= s + VelocityWindow - RequestTimeout
        BY <1>t, <3>1
      <4> QED
        BY <1>t, <3>3, <4>1
    <3>5. /\ RecentAttempts(w) \in Nat
          /\ Cardinality(CountedIn(w, s)) <= RecentAttempts(w)
      BY <3>4, CountCovers DEF VelocityInv
    <3>6. UnflaggedSoFar(w, s)' \subseteq CountedIn(w, s)
      <4>1. UnflaggedSoFar(w, s) \subseteq CountedIn(w, s)
        BY <1>t DEF UnflaggedSoFar, CountedIn, Attempting
      <4>2. r \in CountedIn(w, s)
        BY <1>t, <2>1, <3>1 DEF CountedIn, Attempting
      <4> QED
        BY <2>2, <4>1, <4>2
    <3>7. /\ CountedIn(w, s) \in SUBSET Slots
          /\ Cardinality(UnflaggedSoFar(w, s)') \in Nat
          /\ Cardinality(CountedIn(w, s)) \in Nat
          /\ Cardinality(UnflaggedSoFar(w, s)') <= Cardinality(CountedIn(w, s))
      <4>1. CountedIn(w, s) \in SUBSET Slots
        BY DEF CountedIn
      <4> QED
        BY <3>6, <4>1, SlotSets
    <3> QED
      BY <1>t, <3>1, <3>2, <3>5, <3>7
  <2> QED
    BY <2>3, <2>4
<1>4. ASSUME NEW r \in Slots,
             \/ Send(r) \/ Verify(r) \/ ConsumeNonce(r) \/ RecordWallet(r) \/ RecordIp(r)
             \/ ReadBaseline(r) \/ Assess(r) \/ Answer(r) \/ Timeout(r) \/ Fallback(r)
      PROVE  Cardinality(UnflaggedSoFar(w, s)') <= MaxAttempts
  <2>1. UNCHANGED login
    BY <1>4 DEF Send, Verify, ConsumeNonce, RecordWallet, RecordIp, ReadBaseline, Assess,
                Answer, Timeout, Fallback, store
  <2>2. \A q \in Slots \ {r} : /\ stage'[q] = stage[q] /\ verified'[q] = verified[q]
                               /\ result'[q] = result[q]
    BY <1>t, <1>4 DEF Send, Verify, ConsumeNonce, RecordWallet, RecordIp, ReadBaseline,
                      Assess, Answer, Timeout, Fallback, Goto, Finish
  <2>3. \A q \in Slots : local'[q].count = local[q].count
    <3>1. CASE ConsumeNonce(r) \/ ReadBaseline(r)
      <4>1. \A q \in Slots :
              local[q] \in [at : 0 .. now, count : Nat, baseline : Baseline]
        BY <1>t
      <4>2. \/ local' = local
            \/ local' = [local EXCEPT ![r] = [local[r] EXCEPT !.at = now]]
            \/ local' = [local EXCEPT ![r] = [local[r] EXCEPT
                                               !.baseline = baselines[login[r].wallet]]]
        BY <3>1 DEF ConsumeNonce, ReadBaseline
      <4> QED
        BY <1>t, <4>1, <4>2
    <3>2. CASE ~(ConsumeNonce(r) \/ ReadBaseline(r))
      BY <1>4, <3>2 DEF Send, Verify, RecordWallet, RecordIp, Assess, Answer, Timeout,
                        Fallback
    <3> QED
      BY <3>1, <3>2
  <2>4. r \in UnflaggedSoFar(w, s)' => r \in UnflaggedSoFar(w, s)
    <3>1. CASE Send(r) \/ Verify(r) \/ ConsumeNonce(r)
      <4>1. result[r] = "none"
        BY <3>1 DEF Send, Verify, ConsumeNonce, Timed, Running
      <4>2. /\ stage'[r] \in {"verify", "consume", "recordWallet", "replied"}
            /\ result'[r] \in {"none", "BAD_REQUEST", "DENY"}
        BY <1>t, <3>1, <4>1 DEF Send, Verify, ConsumeNonce, Goto, Finish
      <4> QED
        BY <4>2 DEF UnflaggedSoFar
    <3>2. CASE RecordWallet(r) \/ RecordIp(r)
      BY <1>t, <3>2 DEF RecordWallet, RecordIp, Goto, UnflaggedSoFar
    <3>3. CASE ReadBaseline(r) \/ Assess(r)
      <4>1. stage[r] \in {"readBaseline", "assess"} /\ verified'[r] = verified[r]
        BY <3>3 DEF ReadBaseline, Assess
      <4> QED
        BY <2>1, <2>3, <4>1 DEF UnflaggedSoFar, VelocityAbuse
    <3>4. CASE Answer(r) \/ Timeout(r) \/ Fallback(r)
      <4>1. /\ verified'[r] = verified[r]
            /\ stage'[r] \in {"replied", "answered"}
            /\ result'[r] \in {"ALLOW", "STEP_UP"} => result'[r] = result[r]
        BY <1>t, <3>4 DEF Answer, Timeout, Fallback, Goto, Finish
      <4> QED
        BY <2>1, <2>3, <4>1 DEF UnflaggedSoFar, VelocityAbuse
    <3> QED
      BY <1>4, <3>1, <3>2, <3>3, <3>4
  <2>5. UnflaggedSoFar(w, s)' \subseteq UnflaggedSoFar(w, s)
    BY <2>1, <2>2, <2>3, <2>4 DEF UnflaggedSoFar, VelocityAbuse
  <2> QED
    BY <1>2, <2>5
<1>5. CASE Tick \/ UNCHANGED vars
  <2>1. UNCHANGED <<login, stage, verified, local, result>>
    BY <1>5 DEF Tick, vars
  <2>2. UnflaggedSoFar(w, s)' = UnflaggedSoFar(w, s)
    BY <2>1 DEF UnflaggedSoFar, VelocityAbuse
  <2> QED
    BY <1>1, <2>2
<1> QED
  BY <1>3, <1>4, <1>5 DEF Next, Proceed

\* No more logins of a wallet than the limit pass without its flag in any
\* window, however many are assessed at once.
THEOREM VelocityLimited == Spec => []VelocityLimit
<1>1. ASSUME Init PROVE IdentityTyped /\ Timed /\ VelocityInv
  <2>1. /\ \A w \in Wallets, s \in Times : CountedIn(w, s) = {} /\ UnflaggedSoFar(w, s) = {}
        /\ MaxAttempts \in Nat /\ MaxTime \in Nat
    BY <1>1, IdentityConstants DEF Init, CountedIn, UnflaggedSoFar, Attempting
  <2>2. IdentityTyped /\ Timed
    BY <1>1, IdentityTypedInit, TimedInit
  <2>3. \A w \in Wallets, s \in Times : Total(Since(w, s)) \in Nat
    BY <2>1, <2>2, SinceTyped DEF IdentityTyped, IdentityTypeOK, Times
  <2> QED
    BY <2>1, <2>2, <2>3, FS_EmptySet DEF VelocityInv, AttemptsCounted, WithinLimit
<1>2. IdentityTyped /\ Timed /\ VelocityInv /\ [Next]_vars
        => (IdentityTyped /\ Timed /\ VelocityInv)'
  BY IdentityTypedStep, TimedStep, AttemptsStep, LimitStep DEF VelocityInv
<1>3. ASSUME IdentityTyped, VelocityInv PROVE VelocityLimit
  <2>1. ASSUME NEW w \in Wallets, NEW s \in Times
        PROVE  Cardinality(Unflagged(w, s .. (s + VelocityWindow - RequestTimeout)))
                 <= MaxAttempts
    <3> DEFINE A == Unflagged(w, s .. (s + VelocityWindow - RequestTimeout))
    <3>1. A \in SUBSET UnflaggedSoFar(w, s) /\ UnflaggedSoFar(w, s) \in SUBSET Slots
      BY DEF Unflagged, UnflaggedSoFar
    <3>2. Cardinality(UnflaggedSoFar(w, s)) <= MaxAttempts /\ MaxAttempts \in Nat
      BY <1>3, IdentityConstants DEF VelocityInv, WithinLimit
    <3> HIDE DEF A
    <3>3. /\ Cardinality(A) \in Nat /\ Cardinality(UnflaggedSoFar(w, s)) \in Nat
          /\ Cardinality(A) <= Cardinality(UnflaggedSoFar(w, s))
      BY <3>1, SlotSets
    <3> QED
      BY <3>2, <3>3 DEF A
  <2> QED
    BY <2>1 DEF VelocityLimit, Times
<1> QED
  BY <1>1, <1>2, <1>3, PTL DEF Spec

----------------------------------------------------------------------------
(* The cold start.                                                         *)

ColdInv ==
  /\ ColdStartNotShortened
  /\ \A r \in Slots :
       /\ stage[r] \in {"readBaseline", "assess"} => local[r].count > 0
       /\ stage[r] = "assess" =>
            local[r].baseline.loginCount <= Cardinality(Assessed(login[r].wallet))

\* The assessed logins are only ever added to.
LEMMA AssessedKept ==
  ASSUME IdentityTyped, Timed, [Next]_vars, NEW w
  PROVE  Assessed(w) \subseteq Assessed(w)'
BY FinishedKept DEF Assessed

\* Every step keeps a baseline's count within the logins that were assessed.
LEMMA ColdStep ==
  ASSUME IdentityTyped, Timed, VelocityInv, ColdInv, [Next]_vars
  PROVE  ColdInv'
<1>t. /\ now \in Nat /\ now \in Times /\ MaxTime \in Nat /\ Times \subseteq Nat
      /\ VelocityWindow \in Nat /\ RequestTimeout \in Nat /\ RequestTimeout < VelocityWindow
      /\ login \in [Slots -> Logins] /\ \A r \in Slots : login[r].wallet \in Wallets
      /\ stage \in [Slots -> Running \cup {"unsent", "replied", "answered"}]
      /\ started \in [Slots -> 0 .. now]
      /\ verified \in [Slots -> 0 .. now]
      /\ result \in [Slots -> Outcomes]
      /\ baselines \in [Wallets -> Baseline]
      /\ local \in [Slots -> [at : 0 .. now, count : Nat, baseline : Baseline]]
  BY LoginTyped, IdentityConstants DEF IdentityTyped, IdentityTypeOK, Times
<1>c. /\ \A b \in Baseline : b.loginCount \in Nat
      /\ \A w \in Wallets : baselines[w].loginCount \in Nat
      /\ \A r \in Slots : local[r].baseline.loginCount \in Nat
  <2>1. \A b \in Baseline : b.loginCount \in Nat
    BY DEF Baseline
  <2>2. \A r \in Slots : local[r].baseline \in Baseline
    BY <1>t
  <2> QED
    BY <1>t, <2>1, <2>2
<1>0. login' = login
  BY DEF Next, Proceed, Send, Verify, ConsumeNonce, RecordWallet, RecordIp, ReadAttempts,
         ReadBaseline, Assess, Answer, Timeout, Fallback, Tick, vars, store
<1>1. \A w : /\ Cardinality(Assessed(w)) \in Nat /\ Cardinality(Assessed(w)') \in Nat
             /\ Cardinality(Assessed(w)) <= Cardinality(Assessed(w)')
  <2>1. \A w : /\ Assessed(w) \in SUBSET Assessed(w)'
               /\ Assessed(w)' \in SUBSET Slots
    BY AssessedKept DEF Assessed
  <2> QED
    BY <2>1, SlotSets
<1>2. ASSUME UNCHANGED baselines,
             \A r \in Slots :
               /\ stage'[r] \in {"readBaseline", "assess"} => local'[r].count > 0
               /\ stage'[r] = "assess" =>
                    \/ stage[r] = "assess" /\ local'[r].baseline = local[r].baseline
                    \/ local'[r].baseline = baselines[login[r].wallet]
      PROVE  ColdInv'
  <2>1. \A w \in Wallets : baselines[w].loginCount <= Cardinality(Assessed(w)')
    BY <1>c, <1>1 DEF ColdInv, ColdStartNotShortened
  <2>2. ASSUME NEW r \in Slots, stage'[r] = "assess"
        PROVE  local'[r].baseline.loginCount <= Cardinality(Assessed(login[r].wallet)')
    <3> PICK w \in Wallets : w = login[r].wallet
      BY <1>t
    <3>w. Assessed(login[r].wallet)' = Assessed(w)'
      BY <1>0
    <3>1. CASE stage[r] = "assess" /\ local'[r].baseline = local[r].baseline
      <4>1. local[r].baseline.loginCount <= Cardinality(Assessed(w))
        BY <3>1 DEF ColdInv
      <4>2. local[r].baseline.loginCount <= Cardinality(Assessed(w)')
        BY <1>c, <1>1, <4>1
      <4> QED
        BY <3>w, <3>1, <4>2
    <3>2. CASE local'[r].baseline = baselines[login[r].wallet]
      <4>1. local'[r].baseline.loginCount <= Cardinality(Assessed(w)')
        BY <2>1, <3>2
      <4> QED
        BY <3>w, <4>1
    <3> QED
      BY <1>2, <2>2, <3>1, <3>2
  <2> QED
    BY <1>0, <1>2, <2>1, <2>2 DEF ColdInv, ColdStartNotShortened
<1>3. ASSUME NEW r \in Slots, ReadAttempts(r) PROVE ColdInv'
  <2>1. /\ stage[r] = "readAttempts" /\ stage' = [stage EXCEPT ![r] = "readBaseline"]
        /\ local' = [local EXCEPT ![r].count = RecentAttempts(login[r].wallet)]
        /\ UNCHANGED baselines
    BY <1>3 DEF ReadAttempts, Goto, store
  <2>2. /\ 1 <= started[r] /\ started[r] <= verified[r]
        /\ now <= started[r] + RequestTimeout
    BY <2>1 DEF Timed, Running
  <2>3. verified[r] \in Times /\ now - VelocityWindow <= verified[r]
    <3>1. /\ started[r] \in Nat /\ verified[r] \in Nat /\ verified[r] <= now /\ now <= MaxTime
      BY <1>t DEF Times
    <3> QED
      BY <1>t, <2>2, <3>1 DEF Times
  <2>4. /\ RecentAttempts(login[r].wallet) \in Nat
        /\ Cardinality(CountedIn(login[r].wallet, verified[r])) <= RecentAttempts(login[r].wallet)
    BY <1>t, <2>3, CountCovers DEF VelocityInv
  <2>5. Cardinality(CountedIn(login[r].wallet, verified[r])) >= 1
    <3>1. {r} \in SUBSET CountedIn(login[r].wallet, verified[r])
      BY <1>t, <2>1, <2>3 DEF CountedIn, Attempting
    <3>2. CountedIn(login[r].wallet, verified[r]) \in SUBSET Slots
      BY DEF CountedIn
    <3> QED
      BY <3>1, <3>2, SlotSets, FS_Singleton
  <2>6. RecentAttempts(login[r].wallet) > 0
    <3>1. Cardinality(CountedIn(login[r].wallet, verified[r])) \in Nat
      BY SlotSets DEF CountedIn
    <3> QED
      BY <2>4, <2>5, <3>1
  <2>7. \A q \in Slots : /\ local'[q].baseline = local[q].baseline
                         /\ q # r => local'[q] = local[q] /\ stage'[q] = stage[q]
    BY <1>t, <2>1
  <2>8. local'[r].count > 0 /\ stage'[r] = "readBaseline"
    BY <1>t, <2>1, <2>6
  <2> QED
    BY <1>2, <2>1, <2>7, <2>8 DEF ColdInv
<1>4. ASSUME NEW r \in Slots, ReadBaseline(r) PROVE ColdInv'
  <2>1. /\ stage[r] = "readBaseline" /\ stage' = [stage EXCEPT ![r] = "assess"]
        /\ local' = [local EXCEPT ![r].baseline = baselines[login[r].wallet]]
        /\ UNCHANGED baselines
    BY <1>4 DEF ReadBaseline, Goto, store
  <2>2. \A q \in Slots : /\ local'[q].count = local[q].count
                         /\ q # r => local'[q] = local[q] /\ stage'[q] = stage[q]
    BY <1>t, <2>1
  <2>3. local'[r].baseline = baselines[login[r].wallet]
    BY <1>t, <2>1
  <2> QED
    BY <1>2, <2>1, <2>2, <2>3 DEF ColdInv
<1>5. ASSUME NEW r \in Slots, Assess(r) PROVE ColdInv'
  <2> PICK w \in Wallets : w = login[r].wallet
    BY <1>t
  <2> DEFINE written == WithLogin(local[r].baseline, login[r], verified[r])
  <2>1. /\ stage[r] = "assess" /\ stage' = [stage EXCEPT ![r] = "replied"]
        /\ baselines' = [baselines EXCEPT ![w] = written]
        /\ UNCHANGED local
        /\ result'[r] \in {"ALLOW", "STEP_UP", "DENY"}
    BY <1>t, <1>5 DEF Assess, Finish, Goto, Decision
  <2>2. written.loginCount = local[r].baseline.loginCount + 1
    <3>1. /\ local[r].baseline \in Baseline /\ DevicesListed(local[r].baseline.devices)
          /\ verified[r] \in Nat
      BY <1>t DEF IdentityTyped
    <3> QED
      BY <3>1, LoginTyped, BaselineKept
  <2>3. Cardinality(Assessed(w)') >= Cardinality(Assessed(w)) + 1
    <3>1. r \notin Assessed(w)
      BY <2>1 DEF Assessed, Timed, Running
    <3>2. r \in Assessed(w)'
      BY <1>0, <2>1 DEF Assessed, ColdInv
    <3>3. /\ Assessed(w) \cup {r} \in SUBSET Assessed(w)'
          /\ Assessed(w)' \in SUBSET Slots /\ Assessed(w) \in SUBSET Slots
      <4>1. Assessed(w) \subseteq Assessed(w)'
        BY AssessedKept
      <4>2. Assessed(w) \subseteq Slots /\ Assessed(w)' \subseteq Slots
        BY DEF Assessed
      <4> QED
        BY <3>2, <4>1, <4>2
    <3>4. /\ IsFiniteSet(Assessed(w))
          /\ Cardinality(Assessed(w) \cup {r}) <= Cardinality(Assessed(w)')
      BY <3>3, SlotSets
    <3>5. Cardinality(Assessed(w) \cup {r}) = Cardinality(Assessed(w)) + 1
      BY <3>1, <3>4, FS_AddElement
    <3> QED
      BY <3>4, <3>5
  <2>4. local[r].baseline.loginCount <= Cardinality(Assessed(w))
    BY <2>1 DEF ColdInv
  <2> HIDE DEF written
  <2>5. \A v \in Wallets : baselines'[v].loginCount <= Cardinality(Assessed(v)')
    <3>1. ASSUME NEW v \in Wallets, v = w
          PROVE  baselines'[v].loginCount <= Cardinality(Assessed(v)')
      <4>1. baselines'[v] = written
        BY <1>t, <2>1, <3>1
      <4>2. /\ Cardinality(Assessed(w)) \in Nat /\ Cardinality(Assessed(w)') \in Nat
            /\ local[r].baseline.loginCount \in Nat
        BY <1>c, <1>1
      <4>3. local[r].baseline.loginCount + 1 <= Cardinality(Assessed(w)')
        BY <2>3, <2>4, <4>2
      <4> QED
        BY <2>2, <3>1, <4>1, <4>3
    <3>2. ASSUME NEW v \in Wallets, v # w
          PROVE  baselines'[v].loginCount <= Cardinality(Assessed(v)')
      <4>1. baselines'[v] = baselines[v]
        BY <1>t, <2>1, <3>2
      <4> QED
        BY <1>c, <1>1, <4>1 DEF ColdInv, ColdStartNotShortened
    <3> QED
      BY <3>1, <3>2
  <2>6. ASSUME NEW q \in Slots, stage'[q] \in {"readBaseline", "assess"}
        PROVE  /\ local'[q].count > 0
               /\ stage'[q] = "assess" =>
                    local'[q].baseline.loginCount <= Cardinality(Assessed(login[q].wallet)')
    <3>1. stage[q] = stage'[q]
      BY <1>t, <2>1, <2>6
    <3> QED
      <4>1. local'[q] = local[q]
        BY <2>1
      <4>2. local[q].count > 0
        BY <2>6, <3>1 DEF ColdInv
      <4>3. stage[q] = "assess" =>
              local[q].baseline.loginCount <= Cardinality(Assessed(login[q].wallet)')
        <5> PICK v \in Wallets : v = login[q].wallet
          BY <1>t
        <5>1. Assessed(login[q].wallet)' = Assessed(v)'
          BY <1>0
        <5>2. stage[q] = "assess" => local[q].baseline.loginCount <= Cardinality(Assessed(v))
          BY DEF ColdInv
        <5>3. stage[q] = "assess" => local[q].baseline.loginCount <= Cardinality(Assessed(v)')
          BY <1>c, <1>1, <5>2
        <5> QED
          BY <5>1, <5>3
      <4> QED
        BY <3>1, <4>1, <4>2, <4>3
  <2> QED
    BY <1>0, <2>5, <2>6 DEF ColdInv, ColdStartNotShortened
<1>6. ASSUME NEW r \in Slots,
             \/ Send(r) \/ Verify(r) \/ ConsumeNonce(r) \/ RecordWallet(r) \/ RecordIp(r)
             \/ Answer(r) \/ Timeout(r) \/ Fallback(r)
      PROVE  ColdInv'
  <2>1. UNCHANGED baselines
    BY <1>6 DEF Send, Verify, ConsumeNonce, RecordWallet, RecordIp, Answer, Timeout,
                Fallback, store
  <2>2. /\ stage'[r] \notin {"readBaseline", "assess"}
        /\ \A q \in Slots \ {r} : stage'[q] = stage[q]
    BY <1>t, <1>6 DEF Send, Verify, ConsumeNonce, RecordWallet, RecordIp, Answer, Timeout,
                Fallback, Goto, Finish
  <2>3. \A q \in Slots \ {r} : local'[q] = local[q]
    BY <1>t, <1>6 DEF Send, Verify, ConsumeNonce, RecordWallet, RecordIp, Answer, Timeout,
                Fallback
  <2> QED
    BY <1>2, <2>1, <2>2, <2>3 DEF ColdInv
<1>7. CASE Tick \/ UNCHANGED vars
  <2>1. UNCHANGED <<baselines, stage, local>>
    BY <1>7 DEF Tick, vars, store
  <2> QED
    BY <1>2, <2>1 DEF ColdInv
<1> QED
  BY <1>3, <1>4, <1>5, <1>6, <1>7 DEF Next, Proceed

\* A baseline never counts more logins than were assessed, so no race ends the
\* cold start of a wallet early.
THEOREM ColdStartKept == Spec => []ColdStartNotShortened
<1>1. ASSUME Init PROVE IdentityTyped /\ Timed /\ VelocityInv /\ ColdInv
  <2>1. /\ \A w \in Wallets, s \in Times : CountedIn(w, s) = {} /\ UnflaggedSoFar(w, s) = {}
        /\ MaxAttempts \in Nat /\ MaxTime \in Nat
    BY <1>1, IdentityConstants DEF Init, CountedIn, UnflaggedSoFar, Attempting
  <2>2. IdentityTyped /\ Timed
    BY <1>1, IdentityTypedInit, TimedInit
  <2>3. \A w \in Wallets, s \in Times : Total(Since(w, s)) \in Nat
    BY <2>1, <2>2, SinceTyped DEF IdentityTyped, IdentityTypeOK, Times
  <2>4. VelocityInv
    BY <2>1, <2>2, <2>3, FS_EmptySet DEF VelocityInv, AttemptsCounted, WithinLimit
  <2>5. \A w \in Wallets : Assessed(w) = {} /\ baselines[w].loginCount = 0
    BY <1>1 DEF Init, Assessed, EmptyBaseline
  <2>6. ColdInv
    <3>1. \A r \in Slots : stage[r] = "unsent"
      BY <1>1 DEF Init
    <3>2. ColdStartNotShortened
      <4>1. ASSUME NEW w \in Wallets PROVE baselines[w].loginCount <= Cardinality(Assessed(w))
        BY <2>5, FS_EmptySet
      <4> QED
        BY <4>1 DEF ColdStartNotShortened
    <3> QED
      BY <3>1, <3>2 DEF ColdInv
  <2> QED
    BY <2>2, <2>4, <2>6
<1>2. IdentityTyped /\ Timed /\ VelocityInv /\ ColdInv /\ [Next]_vars
        => (IdentityTyped /\ Timed /\ VelocityInv /\ ColdInv)'
  BY IdentityTypedStep, TimedStep, AttemptsStep, LimitStep, ColdStep DEF VelocityInv
<1>3. ColdInv => ColdStartNotShortened
  BY DEF ColdInv
<1> QED
  BY <1>1, <1>2, <1>3, PTL DEF Spec
=============================================================================
