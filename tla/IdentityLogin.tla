--------------------------- MODULE IdentityLogin ----------------------------
(***************************************************************************)
(* Wallet logins: the proxy of frontend/app/api/siem/ingest/wallet-login,  *)
(* the HTTP service of crates/auditx-identity-http and assess_wallet_login *)
(* of crates/auditx-identity on its in-memory store.  Logins are assessed  *)
(* concurrently; a step of an assessment ends at an await on the store, and*)
(* the service's timeout may drop an assessment at any of them, with what  *)
(* it has written so far.  The on-chain age lookup always answers None, so *)
(* FreshWalletFirstLogin is never raised and the age cache stays empty; the*)
(* service runs without an alert manager.                                  *)
(***************************************************************************)
EXTENDS Integers, Sequences, SequencesExt, Sums

CONSTANTS
  Slots,            \* login requests in flight
  Logins,           \* what they send: the records of Login below
  Wallets, Nonces, Ips, Devices, Places,
  NoPlace,          \* a login without geo_hint
  NoTime,           \* last_login_time of an empty baseline
  BadWallets,       \* wallets on the threat feeds
  NonceTtl,         \* nonce_ttl_secs
  VelocityWindow,   \* VELOCITY_WINDOW_SECS
  MaxAttempts,      \* MAX_LOGIN_ATTEMPTS_PER_WINDOW
  Retention,        \* the hour record_attempt() keeps timestamps
  TravelTime,       \* time the fastest flight takes between two places
  ColdStart,        \* COLD_START_THRESHOLD
  MaxDevices,       \* MAX_RECENT_DEVICES
  RequestTimeout,   \* REQUEST_TIMEOUT_MS
  MaxTime           \* bound on the clock

\* A login's message is wellFormed if it parses, names the domain and has an
\* expiration time; it is valid `from' .. `until', and signed by the wallet.
Login == [nonce : Nonces, wallet : Wallets, ip : Ips, device : Devices,
          place : Places \cup {NoPlace}, from : Nat, until : Nat,
          wellFormed : BOOLEAN, signed : BOOLEAN]

ASSUME IdentityConstants ==
  /\ IsFiniteSet(Slots)
  /\ Logins \subseteq Login
  /\ BadWallets \subseteq Wallets
  /\ NoPlace \notin Places
  /\ NoTime \notin Nat
  /\ NonceTtl \in Nat /\ MaxAttempts \in Nat /\ ColdStart \in Nat
  /\ TravelTime \in Nat /\ MaxDevices \in Nat \ {0}
  /\ RequestTimeout \in Nat
  /\ VelocityWindow \in Nat /\ Retention \in Nat
  /\ VelocityWindow <= Retention /\ RequestTimeout < VelocityWindow
  /\ MaxTime \in Nat \ {0}

VARIABLES
  now,         \* Utc::now()
  expiry,      \* store.nonces: nonce -> expires_at, 0 when absent
  attempts,    \* store.attempts: wallet or ip -> time -> how many
  baselines,   \* store.baselines: wallet -> baseline
  login,       \* slot -> the login it carries
  stage,       \* slot -> where its assessment waits
  started,     \* slot -> when its request arrived
  verified,    \* slot -> the timestamp of its verification
  local,       \* slot -> the assessment's own [at, count, baseline]
  result,      \* slot -> the service's answer
  answer,      \* slot -> the proxy's answer to the browser
  consumed     \* history: the nonces consumed, [nonce, at]

store == <<expiry, attempts, baselines>>
vars == <<now, store, login, stage, started, verified, local, result, answer,
          consumed>>

Times == 1 .. MaxTime

EmptyBaseline ==
  [loginCount |-> 0, devices |-> <<>>, place |-> NoPlace, lastLogin |-> NoTime]

Init ==
  /\ now = 1
  /\ expiry = [n \in Nonces |-> 0]
  /\ attempts = [k \in Wallets \cup Ips |-> [t \in Times |-> 0]]
  /\ baselines = [w \in Wallets |-> EmptyBaseline]
  /\ login \in [Slots -> Logins]
  /\ stage = [r \in Slots |-> "unsent"]
  /\ started = [r \in Slots |-> 0]
  /\ verified = [r \in Slots |-> 0]
  /\ local = [r \in Slots |-> [at |-> 0, count |-> 0, baseline |-> EmptyBaseline]]
  /\ result = [r \in Slots |-> "none"]
  /\ answer = [r \in Slots |-> "none"]
  /\ consumed = <<>>

Running == {"verify", "consume", "recordWallet", "recordIp", "readAttempts",
            "readBaseline", "assess"}

Goto(r, s) == stage' = [stage EXCEPT ![r] = s]

Finish(r, outcome) ==
  /\ result' = [result EXCEPT ![r] = outcome]
  /\ Goto(r, "replied")

\* The proxy forwards the login.
Send(r) ==
  /\ stage[r] = "unsent"
  /\ started' = [started EXCEPT ![r] = now]
  /\ Goto(r, "verify")
  /\ UNCHANGED <<now, store, login, verified, local, result, answer, consumed>>

InForce(m) == m.wellFormed /\ now <= m.until /\ now >= m.from

\* verify_siwe_login() up to its await: refused with an error or a DENY, or on
\* to the nonce.
Verify(r) ==
  /\ stage[r] = "verify"
  /\ \/ ~InForce(login[r]) /\ Finish(r, "BAD_REQUEST")
     \/ InForce(login[r]) /\ ~login[r].signed /\ Finish(r, "DENY")
     \/ InForce(login[r]) /\ login[r].signed /\ Goto(r, "consume") /\ UNCHANGED result
  /\ verified' = [verified EXCEPT ![r] = now]
  /\ UNCHANGED <<now, store, login, started, local, answer, consumed>>

\* consume_nonce(): is the nonce refused?  The mutation compares the expiry
\* the wrong way round.
Expired(n) == expiry[n] # 0 /\ expiry[n] <= now
Remembered(n) == expiry[n] > now

\* The attempt's timestamp is taken before its lock is waited for.
ConsumeNonce(r) ==
  LET n == login[r].nonce IN
  /\ stage[r] = "consume"
  /\ \/ /\ Remembered(n)
        /\ Finish(r, "DENY")
        /\ UNCHANGED <<expiry, consumed, local>>
     \/ /\ ~Remembered(n)
        /\ expiry' = [expiry EXCEPT ![n] = now + NonceTtl]
        /\ consumed' = Append(consumed, [nonce |-> n, at |-> now])
        /\ local' = [local EXCEPT ![r].at = now]
        /\ Goto(r, "recordWallet")
        /\ UNCHANGED result
  /\ UNCHANGED <<now, attempts, baselines, login, started, verified, answer>>

\* record_attempt() for a wallet or an ip; what is older than an hour goes.
Recorded(k, at) ==
  [attempts EXCEPT ![k] = [t \in Times |->
     IF t >= now - Retention THEN @[t] + (IF t = at THEN 1 ELSE 0) ELSE 0]]

RecordWallet(r) ==
  /\ stage[r] = "recordWallet"
  /\ attempts' = Recorded(login[r].wallet, local[r].at)
  /\ Goto(r, "recordIp")
  /\ UNCHANGED <<now, expiry, baselines, login, started, verified, local, result,
                 answer, consumed>>

RecordIp(r) ==
  /\ stage[r] = "recordIp"
  /\ attempts' = Recorded(login[r].ip, local[r].at)
  /\ Goto(r, "readAttempts")
  /\ UNCHANGED <<now, expiry, baselines, login, started, verified, local, result,
                 answer, consumed>>

\* recent_attempts(); the mutation leaves out the oldest moment of the window.
Since(k, s) == [t \in Times |-> IF t >= s THEN attempts[k][t] ELSE 0]
StrictWindow(k) == Total(Since(k, now - VelocityWindow + 1))
RecentAttempts(k) == Total(Since(k, now - VelocityWindow))

\* Only the wallet's attempts are read.
ReadAttempts(r) ==
  /\ stage[r] = "readAttempts"
  /\ local' = [local EXCEPT ![r].count = RecentAttempts(login[r].wallet)]
  /\ Goto(r, "readBaseline")
  /\ UNCHANGED <<now, store, login, started, verified, result, answer, consumed>>

ReadBaseline(r) ==
  /\ stage[r] = "readBaseline"
  /\ local' = [local EXCEPT ![r].baseline = baselines[login[r].wallet]]
  /\ Goto(r, "assess")
  /\ UNCHANGED <<now, store, login, started, verified, result, answer, consumed>>

\* evaluate_rules()
NewDevice(m, b) ==
  b.loginCount >= ColdStart /\ ~Contains(b.devices, m.device)

ImpossibleTravel(m, b, at) ==
  /\ NoPlace \notin {m.place, b.place}
  /\ m.place # b.place
  /\ at - b.lastLogin < TravelTime

VelocityAbuse(count) == count > MaxAttempts

Deductions(m, b, at, count) ==
  (IF m.wallet \in BadWallets THEN 80 ELSE 0)
    + (IF ImpossibleTravel(m, b, at) THEN 40 ELSE 0)
    + (IF VelocityAbuse(count) THEN 35 ELSE 0)
    + (IF NewDevice(m, b) THEN 25 ELSE 0)

\* determine_decision(calculate_trust_score(flags))
Decision(deducted) ==
  CASE 100 - deducted >= 70 -> "ALLOW"
    [] 100 - deducted \in 40 .. 69 -> "STEP_UP"
    [] OTHER -> "DENY"

\* The devices other than d, which is listed at most once.
Without(devices, d) ==
  IF Contains(devices, d)
    THEN RemoveAt(devices, CHOOSE i \in DOMAIN devices : devices[i] = d)
    ELSE devices

\* record_login(); the mutations count a login from a new device twice, and
\* let the list of devices grow.
CountedTwice(b, m, at) ==
  [loginCount |-> b.loginCount + (IF Contains(b.devices, m.device) THEN 1 ELSE 2),
   devices    |-> <<m.device>>,
   place      |-> m.place,
   lastLogin  |-> at]
Untruncated(b, m, at) ==
  [loginCount |-> b.loginCount + 1,
   devices    |-> <<m.device>> \o Without(b.devices, m.device),
   place      |-> IF m.place # NoPlace THEN m.place ELSE b.place,
   lastLogin  |-> at]
WithLogin(b, m, at) ==
  LET latest == <<m.device>> \o Without(b.devices, m.device)
  IN [loginCount |-> b.loginCount + 1,
      devices    |-> IF Len(latest) > MaxDevices
                       THEN SubSeq(latest, 1, MaxDevices) ELSE latest,
      place      |-> IF m.place # NoPlace THEN m.place ELSE b.place,
      lastLogin  |-> at]

\* The rules are evaluated and the baseline is written back as it was read,
\* with this login added.
Assess(r) ==
  LET m == login[r]  b == local[r].baseline  at == verified[r] IN
  /\ stage[r] = "assess"
  /\ baselines' = [baselines EXCEPT ![m.wallet] = WithLogin(b, m, at)]
  /\ Finish(r, Decision(Deductions(m, b, at, local[r].count)))
  /\ UNCHANGED <<now, expiry, attempts, login, started, verified, local, answer,
                 consumed>>

\* The timeout around the handler drops the assessment.
Timeout(r) ==
  /\ stage[r] \in Running
  /\ Finish(r, "TIMEOUT")
  /\ UNCHANGED <<now, store, login, started, verified, local, answer, consumed>>

\* The proxy's own abort, or a network error: it answers itself, and the
\* service drops the request of a connection that is gone.
Fallback(r) ==
  /\ stage[r] \in Running \cup {"replied"}
  /\ answer' = [answer EXCEPT ![r] = "STEP_UP"]
  /\ Goto(r, "answered")
  /\ UNCHANGED <<now, store, login, started, verified, local, result, consumed>>

\* What the proxy makes of the service's reply: any status but 2xx is an error.
Forwarded(outcome) ==
  IF outcome \in {"BAD_REQUEST", "TIMEOUT"} THEN "ERROR" ELSE outcome

Answer(r) ==
  /\ stage[r] = "replied"
  /\ answer' = [answer EXCEPT ![r] = Forwarded(result[r])]
  /\ Goto(r, "answered")
  /\ UNCHANGED <<now, store, login, started, verified, local, result, consumed>>

\* Time passes; the timer of an assessment fires before it is overdue.
Tick ==
  /\ now < MaxTime
  /\ \A r \in Slots : stage[r] \in Running => now < started[r] + RequestTimeout
  /\ now' = now + 1
  /\ UNCHANGED <<store, login, stage, started, verified, local, result, answer,
                 consumed>>

Proceed(r) ==
  \/ Verify(r)
  \/ ConsumeNonce(r)
  \/ RecordWallet(r)
  \/ RecordIp(r)
  \/ ReadAttempts(r)
  \/ ReadBaseline(r)
  \/ Assess(r)
  \/ Answer(r)

Next ==
  \/ \E r \in Slots : Send(r)
  \/ \E r \in Slots : Proceed(r)
  \/ \E r \in Slots : Timeout(r)
  \/ \E r \in Slots : Fallback(r)
  \/ Tick

Spec == Init /\ [][Next]_vars

----------------------------------------------------------------------------

Outcomes == {"none", "ALLOW", "STEP_UP", "DENY", "BAD_REQUEST", "TIMEOUT"}

Baseline == [loginCount : Nat, devices : Seq(Devices), place : Places \cup {NoPlace},
             lastLogin : Nat \cup {NoTime}]

\* No device is listed twice, and no more of them than the limit.
DevicesListed(devices) ==
  /\ Len(devices) <= MaxDevices
  /\ \A i, j \in DOMAIN devices : devices[i] = devices[j] => i = j

IdentityTypeOK ==
  /\ now \in 1 .. MaxTime
  /\ expiry \in [Nonces -> Nat]
  /\ attempts \in [Wallets \cup Ips -> [Times -> Nat]]
  /\ baselines \in [Wallets -> Baseline]
  /\ \A w \in Wallets : DevicesListed(baselines[w].devices)
  /\ login \in [Slots -> Logins]
  /\ stage \in [Slots -> Running \cup {"unsent", "replied", "answered"}]
  /\ started \in [Slots -> 0 .. now]
  /\ verified \in [Slots -> 0 .. now]
  /\ local \in [Slots -> [at : 0 .. now, count : Nat, baseline : Baseline]]
  /\ result \in [Slots -> Outcomes]
  /\ answer \in [Slots -> {"none", "ALLOW", "STEP_UP", "DENY", "ERROR"}]

\* However the assessments interleave and time out, no nonce is consumed twice
\* within its time to live: of concurrent logins with one message at most one
\* is assessed.
NonceOncePerTtl ==
  \A i, j \in DOMAIN consumed :
    (i < j /\ consumed[i].nonce = consumed[j].nonce)
      => consumed[j].at - consumed[i].at >= NonceTtl

\* The logins of wallet w that were assessed and not flagged for velocity, of
\* those verified in `span'.
Unflagged(w, span) ==
  {r \in Slots : /\ result[r] \in {"ALLOW", "STEP_UP"}
                 /\ login[r].wallet = w
                 /\ ~VelocityAbuse(local[r].count)
                 /\ verified[r] \in span}

\* The velocity limit holds for concurrent logins: each counts the attempts
\* after it has recorded its own, so no more than the limit pass unflagged in
\* a window less the time a request may take.
VelocityLimit ==
  \A w \in Wallets, s \in 1 .. MaxTime :
    Cardinality(Unflagged(w, s .. (s + VelocityWindow - RequestTimeout))) <= MaxAttempts

\* The logins of wallet w whose baseline update was written.
Assessed(w) ==
  {r \in Slots : login[r].wallet = w /\ local[r].count > 0
                 /\ result[r] \in {"ALLOW", "STEP_UP", "DENY"}}

\* A baseline never counts more logins than were assessed, so that no race
\* ends the cold start of a wallet early.
ColdStartNotShortened ==
  \A w \in Wallets : baselines[w].loginCount <= Cardinality(Assessed(w))

\* route.ts:58 says that the proxy answers with StepUp if the service "is
\* unreachable or times out".
TimeoutStepsUp ==
  \A r \in Slots :
    (result[r] = "TIMEOUT" /\ answer[r] # "none") => answer[r] = "STEP_UP"
=============================================================================
