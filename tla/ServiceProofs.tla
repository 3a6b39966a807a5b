---------------------------- MODULE ServiceProofs ----------------------------
(***************************************************************************)
(* Theorems about the off-chain components that stand alone: the streamer's*)
(* connection, the wallet's calls, what the tenant registry answers, the   *)
(* seals of the audit pipeline and the page, and the generated bot; and    *)
(* that all components together implement each of them.                    *)
(***************************************************************************)
EXTENDS Components, ContractProofs, AgentNetworkProofs, CountingTheorems, SequenceTheorems

----------------------------------------------------------------------------
(* SiemStreamer *)

\* The flag says that the one live socket is connecting, so that the pending
\* timer, when there is one, finds it unset.
StreamerInv ==
  /\ linkState \in [Links -> {"closed", "connecting", "open"}]
  /\ timers \in Nat
  /\ \A l, m \in Live : l = m
  /\ isConnecting => Live # {}
  /\ IF started THEN /\ timers = IF Live = {} THEN 1 ELSE 0
                     /\ \A l \in Live : link = l
     ELSE timers = 0 /\ Live = {}

\* A connection is made only where there is none.
LEMMA StreamerStep == StreamerInv /\ [StreamerNext]_streamerVars => StreamerInv'
<1> SUFFICES ASSUME StreamerInv, [StreamerNext]_streamerVars PROVE StreamerInv'
  OBVIOUS
<1>c. ASSUME ConnectSIEM, Live = {} PROVE
        /\ linkState' \in [Links -> {"closed", "connecting", "open"}]
        /\ isConnecting' /\ link' \in Links /\ Live' = {link'}
  BY <1>c DEF StreamerInv, ConnectSIEM, Live
<1>1. CASE StartStreamer
  BY <1>1, <1>c DEF StartStreamer, StreamerInv
<1>2. CASE TimerFires
  <2>1. started /\ timers = 1 /\ Live = {}
    BY <1>2 DEF TimerFires, StreamerInv
  <2> QED
    BY <1>2, <1>c, <2>1 DEF TimerFires, StreamerInv
<1>3. ASSUME NEW l \in Links, LinkOpens(l) PROVE StreamerInv'
  <2>1. Live' = Live /\ linkState' \in [Links -> {"closed", "connecting", "open"}]
    BY <1>3 DEF LinkOpens, StreamerInv, Live
  <2> QED
    BY <1>3, <2>1 DEF LinkOpens, StreamerInv
<1>4. ASSUME NEW l \in Links, LinkCloses(l) PROVE StreamerInv'
  <2>1. /\ Live = {l} /\ Live' = {}
        /\ linkState' \in [Links -> {"closed", "connecting", "open"}]
    BY <1>4 DEF LinkCloses, StreamerInv, Live
  <2>2. timers = 0 /\ started
    BY <2>1 DEF StreamerInv
  <2> QED
    BY <1>4, <2>1, <2>2 DEF LinkCloses, StreamerInv, FlagAfterClose
<1>5. ASSUME UNCHANGED <<linkVars, started>> PROVE StreamerInv'
  BY <1>5 DEF linkVars, StreamerInv, Live
<1> QED
  BY <1>1, <1>2, <1>3, <1>4, <1>5
  DEF StreamerNext, BlockArrives, BlockRead, streamerVars

\* A started streamer has one socket or one timer, and sends over that socket,
\* however connections fail, break and close late.
THEOREM ConnectsOnce == StreamerSpec => []OneConnection
<1>1. StreamerInit => StreamerInv
  BY DEF StreamerInit, StreamerInv, Live
<1>2. StreamerInv => OneConnection
  BY DEF StreamerInv, OneConnection
<1> QED
  BY <1>1, <1>2, StreamerStep, PTL DEF StreamerSpec

\* Blocks are handled one by one, and the server processes none that was not sent.
LEMMA BlockStep ==
  StreamerInv /\ StreamerTypeOK /\ [StreamerNext]_streamerVars => StreamerTypeOK'
<1> SUFFICES ASSUME StreamerInv, StreamerTypeOK, [StreamerNext]_streamerVars
             PROVE StreamerTypeOK'
  OBVIOUS
<1> USE DEF StreamerTypeOK
<1>c. ASSUME ConnectSIEM
      PROVE /\ isConnecting' \in BOOLEAN /\ link' \in Links \cup {NoLink}
            /\ linkState' \in [Links -> {"closed", "connecting", "open"}]
  BY <1>c DEF ConnectSIEM
<1>1. CASE StartStreamer
  BY <1>1, <1>c DEF StartStreamer
<1>2. CASE TimerFires
  <2>1. timers > 0 /\ timers' = timers - 1 /\ ConnectSIEM
        /\ UNCHANGED <<handling, sentBlocks, ingested>>
    BY <1>2 DEF TimerFires
  <2> QED
    BY <1>c, <2>1
<1>3. ASSUME NEW l \in Links, LinkOpens(l) PROVE StreamerTypeOK'
  BY <1>3 DEF LinkOpens
<1>4. ASSUME NEW l \in Links, LinkCloses(l) PROVE StreamerTypeOK'
  <2>1. /\ timers' = timers + 1 /\ link' = NoLink
        /\ linkState' = [linkState EXCEPT ![l] = "closed"]
        /\ UNCHANGED <<handling, sentBlocks, ingested>>
    BY <1>4 DEF LinkCloses
  <2>2. isConnecting' \in BOOLEAN
    BY <1>4 DEF LinkCloses, FlagAfterClose
  <2> QED
    BY <2>1, <2>2
<1>5. ASSUME NEW b \in Blocks, BlockArrives(b) PROVE StreamerTypeOK'
  BY <1>5 DEF BlockArrives, linkVars
<1>6. ASSUME NEW b \in Blocks, BlockRead(b) PROVE StreamerTypeOK'
  BY <1>6 DEF BlockRead, linkVars
<1>7. CASE UNCHANGED streamerVars
  BY <1>7 DEF streamerVars, linkVars
<1> QED
  BY <1>1, <1>2, <1>3, <1>4, <1>5, <1>6, <1>7 DEF StreamerNext

\* Link, flag, timers and blocks have their types, and the server processes no
\* block that was not sent.
THEOREM StreamerTypeCorrect == StreamerSpec => []StreamerTypeOK
<1>1. StreamerInit => StreamerInv
  BY DEF StreamerInit, StreamerInv, Live
<1>2. ASSUME StreamerInit PROVE StreamerTypeOK
  <2>1. isConnecting \in BOOLEAN
    BY <1>2 DEF StreamerInit
  <2> QED
    BY <1>2, <2>1 DEF StreamerInit, StreamerTypeOK
<1> QED
  BY <1>1, <1>2, StreamerStep, BlockStep, PTL DEF StreamerSpec

----------------------------------------------------------------------------
(* Wallet *)

\* A call that has its first answer has an account.
WalletInv ==
  /\ ConnectingHasCall
  /\ asked \in [WalletCalls -> {"idle", "accounts", "chain", "balance"}]
  /\ byButton \in [WalletCalls -> BOOLEAN]
  /\ provider \in Wallets
  /\ answers \in [WalletCalls -> Wallets]
  /\ connecting \in BOOLEAN /\ mounted \in BOOLEAN
  /\ wallet = {} \/ \E w \in Wallets : wallet = {w}
  /\ \A c \in WalletCalls : asked[c] \in {"chain", "balance"} => answers[c].account # NoAccount

LEMMA WalletStep == WalletInv /\ [WalletNext]_walletVars => WalletInv'
<1> SUFFICES ASSUME WalletInv, [WalletNext]_walletVars PROVE WalletInv'
  OBVIOUS
<1> USE WalletConstants DEF WalletInv
<1>a. \A c \in WalletCalls : answers[c] \in Wallets
  OBVIOUS
<1>1. CASE InitListeners
  BY <1>1 DEF InitListeners, Call, NoCall, ConnectingHasCall
<1>2. CASE ConnectWallet
  BY <1>2 DEF ConnectWallet, ConnectOffered, Call, ConnectingHasCall
<1>3. CASE DisconnectWallet
  BY <1>3 DEF DisconnectWallet, ConnectingHasCall
<1>4. ASSUME NEW c \in WalletCalls, AccountsAnswered(c) PROVE WalletInv'
  <2>1. PICK a \in WalletAccounts :
          /\ answers' = [answers EXCEPT ![c].account = a]
          /\ provider' = [provider EXCEPT !.account = a]
    BY <1>4 DEF AccountsAnswered
  <2>2. /\ provider' \in Wallets /\ [answers[c] EXCEPT !.account = a] \in Wallets
        /\ [answers[c] EXCEPT !.account = a].account = a
    BY <1>a, <2>1 DEF Wallets
  <2>3. /\ answers' \in [WalletCalls -> Wallets] /\ answers'[c].account = a
        /\ \A d \in WalletCalls : d # c => answers'[d] = answers[d]
    BY <2>1, <2>2
  <2>4. a # NoAccount
    OBVIOUS
  <2>5. /\ asked[c] = "accounts" /\ asked' = [asked EXCEPT ![c] = "chain"]
        /\ UNCHANGED <<byButton, wallet, connecting, mounted>>
    BY <1>4 DEF AccountsAnswered
  <2> QED
    BY <2>2, <2>3, <2>4, <2>5 DEF ConnectingHasCall
<1>5. ASSUME NEW c \in WalletCalls, ChainAnswered(c) PROVE WalletInv'
  <2>1. [answers[c] EXCEPT !.chain = provider.chain] \in Wallets
        /\ [answers[c] EXCEPT !.chain = provider.chain].account = answers[c].account
    BY <1>a DEF Wallets
  <2>2. /\ asked[c] = "chain" /\ asked' = [asked EXCEPT ![c] = "balance"]
        /\ answers' = [answers EXCEPT ![c] = [answers[c] EXCEPT !.chain = provider.chain]]
        /\ UNCHANGED <<provider, byButton, wallet, connecting, mounted>>
    BY <1>5 DEF ChainAnswered
  <2>3. /\ answers' \in [WalletCalls -> Wallets]
        /\ \A d \in WalletCalls : answers'[d].account = answers[d].account
    BY <2>1, <2>2
  <2> QED
    BY <2>2, <2>3 DEF ConnectingHasCall
<1>6. ASSUME NEW c \in WalletCalls, BalanceAnswered(c) PROVE WalletInv'
  BY <1>6, <1>a DEF BalanceAnswered, FlagAfter, ConnectingHasCall
<1>7. ASSUME NEW c \in WalletCalls, CallFails(c) PROVE WalletInv'
  BY <1>7 DEF CallFails, FlagAfter, ConnectingHasCall
<1>8. ASSUME NEW a \in WalletAccounts \cup {NoAccount}, AccountsChanged(a) PROVE WalletInv'
  <2>1. provider' \in Wallets
    BY <1>8 DEF AccountsChanged, Wallets
  <2> QED
    BY <1>8, <2>1 DEF AccountsChanged, Call, NoCall, ConnectingHasCall
<1>9. ASSUME NEW x \in Chains, ChainChanged(x) PROVE WalletInv'
  <2>1. provider' \in Wallets
    BY <1>9 DEF ChainChanged, Wallets
  <2> QED
    BY <1>9, <2>1 DEF ChainChanged, ConnectingHasCall
<1>10. CASE UNCHANGED walletVars
  BY <1>10 DEF walletVars, ConnectingHasCall
<1> QED
  BY <1>1, <1>2, <1>3, <1>4, <1>5, <1>6, <1>7, <1>8, <1>9, <1>10 DEF WalletNext

LEMMA WalletCorrect == WalletSpec => []WalletInv
<1>1. WalletInit => WalletInv
  BY DEF WalletInit, WalletInv, ConnectingHasCall
<1> QED
  BY <1>1, WalletStep, PTL DEF WalletSpec

\* A wallet, its calls and their answers have their types, and there is at most
\* one wallet.
THEOREM WalletTypeCorrect == WalletSpec => []WalletTypeOK
<1>1. WalletInv => WalletTypeOK
  <2> SUFFICES ASSUME WalletInv PROVE WalletTypeOK
    OBVIOUS
  <2>1. Cardinality(wallet) <= 1
    <3>1. CASE wallet = {}
      BY <3>1, FS_EmptySet
    <3>2. ASSUME NEW w \in Wallets, wallet = {w} PROVE Cardinality(wallet) <= 1
      <4>1. Cardinality({w}) = 1
        BY FS_Singleton
      <4> QED
        BY <3>2, <4>1
    <3> QED
      BY <3>1, <3>2 DEF WalletInv
  <2> QED
    BY <2>1 DEF WalletInv, WalletTypeOK
<1> QED
  BY <1>1, WalletCorrect, PTL

\* The page says that it connects just while one call of connect() is under way.
THEOREM ConnectingWaits == WalletSpec => []ConnectingHasCall
BY WalletCorrect, PTL DEF WalletInv

----------------------------------------------------------------------------
(* TenantRegistry *)

\* The registrations of a registry are those of its clients.
Registered(registry) ==
  /\ registry.clients \subseteq ApiKeys
  /\ registry.monitored \in Seq(Registration)
  /\ \A i \in DOMAIN registry.monitored :
       registry.monitored[i].key \in registry.clients

\* The first registry holds all that the second does.
Holds(registry, other) ==
  /\ other.clients \subseteq registry.clients
  /\ Range(other.monitored) \subseteq Range(registry.monitored)

\* Memory is never behind the file, so that a write that succeeds loses nothing
\* that an earlier one saved; and an attempt adds at most one receipt.
TenantInv ==
  /\ up \in BOOLEAN
  /\ memory \in Registry /\ disk \in Registry
  /\ Registered(memory) /\ Registered(disk)
  /\ up => Holds(memory, disk)
  /\ issued \in [keys : SUBSET ApiKeys, registrations : SUBSET Registration]
  /\ issued.keys \subseteq disk.clients
  /\ issued.registrations \subseteq Range(disk.monitored)
  /\ hooks \in Seq(Registration)
  /\ attempt \in 0 .. MaxTries /\ receipts \in 0 .. MaxTries
  /\ attempt # 0 => receipts < attempt
  /\ delivered \in BOOLEAN
  /\ delivered => receipts > 0
  /\ webDb \in [Addresses -> SUBSET (ApiKeys \cup {NoOwner})]

\* A registry with one more registration, by one of its clients.
LEMMA RegistrationAdded ==
  ASSUME NEW registry \in Registry, Registered(registry),
         NEW key \in registry.clients, NEW address \in Addresses
  PROVE  LET more == WithRegistration(registry, key, address)
         IN /\ more \in Registry /\ Registered(more) /\ Holds(more, registry)
            /\ [key |-> key, address |-> address] \in Range(more.monitored)
<1> DEFINE m == [key |-> key, address |-> address]
           list == registry.monitored
           more == WithRegistration(registry, key, address)
<1>1. m \in Registration /\ m.key = key
  BY DEF Registered, Registration
<1> HIDE DEF m
<1>2. list \in Seq(Registration)
  BY DEF Registered
<1>3. /\ Append(list, m) \in Seq(Registration) /\ Len(list) \in Nat
      /\ DOMAIN list = 1 .. Len(list)
      /\ DOMAIN Append(list, m) = 1 .. (Len(list) + 1)
      /\ Append(list, m)[Len(list) + 1] = m
      /\ \A i \in 1 .. Len(list) : Append(list, m)[i] = list[i]
  BY <1>1, <1>2, AppendProperties
<1>4. /\ more.clients = registry.clients /\ more.monitored = Append(list, m)
      /\ more \in Registry
  BY <1>3 DEF WithRegistration, Registry, m
<1> HIDE DEF more
<1>5. \A i \in DOMAIN more.monitored : more.monitored[i].key \in more.clients
  BY <1>1, <1>3, <1>4 DEF Registered
<1>6. Range(list) \subseteq Range(more.monitored) /\ m \in Range(more.monitored)
  BY <1>3, <1>4 DEF Range
<1> QED
  BY <1>3, <1>4, <1>5, <1>6 DEF Registered, Holds, more, m

\* The registrations that match an alert are sent in turn.
LEMMA HooksTyped ==
  ASSUME NEW list \in Seq(Registration), NEW I \in SUBSET DOMAIN list
  PROVE  Subsequence(list, I) \in Seq(Registration)
BY SubsequenceElements

LEMMA TenantStep == TenantInv /\ [TenantNext]_tenantVars => TenantInv'
<1> SUFFICES ASSUME TenantInv, [TenantNext]_tenantVars PROVE TenantInv'
  OBVIOUS
<1> USE TenantConstants
<1>s. ASSUME NEW registry \in Registry, Registered(registry), memory' = registry, up',
             Holds(registry, disk), disk' = registry \/ disk' = disk,
             \/ issued' = issued
             \/ /\ disk' = registry
                /\ \E k \in registry.clients : issued' = [issued EXCEPT !.keys = @ \cup {k}]
             \/ /\ disk' = registry
                /\ \E m \in Range(registry.monitored) :
                     issued' = [issued EXCEPT !.registrations = @ \cup {m}],
             UNCHANGED <<hookVars, webDb>>
      PROVE  TenantInv'
  <2>1. Range(registry.monitored) \subseteq Registration
    BY <1>s DEF Registered, Range
  <2>2. Holds(registry, registry)
    BY DEF Holds
  <2>3. /\ issued' \in [keys : SUBSET ApiKeys, registrations : SUBSET Registration]
        /\ issued'.keys \subseteq disk'.clients
        /\ issued'.registrations \subseteq Range(disk'.monitored)
    <3>1. CASE issued' = issued
      BY <1>s, <3>1 DEF TenantInv, Holds
    <3>2. ASSUME disk' = registry, NEW k \in registry.clients,
                 issued' = [issued EXCEPT !.keys = @ \cup {k}]
          PROVE  <2>3!:
      BY <1>s, <3>2 DEF TenantInv, Holds, Registered
    <3>3. ASSUME disk' = registry, NEW m \in Range(registry.monitored),
                 issued' = [issued EXCEPT !.registrations = @ \cup {m}]
          PROVE  <2>3!:
      BY <1>s, <2>1, <3>3 DEF TenantInv, Holds
    <3> QED
      BY <1>s, <3>1, <3>2, <3>3
  <2>4. disk' \in Registry /\ Registered(disk') /\ Holds(registry, disk')
    BY <1>s, <2>2 DEF TenantInv
  <2>5. UNCHANGED <<hooks, attempt, receipts, delivered, webDb>>
    BY <1>s DEF hookVars
  <2> QED
    BY <1>s, <2>3, <2>4, <2>5 DEF TenantInv, Registered
<1>h. ASSUME UNCHANGED <<stateVars, webDb>>, hooks' \in Seq(Registration),
             attempt' \in 0 .. MaxTries, receipts' \in 0 .. MaxTries, delivered' \in BOOLEAN,
             attempt' # 0 => receipts' < attempt',
             delivered' => receipts' > 0
      PROVE  TenantInv'
  BY <1>h DEF stateVars, TenantInv, Registered, Holds
<1>r. Holds(disk, disk) /\ disk \in Registry /\ Registered(disk)
  BY DEF Holds, TenantInv
<1>1. CASE StartPlain
  BY <1>1, <1>r, <1>s DEF StartPlain
<1>2. CASE StartPolyLance
  <2>1. CASE memory' = disk /\ UNCHANGED disk
    BY <1>2, <1>r, <1>s, <2>1 DEF StartPolyLance
  <2>2. CASE Saved(WithRegistration(disk, BootKey, BootAddress))
    <3> DEFINE more == WithRegistration(disk, BootKey, BootAddress)
    <3>1. BootKey \in disk.clients /\ BootAddress \in Addresses
      BY <1>2 DEF StartPolyLance
    <3>2. more \in Registry /\ Registered(more) /\ Holds(more, disk)
      BY <1>r, <3>1, RegistrationAdded
    <3>3. memory' = more /\ disk' = more /\ up' /\ UNCHANGED <<issued, hookVars, webDb>>
      BY <1>2, <2>2 DEF StartPolyLance, Saved
    <3> HIDE DEF more
    <3> QED
      BY <1>s, <3>2, <3>3
  <2> QED
    BY <1>2, <2>1, <2>2 DEF StartPolyLance
<1>3. CASE Crash
  <2>1. /\ Registered(NothingRegistered) /\ NothingRegistered \in Registry
    BY DEF NothingRegistered, Registered, Registry
  <2>2. /\ up' = FALSE /\ memory' = NothingRegistered /\ UNCHANGED <<disk, issued, webDb>>
        /\ hooks' = <<>> /\ attempt' = 0 /\ receipts' = 0 /\ delivered' = FALSE
    BY <1>3 DEF Crash
  <2>3. attempt' \in 0 .. MaxTries /\ receipts' \in 0 .. MaxTries
        /\ (attempt' # 0 => receipts' < attempt')
    BY <2>2
  <2>4. memory' \in Registry /\ Registered(memory') /\ Registered(disk')
    BY <1>r, <2>1, <2>2
  <2>5. hooks' \in Seq(Registration)
    BY <2>2, EmptySeq
  <2> QED
    BY <2>2, <2>3, <2>4, <2>5 DEF TenantInv, Registered
<1>4. ASSUME NEW key \in ApiKeys, RegisterClient(key) PROVE TenantInv'
  <2> DEFINE more == [memory EXCEPT !.clients = @ \cup {key}]
  <2>1. /\ more \in Registry /\ Registered(more) /\ Holds(more, disk)
        /\ key \in more.clients
    BY <1>4 DEF RegisterClient, TenantInv, Registry, Registered, Holds
  <2>2. /\ up' /\ memory' = more
        /\ \/ disk' = more /\ issued' = [issued EXCEPT !.keys = @ \cup {key}]
           \/ disk' = disk /\ issued' = issued
        /\ UNCHANGED <<hookVars, webDb>>
    BY <1>4 DEF RegisterClient, Saved, NotSaved
  <2> HIDE DEF more
  <2> QED
    BY <1>s, <2>1, <2>2
<1>5. ASSUME NEW key \in ApiKeys, NEW address \in Addresses, RegisterAddress(key, address)
      PROVE  TenantInv'
  <2> DEFINE more == WithRegistration(memory, key, address)
             m == [key |-> key, address |-> address]
  <2>1. key \in memory.clients /\ memory \in Registry /\ Registered(memory)
    BY <1>5 DEF RegisterAddress, Authenticated, TenantInv
  <2>2. /\ more \in Registry /\ Registered(more) /\ Holds(more, memory)
        /\ m \in Range(more.monitored)
    BY <2>1, RegistrationAdded
  <2>3. Holds(more, disk)
    BY <1>5, <2>2 DEF RegisterAddress, TenantInv, Holds
  <2>4. /\ up' /\ memory' = more
        /\ \/ disk' = more /\ issued' = [issued EXCEPT !.registrations = @ \cup {m}]
           \/ disk' = disk /\ issued' = issued
        /\ UNCHANGED <<hookVars, webDb>>
    BY <1>5 DEF RegisterAddress, Saved, NotSaved
  <2> HIDE DEF more, m
  <2> QED
    BY <1>s, <2>2, <2>3, <2>4
<1>6. ASSUME NEW key \in ApiKeys, NEW address \in Addresses, WebRegister(key, address)
      PROVE  TenantInv'
  <2>1. webDb' \in [Addresses -> SUBSET (ApiKeys \cup {NoOwner})]
    BY <1>6 DEF WebRegister, TenantInv
  <2> QED
    BY <1>6, <2>1 DEF WebRegister, stateVars, hookVars, TenantInv, Registered, Holds
<1>7. ASSUME NEW address \in Addresses, RaiseAlert(address) PROVE TenantInv'
  <2>1. PICK watched \in SUBSET DOMAIN memory.monitored :
          hooks' = Subsequence(memory.monitored, watched)
    BY <1>7 DEF RaiseAlert
  <2>2. hooks' \in Seq(Registration)
    BY <2>1, HooksTyped DEF TenantInv, Registered
  <2>3. attempt' = 1 /\ receipts' = 0 /\ delivered' = FALSE /\ UNCHANGED <<stateVars, webDb>>
    BY <1>7 DEF RaiseAlert
  <2>4. attempt' \in 0 .. MaxTries /\ receipts' \in 0 .. MaxTries
        /\ (attempt' # 0 => receipts' < attempt')
    BY <2>3
  <2> QED
    BY <1>h, <2>2, <2>3, <2>4
<1>8. CASE Acknowledged
  <2>1. attempt \in 0 .. MaxTries /\ receipts \in 0 .. MaxTries /\ receipts < attempt
    BY <1>8 DEF Acknowledged, Dispatching, TenantInv
  <2> QED
    BY <1>8, <1>h, <2>1 DEF Acknowledged, TenantInv
<1>9. CASE Failed
  <2>1. attempt \in 0 .. MaxTries /\ receipts \in 0 .. MaxTries /\ receipts < attempt
    BY <1>9 DEF Failed, Dispatching, TenantInv
  <2>2. receipts' \in 0 .. MaxTries /\ attempt' \in 0 .. MaxTries
        /\ (attempt' # 0 => receipts' < attempt')
    BY <1>9, <2>1 DEF Failed, Retries
  <2>3. receipts > 0 => receipts' > 0
    BY <1>9, <2>1 DEF Failed
  <2>4. UNCHANGED <<stateVars, hooks, delivered, webDb>>
    BY <1>9 DEF Failed
  <2>5. delivered' \in BOOLEAN /\ (delivered' => receipts > 0)
    BY <2>4, Zenon DEF TenantInv
  <2>6. hooks' \in Seq(Registration)
    BY <2>4 DEF TenantInv
  <2> QED
    BY <1>h, <2>2, <2>3, <2>4, <2>5, <2>6
<1>10. CASE NextHook
  <2>1. Tail(hooks) \in Seq(Registration)
    BY <1>10, HeadTailProperties DEF NextHook, TenantInv
  <2>2. /\ hooks' = Tail(hooks) /\ attempt' \in {0, 1} /\ receipts' = 0
        /\ delivered' = FALSE /\ UNCHANGED <<stateVars, webDb>>
    BY <1>10 DEF NextHook
  <2>3. attempt' \in 0 .. MaxTries /\ receipts' \in 0 .. MaxTries
        /\ (attempt' # 0 => receipts' < attempt')
    BY <2>2
  <2> QED
    BY <1>h, <2>1, <2>2, <2>3
<1>11. CASE UNCHANGED tenantVars
  BY <1>11 DEF tenantVars, stateVars, hookVars, TenantInv, Registered, Holds
<1> QED
  BY <1>1, <1>2, <1>3, <1>4, <1>5, <1>6, <1>7, <1>8, <1>9, <1>10, <1>11
  DEF TenantNext, Dispatch

LEMMA TenantCorrect == TenantSpec => []TenantInv
<1>1. TenantInit => TenantInv
  <2> SUFFICES ASSUME TenantInit PROVE TenantInv
    OBVIOUS
  <2>1. NothingRegistered \in Registry /\ Registered(NothingRegistered)
    BY DEF NothingRegistered, Registered, Registry
  <2>2. memory \in Registry /\ disk \in Registry /\ Registered(memory) /\ Registered(disk)
    BY <2>1 DEF TenantInit
  <2>3. /\ issued \in [keys : SUBSET ApiKeys, registrations : SUBSET Registration]
        /\ issued.keys = {} /\ issued.registrations = {}
    BY DEF TenantInit
  <2>4. hooks \in Seq(Registration)
    BY EmptySeq DEF TenantInit
  <2>5. attempt \in 0 .. MaxTries /\ receipts \in 0 .. MaxTries /\ attempt = 0
    BY TenantConstants DEF TenantInit
  <2>6. up = FALSE /\ delivered = FALSE /\ webDb = [a \in Addresses |-> {}]
    BY DEF TenantInit
  <2> QED
    BY <2>2, <2>3, <2>4, <2>5, <2>6 DEF TenantInv
<1> QED
  BY <1>1, TenantStep, PTL DEF TenantSpec

\* Registry, file, dispatch and the frontend's own map have their types.
THEOREM TenantTypeCorrect == TenantSpec => []TenantTypeOK
<1>1. TenantInv => TenantTypeOK
  <2> SUFFICES ASSUME TenantInv PROVE TenantTypeOK
    OBVIOUS
  <2>1. issued.keys \subseteq ApiKeys /\ issued.registrations \subseteq Registration
    BY DEF TenantInv
  <2>2. attempt \in 0 .. MaxTries
    BY DEF TenantInv
  <2>3. /\ memory \in Registry /\ disk \in Registry /\ hooks \in Seq(Registration)
        /\ webDb \in [Addresses -> SUBSET (ApiKeys \cup {NoOwner})]
    BY DEF TenantInv
  <2>4. up \in BOOLEAN
    BY Zenon DEF TenantInv
  <2>5. delivered \in BOOLEAN
    BY Zenon DEF TenantInv
  <2> QED
    BY <2>1, <2>2, <2>3, <2>4, <2>5 DEF TenantTypeOK
<1> QED
  BY <1>1, TenantCorrect, PTL

\* What callers were told is on file, whatever writes fail and whenever the
\* server ends; and a dispatch that succeeded was received.
THEOREM AnswersTrue == TenantSpec => []AnswersHold
<1>1. TenantInv => AnswersHold
  <2> SUFFICES ASSUME TenantInv PROVE AnswersHold
    OBVIOUS
  <2>1. \A m \in Range(memory.monitored) : m.key \in memory.clients
    BY DEF TenantInv, Registered, Range
  <2>2. \A m \in Range(disk.monitored) : m.key \in disk.clients
    BY DEF TenantInv, Registered, Range
  <2>3. receipts <= MaxTries
    BY TenantConstants DEF TenantInv
  <2> QED
    BY <2>1, <2>2, <2>3 DEF TenantInv, AnswersHold
<1> QED
  BY <1>1, TenantCorrect, PTL

----------------------------------------------------------------------------
(* AuditPipeline and AuditStore *)

\* All that the five ZK rules look for.
HasAll(contract) ==
  /\ contract.parses /\ contract.nullifier
  /\ contract.first /\ contract.second /\ contract.timelock

\* What is so of an audit and of the parts it has written: it has a directory when it
\* writes, and none before; its report is pinned before it is sealed; and only an
\* upload, which mints nothing, has its contract replaced, so that what the ZK checks
\* said of the contract of a badge still holds when it is minted.
AuditSound(r, parts) ==
  /\ r.stage \in Scanning => r.scan \in 1 .. MaxMillis
  /\ r.stage \in {"free", "cloning", "lookup"} => r.scan = 0
  /\ r.scan = 0 => parts = {}
  /\ r.stage \in {"eas", "annotate", "mint"} /\ Pinned(r.opts) => "ipfsCid" \in parts
  /\ Sealed(parts) => "ipfsCid" \in parts
  /\ r.stage = "free" => ~r.zk /\ ~r.shared /\ r.opts = ServerOptions
  /\ r.shared => ~r.opts.mint
  /\ r.zk /\ r.opts.mint => HasAll(r.contract)

Tokens == [contract : Contracts, score : 0 .. 100, zk : BOOLEAN]
TokenSound(token) == token.score < 70 /\ (token.zk => HasAll(token.contract))

PipelineInv ==
  /\ audit \in [Audits -> AuditState]
  /\ wrote \in [Audits -> SUBSET ReportParts]
  /\ \A a \in Audits : AuditSound(audit[a], wrote[a])
  /\ millis \in 1 .. MaxMillis /\ scans \subseteq 1 .. millis
  /\ minted \subseteq Tokens /\ \A token \in minted : TokenSound(token)

\* An audit goes on with what the ZK checks found and a first score, ...
LEMMA AuditScored ==
  ASSUME NEW r \in AuditState, NEW reached \in AuditStages, NEW zk \in BOOLEAN,
         NEW points \in 0 .. 100
  PROVE  [r EXCEPT !.stage = reached, !.zk = zk, !.score = points] \in AuditState
BY DEF AuditState

\* ... and with the risk that Forta's alerts give.
LEMMA AuditMonitored ==
  ASSUME NEW r \in AuditState, NEW risk \in Risks
  PROVE  [r EXCEPT !.stage = "ipfs", !.forta = risk] \in AuditState
BY DEF AuditState, AuditStages, Scanning

\* Only this audit writes, what it wrote stays, and it seals nothing that is not
\* pinned.
PartsKept(a) ==
  /\ wrote' \in [Audits -> SUBSET ReportParts]
  /\ \A b \in Audits : b # a => wrote'[b] = wrote[b]
  /\ wrote[a] \subseteq wrote'[a]
  /\ audit[a].scan = 0 => wrote'[a] = {}
  /\ Sealed(wrote'[a]) => "ipfsCid" \in wrote'[a]

LEMMA PartWritten ==
  ASSUME PipelineInv, NEW a \in Audits, audit[a].scan \in 1 .. MaxMillis,
         NEW part \in ReportParts, Write(a, part),
         Sealed({part}) => "ipfsCid" \in wrote[a]
  PROVE  PartsKept(a) /\ wrote'[a] = wrote[a] \cup {part}
<1>1. wrote \in [Audits -> SUBSET ReportParts] /\ wrote' = [wrote EXCEPT ![a] = @ \cup {part}]
  BY DEF Write, PipelineInv
<1>2. Sealed(wrote[a]) => "ipfsCid" \in wrote[a]
  BY DEF PipelineInv, AuditSound
<1>3. wrote' \in [Audits -> SUBSET ReportParts] /\ wrote'[a] = wrote[a] \cup {part}
      /\ \A b \in Audits : b # a => wrote'[b] = wrote[b]
  BY <1>1
<1>4. Sealed(wrote'[a]) => "ipfsCid" \in wrote'[a]
  BY <1>2, <1>3 DEF Sealed
<1>5. audit[a].scan # 0
  BY PipelineConstants
<1> QED
  BY <1>3, <1>4, <1>5 DEF PartsKept

\* The five results pass only for a contract that has all.
LEMMA ZkSound ==
  ASSUME NEW contract \in Contracts, ZkPassed(ZkResults(contract)) PROVE HasAll(contract)
<1>1. contract \in Contract
  BY PipelineConstants
<1>2. CASE ~contract.parses
  <2>1. DOMAIN ZkResults(contract) = {}
    BY <1>2 DEF ZkResults
  <2> QED
    BY <2>1 DEF ZkPassed
<1>3. CASE contract.parses
  <2>1. \A i \in 1 .. 5 : ZkResults(contract)[i]
    BY DEF ZkPassed
  <2> QED
    BY <1>1, <1>3, <2>1 DEF ZkResults, HasAll, Contract
<1> QED
  BY <1>1, <1>2, <1>3 DEF Contract

\* A step of one audit.
OneAudit(a) ==
  \/ ResolveTarget(a) \/ LookupAttestation(a)
  \/ RunSlither(a) \/ RunMythril(a) \/ RunSurya(a)
  \/ SkipAI(a) \/ TriageAnswered(a) \/ TriageFailed(a)
  \/ MonitorForta(a) \/ UploadReport(a) \/ Attest(a) \/ Annotate(a) \/ MintBadge(a)

Begins(a) ==
  \E origin \in {"cli", "github"}, contract \in Contracts,
     opts \in Options \cup {ServerOptions}, reached \in {"cloning", "lookup", "failed"} :
    StartAudit(a, origin, contract, opts, reached)

PipelineStep ==
  \/ \E a \in Audits : OneAudit(a) \/ Begins(a) \/ Truncate(a) \/ PutReport(a)
  \/ \E a \in Audits, contract \in Contracts, shared \in BOOLEAN :
       UploadCode(a, contract, shared)
  \/ ClockTicks
  \/ UNCHANGED pipelineVars

\* An audit that goes on as r, with its part of the report written.
LEMMA AuditGoesOn ==
  ASSUME PipelineInv, NEW a \in Audits, NEW r \in AuditState,
         audit' = [audit EXCEPT ![a] = r], AuditSound(r, wrote'[a]), PartsKept(a),
         scans' \subseteq 1 .. millis, UNCHANGED millis,
         minted' \subseteq Tokens, \A token \in minted' : TokenSound(token)
  PROVE  PipelineInv'
<1>1. audit' \in [Audits -> AuditState] /\ audit'[a] = r
      /\ \A b \in Audits : b # a => audit'[b] = audit[b]
  BY DEF PipelineInv
<1>2. ASSUME NEW b \in Audits PROVE AuditSound(audit'[b], wrote'[b])
  BY <1>1 DEF PipelineInv, PartsKept
<1>3. millis' \in 1 .. MaxMillis /\ scans' \subseteq 1 .. millis'
  BY DEF PipelineInv
<1> QED
  BY <1>1, <1>2, <1>3 DEF PipelineInv, PartsKept

LEMMA OneAuditStep ==
  ASSUME PipelineInv, NEW a \in Audits, OneAudit(a) PROVE PipelineInv'
<1> USE PipelineConstants
<1>a. /\ audit[a] \in AuditState /\ AuditSound(audit[a], wrote[a])
      /\ wrote \in [Audits -> SUBSET ReportParts]
      /\ scans \subseteq 1 .. millis /\ millis \in 1 .. MaxMillis
      /\ minted \subseteq Tokens /\ \A token \in minted : TokenSound(token)
  BY DEF PipelineInv
<1>b. UNCHANGED files => PartsKept(a) /\ wrote' = wrote
  BY <1>a DEF files, PartsKept, AuditSound
\* A stage that goes on to another one without sealing anything.
<1>c. ASSUME NEW reached \in AuditStages, reached \notin {"free", "eas", "annotate", "mint"},
             reached \in Scanning => audit[a].stage \in Scanning,
             reached \in {"cloning", "lookup"} => audit[a].scan = 0,
             Continue(a, reached), PartsKept(a),
             UNCHANGED <<millis, scans, minted>>
      PROVE  PipelineInv'
  <2> DEFINE own == [audit[a] EXCEPT !.stage = reached]
  <2>1. own \in AuditState /\ AuditSound(own, wrote'[a])
    BY <1>a, <1>c DEF AuditState, AuditSound, PartsKept
  <2>2. audit' = [audit EXCEPT ![a] = own]
    BY <1>c DEF Continue
  <2> HIDE DEF own
  <2> QED
    BY <1>a, <1>c, <2>1, <2>2, AuditGoesOn
<1> USE DEF AuditStages, Scanning
<1>w. ASSUME NEW part \in ReportParts \ {"easUid", "mintTx"}, Write(a, part),
             audit[a].stage \in Scanning
      PROVE  PartsKept(a)
  <2>1. audit[a].scan \in 1 .. MaxMillis
    BY <1>a, <1>w DEF AuditSound
  <2> QED
    BY <1>w, <2>1, PartWritten DEF Sealed
<1>1. CASE ResolveTarget(a)
  BY <1>1, <1>a, <1>b, <1>c DEF ResolveTarget, At, AuditSound
<1>2. CASE LookupAttestation(a)
  <2>1. ASSUME NEW points \in CvssScores,
               audit' = [audit EXCEPT ![a].stage = "done", ![a].score = points],
               UNCHANGED <<millis, files, scans, minted>>
        PROVE  PipelineInv'
    <3> DEFINE own == [audit[a] EXCEPT !.stage = "done", !.score = points]
    <3>1. own \in AuditState /\ AuditSound(own, wrote'[a])
      <4>1. own \in AuditState
        BY <1>a, <2>1 DEF AuditState
      <4>2. AuditSound(own, wrote'[a])
        BY <1>a, <1>b, <2>1 DEF AuditState, AuditSound, PartsKept
      <4> QED
        BY <4>1, <4>2
    <3>2. audit' = [audit EXCEPT ![a] = own]
      BY <2>1
    <3> HIDE DEF own
    <3> QED
      BY <1>a, <1>b, <2>1, <3>1, <3>2, AuditGoesOn
  <2>2. ASSUME audit[a].stage = "lookup",
               audit' = [audit EXCEPT ![a].stage = "slither", ![a].scan = millis],
               scans' = scans \cup {millis}, UNCHANGED <<millis, files, minted>>
        PROVE  PipelineInv'
    <3> DEFINE own == [audit[a] EXCEPT !.stage = "slither", !.scan = millis]
    <3>1. own \in AuditState /\ AuditSound(own, wrote'[a])
      <4>1. own \in AuditState
        <5>1. millis \in 0 .. MaxMillis
          BY <1>a
        <5> QED
          BY <1>a, <2>2, <5>1 DEF AuditState
      <4>2. AuditSound(own, wrote'[a])
        BY <1>a, <1>b, <2>2 DEF AuditState, AuditSound, PartsKept
      <4> QED
        BY <4>1, <4>2
    <3>2. audit' = [audit EXCEPT ![a] = own]
      BY <2>2
    <3>3. scans' \subseteq 1 .. millis
      BY <1>a, <2>2
    <3> HIDE DEF own
    <3> QED
      BY <1>a, <1>b, <2>2, <3>1, <3>2, <3>3, AuditGoesOn
  <2> QED
    BY <1>2, <2>1, <2>2 DEF LookupAttestation, At
<1>3. CASE RunSlither(a)
  <2>1. CASE Continue(a, "failed") /\ UNCHANGED files
    BY <1>3, <1>b, <1>c, <2>1 DEF RunSlither, At
  <2>2. CASE Write(a, "slither")
               /\ Continue(a, IF audit[a].opts.mythril THEN "mythril" ELSE "surya")
    <3>1. PartsKept(a)
      BY <1>3, <1>w, <2>2 DEF RunSlither, At, ReportParts
    <3> QED
      BY <1>3, <1>c, <2>2, <3>1 DEF RunSlither, At
  <2> QED
    BY <1>3, <2>1, <2>2 DEF RunSlither, At
<1>4. CASE RunMythril(a)
  <2>1. PartsKept(a)
    BY <1>4, <1>w DEF RunMythril, At, ReportParts
  <2> QED
    BY <1>4, <1>c, <2>1 DEF RunMythril, At
<1>5. CASE RunSurya(a)
  <2> DEFINE zk == ZkPassed(ZkResults(audit[a].contract))
             next == IF audit[a].opts.ai THEN "ai" ELSE "forta"
             own == [audit[a] EXCEPT !.stage = next, !.zk = zk, !.score = 15]
  <2>1. PartsKept(a)
    BY <1>5, <1>w DEF RunSurya, At, ReportParts
  <2>2. zk \in BOOLEAN /\ (zk => HasAll(audit[a].contract))
    BY <1>a, ZkSound DEF ZkPassed, AuditState
  <2>3. audit' = [audit EXCEPT ![a] = own] /\ audit[a].stage = "surya"
        /\ UNCHANGED <<millis, scans, minted>>
    BY <1>5 DEF RunSurya, At
  <2> HIDE DEF zk
  <2>4. own \in AuditState /\ AuditSound(own, wrote'[a])
    <3>1. own \in AuditState
      <4>1. 15 \in 0 .. 100 /\ next \in AuditStages
        BY DEF AuditStages, Scanning
      <4>2. audit[a] \in AuditState
        BY <1>a
      <4> HIDE DEF next
      <4> QED
        BY <2>2, <4>1, <4>2, AuditScored, Zenon
    <3>2. AuditSound(own, wrote'[a])
      BY <1>a, <2>1, <2>2, <2>3 DEF AuditState, AuditSound, PartsKept
    <3> QED
      BY <3>1, <3>2
  <2> HIDE DEF own
  <2> QED
    BY <1>a, <2>1, <2>3, <2>4, AuditGoesOn
<1>6. CASE SkipAI(a)
  BY <1>6, <1>b, <1>c DEF SkipAI, At
<1>7. CASE TriageAnswered(a)
  <2>1. PICK points \in CvssScores :
          audit' = [audit EXCEPT ![a].stage = "forta", ![a].score = points]
    BY <1>7 DEF TriageAnswered, At
  <2> DEFINE own == [audit[a] EXCEPT !.stage = "forta", !.score = points]
  <2>2. PartsKept(a)
    BY <1>7, <1>w DEF TriageAnswered, At, ReportParts
  <2>3. audit' = [audit EXCEPT ![a] = own] /\ audit[a].stage = "ai"
        /\ UNCHANGED <<millis, scans, minted>>
    BY <1>7, <2>1 DEF TriageAnswered, At
  <2>4. own \in AuditState
    BY <1>a DEF AuditState
  <2>5. AuditSound(own, wrote'[a])
    BY <1>a, <2>2, <2>3 DEF AuditState, AuditSound, PartsKept
  <2> HIDE DEF own
  <2> QED
    BY <1>a, <2>2, <2>3, <2>4, <2>5, AuditGoesOn
<1>8. CASE TriageFailed(a)
  <2>1. ASSUME audit[a].attempts + 1 < MaxAttempts,
               audit' = [audit EXCEPT ![a].attempts = @ + 1],
               UNCHANGED <<millis, files, scans, minted>>
        PROVE  PipelineInv'
    <3> DEFINE own == [audit[a] EXCEPT !.attempts = @ + 1]
    <3>1. own \in AuditState /\ AuditSound(own, wrote'[a])
      BY <1>a, <1>b, <2>1 DEF AuditState, AuditSound, PartsKept
    <3>2. audit' = [audit EXCEPT ![a] = own]
      BY <2>1
    <3> HIDE DEF own
    <3> QED
      BY <1>a, <1>b, <2>1, <3>1, <3>2, AuditGoesOn
  <2>2. ASSUME audit[a].stage = "ai", Write(a, "aiAnalysisError"),
               audit' = [audit EXCEPT ![a].stage = "forta", ![a].score = 0],
               UNCHANGED <<millis, scans, minted>>
        PROVE  PipelineInv'
    <3> DEFINE own == [audit[a] EXCEPT !.stage = "forta", !.score = 0]
    <3>3. PartsKept(a)
      BY <1>w, <2>2 DEF ReportParts
    <3>1. own \in AuditState /\ AuditSound(own, wrote'[a])
      <4>1. own \in AuditState
        <5>1. 0 \in 0 .. 100
          BY <1>a
        <5> QED
          BY <1>a, <2>2, <5>1 DEF AuditState
      <4>2. AuditSound(own, wrote'[a])
        BY <1>a, <2>2, <3>3 DEF AuditState, AuditSound, PartsKept
      <4> QED
        BY <4>1, <4>2
    <3>2. audit' = [audit EXCEPT ![a] = own]
      BY <2>2
    <3> HIDE DEF own
    <3> QED
      BY <1>a, <2>2, <3>1, <3>2, <3>3, AuditGoesOn
  <2> QED
    BY <1>8, <2>1, <2>2 DEF TriageFailed, At
<1>9. CASE MonitorForta(a)
  <2>1. ASSUME NEW risk \in Risks, audit[a].stage = "forta",
               audit' = [audit EXCEPT ![a].stage = "ipfs", ![a].forta = risk],
               UNCHANGED <<millis, files, scans, minted>>
        PROVE  PipelineInv'
    <3> DEFINE own == [audit[a] EXCEPT !.stage = "ipfs", !.forta = risk]
    <3>1. own \in AuditState /\ AuditSound(own, wrote'[a])
      <4>1. own \in AuditState
        BY <1>a, <2>1, AuditMonitored
      <4>2. AuditSound(own, wrote'[a])
        BY <1>a, <1>b, <2>1 DEF AuditState, AuditSound, PartsKept
      <4> QED
        BY <4>1, <4>2
    <3>2. audit' = [audit EXCEPT ![a] = own]
      BY <2>1
    <3> HIDE DEF own
    <3> QED
      BY <1>a, <1>b, <2>1, <3>1, <3>2, AuditGoesOn
  <2>2. \A points : OverallRisk(points) \in Risks
    BY DEF OverallRisk, Risks
  <2>3. CASE Continue(a, "ipfs")
    BY <1>9, <1>b, <1>c, <2>3 DEF MonitorForta, At
  <2> QED
    BY <1>9, <2>1, <2>2, <2>3 DEF MonitorForta, At
<1>10. CASE UploadReport(a)
  <2> DEFINE own == [audit[a] EXCEPT !.stage = "eas"]
  <2>1. audit' = [audit EXCEPT ![a] = own] /\ audit[a].stage = "ipfs"
        /\ UNCHANGED <<millis, scans, minted>>
    BY <1>10 DEF UploadReport, Continue, At
  <2>2. audit[a].scan \in 1 .. MaxMillis
    BY <1>a, <2>1 DEF AuditSound
  <2>3. PartsKept(a) /\ (Pinned(audit[a].opts) => "ipfsCid" \in wrote'[a])
    <3>1. CASE Pinned(audit[a].opts)
      BY <1>10, <2>2, <3>1, PartWritten DEF UploadReport, IpfsUpload, ReportParts, Sealed
    <3>2. CASE ~Pinned(audit[a].opts)
      BY <1>10, <1>b, <3>2 DEF UploadReport
    <3> QED
      BY <3>1, <3>2
  <2>4. own \in AuditState /\ AuditSound(own, wrote'[a])
    BY <1>a, <2>2, <2>3 DEF AuditState, AuditSound, PartsKept
  <2> HIDE DEF own
  <2> QED
    BY <1>a, <2>1, <2>3, <2>4, AuditGoesOn
\* An audit that was pinned goes on to the next of the stages that seal it, ...
<1>s. ASSUME NEW reached \in {"annotate", "mint"}, Continue(a, reached),
             audit[a].stage \in {"eas", "annotate"},
             PartsKept(a), UNCHANGED <<millis, scans, minted>>
      PROVE  PipelineInv'
  <2> DEFINE own == [audit[a] EXCEPT !.stage = reached]
  <2>1. audit' = [audit EXCEPT ![a] = own]
    BY <1>s DEF Continue
  <2>2. own \in AuditState /\ AuditSound(own, wrote'[a])
    BY <1>a, <1>s DEF AuditState, AuditSound, PartsKept
  <2> HIDE DEF own
  <2> QED
    BY <1>a, <1>s, <2>1, <2>2, AuditGoesOn
\* ... where it may write any part if it was to be pinned, and none that seals if not.
<1>p. ASSUME NEW part \in ReportParts, Write(a, part),
             audit[a].stage \in {"eas", "annotate", "mint"},
             Pinned(audit[a].opts) \/ part = "fortaRisk"
      PROVE  PartsKept(a)
  <2>1. audit[a].scan \in 1 .. MaxMillis /\ (Pinned(audit[a].opts) => "ipfsCid" \in wrote[a])
    BY <1>a, <1>p DEF AuditSound
  <2> QED
    BY <1>p, <2>1, PartWritten DEF Sealed
<1>11. CASE Attest(a)
  <2>1. CASE audit[a].opts.eas
    <3>1. PartsKept(a)
      BY <1>11, <1>p, <2>1 DEF Attest, EasAttest, At, Pinned, ReportParts
    <3> QED
      BY <1>11, <1>s, <2>1, <3>1 DEF Attest, At
  <2>2. CASE ~audit[a].opts.eas
    BY <1>11, <1>b, <1>s, <2>2 DEF Attest, At
  <2> QED
    BY <2>1, <2>2
<1>13. CASE Annotate(a)
  <2>1. PartsKept(a)
    BY <1>13, <1>b, <1>p DEF Annotate, At, ReportParts
  <2> QED
    BY <1>13, <1>s, <2>1 DEF Annotate, At
<1>12. CASE MintBadge(a)
  <2>1. audit[a].stage = "mint" /\ UNCHANGED <<millis, scans>>
    BY <1>12 DEF MintBadge, At
  <2>2. CASE UNCHANGED <<files, minted>>
    BY <1>12, <1>b, <1>c, <2>1, <2>2 DEF MintBadge, files
  <2>3. CASE Continue(a, "done") /\ audit[a].opts.mint /\ (SimulateMint(a) \/ BadgeMint(a))
    <3> DEFINE own == [audit[a] EXCEPT !.stage = "done"]
               token == [contract |-> audit[a].contract, score |-> audit[a].score,
                         zk |-> audit[a].zk]
    <3>1. Pinned(audit[a].opts) /\ Write(a, "mintTx")
      BY <2>3 DEF Pinned, SimulateMint, BadgeMint
    <3>2. PartsKept(a)
      BY <1>p, <2>1, <3>1 DEF ReportParts
    <3>3. token \in Tokens /\ (Mintable(audit[a].score) => TokenSound(token))
      BY <1>a, <2>3 DEF AuditState, AuditSound, Tokens, TokenSound, Mintable
    <3>4. minted' = minted \/ (Mintable(audit[a].score) /\ minted' = minted \cup {token})
      BY <2>3 DEF SimulateMint, BadgeMint
    <3> HIDE DEF token
    <3>5. minted' \subseteq Tokens /\ \A m \in minted' : TokenSound(m)
      BY <1>a, <3>3, <3>4
    <3>6. own \in AuditState /\ AuditSound(own, wrote'[a])
      BY <1>a, <2>1, <3>2 DEF AuditState, AuditSound, PartsKept
    <3>7. audit' = [audit EXCEPT ![a] = own] /\ UNCHANGED <<millis, scans>>
      BY <2>1, <2>3 DEF Continue
    <3> HIDE DEF own
    <3> QED
      BY <1>a, <3>2, <3>5, <3>6, <3>7, AuditGoesOn
  <2> QED
    BY <1>12, <2>2, <2>3 DEF MintBadge
<1> QED
  BY <1>1, <1>2, <1>3, <1>4, <1>5, <1>6, <1>7, <1>8, <1>9, <1>10, <1>11, <1>12, <1>13
  DEF OneAudit

LEMMA BeginsTyped ==
  ASSUME NEW r \in AuditState, NEW reached \in AuditStages, NEW origin \in {"cli", "github"},
         NEW contract \in Contracts, NEW opts \in Option
  PROVE  [r EXCEPT !.stage = reached, !.origin = origin, !.contract = contract,
                   !.opts = opts] \in AuditState
BY DEF AuditState

LEMMA UploadTyped ==
  ASSUME NEW r \in AuditState, NEW reached \in AuditStages,
         NEW contract \in Contracts, NEW shared \in BOOLEAN
  PROVE  [r EXCEPT !.stage = reached, !.origin = "upload", !.contract = contract,
                   !.shared = shared] \in AuditState
BY DEF AuditState

LEMMA PipelineKept == PipelineInv /\ PipelineStep => PipelineInv'
<1> SUFFICES ASSUME PipelineInv, PipelineStep PROVE PipelineInv'
  OBVIOUS
<1> USE PipelineConstants
<1>a. /\ \A a \in Audits : audit[a] \in AuditState /\ AuditSound(audit[a], wrote[a])
      /\ wrote \in [Audits -> SUBSET ReportParts]
      /\ scans \subseteq 1 .. millis /\ millis \in 1 .. MaxMillis
      /\ minted \subseteq Tokens /\ \A token \in minted : TokenSound(token)
  BY DEF PipelineInv
<1>1. ASSUME NEW a \in Audits, Begins(a) PROVE PipelineInv'
  <2>1. PICK origin \in {"cli", "github"}, contract \in Contracts,
             opts \in Options \cup {ServerOptions}, reached \in {"cloning", "lookup", "failed"} :
          StartAudit(a, origin, contract, opts, reached)
    BY <1>1 DEF Begins
  <2> DEFINE own == [audit[a] EXCEPT !.stage = reached, !.origin = origin,
                                     !.contract = contract, !.opts = opts]
  <2>2. /\ audit' = [audit EXCEPT ![a] = own] /\ audit[a].stage = "free"
        /\ UNCHANGED <<millis, files, scans, minted>>
    BY <2>1 DEF StartAudit
  <2>3. opts \in Option /\ reached \in AuditStages
    <3>1. ServerOptions \in Option
      BY DEF Option, ServerOptions
    <3> QED
      BY <3>1 DEF AuditStages
  <2>4. own \in AuditState
    BY <1>a, <2>3, BeginsTyped
  <2>5. PartsKept(a) /\ wrote' = wrote
    BY <1>a, <2>2 DEF PartsKept, AuditSound, files
  <2>6. AuditSound(own, wrote'[a])
    BY <1>a, <2>2, <2>5 DEF AuditSound, Scanning, AuditState
  <2> HIDE DEF own
  <2> QED
    BY <1>a, <2>2, <2>4, <2>5, <2>6, AuditGoesOn
<1>2. ASSUME NEW a \in Audits, NEW contract \in Contracts, NEW shared \in BOOLEAN,
             UploadCode(a, contract, shared)
      PROVE  PipelineInv'
  <2>1. UNCHANGED <<millis, files, scans, minted>> /\ audit[a].stage = "free"
    BY <1>2 DEF UploadCode
  <2> DEFINE own == [audit[a] EXCEPT !.stage = "lookup", !.origin = "upload",
                                     !.contract = contract, !.shared = shared]
             other(b) == [audit[b] EXCEPT !.contract = contract]
             next(b) == IF b = a THEN own
                        ELSE IF shared /\ audit[b].shared THEN other(b) ELSE audit[b]
  <2>2. audit' = [b \in Audits |-> next(b)]
    BY <1>2 DEF UploadCode
  <2>3. own \in AuditState /\ AuditSound(own, wrote[a])
    <3>1. own \in AuditState
      <4>1. "lookup" \in AuditStages
        BY DEF AuditStages
      <4> QED
        BY <1>a, <4>1, UploadTyped
    <3>2. AuditSound(own, wrote[a])
      BY <1>a, <2>1 DEF AuditSound, Scanning, AuditState, ServerOptions
    <3> QED
      BY <3>1, <3>2
  <2>4. ASSUME NEW b \in Audits, audit[b].shared
        PROVE  other(b) \in AuditState /\ AuditSound(other(b), wrote[b])
    <3>1. other(b) \in AuditState
      BY <1>a DEF AuditState
    <3>2. AuditSound(other(b), wrote[b])
      BY <1>a, <2>4 DEF AuditSound, AuditState
    <3> QED
      BY <3>1, <3>2
  <2>5. \A b \in Audits : next(b) \in AuditState /\ AuditSound(next(b), wrote[b])
    <3> HIDE DEF own, other
    <3> QED
      BY <1>a, <2>3, <2>4
  <2> HIDE DEF next
  <2>6. audit' \in [Audits -> AuditState] /\ \A b \in Audits : AuditSound(audit'[b], wrote[b])
    BY <2>2, <2>5
  <2> QED
    BY <1>a, <2>1, <2>6 DEF PipelineInv, files
<1>3. CASE ClockTicks
  <2>1. millis' \in 1 .. MaxMillis /\ scans' \subseteq 1 .. millis'
    BY <1>3, <1>a DEF ClockTicks
  <2>2. UNCHANGED <<audit, wrote, minted>>
    BY <1>3 DEF ClockTicks, files
  <2> QED
    BY <2>1, <2>2 DEF PipelineInv
<1>4. CASE UNCHANGED pipelineVars
  BY <1>4 DEF pipelineVars, files, PipelineInv
<1>5. ASSUME NEW a \in Audits, Truncate(a) \/ PutReport(a) PROVE PipelineInv'
  BY <1>5 DEF Truncate, PutReport, PipelineInv
<1> QED
  BY <1>1, <1>2, <1>3, <1>4, <1>5, OneAuditStep DEF PipelineStep

\* What the server, the page and the command line do is a step of the pipeline.
LEMMA StepsOfPipeline == AuditNext => PipelineStep
<1> SUFFICES ASSUME AuditNext PROVE PipelineStep
  OBVIOUS
<1>1. ASSUME NEW a \in Audits, AuditStep(a) PROVE PipelineStep
  BY <1>1 DEF AuditStep, OneAudit, PipelineStep
<1>2. ASSUME NEW i \in Clicks, NEW a \in Audits, NEW contract \in Contracts,
             NEW target \in Targets, PostAccepted(i, a, contract, target)
      PROVE  PipelineStep
  BY <1>2 DEF PostAccepted, ImportRepository, PipelineStep, Begins
<1>3. CASE CommandLine
  <2>1. PICK a \in Audits, contract \in Contracts, opts \in Options, target \in Targets,
             address \in {"none", "malformed", "given"} :
          AuditCommand(a, contract, opts, target, address)
    BY <1>3 DEF CommandLine
  <2>2. PICK reached \in {"cloning", "lookup", "failed"} :
          StartAudit(a, "cli", contract, opts, reached)
    BY <2>1 DEF AuditCommand, Resolutions
  <2> QED
    BY <2>2 DEF PipelineStep, Begins
<1> QED
  BY <1>1, <1>2, <1>3 DEF AuditNext, ServerNext, PipelineStep

LEMMA PipelineStarts == PipelineInit => PipelineInv
<1> SUFFICES ASSUME PipelineInit PROVE PipelineInv
  OBVIOUS
<1> USE PipelineConstants
<1>1. NotStarted \in AuditState
  <2>1. (CHOOSE c \in Contracts : TRUE) \in Contracts
    OBVIOUS
  <2>2. 0 \in 0 .. MaxMillis /\ 0 \in 0 .. MaxAttempts - 1 /\ 0 \in 0 .. 100
    OBVIOUS
  <2> QED
    BY <2>1, <2>2 DEF NotStarted, AuditState, AuditStages, Option, ServerOptions
<1>2. AuditSound(NotStarted, {})
  BY DEF NotStarted, AuditSound, Scanning, ServerOptions, Sealed
<1>3. wrote = [a \in Audits |-> {}]
  BY DEF PipelineInit
<1>4. audit = [a \in Audits |-> NotStarted] /\ millis = 1 /\ scans = {} /\ minted = {}
  BY DEF PipelineInit
<1> HIDE DEF NotStarted
<1> QED
  BY <1>1, <1>2, <1>3, <1>4 DEF PipelineInv

LEMMA PipelineCorrect == AuditSpec => []PipelineInv
<1>1. PipelineInv /\ [AuditNext]_<<pipelineVars, auditStoreVars>> => PipelineInv'
  BY PipelineKept, StepsOfPipeline DEF PipelineStep
<1> QED
  BY <1>1, PipelineStarts, PTL DEF AuditSpec

WriteState == [at : {"idle", "read", "open"}, parts : SUBSET ReportParts]

\* What is so of the report of a time: it has parts of its audits only, and so has what
\* is being written; and where one process has them all, nothing is lost: at rest it
\* has all, and in the middle of a write the writer does.
FileSound(t) ==
  /\ reportFile[t].parts \subseteq PartsOf(t)
  /\ \A a \in Writers(t) : writing[a].at # "idle" => writing[a].parts \subseteq PartsOf(t)
  /\ OneProcess(t) =>
       /\ (\A a \in Writers(t) : writing[a].at = "idle") =>
            reportFile[t] = [kind |-> "json", parts |-> PartsOf(t)]
       /\ \A a \in Writers(t) :
            writing[a].at # "idle" =>
              /\ writing[a].parts = PartsOf(t)
              /\ writing[a].at = "open" => reportFile[t].kind = "empty"

\* And of the writes: one at a time in a process, in a directory that is named.
FilesInv ==
  /\ reportFile \in [1 .. MaxMillis -> Report] /\ writing \in [Audits -> WriteState]
  /\ \A a \in Audits : writing[a].at # "idle" => audit[a].scan \in 1 .. MaxMillis
  /\ \A a, b \in Audits :
       SameProcess(a, b) /\ writing[a].at # "idle" /\ writing[b].at # "idle" => a = b
  /\ \A t \in 1 .. MaxMillis : FileSound(t)

\* Who writes what: an audit keeps its directory, and its process once it has one; it
\* names one that it has not written to; or it begins a write that nothing of its
\* process is in the middle of.
ScansKept ==
  \A b \in Audits :
    /\ audit'[b].scan = audit[b].scan
    /\ audit[b].scan # 0 => audit'[b].origin = audit[b].origin
ScanNamed(a) ==
  /\ audit[a].scan = 0 /\ audit'[a].scan \in 1 .. MaxMillis
  /\ \A b \in Audits : b # a => audit'[b] = audit[b]
WriteBegins(a) ==
  /\ audit[a].scan \in 1 .. MaxMillis /\ ~Held(a)
  /\ \E part \in ReportParts : Write(a, part)

FilesStep ==
  \/ ScansKept /\ UNCHANGED files
  \/ \E a \in Audits : ScanNamed(a) /\ UNCHANGED files
  \/ \E a \in Audits : ScansKept /\ WriteBegins(a)
  \/ \E a \in Audits : Truncate(a) \/ PutReport(a)

\* A step of an audit keeps its directory if it keeps what it is of.
LEMMA OwnScanKept ==
  ASSUME PipelineInv, NEW a \in Audits, NEW r,
         audit' = [audit EXCEPT ![a] = r],
         r.scan = audit[a].scan, r.origin = audit[a].origin
  PROVE  ScansKept
BY DEF PipelineInv, ScansKept

LEMMA StepsOfFiles == PipelineInv /\ PipelineStep => FilesStep
<1> SUFFICES ASSUME PipelineInv, PipelineStep PROVE FilesStep
  OBVIOUS
<1> USE PipelineConstants
<1>a. audit \in [Audits -> AuditState] /\ \A a \in Audits : AuditSound(audit[a], wrote[a])
      /\ millis \in 1 .. MaxMillis
  BY DEF PipelineInv
<1>k. ASSUME NEW a \in Audits, NEW reached, Continue(a, reached) PROVE ScansKept
  <2> DEFINE own == [audit[a] EXCEPT !.stage = reached]
  <2>1. audit' = [audit EXCEPT ![a] = own]
    BY <1>k DEF Continue
  <2>2. own.scan = audit[a].scan /\ own.origin = audit[a].origin
    BY <1>a DEF AuditState
  <2> HIDE DEF own
  <2> QED
    BY <2>1, <2>2, OwnScanKept
<1>w. ASSUME NEW a \in Audits, NEW part \in ReportParts, ~Held(a), Write(a, part),
             audit[a].stage \in Scanning
      PROVE  WriteBegins(a)
  BY <1>a, <1>w DEF WriteBegins, AuditSound
<1>1. ASSUME NEW a \in Audits, OneAudit(a) PROVE FilesStep
  <2> USE DEF At, Scanning, ReportParts
  <2>1. CASE ResolveTarget(a)
    BY <2>1, <1>k DEF ResolveTarget, FilesStep
  <2>2. CASE LookupAttestation(a)
    <3>1. ASSUME NEW points,
                 audit' = [audit EXCEPT ![a].stage = "done", ![a].score = points]
          PROVE  ScansKept
      <4> DEFINE own == [audit[a] EXCEPT !.stage = "done", !.score = points]
      <4>1. audit' = [audit EXCEPT ![a] = own]
        BY <3>1
      <4>2. own.scan = audit[a].scan /\ own.origin = audit[a].origin
        BY <1>a DEF AuditState
      <4> HIDE DEF own
      <4> QED
        BY <4>1, <4>2, OwnScanKept
    <3>2. ASSUME audit[a].stage = "lookup",
                 audit' = [audit EXCEPT ![a].stage = "slither", ![a].scan = millis]
          PROVE  ScanNamed(a)
      <4> DEFINE own == [audit[a] EXCEPT !.stage = "slither", !.scan = millis]
      <4>1. audit' = [audit EXCEPT ![a] = own]
        BY <3>2
      <4>2. own.scan = millis
        BY <1>a DEF AuditState
      <4>3. audit[a].scan = 0
        BY <1>a, <3>2 DEF AuditSound
      <4> HIDE DEF own
      <4> QED
        BY <1>a, <4>1, <4>2, <4>3 DEF ScanNamed
    <3> QED
      BY <2>2, <3>1, <3>2 DEF LookupAttestation, FilesStep
  <2>3. CASE RunSlither(a)
    BY <2>3, <1>k, <1>w DEF RunSlither, FilesStep
  <2>4. CASE RunMythril(a)
    BY <2>4, <1>k, <1>w DEF RunMythril, FilesStep
  <2>5. CASE RunSurya(a)
    <3> DEFINE own == [audit[a] EXCEPT !.stage = IF audit[a].opts.ai THEN "ai" ELSE "forta",
                                       !.zk = ZkPassed(ZkResults(audit[a].contract)),
                                       !.score = 15]
    <3>1. audit' = [audit EXCEPT ![a] = own]
      BY <2>5 DEF RunSurya
    <3>2. own.scan = audit[a].scan /\ own.origin = audit[a].origin
      BY <1>a DEF AuditState
    <3> HIDE DEF own
    <3>3. ScansKept
      BY <3>1, <3>2, OwnScanKept
    <3>4. WriteBegins(a)
      BY <2>5, <1>w DEF RunSurya
    <3> QED
      BY <3>3, <3>4 DEF FilesStep
  <2>6. CASE SkipAI(a)
    BY <2>6, <1>k DEF SkipAI, FilesStep
  <2>s. ASSUME NEW points, audit' = [audit EXCEPT ![a].stage = "forta", ![a].score = points]
        PROVE  ScansKept
    <3> DEFINE own == [audit[a] EXCEPT !.stage = "forta", !.score = points]
    <3>1. audit' = [audit EXCEPT ![a] = own]
      BY <2>s
    <3>2. own.scan = audit[a].scan /\ own.origin = audit[a].origin
      BY <1>a DEF AuditState
    <3> HIDE DEF own
    <3> QED
      BY <3>1, <3>2, OwnScanKept
  <2>7. CASE TriageAnswered(a)
    BY <2>7, <2>s, <1>w DEF TriageAnswered, FilesStep
  <2>8. CASE TriageFailed(a)
    <3>1. ASSUME audit' = [audit EXCEPT ![a].attempts = @ + 1] PROVE ScansKept
      <4> DEFINE own == [audit[a] EXCEPT !.attempts = @ + 1]
      <4>1. audit' = [audit EXCEPT ![a] = own]
        BY <3>1
      <4>2. own.scan = audit[a].scan /\ own.origin = audit[a].origin
        BY <1>a DEF AuditState
      <4> HIDE DEF own
      <4> QED
        BY <4>1, <4>2, OwnScanKept
    <3> QED
      BY <2>8, <2>s, <3>1, <1>w DEF TriageFailed, FilesStep
  <2>9. CASE MonitorForta(a)
    <3>1. ASSUME NEW risk, audit' = [audit EXCEPT ![a].stage = "ipfs", ![a].forta = risk]
          PROVE  ScansKept
      <4> DEFINE own == [audit[a] EXCEPT !.stage = "ipfs", !.forta = risk]
      <4>1. audit' = [audit EXCEPT ![a] = own]
        BY <3>1
      <4>2. own.scan = audit[a].scan /\ own.origin = audit[a].origin
        BY <1>a DEF AuditState
      <4> HIDE DEF own
      <4> QED
        BY <4>1, <4>2, OwnScanKept
    <3> QED
      BY <2>9, <3>1, <1>k DEF MonitorForta, FilesStep
  <2>10. CASE UploadReport(a)
    BY <2>10, <1>k, <1>w DEF UploadReport, IpfsUpload, FilesStep
  <2>11. CASE Attest(a)
    BY <2>11, <1>k, <1>w DEF Attest, EasAttest, FilesStep
  <2>12. CASE Annotate(a)
    BY <2>12, <1>k, <1>w DEF Annotate, FilesStep
  <2>13. CASE MintBadge(a)
    BY <2>13, <1>k, <1>w DEF MintBadge, SimulateMint, BadgeMint, FilesStep
  <2> QED
    BY <1>1, <2>1, <2>2, <2>3, <2>4, <2>5, <2>6, <2>7, <2>8, <2>9, <2>10, <2>11, <2>12, <2>13
    DEF OneAudit
<1>2. ASSUME NEW a \in Audits, Begins(a) PROVE FilesStep
  <2>1. PICK origin \in {"cli", "github"}, contract \in Contracts,
             opts \in Options \cup {ServerOptions}, reached \in {"cloning", "lookup", "failed"} :
          StartAudit(a, origin, contract, opts, reached)
    BY <1>2 DEF Begins
  <2> DEFINE own == [audit[a] EXCEPT !.stage = reached, !.origin = origin,
                                     !.contract = contract, !.opts = opts]
  <2>2. audit' = [audit EXCEPT ![a] = own] /\ audit[a].stage = "free" /\ UNCHANGED files
    BY <2>1 DEF StartAudit
  <2>3. own.scan = audit[a].scan /\ audit[a].scan = 0
    BY <1>a, <2>2 DEF AuditState, AuditSound
  <2> HIDE DEF own
  <2>4. ScansKept
    BY <1>a, <2>2, <2>3 DEF ScansKept
  <2> QED
    BY <2>2, <2>4 DEF FilesStep
<1>3. ASSUME NEW a \in Audits, NEW contract \in Contracts, NEW shared \in BOOLEAN,
             UploadCode(a, contract, shared)
      PROVE  FilesStep
  <2>1. audit[a].scan = 0 /\ UNCHANGED files
    BY <1>a, <1>3 DEF UploadCode, AuditSound
  <2> DEFINE own == [audit[a] EXCEPT !.stage = "lookup", !.origin = "upload",
                                     !.contract = contract, !.shared = shared]
             other(b) == [audit[b] EXCEPT !.contract = contract]
             next(b) == IF b = a THEN own
                        ELSE IF shared /\ audit[b].shared THEN other(b) ELSE audit[b]
  <2>2. audit' = [b \in Audits |-> next(b)]
    BY <1>3 DEF UploadCode
  <2>3. own.scan = audit[a].scan
    BY <1>a DEF AuditState
  <2>4. ASSUME NEW b \in Audits
        PROVE  other(b).scan = audit[b].scan /\ other(b).origin = audit[b].origin
    BY <1>a DEF AuditState
  <2>5. ASSUME NEW b \in Audits
        PROVE  next(b).scan = audit[b].scan /\ (b # a => next(b).origin = audit[b].origin)
    <3> HIDE DEF own, other
    <3> QED
      BY <2>3, <2>4
  <2> HIDE DEF next
  <2> QED
    BY <2>1, <2>2, <2>5 DEF ScansKept, FilesStep
<1>4. CASE ClockTicks
  BY <1>4 DEF ClockTicks, ScansKept, FilesStep
<1>5. CASE UNCHANGED pipelineVars
  BY <1>5 DEF pipelineVars, ScansKept, FilesStep
<1> QED
  BY <1>1, <1>2, <1>3, <1>4, <1>5 DEF PipelineStep, FilesStep

\* Where the audits keep their directories, a report keeps its writers.
LEMMA WritersKept ==
  ASSUME ScansKept
  PROVE  /\ \A t \in 1 .. MaxMillis : Writers(t)' = Writers(t) /\ OneProcess(t)' = OneProcess(t)
         /\ \A a, b \in Audits :
              audit[a].scan # 0 /\ audit[b].scan # 0 => SameProcess(a, b)' = SameProcess(a, b)
<1> USE PipelineConstants DEF ScansKept
<1>1. ASSUME NEW a \in Audits, NEW b \in Audits, audit[a].scan # 0, audit[b].scan # 0
      PROVE  SameProcess(a, b)' = SameProcess(a, b)
  BY <1>1 DEF SameProcess
<1>2. ASSUME NEW t \in 1 .. MaxMillis PROVE Writers(t)' = Writers(t)
  BY DEF Writers
<1>3. ASSUME NEW t \in 1 .. MaxMillis PROVE OneProcess(t)' = OneProcess(t)
  <2>1. \A a \in Writers(t) : a \in Audits /\ audit[a].scan # 0
    BY DEF Writers
  <2>2. Writers(t)' = Writers(t)
    BY <1>2
  <2>3. \A a, b \in Writers(t) : SameProcess(a, b)' = SameProcess(a, b)
    BY <1>1, <2>1
  <2> QED
    BY <2>2, <2>3 DEF OneProcess
<1> QED
  BY <1>1, <1>2, <1>3

LEMMA FilesStay ==
  ASSUME PipelineInv, FilesInv, UNCHANGED files,
         ScansKept \/ \E a \in Audits : ScanNamed(a)
  PROVE  FilesInv'
<1> USE PipelineConstants
<1>f. UNCHANGED <<reportFile, writing, wrote>>
  BY DEF files
<1>1. CASE ScansKept
  <2>1. \A t \in 1 .. MaxMillis : PartsOf(t)' = PartsOf(t)
    BY <1>1, <1>f, WritersKept DEF PartsOf
  <2>2. \A t \in 1 .. MaxMillis : FileSound(t)'
    BY <1>1, <1>f, <2>1, WritersKept DEF FilesInv, FileSound
  <2>3. \A a \in Audits : writing'[a].at # "idle" => audit'[a].scan \in 1 .. MaxMillis
    BY <1>1, <1>f DEF ScansKept, FilesInv
  <2>4. ASSUME NEW a \in Audits, NEW b \in Audits, SameProcess(a, b)',
               writing'[a].at # "idle", writing'[b].at # "idle"
        PROVE  a = b
    <3>1. audit[a].scan # 0 /\ audit[b].scan # 0
      BY <1>f, <2>4 DEF FilesInv
    <3> QED
      BY <1>1, <1>f, <2>4, <3>1, WritersKept DEF FilesInv
  <2> QED
    BY <1>f, <2>2, <2>3, <2>4 DEF FilesInv
<1>2. ASSUME NEW c \in Audits, ScanNamed(c) PROVE FilesInv'
  <2>1. /\ audit[c].scan = 0 /\ wrote[c] = {} /\ writing[c].at = "idle"
        /\ \A b \in Audits : b # c => audit'[b] = audit[b]
        /\ writing \in [Audits -> WriteState]
    BY <1>2 DEF ScanNamed, PipelineInv, AuditSound, FilesInv
  <2>2. ASSUME NEW t \in 1 .. MaxMillis
        PROVE  /\ Writers(t) \subseteq Writers(t)' /\ Writers(t)' \subseteq Writers(t) \cup {c}
               /\ c \notin Writers(t)
    BY <2>1 DEF Writers
  <2>3. ASSUME NEW t \in 1 .. MaxMillis PROVE PartsOf(t)' = PartsOf(t)
    <3>1. PartsOf(t)' \subseteq PartsOf(t)
      BY <1>f, <2>1, <2>2 DEF PartsOf
    <3>2. PartsOf(t) \subseteq PartsOf(t)'
      BY <1>f, <2>2 DEF PartsOf
    <3> QED
      BY <3>1, <3>2
  <2>4. \A a, b \in Audits : a # c /\ b # c => SameProcess(a, b)' = SameProcess(a, b)
    BY <2>1 DEF SameProcess
  <2>5. ASSUME NEW t \in 1 .. MaxMillis PROVE FileSound(t)'
    <3>1. OneProcess(t)' => OneProcess(t)
      <4>1. \A a, b \in Writers(t) : a \in Audits /\ b \in Audits /\ a # c /\ b # c
        BY <2>2 DEF Writers
      <4> QED
        BY <2>2, <2>4, <4>1 DEF OneProcess
    <3>2. FileSound(t)
      BY DEF FilesInv
    <3> QED
      BY <1>f, <2>1, <2>2, <2>3, <3>1, <3>2 DEF FileSound
  <2>6. \A a \in Audits : writing'[a].at # "idle" => audit'[a].scan \in 1 .. MaxMillis
    BY <1>f, <2>1 DEF FilesInv
  <2>7. ASSUME NEW a \in Audits, NEW b \in Audits, SameProcess(a, b)',
               writing'[a].at # "idle", writing'[b].at # "idle"
        PROVE  a = b
    BY <1>f, <2>1, <2>4, <2>7 DEF FilesInv
  <2> QED
    BY <1>f, <2>5, <2>6, <2>7 DEF FilesInv
<1> QED
  BY <1>1, <1>2

\* A write begins with all that is on file, and adds its part to what was written.
LEMMA FilesRead ==
  ASSUME PipelineInv, FilesInv, NEW a \in Audits, ScansKept, WriteBegins(a)
  PROVE  FilesInv'
<1> USE PipelineConstants
<1>0. PICK s : s = audit[a].scan
  OBVIOUS
<1>1. PICK part \in ReportParts : Write(a, part)
  BY DEF WriteBegins
<1> DEFINE own == [at |-> "read", parts |-> reportFile[s].parts \cup {part}]
<1>2. /\ s \in 1 .. MaxMillis /\ ~Held(a)
      /\ writing' = [writing EXCEPT ![a] = own] /\ wrote' = [wrote EXCEPT ![a] = @ \cup {part}]
      /\ reportFile' = reportFile
  BY <1>0, <1>1 DEF WriteBegins, Write, ReportWith
<1>3. /\ reportFile \in [1 .. MaxMillis -> Report] /\ writing \in [Audits -> WriteState]
      /\ wrote \in [Audits -> SUBSET ReportParts]
  BY DEF FilesInv, PipelineInv
<1>4. own \in WriteState /\ own.at = "read" /\ own.parts = reportFile[s].parts \cup {part}
  BY <1>1, <1>2, <1>3 DEF WriteState, Report
<1>5. FileSound(s)
  BY <1>2 DEF FilesInv
<1> HIDE DEF own
<1>6. /\ writing'[a] = own /\ wrote'[a] = wrote[a] \cup {part}
      /\ \A b \in Audits : b # a => writing'[b] = writing[b] /\ wrote'[b] = wrote[b]
      /\ writing' \in [Audits -> WriteState]
  BY <1>2, <1>3, <1>4
<1>7. /\ a \in Writers(s) /\ \A t : a \in Writers(t) => t = s
  BY <1>0 DEF Writers
<1>8. ASSUME NEW t \in 1 .. MaxMillis
      PROVE  PartsOf(t)' = IF t = s THEN PartsOf(t) \cup {part} ELSE PartsOf(t)
  <2>1. Writers(t)' = Writers(t) /\ \A b \in Writers(t) : b \in Audits
    BY WritersKept DEF Writers
  <2>2. CASE t = s
    <3>1. PartsOf(t)' \subseteq PartsOf(t) \cup {part}
      BY <1>6, <2>1 DEF PartsOf
    <3>2. PartsOf(t) \cup {part} \subseteq PartsOf(t)'
      BY <1>6, <1>7, <2>1, <2>2 DEF PartsOf
    <3> QED
      BY <2>2, <3>1, <3>2
  <2>3. CASE t # s
    <3>1. \A b \in Writers(t) : wrote'[b] = wrote[b]
      BY <1>6, <1>7, <2>1, <2>3
    <3> QED
      BY <2>1, <2>3, <3>1 DEF PartsOf
  <2> QED
    BY <2>2, <2>3
<1>9. \A b \in Audits : SameProcess(a, b) => writing[b].at = "idle"
  BY <1>2 DEF Held
<1>10. ASSUME NEW t \in 1 .. MaxMillis PROVE FileSound(t)'
  <2>1. Writers(t)' = Writers(t) /\ (OneProcess(t)' <=> OneProcess(t)) /\ FileSound(t)
    BY WritersKept DEF FilesInv
  <2>2. CASE t = s
    <3>1. PartsOf(t)' = PartsOf(t) \cup {part}
      BY <1>8, <2>2
    <3>2. ASSUME OneProcess(t)
          PROVE  /\ \A b \in Writers(t) : b # a => writing'[b].at = "idle"
                 /\ own.parts = PartsOf(t) \cup {part}
      <4>1. \A b \in Writers(t) : b \in Audits /\ writing[b].at = "idle"
        BY <1>7, <1>9, <2>2, <3>2 DEF OneProcess, Writers
      <4>2. reportFile[t].parts = PartsOf(t)
        BY <2>1, <3>2, <4>1 DEF FileSound
      <4> QED
        BY <1>4, <1>6, <2>2, <4>1, <4>2
    <3> QED
      BY <1>2, <1>4, <1>6, <1>7, <2>1, <2>2, <3>1, <3>2 DEF FileSound
  <2>3. CASE t # s
    <3>1. PartsOf(t)' = PartsOf(t)
      BY <1>8, <2>3
    <3>2. \A b \in Writers(t) : writing'[b] = writing[b]
      BY <1>6, <1>7, <2>3 DEF Writers
    <3> QED
      BY <1>2, <2>1, <3>1, <3>2 DEF FileSound
  <2> QED
    BY <2>2, <2>3
<1>11. \A b \in Audits : writing'[b].at # "idle" => audit'[b].scan \in 1 .. MaxMillis
  BY <1>0, <1>2, <1>6 DEF FilesInv, ScansKept
<1>12. ASSUME NEW b \in Audits, NEW c \in Audits, SameProcess(b, c)',
              writing'[b].at # "idle", writing'[c].at # "idle"
       PROVE  b = c
  <2>1. audit[b].scan # 0 /\ audit[c].scan # 0
    BY <1>0, <1>2, <1>6, <1>12 DEF FilesInv
  <2>2. SameProcess(b, c)
    BY <1>12, <2>1, WritersKept
  <2>3. SameProcess(c, b)
    BY <2>2 DEF SameProcess
  <2> QED
    BY <1>6, <1>9, <1>12, <2>2, <2>3 DEF FilesInv
<1> QED
  BY <1>2, <1>3, <1>6, <1>10, <1>11, <1>12 DEF FilesInv

\* The two other steps of a write change one report, which has then the parts that the
\* writer read and added, or none.
LEMMA FilesWritten ==
  ASSUME PipelineInv, FilesInv, NEW a \in Audits, Truncate(a) \/ PutReport(a)
  PROVE  FilesInv'
<1> USE PipelineConstants
<1>0. PICK s : s = audit[a].scan
  OBVIOUS
<1>1. /\ writing[a].at # "idle" /\ UNCHANGED <<audit, wrote>>
      /\ reportFile \in [1 .. MaxMillis -> Report] /\ writing \in [Audits -> WriteState]
      /\ writing[a] \in WriteState
  BY DEF Truncate, PutReport, FilesInv
<1>2. s \in 1 .. MaxMillis /\ FileSound(s) /\ writing[a].parts \subseteq PartsOf(s)
  BY <1>0, <1>1 DEF FilesInv, FileSound, Writers
<1>3. \A t : Writers(t)' = Writers(t) /\ (OneProcess(t)' <=> OneProcess(t)) /\ PartsOf(t)' = PartsOf(t)
  BY <1>1 DEF Writers, OneProcess, SameProcess, PartsOf
<1>4. PICK own, file :
        /\ writing' = [writing EXCEPT ![a] = own] /\ reportFile' = [reportFile EXCEPT ![s] = file]
        /\ own \in WriteState /\ file \in Report
        /\ own.at # "idle" => own.parts = writing[a].parts
        /\ \/ own.at = "open" /\ file.kind = "empty" /\ file.parts = {}
           \/ /\ writing[a].at = "open" /\ own.at = "idle"
              /\ file = [kind |-> "json", parts |-> writing[a].parts]
           \/ /\ writing[a].at = "open" /\ own.at = "idle"
              /\ reportFile[s].kind # "empty" /\ file.parts = {}
  <2>1. CASE Truncate(a)
    <3> DEFINE own == [writing[a] EXCEPT !.at = "open"]
               file == [kind |-> "empty", parts |-> {}]
    <3>1. writing' = [writing EXCEPT ![a] = own] /\ reportFile' = [reportFile EXCEPT ![s] = file]
      BY <1>0, <2>1 DEF Truncate
    <3>2. /\ own \in WriteState /\ own.at = "open" /\ own.parts = writing[a].parts
          /\ file \in Report /\ file.kind = "empty" /\ file.parts = {}
      BY <1>1 DEF WriteState, Report
    <3> HIDE DEF own, file
    <3> QED
      BY <3>1, <3>2
  <2>2. CASE PutReport(a)
    <3>1. /\ NotWriting \in WriteState /\ NotWriting.at = "idle"
          /\ [kind |-> "json", parts |-> writing[a].parts] \in Report
          /\ [kind |-> "broken", parts |-> {}] \in Report
          /\ [kind |-> "broken", parts |-> {}].parts = {}
      BY <1>1 DEF NotWriting, WriteState, Report
    <3>2. /\ writing' = [writing EXCEPT ![a] = NotWriting] /\ writing[a].at = "open"
          /\ \/ reportFile' = [reportFile EXCEPT ![s] =
                                 [kind |-> "json", parts |-> writing[a].parts]]
             \/ /\ reportFile[s].kind # "empty"
                /\ reportFile' = [reportFile EXCEPT ![s] = [kind |-> "broken", parts |-> {}]]
      BY <1>0, <2>2 DEF PutReport
    <3> HIDE DEF NotWriting
    <3> QED
      BY <3>1, <3>2
  <2> QED
    BY <2>1, <2>2
<1>5. /\ writing'[a] = own /\ \A b \in Audits : b # a => writing'[b] = writing[b]
      /\ reportFile'[s] = file
      /\ \A t \in 1 .. MaxMillis : t # s => reportFile'[t] = reportFile[t]
      /\ writing' \in [Audits -> WriteState] /\ reportFile' \in [1 .. MaxMillis -> Report]
  BY <1>1, <1>2, <1>4
<1>6. /\ a \in Writers(s) /\ \A t : a \in Writers(t) => t = s
      /\ \A t : Writers(t) \subseteq Audits
  BY <1>0 DEF Writers
<1>7. ASSUME NEW t \in 1 .. MaxMillis PROVE FileSound(t)'
  <2>1. CASE t # s
    <3>1. \A b \in Writers(t) : writing'[b] = writing[b]
      BY <1>5, <1>6, <2>1
    <3>2. FileSound(t)
      BY DEF FilesInv
    <3> QED
      BY <1>3, <1>5, <2>1, <3>1, <3>2 DEF FileSound
  <2>2. CASE t = s
    <3>1. reportFile'[t].parts \subseteq PartsOf(t)
      BY <1>2, <1>4, <1>5, <2>2
    <3>2. ASSUME OneProcess(t)
          PROVE  /\ \A b \in Writers(t) : b # a => writing'[b].at = "idle"
                 /\ writing[a].parts = PartsOf(t)
                 /\ writing[a].at = "open" => reportFile[t].kind = "empty"
      <4>1. \A b \in Writers(t) : SameProcess(a, b)
        BY <1>6, <2>2, <3>2 DEF OneProcess
      <4>2. \A b \in Writers(t) : b # a => writing[b].at = "idle"
        BY <1>1, <1>6, <4>1 DEF FilesInv
      <4> QED
        BY <1>1, <1>2, <1>5, <1>6, <2>2, <3>2, <4>2 DEF FileSound
    <3>3. ASSUME OneProcess(t)
          PROVE  /\ own.at = "idle" => reportFile'[t] = [kind |-> "json", parts |-> PartsOf(t)]
                 /\ own.at # "idle" =>
                      own.parts = PartsOf(t) /\ (own.at = "open" => reportFile'[t].kind = "empty")
      BY <1>4, <1>5, <2>2, <3>2, <3>3
    <3>4. \A b \in Writers(t) : writing'[b].at # "idle" => writing'[b].parts \subseteq PartsOf(t)
      BY <1>2, <1>4, <1>5, <1>6, <2>2 DEF FileSound
    <3>5. \A b \in Writers(t) : b = a \/ (OneProcess(t) => writing'[b].at = "idle")
      BY <3>2
    <3> QED
      BY <1>3, <1>5, <1>6, <2>2, <3>1, <3>3, <3>4, <3>5 DEF FileSound
  <2> QED
    BY <2>1, <2>2
<1>8. \A b \in Audits :
        writing'[b].at # "idle" => writing[b].at # "idle" /\ audit'[b].scan \in 1 .. MaxMillis
  BY <1>0, <1>1, <1>2, <1>5 DEF FilesInv
<1>9. ASSUME NEW b \in Audits, NEW c \in Audits, SameProcess(b, c)',
             writing'[b].at # "idle", writing'[c].at # "idle"
      PROVE  b = c
  <2>1. SameProcess(b, c)
    BY <1>1, <1>9 DEF SameProcess
  <2> QED
    BY <1>8, <1>9, <2>1 DEF FilesInv
<1> QED
  BY <1>5, <1>7, <1>8, <1>9 DEF FilesInv

LEMMA FilesStart == PipelineInit => FilesInv
<1> SUFFICES ASSUME PipelineInit PROVE FilesInv
  OBVIOUS
<1> USE PipelineConstants
<1>1. /\ reportFile = [t \in 1 .. MaxMillis |-> NoReport]
      /\ writing = [a \in Audits |-> NotWriting] /\ wrote = [a \in Audits |-> {}]
      /\ \A a \in Audits : audit[a].scan = 0
  BY DEF PipelineInit, NotStarted
<1>2. NoReport \in Report /\ NotWriting \in WriteState /\ NotWriting.at = "idle"
  BY DEF NoReport, NotWriting, Report, WriteState
<1>3. ASSUME NEW t \in 1 .. MaxMillis PROVE Writers(t) = {} /\ PartsOf(t) = {}
  BY <1>1 DEF Writers, PartsOf
<1>4. ASSUME NEW t \in 1 .. MaxMillis PROVE FileSound(t)
  <2>1. reportFile[t] = [kind |-> "json", parts |-> {}]
    BY <1>1 DEF NoReport
  <2>2. reportFile[t].parts = {}
    BY <2>1
  <2> QED
    BY <1>3, <2>1, <2>2 DEF FileSound
<1> HIDE DEF NoReport, NotWriting
<1> QED
  BY <1>1, <1>2, <1>4 DEF FilesInv

LEMMA FilesCorrect == AuditSpec => []FilesInv
<1>1. PipelineInv /\ FilesInv /\ [AuditNext]_<<pipelineVars, auditStoreVars>> => FilesInv'
  <2> SUFFICES ASSUME PipelineInv, FilesInv, FilesStep PROVE FilesInv'
    BY StepsOfPipeline, StepsOfFiles DEF PipelineStep
  <2> QED
    BY FilesStay, FilesRead, FilesWritten DEF FilesStep
<1> QED
  BY <1>1, PipelineCorrect, FilesStart, PTL DEF AuditSpec

\* Audits, their reports and the tokens minted for them have their types.
THEOREM PipelineTypeCorrect == AuditSpec => []PipelineTypeOK
<1>1. PipelineInv /\ FilesInv => PipelineTypeOK
  BY DEF PipelineInv, FilesInv, PipelineTypeOK, Tokens, WriteState
<1> QED
  BY <1>1, PipelineCorrect, FilesCorrect, PTL

\* Every audit pins before it seals, a report has only what its audits wrote, and has
\* all of it where one process has them all, for any number of audits of any number of
\* processes that start in one millisecond, with any options.
THEOREM ReportsAreKept == AuditSpec => []ReportsKept
<1>1. PipelineInv /\ FilesInv => ReportsKept
  <2> SUFFICES ASSUME PipelineInv, FilesInv PROVE ReportsKept
    OBVIOUS
  <2> USE PipelineConstants
  <2>1. \A a \in Audits : Sealed(wrote[a]) => "ipfsCid" \in wrote[a]
    BY DEF PipelineInv, AuditSound
  <2>2. ASSUME NEW t \in scans, OneProcess(t), \A a \in Writers(t) : writing[a].at = "idle"
        PROVE  /\ reportFile[t] = [kind |-> "json", parts |-> PartsOf(t)]
               /\ Sealed(reportFile[t].parts) => "ipfsCid" \in reportFile[t].parts
    <3>1. FileSound(t)
      BY DEF PipelineInv, FilesInv
    <3>2. reportFile[t] = [kind |-> "json", parts |-> PartsOf(t)]
      BY <2>2, <3>1 DEF FileSound
    <3>3. Sealed(PartsOf(t)) => "ipfsCid" \in PartsOf(t)
      <4> SUFFICES ASSUME Sealed(PartsOf(t)) PROVE "ipfsCid" \in PartsOf(t)
        OBVIOUS
      <4>1. PICK a \in Writers(t) : Sealed(wrote[a])
        BY DEF Sealed, PartsOf
      <4>2. a \in Audits
        BY DEF Writers
      <4> QED
        BY <2>1, <4>1, <4>2 DEF PartsOf
    <3> QED
      BY <3>2, <3>3
  <2>3. \A t \in scans : reportFile[t].parts \subseteq PartsOf(t)
    BY DEF PipelineInv, FilesInv, FileSound
  <2> QED
    BY <2>1, <2>2, <2>3 DEF ReportsKept
<1> QED
  BY <1>1, PipelineCorrect, FilesCorrect, PTL

\* The page shows one report at most, and mints only what it can.
StoreInv ==
  /\ simStatus \in {"IDLE", "RUNNING", "COMPLETED", "ERROR"}
  /\ tab \in {"upload", "github"}
  /\ loaded \in BOOLEAN
  /\ triages \in 0 .. MaxTriages
  /\ shown = {} \/ \E points \in AuditXReport : shown = {points}
  /\ pageMinted \subseteq AuditXReport /\ \A points \in pageMinted : points < 70
  /\ request \in [Clicks -> {"none", "sent", "answered"}]
  /\ stream \in [Clicks -> {"none", "connecting", "open", "closed"}]
  /\ heard \in [Clicks -> BOOLEAN]
  /\ fetching \in [Clicks -> BOOLEAN]

LEMMA StoreStep == StoreInv /\ [AuditNext]_<<pipelineVars, auditStoreVars>> => StoreInv'
<1> SUFFICES ASSUME StoreInv, [AuditNext]_<<pipelineVars, auditStoreVars>> PROVE StoreInv'
  OBVIOUS
<1> USE PipelineConstants, StoreConstants DEF StoreInv, storeRest
<1>1. ASSUME NEW a \in Audits, AuditStep(a) PROVE StoreInv'
  <2>1. heard' \in [Clicks -> BOOLEAN]
    BY <1>1 DEF AuditStep, Emit
  <2> QED
    BY <1>1, <2>1 DEF AuditStep
<1>2. CASE UNCHANGED auditStoreVars
  BY <1>2 DEF auditStoreVars
<1>3. ASSUME NEW i \in Clicks, NEW a \in Audits, NEW contract \in Contracts,
             NEW target \in Targets, PostAccepted(i, a, contract, target)
      PROVE  StoreInv'
  BY <1>3 DEF PostAccepted
<1>4. ASSUME NEW t \in {"upload", "github"}, SetSourceTab(t) PROVE StoreInv'
  BY <1>4 DEF SetSourceTab
<1>5. CASE SetFile
  BY <1>5 DEF SetFile
<1>6. CASE ResetAudit
  BY <1>6 DEF ResetAudit
<1>7. CASE RunAudit
  <2>1. triages' \in 0 .. MaxTriages
    BY <1>7 DEF RunAudit
  <2>2. simStatus' = "RUNNING" /\ shown' = {}
        /\ UNCHANGED <<tab, loaded, request, stream, heard, fetching, pageMinted>>
    BY <1>7 DEF RunAudit
  <2> QED
    BY <2>1, <2>2
<1>8. CASE RunGithubAudit
  <2>1. /\ request' \in [Clicks -> {"none", "sent", "answered"}]
        /\ stream' \in [Clicks -> {"none", "connecting", "open", "closed"}]
    BY <1>8 DEF RunGithubAudit
  <2>2. simStatus' = "RUNNING" /\ shown' = {} /\ UNCHANGED <<storeRest, heard, fetching>>
    BY <1>8 DEF RunGithubAudit
  <2> QED
    BY <2>1, <2>2
<1>9. CASE TriageSettles
  <2>1. triages' \in 0 .. MaxTriages
    BY <1>9 DEF TriageSettles
  <2>2. simStatus' \in {"COMPLETED", "ERROR"} /\ shown' \in {shown} \cup RunAiTriage
        /\ UNCHANGED <<tab, loaded, request, stream, heard, fetching, pageMinted>>
    BY <1>9 DEF TriageSettles
  <2>3. shown' = {} \/ \E points \in AuditXReport : shown' = {points}
    BY <2>2 DEF RunAiTriage, AuditXReport
  <2> QED
    BY <2>1, <2>2, <2>3
<1>10. CASE MintShown
  <2>1. PICK points \in shown : Mintable(points) /\ pageMinted' = pageMinted \cup {points}
    BY <1>10 DEF MintShown
  <2>2. pageMinted' \subseteq AuditXReport /\ \A n \in pageMinted' : n < 70
    BY <2>1 DEF Mintable
  <2> QED
    BY <1>10, <2>2 DEF MintShown
<1>11. ASSUME NEW i \in Clicks, StreamOpens(i) PROVE StoreInv'
  BY <1>11 DEF StreamOpens
<1>12. ASSUME NEW i \in Clicks, StreamFails(i) PROVE StoreInv'
  BY <1>12 DEF StreamFails
<1>13. ASSUME NEW i \in Clicks, PostFails(i) PROVE StoreInv'
  <2>1. stream' \in [Clicks -> {"none", "connecting", "open", "closed"}]
    BY <1>13 DEF PostFails
  <2>2. heard' \in [Clicks -> BOOLEAN]
    BY <1>13 DEF PostFails
  <2>3. request' \in [Clicks -> {"none", "sent", "answered"}] /\ simStatus' = "ERROR"
        /\ UNCHANGED <<storeRest, fetching, shown>>
    BY <1>13 DEF PostFails
  <2> QED
    BY <2>1, <2>2, <2>3
<1>14. ASSUME NEW i \in Clicks, ImportLost(i) PROVE StoreInv'
  BY <1>14 DEF ImportLost
<1>15. ASSUME NEW i \in Clicks, OnComplete(i) PROVE StoreInv'
  BY <1>15 DEF OnComplete
<1>16. ASSUME NEW i \in Clicks, FetchSettles(i) PROVE StoreInv'
  <2>1. shown' = shown \/ shown' = {15}
    BY <1>16 DEF FetchSettles, LatestScore
  <2>2. shown' = {} \/ \E points \in AuditXReport : shown' = {points}
    BY <2>1 DEF AuditXReport
  <2>3. fetching' \in [Clicks -> BOOLEAN] /\ simStatus' \in {"COMPLETED", "ERROR"}
        /\ UNCHANGED <<storeRest, request, stream, heard>>
    BY <1>16 DEF FetchSettles
  <2> QED
    BY <2>2, <2>3
<1> QED
  BY <1>1, <1>2, <1>3, <1>4, <1>5, <1>6, <1>7, <1>8, <1>9, <1>10, <1>11, <1>12, <1>13,
     <1>14, <1>15, <1>16
  DEF AuditNext, ServerNext, CommandLine

LEMMA StoreCorrect == AuditSpec => []StoreInv
<1>1. StoreInit => StoreInv
  <2>1. ASSUME StoreInit PROVE triages \in 0 .. MaxTriages
    BY <2>1, StoreConstants DEF StoreInit
  <2> QED
    BY <2>1 DEF StoreInit, StoreInv
<1> QED
  BY <1>1, StoreStep, PTL DEF AuditSpec

\* The page's variables have their types, and it shows one report at most.
THEOREM StoreTypeCorrect == AuditSpec => []StoreTypeOK
<1>1. StoreInv => StoreTypeOK
  <2> SUFFICES ASSUME StoreInv PROVE StoreTypeOK
    OBVIOUS
  <2>1. shown \subseteq AuditXReport /\ Cardinality(shown) <= 1
    <3>1. CASE shown = {}
      BY <3>1, FS_EmptySet
    <3>2. ASSUME NEW points \in AuditXReport, shown = {points} PROVE <2>1
      <4>1. Cardinality({points}) = 1
        BY FS_Singleton
      <4> QED
        BY <3>2, <4>1
    <3> QED
      BY <3>1, <3>2 DEF StoreInv
  <2>2. triages \in 0 .. MaxTriages
    BY DEF StoreInv
  <2> QED
    BY <2>1, <2>2 DEF StoreInv, StoreTypeOK
<1> QED
  BY <1>1, StoreCorrect, PTL

\* No badge is for a score of 7.0 or more, whoever mints it; and a badge of the
\* pipeline says that the ZK checks passed only of a contract that passes them,
\* although an upload may replace the contract of another.
THEOREM BadgesAreEarned == AuditSpec => []BadgesEarned
<1>1. PipelineInv /\ StoreInv => BadgesEarned
  <2> SUFFICES ASSUME PipelineInv, StoreInv PROVE BadgesEarned
    OBVIOUS
  <2>1. \A token \in minted : token \in Tokens /\ TokenSound(token)
    BY DEF PipelineInv
  <2>2. ASSUME NEW token \in minted, BadgeGrade(token) = "EMERALD"
        PROVE  token.zk \/ token.score < 50
    <3>1. token.score \in 0 .. 100
      BY <2>1 DEF Tokens
    <3>2. ~(token.score >= 70 \/ (~token.zk /\ token.score >= 50))
      BY <2>2 DEF BadgeGrade
    <3> QED
      BY <3>1, <3>2
  <2>3. ZkSealEarned
    BY <2>1, <2>2 DEF ZkSealEarned, TokenSound, HasAll
  <2>4. \A token \in minted : token.score < 70
    BY <2>1 DEF TokenSound
  <2>5. \A points \in pageMinted : points < 70
    BY DEF StoreInv
  <2> QED
    BY <2>3, <2>4, <2>5 DEF BadgesEarned
<1> QED
  BY <1>1, PipelineCorrect, StoreCorrect, PTL

----------------------------------------------------------------------------
(* Forta *)

FortaRules == {FortaMap[n] : n \in DOMAIN FortaMap}
Templates == {"reentrancy", "drain", "admin", "dos", "phishing", "manipulation"}

LEMMA MapRules ==
  /\ FortaMap \in Seq(FortaRules)
  /\ \A r \in FortaRules : r.template \in Templates /\ r.rank \in 2 .. 4
<1>1. FortaMap \in Seq(FortaRules) /\ DOMAIN FortaMap = 1 .. 10
  BY DEF FortaMap, FortaRules
<1>2. \A n \in 1 .. 10 : FortaMap[n].template \in Templates /\ FortaMap[n].rank \in 2 .. 4
  BY DEF FortaMap, Rule, Templates
<1> QED
  BY <1>1, <1>2 DEF FortaRules

\* A finite set of numbers has a least one, the one at place one.
LEMMA LeastMember ==
  ASSUME NEW R \in SUBSET Int, IsFiniteSet(R), R # {}
  PROVE  \E i \in R : \A j \in R : i <= j
<1> DEFINE i == Nth(R, 1)
<1>1. \E k \in R : TRUE
  OBVIOUS
<1>2. 1 \in 1 .. Cardinality(R)
  BY <1>1, NthElement
<1>3. i \in R /\ Rank(R, i) = 1
  BY <1>2, NthElement
<1> HIDE DEF i
<1>4. i \in Int /\ \A j \in R : j \in Int
  BY <1>3
<1>5. ASSUME NEW j \in R, j < i PROVE FALSE
  <2> DEFINE upto == {k \in R : k <= i}
  <2>1. {i, j} \subseteq upto /\ i # j
    BY <1>3, <1>4, <1>5
  <2>2. IsFiniteSet(upto) /\ Cardinality(upto) = 1
    BY <1>3, FS_Subset DEF Rank
  <2> HIDE DEF upto
  <2>3. IsFiniteSet({i}) /\ Cardinality({i}) = 1 /\ j \notin {i}
    BY <2>1, FS_Singleton
  <2>4. Cardinality({i} \cup {j}) = Cardinality({i}) + 1
    BY <2>3, FS_AddElement
  <2>5. {i, j} = {i} \cup {j}
    OBVIOUS
  <2>6. Cardinality({i, j}) = Cardinality({i}) + 1
    BY <2>4, <2>5, Zenon
  <2>7. Cardinality({i, j}) <= Cardinality(upto)
    BY <2>1, <2>2, FS_Subset
  <2> QED
    BY <2>2, <2>3, <2>6, <2>7
<1> QED
  BY <1>3, <1>4, <1>5

\* Among rules there is a first one of the highest rank.
LEMMA FirstOfHighest ==
  ASSUME NEW rules \in Seq(FortaRules), rules # <<>>
  PROVE  \E i \in DOMAIN rules :
           /\ \A j \in DOMAIN rules : rules[j].rank <= rules[i].rank
           /\ \A j \in 1 .. i - 1 : rules[j].rank < rules[i].rank
<1> DEFINE Ranked(n) == {i \in DOMAIN rules : rules[i].rank = n}
<1>1. /\ DOMAIN rules = 1 .. Len(rules) /\ Len(rules) \in Nat \ {0}
      /\ \A i \in DOMAIN rules : rules[i].rank \in 2 .. 4
  BY MapRules, ElementOfSeq, EmptySeq
<1>2. ASSUME NEW n \in 2 .. 4, Ranked(n) # {}, \A i \in DOMAIN rules : rules[i].rank <= n
      PROVE  \E i \in DOMAIN rules :
               /\ \A j \in DOMAIN rules : rules[j].rank <= rules[i].rank
               /\ \A j \in 1 .. i - 1 : rules[j].rank < rules[i].rank
  <2> DEFINE R == Ranked(n)
  <2>1. R \in SUBSET Int /\ IsFiniteSet(R) /\ R \subseteq 1 .. Len(rules) /\ R # {}
    <3>1. Len(rules) \in Nat /\ DOMAIN rules = 1 .. Len(rules)
      BY <1>1
    <3>2. IsFiniteSet(1 .. Len(rules))
      BY <3>1, FS_Interval
    <3>3. R \subseteq 1 .. Len(rules) /\ R # {}
      BY <1>2, <3>1
    <3> HIDE DEF R
    <3>4. IsFiniteSet(R)
      BY <3>2, <3>3, FS_Subset
    <3> QED
      BY <3>1, <3>3, <3>4
  <2> HIDE DEF R
  <2>4. PICK i \in R : \A j \in R : i <= j
    BY <2>1, LeastMember
  <2>5. \A j \in R : j >= i
    BY <2>1, <2>4
  <2>6. i \in DOMAIN rules /\ rules[i].rank = n
    BY <2>4 DEF R
  <2>7. ASSUME NEW j \in 1 .. i - 1 PROVE rules[j].rank < rules[i].rank
    <3>1. j \in DOMAIN rules /\ j < i
      BY <1>1, <2>6
    <3>2. j \notin R
      BY <2>5, <3>1, <2>1, <2>4
    <3> QED
      BY <1>1, <1>2, <2>6, <3>1, <3>2 DEF R
  <2> QED
    BY <1>2, <2>6, <2>7
<1>3. CASE Ranked(4) # {}
  BY <1>1, <1>2, <1>3
<1>4. CASE Ranked(4) = {} /\ Ranked(3) # {}
  BY <1>1, <1>2, <1>4
<1>5. CASE Ranked(4) = {} /\ Ranked(3) = {}
  <2>1. \A i \in DOMAIN rules : rules[i].rank <= 2
    BY <1>1, <1>5
  <2>2. Ranked(2) # {}
    BY <1>1, <1>5
  <2> QED
    BY <1>2, <2>1, <2>2
<1> QED
  BY <1>3, <1>4, <1>5

\* A generated bot has rules of the map, and the template of the first of the
\* highest rank.
BotSound(b) ==
  /\ b \in [rules : Seq(FortaRules), template : Templates]
  /\ \E i \in DOMAIN b.rules :
       /\ b.rules[i].template = b.template
       /\ \A j \in DOMAIN b.rules : b.rules[j].rank <= b.rules[i].rank

LEMMA BotsSound ==
  ASSUME NEW findings PROVE BotFor(findings) = NoBot \/ BotSound(BotFor(findings))
<1> DEFINE rules == MatchedRules(findings)
<1>1. rules \in Seq(FortaRules)
  <2>1. PICK I \in SUBSET DOMAIN FortaMap : rules = Subsequence(FortaMap, I)
    BY DEF MatchedRules
  <2> QED
    BY <2>1, MapRules, SubsequenceElements
<1>2. BotFor(findings) = IF rules = <<>> THEN NoBot
                         ELSE [rules |-> rules, template |-> PrimaryTemplate(rules)]
  BY DEF BotFor
<1> HIDE DEF rules
<1>3. CASE rules # <<>>
  <2> DEFINE Highest(i) == /\ \A j \in DOMAIN rules : rules[j].rank <= rules[i].rank
                           /\ \A j \in 1 .. i - 1 : rules[j].rank < rules[i].rank
             first == CHOOSE i \in DOMAIN rules : Highest(i)
  <2>1. \E i \in DOMAIN rules : Highest(i)
    BY <1>1, <1>3, FirstOfHighest
  <2>2. PrimaryTemplate(rules) = rules[first].template
    BY DEF PrimaryTemplate
  <2>3. first \in DOMAIN rules /\ Highest(first)
    <3> HIDE DEF Highest
    <3> QED
      BY <2>1
  <2> HIDE DEF first
  <2>4. rules[first] \in FortaRules
    BY <1>1, <2>3, ElementOfSeq
  <2>5. rules[first].template \in Templates
    BY <2>4, MapRules
  <2> QED
    BY <1>1, <1>2, <1>3, <2>2, <2>3, <2>5 DEF BotSound
<1> QED
  BY <1>2, <1>3

\* Every template raises findings only for transactions that involve its contract.
LEMMA RaisedInvolves ==
  ASSUME NEW template \in Templates, NEW tx \in Transaction, NEW count
  PROVE  LET found == HandleTransaction(template, tx, count)
         IN found \subseteq BotFinding /\ (found # {} => Involves(tx))
<1> USE DEF RaisedBy, BotFinding
<1>1. /\ ReentrancyBot(tx) \subseteq BotFinding
      /\ ReentrancyBot(tx) # {} => Involves(tx)
  BY DEF ReentrancyBot
<1>2. DrainBot(tx) \subseteq BotFinding /\ (DrainBot(tx) # {} => Involves(tx))
  BY DEF DrainBot, OwnTransfers, Involves
<1>3. AdminBot(tx) \subseteq BotFinding /\ (AdminBot(tx) # {} => Involves(tx))
  BY DEF AdminBot
<1>4. DosBot(tx, count) \subseteq BotFinding /\ (DosBot(tx, count) # {} => Involves(tx))
  BY DEF DosBot
<1>5. PhishingBot(tx) \subseteq BotFinding /\ (PhishingBot(tx) # {} => Involves(tx))
  BY DEF PhishingBot
<1>6. ManipulationBot(tx) \subseteq BotFinding /\ (ManipulationBot(tx) # {} => Involves(tx))
  BY DEF ManipulationBot
<1> QED
  BY <1>1, <1>2, <1>3, <1>4, <1>5, <1>6 DEF HandleTransaction, Templates

BotInv ==
  /\ bot = NoBot \/ BotSound(bot)
  /\ gasSeen \in 0 .. MaxSeen
  /\ observed \subseteq Transaction
  /\ raised \subseteq BotFinding
  /\ raised # {} => \A tx \in observed : Involves(tx)

LEMMA BotStep == BotInv /\ [BotNext]_botVars => BotInv'
<1> SUFFICES ASSUME BotInv, [BotNext]_botVars PROVE BotInv'
  OBVIOUS
<1>1. ASSUME NEW findings \in FindingLists, DeployBot(findings) PROVE BotInv'
  <2>1. bot' = NoBot \/ BotSound(bot')
    BY <1>1, BotsSound DEF DeployBot
  <2>2. UNCHANGED <<gasSeen, observed, raised>>
    BY <1>1 DEF DeployBot
  <2> QED
    BY <2>1, <2>2 DEF BotInv
<1>2. ASSUME NEW tx \in Transactions, Observe(tx) PROVE BotInv'
  <2>1. bot.template \in Templates /\ tx \in Transaction
    BY <1>2, FortaConstants DEF Observe, BotInv, BotSound
  <2>2. gasSeen' \in 0 .. MaxSeen
    BY <1>2, FortaConstants DEF Observe, CountAfter, Least, BotInv
  <2>3. /\ observed' = {tx} /\ UNCHANGED bot
        /\ raised' = HandleTransaction(bot.template, tx, gasSeen')
    BY <1>2 DEF Observe
  <2>4. raised' \subseteq BotFinding /\ (raised' # {} => Involves(tx))
    BY <2>1, <2>3, RaisedInvolves
  <2> QED
    BY <2>1, <2>2, <2>3, <2>4 DEF BotInv
<1>3. CASE UNCHANGED botVars
  BY <1>3 DEF botVars, BotInv
<1> QED
  BY <1>1, <1>2, <1>3 DEF BotNext

LEMMA BotCorrect == BotSpec => []BotInv
<1>1. BotInit => BotInv
  BY FortaConstants DEF BotInit, BotInv
<1> QED
  BY <1>1, BotStep, PTL DEF BotSpec

\* A bot, its baseline and what it returns have their types.
THEOREM BotTypeCorrect == BotSpec => []BotTypeOK
<1>1. BotInv => BotTypeOK
  <2> SUFFICES ASSUME BotInv PROVE BotTypeOK
    OBVIOUS
  <2>1. {FortaMap[n].template : n \in DOMAIN FortaMap} = Templates
    <3>1. DOMAIN FortaMap = 1 .. 10
      BY DEF FortaMap
    <3>2. \A n \in 1 .. 10 : FortaMap[n].template \in Templates
      BY DEF FortaMap, Rule, Templates
    <3>3. \A t \in Templates : \E n \in 1 .. 10 : FortaMap[n].template = t
      <4>1. /\ FortaMap[1].template = "reentrancy" /\ FortaMap[3].template = "admin"
            /\ FortaMap[4].template = "drain" /\ FortaMap[6].template = "phishing"
            /\ FortaMap[7].template = "manipulation" /\ FortaMap[8].template = "dos"
        BY DEF FortaMap, Rule
      <4>2. {1, 3, 4, 6, 7, 8} \subseteq 1 .. 10
        OBVIOUS
      <4> QED
        BY <4>1, <4>2 DEF Templates
    <3> QED
      BY <3>1, <3>2, <3>3
  <2>2. bot \in Bot
    <3>1. CASE bot = NoBot
      <4>1. <<>> \in Seq(FortaRules)
        BY EmptySeq
      <4> QED
        BY <3>1, <4>1 DEF Bot, NoBot, FortaRules
    <3>2. CASE BotSound(bot)
      BY <2>1, <3>2 DEF Bot, BotSound, FortaRules
    <3> QED
      BY <3>1, <3>2 DEF BotInv
  <2> QED
    BY <2>2 DEF BotInv, BotTypeOK
<1> QED
  BY <1>1, BotCorrect, PTL

\* A generated bot returns nothing for a transaction that does not touch its
\* contract, and has the template of its most severe rule, for any findings.
THEOREM BotsWatchTheirContract == BotSpec => []BotWatchesItsContract
<1>1. BotInv => BotWatchesItsContract
  BY DEF BotInv, BotSound, BotWatchesItsContract
<1> QED
  BY <1>1, BotCorrect, PTL

----------------------------------------------------------------------------
(* Analytics *)

LEMMA Concatenated ==
  ASSUME NEW S, NEW s \in Seq(S), NEW t \in Seq(S), Len(s) = 6, Len(t) = 7
  PROVE  /\ DOMAIN (s \o t) = 1 .. 13
         /\ \A i \in 1 .. 13 : (s \o t)[i] \in S
         /\ \A i \in 1 .. 6 : (s \o t)[i] = s[i]
<1>1. /\ s \o t \in Seq(S) /\ Len(s \o t) = Len(s) + Len(t)
      /\ \A i \in 1 .. Len(s) + Len(t) :
           (s \o t)[i] = IF i <= Len(s) THEN s[i] ELSE t[i - Len(s)]
  BY ConcatProperties
<1>2. Len(s \o t) = 13
  BY <1>1
<1>3. DOMAIN (s \o t) = 1 .. 13 /\ \A i \in 1 .. 13 : (s \o t)[i] \in S
  <2>1. \A q \in Seq(S) : Len(q) = 13 => DOMAIN q = 1 .. 13 /\ \A i \in 1 .. 13 : q[i] \in S
    <3> SUFFICES ASSUME NEW q \in Seq(S), Len(q) = 13
                 PROVE  DOMAIN q = 1 .. 13 /\ \A i \in 1 .. 13 : q[i] \in S
      OBVIOUS
    <3>1. \A i \in 1 .. Len(q) : q[i] \in S
      BY ElementOfSeq
    <3> QED
      BY <3>1
  <2> QED
    BY <1>1, <1>2, <2>1
<1>4. ASSUME NEW i \in 1 .. 6 PROVE (s \o t)[i] = s[i]
  <2>1. i \in 1 .. Len(s) + Len(t) /\ i <= Len(s)
    OBVIOUS
  <2> QED
    BY <1>1, <2>1
<1> QED
  BY <1>3, <1>4

Ruling(r) == r.category \in Categories /\ r.severity \in 0 .. 4

\* The thirteen rules, of which the first six are those of attacks.
LEMMA RulesAre ==
  ASSUME NEW e
  PROVE  /\ DOMAIN Rules(e) = 1 .. 13
         /\ \A i \in 1 .. 13 : Ruling(Rules(e)[i])
         /\ \A i \in 1 .. 6 : Rules(e)[i] = AttackRules(e)[i]
<1> DEFINE first == AttackRules(e)
           last == UseRules(e)
           S == {first[i] : i \in 1 .. 6} \cup {last[i] : i \in 1 .. 7}
<1>1. DOMAIN first = 1 .. 6 /\ first = [i \in 1 .. 6 |-> first[i]]
  BY DEF AttackRules
<1>2. DOMAIN last = 1 .. 7 /\ last = [i \in 1 .. 7 |-> last[i]]
  BY DEF UseRules
<1>3. /\ Ruling(first[1]) /\ Ruling(first[2]) /\ Ruling(first[3])
      /\ Ruling(first[4]) /\ Ruling(first[5]) /\ Ruling(first[6])
  BY DEF AttackRules, RuleFor, Ruling, Severe, Categories
<1>4. /\ Ruling(last[1]) /\ Ruling(last[2]) /\ Ruling(last[3]) /\ Ruling(last[4])
      /\ Ruling(last[5]) /\ Ruling(last[6]) /\ Ruling(last[7])
  BY DEF UseRules, RuleFor, Ruling, Severe, Categories
<1> HIDE DEF first, last
<1>5. \A r \in S : Ruling(r)
  <2>1. \A i \in 1 .. 6 : i \in {1, 2, 3, 4, 5, 6}
    OBVIOUS
  <2>2. \A i \in 1 .. 7 : i \in {1, 2, 3, 4, 5, 6, 7}
    OBVIOUS
  <2> QED
    BY <1>3, <1>4, <2>1, <2>2
<1>6. first \in Seq(S) /\ last \in Seq(S) /\ Len(first) = 6 /\ Len(last) = 7
  BY <1>1, <1>2
<1> HIDE DEF S
<1>7. /\ DOMAIN (first \o last) = 1 .. 13
      /\ \A i \in 1 .. 13 : (first \o last)[i] \in S
      /\ \A i \in 1 .. 6 : (first \o last)[i] = first[i]
  BY <1>6, Concatenated
<1> QED
  BY <1>5, <1>7 DEF Rules, first, last

\* An event has the category and the severity of the first rule that matches.
LEMMA FirstRules ==
  ASSUME NEW e, NEW k \in 1 .. 6, AttackRules(e)[k].matches,
         \A i \in 1 .. k - 1 : ~AttackRules(e)[i].matches
  PROVE  Classified(e) = AttackRules(e)[k]
<1> DEFINE M == Matching(e)
<1>1. k \in M /\ M \subseteq 1 .. 13 /\ \A j \in M : k <= j
  BY RulesAre DEF Matching
<1>2. Classified(e) = Rules(e)[FirstMatch(M)]
  BY <1>1 DEF Classified
<1> HIDE DEF M
<1>3. FirstMatch(M) \in M /\ \A j \in M : FirstMatch(M) <= j
  BY <1>1 DEF FirstMatch
<1>4. FirstMatch(M) = k
  <2> DEFINE f == FirstMatch(M)
  <2>1. f \in M /\ \A j \in M : f <= j
    BY <1>3
  <2> HIDE DEF f
  <2>2. f \in 1 .. 13 /\ f <= k /\ k <= f
    BY <1>1, <2>1
  <2>3. f = k
    BY <2>2
  <2> QED
    BY <2>3 DEF f
<1> QED
  BY <1>2, <1>4, RulesAre

LEMMA ClassifiedRuling ==
  ASSUME NEW e PROVE Ruling(Classified(e))
<1> DEFINE M == Matching(e)
<1>1. M \subseteq 1 .. 13
  BY RulesAre DEF Matching
<1>2. CASE M = {}
  BY <1>2 DEF Classified, RuleFor, Ruling, Severe, Categories
<1>3. CASE M # {}
  <2>1. \E i \in M : \A j \in M : i <= j
    <3>1. IsFiniteSet(1 .. 13)
      <4>1. 1 \in Int /\ 13 \in Int
        OBVIOUS
      <4> QED
        BY <4>1, FS_Interval
    <3>2. M \in SUBSET Int /\ IsFiniteSet(M)
      BY <1>1, <3>1, FS_Subset
    <3> HIDE DEF M
    <3> QED
      BY <1>3, <3>2, LeastMember
  <2>2. FirstMatch(M) \in M
    <3> HIDE DEF M
    <3> QED
      BY <2>1 DEF FirstMatch
  <2> QED
    BY <1>1, <1>3, <2>2, RulesAre DEF Classified
<1> QED
  BY <1>2, <1>3

\* The rules give the panel's attacks the category and the severity it says.
LEMMA AttacksClassified ==
  ASSUME NEW kind \in {"reentrancy", "flashloan", "governance", "selfdestruct"}
  PROVE  /\ Classified(Scenario(kind)).category = Promised(kind)[1]
         /\ Classified(Scenario(kind)).severity = Promised(kind)[2]
         /\ Promised(kind)[2] \in 0 .. 4
<1> DEFINE e == Scenario(kind)
<1> USE DEF Plain, AttackRules, RuleFor, Promised, Severe
<1>1. CASE kind = "reentrancy"
  <2>1. /\ e.name = "Withdrawal" /\ e.heavy /\ e.value = "large"
    BY <1>1 DEF Scenario
  <2> HIDE DEF e
  <2>2. AttackRules(e)[5].matches
    BY <2>1
  <2>n1. ~AttackRules(e)[1].matches
    BY <2>1
  <2>n2. ~AttackRules(e)[2].matches
    BY <2>1
  <2>n3. ~AttackRules(e)[3].matches
    BY <2>1
  <2>n4. ~AttackRules(e)[4].matches
    BY <2>1
  <2>3. Classified(e) = AttackRules(e)[5]
    <3> HIDE DEF AttackRules
    <3>1. \A i \in 1 .. 5 - 1 : i = 1 \/ i = 2 \/ i = 3 \/ i = 4
      OBVIOUS
    <3> QED
      BY <2>2, <2>n1, <2>n2, <2>n3, <2>n4, <3>1, FirstRules
  <2> QED
    BY <1>1, <2>3 DEF e
<1>2. CASE kind = "flashloan"
  <2>1. e.name = "Swap" /\ e.circular
    BY <1>2 DEF Scenario
  <2> HIDE DEF e
  <2>2. AttackRules(e)[2].matches
    BY <2>1
  <2>n1. ~AttackRules(e)[1].matches
    BY <2>1
  <2>3. Classified(e) = AttackRules(e)[2]
    <3> HIDE DEF AttackRules
    <3>1. \A i \in 1 .. 2 - 1 : i = 1
      OBVIOUS
    <3> QED
      BY <2>2, <2>n1, <3>1, FirstRules
  <2> QED
    BY <1>2, <2>3 DEF e
<1>3. CASE kind = "governance"
  <2>1. e.name = "ProposalExecuted" /\ e.instant
    BY <1>3 DEF Scenario
  <2> HIDE DEF e
  <2>2. AttackRules(e)[1].matches
    BY <2>1
  <2>3. Classified(e) = AttackRules(e)[1]
    <3> HIDE DEF AttackRules
    <3> QED
      BY <2>2, FirstRules
  <2> QED
    BY <1>3, <2>3 DEF e
<1>4. CASE kind = "selfdestruct"
  <2>1. e.name = "EmergencyShutdown"
    BY <1>4 DEF Scenario
  <2> HIDE DEF e
  <2>2. AttackRules(e)[3].matches
    BY <2>1
  <2>n1. ~AttackRules(e)[1].matches
    BY <2>1
  <2>n2. ~AttackRules(e)[2].matches
    BY <2>1
  <2>3. Classified(e) = AttackRules(e)[3]
    <3> HIDE DEF AttackRules
    <3>1. \A i \in 1 .. 3 - 1 : i = 1 \/ i = 2
      OBVIOUS
    <3> QED
      BY <2>2, <2>n1, <2>n2, <3>1, FirstRules
  <2> QED
    BY <1>4, <2>3 DEF e
<1> QED
  BY <1>1, <1>2, <1>3, <1>4

\* Feeds can only raise a severity.
FeedsTyped == feeds \in [Accounts -> -1 .. 10]

LEMMA FeedsRaise ==
  ASSUME FeedsTyped, NEW e \in Event, NEW n \in 0 .. 4
  PROVE  Enriched(e, n) \in n .. 4
<1>1. Matches(e) \in Seq(Accounts)
  BY SubsequenceElements DEF Matches, Event
<1>2. CASE Matches(e) = <<>>
  BY <1>2 DEF Enriched
<1>3. CASE Matches(e) # <<>>
  <2> DEFINE t == ThreatSeverity(feeds[Matches(e)[1]])
  <2>1. Matches(e)[1] \in Accounts
    BY <1>1, <1>3, EmptySeq, ElementOfSeq
  <2>2. feeds[Matches(e)[1]] \in -1 .. 10
    BY <2>1 DEF FeedsTyped
  <2>3. \A risk \in -1 .. 10 : ThreatSeverity(risk) \in 0 .. 4
    BY DEF ThreatSeverity, Severe
  <2>4. t \in 0 .. 4
    BY <2>2, <2>3
  <2>5. Enriched(e, n) = IF t < n THEN n ELSE t
    BY <1>3 DEF Enriched
  <2> HIDE DEF t
  <2> QED
    BY <2>4, <2>5
<1> QED
  BY <1>2, <1>3

\* An event whose one address is of the highest risk is critical.
LEMMA ThreatsCritical ==
  ASSUME FeedsTyped, NEW e \in Event, NEW n \in 0 .. 4,
         e.touches = <<Exploiter, Exploiter>>, feeds[Exploiter] >= 9
  PROVE  Enriched(e, n) = 4
<1> USE AnalyticsConstants
<1> DEFINE I == {i \in DOMAIN e.touches : feeds[e.touches[i]] >= 0}
<1>1. e.touches \in Seq(Accounts) /\ DOMAIN e.touches = {1, 2}
      /\ e.touches[1] = Exploiter /\ e.touches[2] = Exploiter
  BY DEF Event
<1>2. feeds[Exploiter] \in -1 .. 10
  BY DEF FeedsTyped
<1>3. I = {1, 2}
  BY <1>1, <1>2
<1>4. Matches(e) = Subsequence(e.touches, I)
  BY DEF Matches
<1> HIDE DEF I
<1>5. /\ Matches(e) \in Seq(Accounts)
      /\ \A k \in 1 .. Len(Matches(e)) : Matches(e)[k] = Exploiter
      /\ \E k \in 1 .. Len(Matches(e)) : TRUE
  <2> DEFINE s == e.touches
  <2>1. s \in Seq(Accounts) /\ I \in SUBSET DOMAIN s /\ 1 \in I
    BY <1>1, <1>3
  <2>2. \A k \in I : s[k] = Exploiter
    BY <1>1, <1>3
  <2>3. Matches(e) = Subsequence(s, I)
    BY <1>4
  <2> HIDE DEF s
  <2> QED
    BY <2>1, <2>2, <2>3, SubsequenceElements
<1>6. Len(Matches(e)) \in Nat /\ Len(Matches(e)) # 0
  BY <1>5, EmptySeq
<1>7. Matches(e)[1] = Exploiter /\ Matches(e) # <<>>
  BY <1>5, <1>6
<1>8. ThreatSeverity(feeds[Exploiter]) = 4
  BY <1>2 DEF ThreatSeverity, Severe
<1> QED
  BY <1>7, <1>8 DEF Enriched

\* What is so of each answer.
Raised(o) ==
  /\ \A kind \in {"reentrancy", "flashloan", "governance", "selfdestruct"} :
       o.event = Scenario(kind) =>
         o.category = Promised(kind)[1] /\ o.severity >= Promised(kind)[2]
  /\ o.event = Scenario("threat_intel") /\ o.listed => o.severity = Severe.CRITICAL

LEMMA AnswersRaised ==
  ASSUME FeedsTyped, NEW events \in Seq(Event), NEW i \in 1 .. Len(events),
         NEW zs \in ZScores(events), Ready \in Nat, Ready + Len(events) <= MaxSamples,
         NEW final \in 0 .. 4, final >= Classified(events[i]).severity
  PROVE  LET o == Answer(events, zs, i, final)
         IN o \in EnrichedEvent /\ Raised(o) /\ o.severity >= o.rule
<1> DEFINE e == events[i]
           o == Answer(events, zs, i, final)
<1>1. e \in Event /\ i \in DOMAIN events
  BY ElementOfSeq
<1>2. Ruling(Classified(e)) /\ final \in Classified(e).severity .. 4
  BY ClassifiedRuling DEF Ruling
<1>3. Enriched(e, final) \in final .. 4
  BY <1>1, FeedsRaise
<1>4. /\ o.event = e /\ o.category = Classified(e).category
      /\ o.rule = Classified(e).severity /\ o.severity = Enriched(e, final)
      /\ o.listed = \E n \in DOMAIN e.touches : feeds[e.touches[n]] >= 9
  BY DEF Answer
<1>5. o \in EnrichedEvent
  <2>1. zs[i] \in {"ordinary", "mild", "strong"}
    BY <1>1 DEF ZScores
  <2>2. (IF Sound(events, i - 1) THEN Ready + i - 1 ELSE 0) \in 0 .. MaxSamples
    BY AnalyticsConstants
  <2>3. Enriched(e, final) \in 0 .. 4
    BY <1>3
  <2> QED
    BY <1>1, <1>2, <2>1, <2>2, <2>3 DEF Answer, EnrichedEvent, Ruling
<1>6. o.severity >= o.rule
  BY <1>2, <1>3, <1>4 DEF Ruling
<1>7. ASSUME NEW kind \in {"reentrancy", "flashloan", "governance", "selfdestruct"},
             e = Scenario(kind)
      PROVE  o.category = Promised(kind)[1] /\ o.severity >= Promised(kind)[2]
  <2>1. /\ Classified(e).category = Promised(kind)[1]
        /\ Classified(e).severity = Promised(kind)[2]
    BY <1>7, AttacksClassified
  <2> HIDE DEF e, o
  <2> QED
    BY <1>4, <1>6, <2>1
<1>8. ASSUME e = Scenario("threat_intel"), o.listed PROVE o.severity = Severe.CRITICAL
  <2>1. e.touches = <<Exploiter, Exploiter>>
    BY <1>8 DEF Scenario, Plain
  <2>2. feeds[Exploiter] >= 9
    <3>1. PICK n \in DOMAIN e.touches : feeds[e.touches[n]] >= 9
      BY <1>4, <1>8
    <3>2. n \in {1, 2}
      BY <2>1, <3>1
    <3> QED
      BY <2>1, <3>1, <3>2
  <2>3. Enriched(e, final) = 4
    BY <1>1, <2>1, <2>2, ThreatsCritical
  <2> QED
    BY <1>4, <2>3 DEF Severe
<1> HIDE DEF e
<1>9. Raised(o)
  <2> HIDE DEF o
  <2> QED
    BY <1>4, <1>7, <1>8 DEF Raised
<1> QED
  BY <1>5, <1>6, <1>9

AnalyticsInv ==
  /\ FeedsTyped
  /\ trained \in BOOLEAN
  /\ samples \in 0 .. MaxSamples
  /\ baseline \in {"sound", "NaN"}
  /\ outcome \subseteq EnrichedEvent
  /\ \A o \in outcome : Raised(o) /\ o.severity >= o.rule

LEMMA AnalyticsStep == AnalyticsInv /\ [AnalyticsNext]_analyticsVars => AnalyticsInv'
<1> SUFFICES ASSUME AnalyticsInv, [AnalyticsNext]_analyticsVars PROVE AnalyticsInv'
  OBVIOUS
<1> USE AnalyticsConstants
<1>f. ASSUME UNCHANGED <<trained, samples, baseline, outcome>>, feeds' \in [Accounts -> -1 .. 10]
      PROVE  AnalyticsInv'
  BY <1>f DEF AnalyticsInv, FeedsTyped
<1>r. Ready \in Nat
  BY DEF Ready, TrainedOn, AnalyticsInv
\* A call that answers some events, or throws and answers none.
<1>p. ASSUME NEW learned \in Nat, trained' = TRUE, samples' = Ready + learned,
             samples' <= MaxSamples, UNCHANGED feeds, baseline' \in {"sound", "NaN"},
             outcome' \subseteq EnrichedEvent,
             \A o \in outcome' : Raised(o) /\ o.severity >= o.rule
      PROVE  AnalyticsInv'
  <2>1. samples' \in 0 .. MaxSamples
    BY <1>p, <1>r
  <2> QED
    BY <1>p, <2>1 DEF AnalyticsInv, FeedsTyped
<1>n. ASSUME trained' = TRUE, samples' = Ready, samples' <= MaxSamples,
             UNCHANGED <<feeds, baseline, outcome>>
      PROVE  AnalyticsInv'
  <2>1. samples' \in 0 .. MaxSamples
    BY <1>n, <1>r
  <2> QED
    BY <1>n, <2>1 DEF AnalyticsInv, FeedsTyped
<1>b. \A events : BaselineAfter(events) \in {"sound", "NaN"}
  BY DEF BaselineAfter
<1>1. ASSUME NEW n \in Histories, TrainEngine(n) PROVE AnalyticsInv'
  <2>1. TrainedOn(n) \in Nat
    BY DEF TrainedOn, AnalyticsInv
  <2>2. samples' \in 0 .. MaxSamples
    BY <1>1, <2>1 DEF TrainEngine
  <2> QED
    BY <1>1, <2>2 DEF TrainEngine, AnalyticsInv, FeedsTyped
<1>2. ASSUME NEW events \in EventBatches, ProcessEvents(events) PROVE AnalyticsInv'
  <2>1. events \in Seq(Event) /\ Len(events) \in Nat /\ DOMAIN events = 1 .. Len(events)
    OBVIOUS
  <2>2. CASE samples' = Ready /\ UNCHANGED <<baseline, outcome>>
    BY <1>2, <1>n, <2>2 DEF ProcessEvents
  <2>3. ASSUME samples' = Ready + Len(events), baseline' = BaselineAfter(events),
               NEW zs \in ZScores(events),
               outcome' = {Answer(events, zs, i,
                                  Escalated(Classified(events[i]).severity, zs[i]))
                             : i \in DOMAIN events}
        PROVE  AnalyticsInv'
    <3>1. samples' <= MaxSamples /\ trained' = TRUE /\ UNCHANGED feeds
      BY <1>2 DEF ProcessEvents
    <3>2. ASSUME NEW i \in DOMAIN events
          PROVE  LET o == Answer(events, zs, i,
                                 Escalated(Classified(events[i]).severity, zs[i]))
                 IN o \in EnrichedEvent /\ Raised(o) /\ o.severity >= o.rule
      <4> DEFINE final == Escalated(Classified(events[i]).severity, zs[i])
      <4>1. Classified(events[i]).severity \in 0 .. 4
        BY ClassifiedRuling DEF Ruling
      <4>2. zs[i] \in {"ordinary", "mild", "strong"}
        BY DEF ZScores
      <4>3. final \in 0 .. 4 /\ final >= Classified(events[i]).severity
        BY <4>1, <4>2 DEF Escalated, Severe
      <4> HIDE DEF final
      <4>4. FeedsTyped /\ Ready + Len(events) <= MaxSamples /\ i \in 1 .. Len(events)
        BY <2>1, <2>3, <3>1 DEF AnalyticsInv
      <4>5. LET o == Answer(events, zs, i, final)
            IN o \in EnrichedEvent /\ Raised(o) /\ o.severity >= o.rule
        BY <1>r, <2>1, <4>3, <4>4, AnswersRaised
      <4> QED
        BY <4>5 DEF final
    <3>3. \A o \in outcome' : o \in EnrichedEvent /\ Raised(o) /\ o.severity >= o.rule
      BY <2>3, <3>2
    <3> QED
      BY <1>b, <1>p, <2>1, <2>3, <3>1, <3>3
  <2> QED
    BY <1>2, <2>2, <2>3 DEF ProcessEvents
<1>3. ASSUME NEW events \in EventBatches, events # <<>>, ProcessSingle(events[1])
      PROVE  AnalyticsInv'
  <2> DEFINE e == events[1]
             single == <<e>>
             final == Classified(e).severity
  <2>1. e \in Event
    BY <1>3, EmptySeq, ElementOfSeq
  <2>2. single \in Seq(Event) /\ Len(single) = 1 /\ single[1] = e
    BY <2>1
  <2>3. CASE samples' = Ready /\ UNCHANGED <<baseline, outcome>>
    BY <1>3, <1>n, <2>3 DEF ProcessSingle
  <2>4. ASSUME samples' = Ready + 1, baseline' = BaselineAfter(single),
               NEW zs \in ZScores(single), outcome' = {Answer(single, zs, 1, final)}
        PROVE  AnalyticsInv'
    <3>1. samples' <= MaxSamples /\ trained' = TRUE /\ UNCHANGED feeds
      BY <1>3 DEF ProcessSingle
    <3>2. final \in 0 .. 4
      BY ClassifiedRuling DEF Ruling
    <3>3. Ready + Len(single) <= MaxSamples /\ FeedsTyped
          /\ 1 \in 1 .. Len(single) /\ final >= Classified(single[1]).severity
      BY <2>2, <2>4, <3>1, <3>2 DEF AnalyticsInv
    <3> HIDE DEF single, final
    <3>4. LET o == Answer(single, zs, 1, final)
          IN o \in EnrichedEvent /\ Raised(o) /\ o.severity >= o.rule
      BY <1>r, <2>2, <3>2, <3>3, AnswersRaised
    <3> QED
      BY <1>b, <1>p, <2>4, <3>1, <3>4
  <2> QED
    BY <1>3, <2>3, <2>4 DEF ProcessSingle
<1>4. ASSUME NEW entries \in SUBSET Feeds, AddFeed(entries) PROVE AnalyticsInv'
  <2>1. {feeds[a] : a \in Accounts} \cup {entry.risk : entry \in entries} \subseteq -1 .. 10
    BY DEF AnalyticsInv, FeedsTyped, Feed
  <2>2. feeds' \in [Accounts -> -1 .. 10]
    BY <1>4, <2>1 DEF AddFeed
  <2> QED
    BY <1>4, <1>f, <2>2 DEF AddFeed
<1>5. ASSUME NEW address \in Accounts, RemoveFeed(address) PROVE AnalyticsInv'
  BY <1>5, <1>f DEF RemoveFeed, AnalyticsInv, FeedsTyped
<1>6. CASE UNCHANGED analyticsVars
  BY <1>6 DEF analyticsVars, AnalyticsInv, FeedsTyped
<1>7. \A entry \in Feeds : {entry} \in SUBSET Feeds
  OBVIOUS
<1> QED
  BY <1>1, <1>2, <1>3, <1>4, <1>5, <1>6, <1>7 DEF AnalyticsNext, SyncFromIpfs

LEMMA AnalyticsCorrect == AnalyticsSpec => []AnalyticsInv
<1>1. AnalyticsInit => AnalyticsInv
  <2> SUFFICES ASSUME AnalyticsInit PROVE AnalyticsInv
    OBVIOUS
  <2>1. FeedsTyped
    BY DEF AnalyticsInit, SeedFeeds, FeedsTyped
  <2>2. samples \in 0 .. MaxSamples
    BY AnalyticsConstants DEF AnalyticsInit
  <2> QED
    BY <2>1, <2>2 DEF AnalyticsInit, AnalyticsInv
<1> QED
  BY <1>1, AnalyticsStep, PTL DEF AnalyticsSpec

\* Feeds, baseline and answers have their types, and no answer is less severe than
\* the rule it is classified by.
THEOREM AnalyticsTypeCorrect == AnalyticsSpec => []AnalyticsTypeOK
<1>1. AnalyticsInv => AnalyticsTypeOK
  BY DEF AnalyticsInv, AnalyticsTypeOK, FeedsTyped
<1> QED
  BY <1>1, AnalyticsCorrect, PTL

\* The panel's attacks come out as what they are and no less severe than it says,
\* for any events, histories and feeds.
THEOREM ScenariosAreRaised == AnalyticsSpec => []ScenariosRaised
<1>1. AnalyticsInv => ScenariosRaised
  BY DEF AnalyticsInv, ScenariosRaised, Raised
<1> QED
  BY <1>1, AnalyticsCorrect, PTL

----------------------------------------------------------------------------
(* WebApp *)

\* A suffix, by its elements.
EndsWith(t, s) ==
  /\ Len(s) <= Len(t)
  /\ \A i \in 1 .. Len(s) : s[i] = t[Len(t) - Len(s) + i]

LEMMA SuffixElements ==
  ASSUME NEW S, NEW s \in Seq(S), NEW t \in Seq(S), EndsWith(t, s)
  PROVE  IsSuffix(s, t)
<1>1. /\ Len(s) \in Nat /\ Len(t) \in Nat /\ Len(s) <= Len(t)
      /\ s \in [1 .. Len(s) -> S] /\ t \in [1 .. Len(t) -> S]
  BY LenProperties DEF EndsWith
<1>2. /\ Reverse(s) \in [1 .. Len(s) -> S] /\ Reverse(t) \in [1 .. Len(t) -> S]
  BY <1>1 DEF Reverse
<1> QED
  BY <1>1, <1>2 DEF IsSuffix, IsPrefix, Reverse, EndsWith

LEMMA SuffixLater ==
  ASSUME NEW s \in Seq(Severities), NEW t \in Seq(Severities), EndsWith(t, s),
         NEW severity \in Severities
  PROVE  /\ Unshifted(t, severity) \in Seq(Severities)
         /\ EndsWith(Unshifted(t, severity), s)
<1> DEFINE u == <<severity>>
<1>1. u \in Seq(Severities) /\ Len(u) = 1
  OBVIOUS
<1> HIDE DEF u
<1>2. /\ u \o t \in Seq(Severities) /\ Len(u \o t) = Len(u) + Len(t)
      /\ \A i \in 1 .. Len(u) + Len(t) :
           (u \o t)[i] = IF i <= Len(u) THEN u[i] ELSE t[i - Len(u)]
  BY <1>1, ConcatProperties
<1>3. Len(s) \in Nat /\ Len(t) \in Nat
  OBVIOUS
<1>4. EndsWith(u \o t, s)
  <2>1. Len(s) <= Len(t) /\ \A i \in 1 .. Len(s) : s[i] = t[Len(t) - Len(s) + i]
    BY DEF EndsWith
  <2>2. Len(u \o t) = 1 + Len(t)
    BY <1>1, <1>2
  <2>3. ASSUME NEW i \in 1 .. Len(s) PROVE s[i] = (u \o t)[Len(u \o t) - Len(s) + i]
    <3> DEFINE n == Len(u \o t) - Len(s) + i
    <3>1. n \in 1 .. Len(u) + Len(t) /\ ~(n <= Len(u)) /\ n - Len(u) = Len(t) - Len(s) + i
      BY <1>1, <1>3, <2>1, <2>2
    <3> HIDE DEF n
    <3>2. (u \o t)[n] = t[n - Len(u)]
      BY <1>2, <3>1
    <3>3. (u \o t)[n] = s[i]
      BY <2>1, <3>1, <3>2
    <3> QED
      BY <3>3 DEF n
  <2> QED
    BY <1>3, <2>1, <2>2, <2>3 DEF EndsWith
<1> QED
  BY <1>2, <1>4 DEF Unshifted, u

Pages == {"home", "siem", "audit", "report"}
SiemPage ==
  [events : Seq(Severities), metrics : {Metrics(events) : events \in Seq(Severities)},
   alerts : Seq(Severities), loading : BOOLEAN]
Poll == [at : {"idle", "siem", "forta"}, ok : BOOLEAN, events : Seq(Severities), again : BOOLEAN]
Simulation == [at : {"none", "posting", "refreshing"}, severity : Severities]
ScanCall == [at : {"idle", "running"}, demo : Demos \cup {"none"}, here : BOOLEAN]
ReportPage == [id : Demos, report : Demos \cup {"none", "placeholder"}, loading : BOOLEAN]

RuleSeverity(severity) ==
  \E name \in DOMAIN SiemRules :
    Scenarios[name] = SiemRules[name] /\ severity = SiemRules[name]

\* Of the calls of the SIEM page one at most is that of a simulation, and what each
\* has been answered is a suffix of the store's list.
CallsSound(calls, sim, events) ==
  /\ calls \in [Polls -> Poll]
  /\ \A p \in Polls : calls[p].again => calls[p].at # "idle"
  /\ \A p, q \in Polls : calls[p].again /\ calls[q].again => p = q
  /\ sim \in Simulation
  /\ sim.at = "refreshing" <=> \E p \in Polls : calls[p].again
  /\ sim.at # "none" => RuleSeverity(sim.severity)
  /\ \A p \in Polls : EndsWith(events, calls[p].events)

PageSound(page, events) ==
  /\ page \in SiemPage
  /\ page.metrics = Metrics(page.events)
  /\ EndsWith(events, page.events)

SiemSound ==
  /\ siemEvents \in Seq(Severities) /\ fortaAlerts \in Seq(Severities)
  /\ route \in Pages
  /\ CallsSound(poll, simulation, siemEvents)
  /\ PageSound(siemPage, siemEvents)
  /\ simulating \in BOOLEAN
  /\ simulating <=> simulation.at # "none"
  /\ route = "siem" /\ siemPage.loading => \E p \in Polls : poll[p].at # "idle"

\* One scan at most is the page's.
ScansSound ==
  /\ auditPage \in [loading : BOOLEAN, input : BOOLEAN]
  /\ scan \in [Scans -> ScanCall]
  /\ \A k \in Scans : scan[k].here => scan[k].at = "running"
  /\ auditPage.loading <=> \E k \in Scans : scan[k].here
  /\ \A j, k \in Scans : scan[j].here /\ scan[k].here => j = k

ReportSound ==
  /\ reportPage \in ReportPage
  /\ reportPage.report \in Demos => reportPage.report = reportPage.id

WebInv == SiemSound /\ ScansSound /\ ReportSound

LEMMA EndsWithAll ==
  ASSUME NEW t \in Seq(Severities) PROVE EndsWith(t, t) /\ EndsWith(t, <<>>)
<1>1. Len(t) \in Nat /\ Len(<<>>) = 0
  OBVIOUS
<1> QED
  BY <1>1 DEF EndsWith

LEMMA SeveritiesKnown ==
  /\ \A scenario \in DOMAIN Scenarios : Scenarios[scenario] \in Severities
                                        /\ RuleSeverity(Scenarios[scenario])
  /\ \A b \in DOMAIN Bots : Bots[b] \in Severities
<1>1. \A scenario \in DOMAIN Scenarios :
        scenario \in {"flashloan", "reentrancy", "crosslayer", "ownership", "gasspike"}
  BY DEF Scenarios
<1>2. \A b \in DOMAIN Bots : b \in {"reentrancy_bot", "flashloan_bot", "permit2_bot", "other"}
  BY DEF Bots
<1>3. \A scenario \in {"flashloan", "reentrancy", "crosslayer", "ownership", "gasspike"} :
        /\ Scenarios[scenario] \in Severities
        /\ scenario \in DOMAIN SiemRules /\ Scenarios[scenario] = SiemRules[scenario]
  BY DEF Scenarios, SiemRules, Severities
<1>4. \A b \in {"reentrancy_bot", "flashloan_bot", "permit2_bot", "other"} :
        Bots[b] \in Severities
  BY DEF Bots, Severities
<1> QED
  BY <1>1, <1>2, <1>3, <1>4 DEF RuleSeverity

\* A page that is mounted waits for its own first call only.
LEMMA GotoSound ==
  ASSUME SiemSound, NEW page \in Pages, NEW id \in Demos, Goto(page, id),
         UNCHANGED <<siemEvents, fortaAlerts>>
  PROVE  /\ SiemSound' /\ ReportSound'
         /\ auditPage' = [loading |-> FALSE, input |-> FALSE]
<1> USE WebConstants
<1>1. NoPoll \in Poll /\ NewPoll \in Poll /\ NoPoll.events = <<>> /\ NewPoll.events = <<>>
      /\ ~NoPoll.again /\ ~NewPoll.again /\ NewPoll.at # "idle"
  <2>1. <<>> \in Seq(Severities)
    BY EmptySeq
  <2> QED
    BY <2>1 DEF NoPoll, NewPoll, Poll
<1>2. /\ poll' \in [Polls -> Poll]
      /\ \A p \in Polls : ~poll'[p].again /\ poll'[p].events = <<>>
      /\ page = "siem" => \E p \in Polls : poll'[p].at # "idle"
  <2>1. poll' = [p \in Polls |->
                   IF page = "siem" /\ p = (CHOOSE q \in Polls : TRUE) THEN NewPoll ELSE NoPoll]
    BY DEF Goto
  <2>2. (CHOOSE q \in Polls : TRUE) \in Polls
    OBVIOUS
  <2> HIDE DEF NoPoll, NewPoll
  <2> QED
    BY <1>1, <2>1, <2>2
<1>3. simulation' \in Simulation /\ simulation'.at = "none" /\ simulating' = FALSE
  BY DEF Goto, NoSimulation, Simulation, Severities
<1>4. siemEvents' \in Seq(Severities) /\ fortaAlerts' \in Seq(Severities)
      /\ EndsWith(siemEvents', <<>>)
  BY EndsWithAll DEF SiemSound
<1>5. PageSound(siemPage', siemEvents')
  <2>1. <<>> \in Seq(Severities) /\ siemPage' = NoPage
    BY EmptySeq DEF Goto
  <2> QED
    BY <1>4, <2>1 DEF PageSound, NoPage, SiemPage
<1>6. CallsSound(poll', simulation', siemEvents')
  BY <1>2, <1>3, <1>4 DEF CallsSound
<1>7. route' = page /\ reportPage' = NewReport(id)
      /\ auditPage' = [loading |-> FALSE, input |-> FALSE]
  BY DEF Goto
<1>8. ReportSound'
  BY <1>7 DEF NewReport, ReportSound, ReportPage, Demos
<1> QED
  BY <1>2, <1>3, <1>4, <1>5, <1>6, <1>7, <1>8 DEF SiemSound

\* Scans that outlive their page are no page's.
LEMMA OrphanedScans ==
  ASSUME ScansSound
  PROVE  /\ Orphaned(scan) \in [Scans -> ScanCall]
         /\ \A k \in Scans : ~Orphaned(scan)[k].here
<1>1. NoScan \in ScanCall /\ ~NoScan.here
  BY DEF NoScan, ScanCall
<1>2. ASSUME NEW k \in Scans
      PROVE  /\ [scan[k] EXCEPT !.here = FALSE] \in ScanCall
             /\ ~[scan[k] EXCEPT !.here = FALSE].here
  <2>1. scan[k] \in ScanCall
    BY DEF ScansSound
  <2> QED
    BY <2>1 DEF ScanCall
<1> QED
  BY <1>1, <1>2 DEF Orphaned

LEMMA NoScansSound ==
  ASSUME auditPage' = [loading |-> FALSE, input |-> FALSE],
         scan' \in [Scans -> ScanCall], \A k \in Scans : ~scan'[k].here
  PROVE  ScansSound'
BY DEF ScansSound

\* An event in front of the list leaves what was answered before a suffix.
LEMMA EventInFront ==
  ASSUME SiemSound, NEW severity \in Severities,
         siemEvents' = Unshifted(siemEvents, severity)
  PROVE  /\ siemEvents' \in Seq(Severities)
         /\ EndsWith(siemEvents', siemPage.events)
         /\ \A p \in Polls : EndsWith(siemEvents', poll[p].events)
<1>1. /\ siemEvents \in Seq(Severities)
      /\ siemPage.events \in Seq(Severities) /\ EndsWith(siemEvents, siemPage.events)
      /\ \A p \in Polls : /\ poll[p].events \in Seq(Severities)
                          /\ EndsWith(siemEvents, poll[p].events)
  BY DEF SiemSound, PageSound, CallsSound, SiemPage, Poll
<1> QED
  BY <1>1, SuffixLater

\* The end of a call of the SIEM page, with the page as it is then.
LEMMA EndedSound ==
  ASSUME SiemSound, NEW p \in Polls, poll[p].at # "idle", Ended(p),
         UNCHANGED <<siemEvents, fortaAlerts, route>>,
         PageSound(siemPage', siemEvents'), ~siemPage'.loading
  PROVE  SiemSound'
<1>1. NoPoll \in Poll /\ ~NoPoll.again /\ EndsWith(siemEvents, NoPoll.events)
  <2>1. <<>> \in Seq(Severities) /\ EndsWith(siemEvents, <<>>)
    BY EmptySeq, EndsWithAll DEF SiemSound
  <2> QED
    BY <2>1 DEF NoPoll, Poll
<1>2. /\ poll' \in [Polls -> Poll] /\ poll'[p] = NoPoll
      /\ \A q \in Polls : q # p => poll'[q] = poll[q]
  <2>1. poll' = [poll EXCEPT ![p] = NoPoll] /\ poll \in [Polls -> Poll]
    BY DEF Ended, SiemSound, CallsSound
  <2> HIDE DEF NoPoll
  <2> QED
    BY <1>1, <2>1
<1> HIDE DEF NoPoll
<1>3. /\ simulating' = (simulating /\ ~poll[p].again)
      /\ simulation' = IF poll[p].again THEN NoSimulation ELSE simulation
  BY DEF Ended
<1>4. /\ NoSimulation \in Simulation /\ NoSimulation.at = "none"
  BY DEF NoSimulation, Simulation, Severities
<1>5. /\ poll \in [Polls -> Poll] /\ simulation \in Simulation
      /\ \A q \in Polls : poll[q].again => poll[q].at # "idle"
      /\ \A q, r \in Polls : poll[q].again /\ poll[r].again => q = r
      /\ simulation.at = "refreshing" <=> \E q \in Polls : poll[q].again
      /\ simulation.at # "none" => RuleSeverity(simulation.severity)
      /\ \A q \in Polls : EndsWith(siemEvents, poll[q].events)
  BY DEF SiemSound, CallsSound
<1>6. CallsSound(poll', simulation', siemEvents')
  <2>1. CASE poll[p].again
    <3>1. simulation' \in Simulation /\ simulation'.at = "none"
      BY <1>3, <1>4, <2>1
    <3>2. \A q \in Polls : ~poll'[q].again
      BY <1>1, <1>2, <1>5, <2>1
    <3>3. \A q \in Polls : EndsWith(siemEvents', poll'[q].events)
      BY <1>1, <1>2, <1>5
    <3> QED
      BY <1>2, <3>1, <3>2, <3>3 DEF CallsSound
  <2>2. CASE ~poll[p].again
    <3>1. simulation' = simulation
      BY <1>3, <2>2
    <3>2. \A q \in Polls : poll'[q].again <=> poll[q].again
      BY <1>1, <1>2, <2>2
    <3>3. \A q \in Polls : EndsWith(siemEvents', poll'[q].events)
      BY <1>1, <1>2, <1>5
    <3>4. \A q \in Polls : poll'[q].again => poll'[q].at # "idle"
      BY <1>1, <1>2, <1>5
    <3> QED
      BY <1>2, <1>5, <3>1, <3>2, <3>3, <3>4 DEF CallsSound
  <2> QED
    BY <2>1, <2>2
<1>7. simulating' \in BOOLEAN /\ (simulating' <=> simulation'.at # "none")
  <2>1. CASE poll[p].again
    BY <1>3, <1>4, <2>1
  <2>2. CASE ~poll[p].again
    BY <1>3, <2>2 DEF SiemSound
  <2> QED
    BY <2>1, <2>2
<1> QED
  BY <1>6, <1>7 DEF SiemSound

LEMMA SiemStep ==
  ASSUME SiemSound, ScansSound, ReportSound, WebNext PROVE SiemSound'
<1>a. /\ poll \in [Polls -> Poll] /\ simulation \in Simulation /\ siemEvents \in Seq(Severities)
      /\ fortaAlerts \in Seq(Severities) /\ siemPage \in SiemPage
      /\ \A p \in Polls : poll[p] \in Poll
  BY DEF SiemSound, CallsSound, PageSound
<1>b. /\ \A q \in Polls : poll[q].again => poll[q].at # "idle"
      /\ \A q, r \in Polls : poll[q].again /\ poll[r].again => q = r
      /\ simulation.at = "refreshing" <=> \E q \in Polls : poll[q].again
      /\ simulation.at # "none" => RuleSeverity(simulation.severity)
      /\ \A q \in Polls : EndsWith(siemEvents, poll[q].events)
  BY DEF SiemSound, CallsSound
<1>c. /\ NewPoll \in Poll /\ ~NewPoll.again /\ NewPoll.at = "siem" /\ NewPoll.events = <<>>
      /\ [NewPoll EXCEPT !.again = TRUE] \in Poll
      /\ [NewPoll EXCEPT !.again = TRUE].again
      /\ [NewPoll EXCEPT !.again = TRUE].at = "siem"
      /\ [NewPoll EXCEPT !.again = TRUE].events = <<>>
  <2>1. <<>> \in Seq(Severities)
    BY EmptySeq
  <2> QED
    BY <2>1 DEF NewPoll, NoPoll, Poll
<1>d. EndsWith(siemEvents, <<>>) /\ EndsWith(siemEvents, siemEvents)
  BY <1>a, EndsWithAll
\* Steps that only add an event, or an alert of Forta.
<1>e. ASSUME NEW severity \in Severities, siemEvents' = Unshifted(siemEvents, severity),
             UNCHANGED <<fortaAlerts, route, siemVars>>
      PROVE  SiemSound'
  <2>1. /\ siemEvents' \in Seq(Severities) /\ EndsWith(siemEvents', siemPage.events)
        /\ \A p \in Polls : EndsWith(siemEvents', poll[p].events)
    BY <1>e, EventInFront
  <2> QED
    BY <1>e, <2>1 DEF siemVars, SiemSound, CallsSound, PageSound
<1>u. ASSUME UNCHANGED <<siemEvents, fortaAlerts, route, siemVars>> PROVE SiemSound'
  BY <1>u DEF siemVars, SiemSound, CallsSound, PageSound
<1>1. ASSUME NEW severity \in Severities, PostEvent(severity) PROVE SiemSound'
  BY <1>1, <1>e DEF PostEvent
<1>2. ASSUME NEW b \in DOMAIN Bots, PostBot(b) PROVE SiemSound'
  <2> DEFINE one == <<Bots[b]>>
  <2>1. one \in Seq(Severities)
    BY SeveritiesKnown
  <2>2. fortaAlerts' = one \o fortaAlerts /\ UNCHANGED <<siemEvents, route, siemVars>>
    BY <1>2 DEF PostBot
  <2> HIDE DEF one
  <2>3. fortaAlerts' \in Seq(Severities)
    BY <1>a, <2>1, <2>2, ConcatProperties
  <2> QED
    BY <2>2, <2>3 DEF siemVars, SiemSound, CallsSound, PageSound
<1>3. ASSUME NEW page \in {"home", "siem", "audit"}, Navigate(page) PROVE SiemSound'
  BY <1>3, GotoSound DEF Navigate, Pages, Demos
<1>4. ASSUME NEW id \in Demos, OpenReport(id) PROVE SiemSound'
  BY <1>4, GotoSound DEF OpenReport, Pages
<1>5. ASSUME NEW p \in Polls, FetchSIEMData(p) PROVE SiemSound'
  <2>1. /\ poll' = [poll EXCEPT ![p] = NewPoll] /\ poll[p].at = "idle"
        /\ UNCHANGED <<siemEvents, fortaAlerts, route, siemPage, simulating, simulation>>
    BY <1>5 DEF FetchSIEMData
  <2>2. /\ poll' \in [Polls -> Poll] /\ poll'[p] = NewPoll
        /\ \A q \in Polls : q # p => poll'[q] = poll[q]
    BY <1>a, <1>c, <2>1
  <2>3. /\ \A q \in Polls : poll'[q].again <=> poll[q].again
        /\ \A q \in Polls : poll'[q].again => poll'[q].at # "idle"
        /\ poll'[p].at # "idle"
        /\ \A q \in Polls : EndsWith(siemEvents', poll'[q].events)
    BY <1>b, <1>c, <1>d, <2>1, <2>2
  <2>4. CallsSound(poll', simulation', siemEvents')
    BY <1>a, <1>b, <2>1, <2>2, <2>3 DEF CallsSound
  <2> QED
    BY <2>1, <2>3, <2>4 DEF SiemSound, PageSound
<1>6. ASSUME NEW p \in Polls, SiemAnswered(p) PROVE SiemSound'
  <2>1. PICK ok \in BOOLEAN :
          poll' = [poll EXCEPT ![p].at = "forta", ![p].ok = ok,
                               ![p].events = IF ok THEN siemEvents ELSE <<>>]
    BY <1>6 DEF SiemAnswered
  <2> DEFINE own == [poll[p] EXCEPT !.at = "forta", !.ok = ok,
                                    !.events = IF ok THEN siemEvents ELSE <<>>]
  <2>2. /\ UNCHANGED <<siemEvents, fortaAlerts, route, siemPage, simulating, simulation>>
        /\ poll' = [poll EXCEPT ![p] = own] /\ poll[p].at = "siem"
    BY <1>6, <2>1 DEF SiemAnswered
  <2>3. own \in Poll /\ own.at = "forta" /\ own.again = poll[p].again
        /\ EndsWith(siemEvents, own.events)
    <3>1. (IF ok THEN siemEvents ELSE <<>>) \in Seq(Severities)
      BY <1>a, EmptySeq
    <3> QED
      BY <1>a, <1>d, <3>1 DEF Poll
  <2> HIDE DEF own
  <2>4. /\ poll' \in [Polls -> Poll] /\ poll'[p] = own
        /\ \A q \in Polls : q # p => poll'[q] = poll[q]
    BY <1>a, <2>2, <2>3
  <2>5. /\ \A q \in Polls : poll'[q].again <=> poll[q].again
        /\ \A q \in Polls : poll'[q].again => poll'[q].at # "idle"
        /\ poll'[p].at # "idle"
        /\ \A q \in Polls : EndsWith(siemEvents', poll'[q].events)
    BY <1>b, <2>2, <2>3, <2>4
  <2>6. CallsSound(poll', simulation', siemEvents')
    BY <1>a, <1>b, <2>2, <2>4, <2>5 DEF CallsSound
  <2> QED
    BY <2>2, <2>5, <2>6 DEF SiemSound, PageSound
<1>7. ASSUME NEW p \in Polls, FortaAnswered(p) PROVE SiemSound'
  <2>1. PICK ok \in BOOLEAN :
          siemPage' =
            [events |-> IF poll[p].ok THEN poll[p].events ELSE siemPage.events,
             metrics |-> IF poll[p].ok THEN Metrics(poll[p].events) ELSE siemPage.metrics,
             alerts |-> IF ok THEN fortaAlerts ELSE siemPage.alerts,
             loading |-> FALSE]
    BY <1>7 DEF FortaAnswered
  <2>2. /\ poll[p].at # "idle" /\ Ended(p)
        /\ UNCHANGED <<siemEvents, fortaAlerts, route>>
    BY <1>7 DEF FortaAnswered
  <2>3. /\ siemPage.metrics = Metrics(siemPage.events) /\ EndsWith(siemEvents, siemPage.events)
        /\ siemPage.events \in Seq(Severities) /\ siemPage.alerts \in Seq(Severities)
        /\ poll[p].events \in Seq(Severities) /\ EndsWith(siemEvents, poll[p].events)
    BY <1>a, <1>b DEF SiemSound, PageSound, SiemPage, Poll
  <2>4. /\ siemPage'.events \in Seq(Severities) /\ siemPage'.alerts \in Seq(Severities)
        /\ siemPage'.metrics = Metrics(siemPage'.events)
        /\ EndsWith(siemEvents', siemPage'.events) /\ siemPage'.loading = FALSE
    BY <1>a, <2>1, <2>2, <2>3
  <2>5. siemPage' \in SiemPage
    BY <2>1, <2>4 DEF SiemPage
  <2> QED
    BY <2>2, <2>4, <2>5, EndedSound DEF PageSound
<1>8. ASSUME NEW p \in Polls, PollFails(p) PROVE SiemSound'
  <2>1. /\ poll[p].at # "idle" /\ Ended(p) /\ siemPage' = [siemPage EXCEPT !.loading = FALSE]
        /\ UNCHANGED <<siemEvents, fortaAlerts, route>>
    BY <1>8 DEF PollFails
  <2>2. PageSound(siemPage', siemEvents') /\ ~siemPage'.loading
    BY <1>a, <2>1 DEF SiemSound, PageSound, SiemPage
  <2> QED
    BY <2>1, <2>2, EndedSound
<1>9. ASSUME NEW scenario \in DOMAIN Scenarios, TriggerSimulation(scenario) PROVE SiemSound'
  <2>1. /\ simulating' = TRUE /\ ~simulating
        /\ simulation' = [at |-> "posting", severity |-> Scenarios[scenario]]
        /\ UNCHANGED <<siemEvents, fortaAlerts, route, siemPage, poll>>
    BY <1>9 DEF TriggerSimulation
  <2>2. simulation' \in Simulation /\ simulation'.at = "posting"
        /\ RuleSeverity(simulation'.severity)
    BY <2>1, SeveritiesKnown DEF Simulation
  <2>3. \A q \in Polls : ~poll[q].again
    BY <1>b, <2>1 DEF SiemSound
  <2>4. CallsSound(poll', simulation', siemEvents')
    BY <1>a, <1>b, <2>1, <2>2, <2>3 DEF CallsSound
  <2> QED
    BY <2>1, <2>2, <2>4 DEF SiemSound, PageSound
<1>10. CASE SimulationPosted
  <2>1. simulation.at = "posting" /\ simulation.severity \in Severities
        /\ UNCHANGED <<fortaAlerts, route, siemPage>> /\ \A q \in Polls : ~poll[q].again
    BY <1>10, <1>a, <1>b DEF SimulationPosted, Simulation
  <2>2. ASSUME siemEvents' = siemEvents
               \/ siemEvents' = Unshifted(siemEvents, simulation.severity)
        PROVE  /\ siemEvents' \in Seq(Severities) /\ EndsWith(siemEvents', siemPage.events)
               /\ \A p \in Polls : EndsWith(siemEvents', poll[p].events)
               /\ EndsWith(siemEvents', <<>>)
    <3>1. CASE siemEvents' = siemEvents
      BY <1>a, <1>b, <1>d, <3>1 DEF SiemSound, PageSound
    <3>2. CASE siemEvents' = Unshifted(siemEvents, simulation.severity)
      BY <2>1, <3>2, EventInFront, EndsWithAll
    <3> QED
      BY <2>2, <3>1, <3>2
  <2>3. PageSound(siemPage, siemEvents)
    BY DEF SiemSound
  <2>4. ASSUME siemEvents' = Unshifted(siemEvents, simulation.severity),
               NEW p \in Polls, poll[p].at = "idle",
               poll' = [poll EXCEPT ![p] = [NewPoll EXCEPT !.again = TRUE]],
               simulation' = [simulation EXCEPT !.at = "refreshing"], UNCHANGED simulating
        PROVE  SiemSound'
    <3> DEFINE own == [NewPoll EXCEPT !.again = TRUE]
    <3>1. own \in Poll /\ own.again /\ own.at = "siem" /\ own.events = <<>>
      BY <1>c
    <3>2. poll' = [poll EXCEPT ![p] = own]
      BY <2>4
    <3> HIDE DEF own
    <3>3. /\ poll' \in [Polls -> Poll] /\ poll'[p] = own
          /\ \A q \in Polls : q # p => poll'[q] = poll[q]
      BY <1>a, <3>1, <3>2
    <3>4. /\ simulation' \in Simulation /\ simulation'.at = "refreshing"
          /\ simulation'.severity = simulation.severity
      BY <1>a, <2>4 DEF Simulation
    <3>5. /\ siemEvents' \in Seq(Severities) /\ EndsWith(siemEvents', siemPage.events)
          /\ \A q \in Polls : EndsWith(siemEvents', poll[q].events)
          /\ EndsWith(siemEvents', <<>>)
      BY <2>2, <2>4
    <3>6. /\ \A q \in Polls : poll'[q].again <=> q = p
          /\ \A q \in Polls : EndsWith(siemEvents', poll'[q].events)
          /\ poll'[p].at # "idle"
      BY <2>1, <3>1, <3>3, <3>5
    <3>7. CallsSound(poll', simulation', siemEvents')
      BY <1>b, <2>1, <3>3, <3>4, <3>6 DEF CallsSound
    <3>8. simulating' \in BOOLEAN /\ (simulating' <=> simulation'.at # "none")
      BY <2>1, <2>4, <3>4 DEF SiemSound
    <3> QED
      BY <2>1, <2>3, <3>5, <3>6, <3>7, <3>8 DEF SiemSound, PageSound
  <2>5. ASSUME siemEvents' \in {siemEvents, Unshifted(siemEvents, simulation.severity)},
               simulation' = NoSimulation, simulating' = FALSE, UNCHANGED poll
        PROVE  SiemSound'
    <3>1. /\ siemEvents' \in Seq(Severities) /\ EndsWith(siemEvents', siemPage.events)
          /\ \A q \in Polls : EndsWith(siemEvents', poll[q].events)
      BY <2>2, <2>5
    <3>2. simulation' \in Simulation /\ simulation'.at = "none"
      BY <2>5 DEF NoSimulation, Simulation, Severities
    <3>3. CallsSound(poll', simulation', siemEvents')
      BY <1>a, <2>1, <2>5, <3>1, <3>2 DEF CallsSound
    <3> QED
      BY <2>1, <2>3, <2>5, <3>1, <3>2, <3>3 DEF SiemSound, PageSound
  <2> QED
    BY <1>10, <2>4, <2>5 DEF SimulationPosted
<1>11. ASSUME NEW k \in Scans, DemoAnswered(k) PROVE SiemSound'
  <2>1. scan[k].demo \in Demos
    BY <1>11 DEF DemoAnswered, ScansSound, ScanCall
  <2> QED
    BY <1>11, <2>1, GotoSound DEF DemoAnswered, Pages
<1> QED
  BY <1>1, <1>2, <1>3, <1>4, <1>5, <1>6, <1>7, <1>8, <1>9, <1>10, <1>11, <1>u
  DEF WebNext, EditInput, StartScan, ScanFails, ReportSettles

LEMMA ScansStep ==
  ASSUME SiemSound, ScansSound, WebNext PROVE ScansSound'
<1>a. /\ scan \in [Scans -> ScanCall] /\ auditPage \in [loading : BOOLEAN, input : BOOLEAN]
      /\ \A k \in Scans : scan[k].here => scan[k].at = "running"
      /\ auditPage.loading <=> \E k \in Scans : scan[k].here
      /\ \A j, k \in Scans : scan[j].here /\ scan[k].here => j = k
  BY DEF ScansSound
<1>b. NoScan \in ScanCall /\ ~NoScan.here
  BY DEF NoScan, ScanCall
<1>g. ASSUME NEW page \in Pages, NEW id \in Demos, Goto(page, id),
             UNCHANGED <<siemEvents, fortaAlerts>>,
             scan' \in [Scans -> ScanCall], \A k \in Scans : ~scan'[k].here
      PROVE  ScansSound'
  BY <1>g, GotoSound, NoScansSound
<1>u. ASSUME UNCHANGED <<auditPage, scan>> PROVE ScansSound'
  BY <1>u DEF ScansSound
<1>1. ASSUME NEW page \in {"home", "siem", "audit"}, Navigate(page) PROVE ScansSound'
  BY <1>1, <1>g, OrphanedScans DEF Navigate, Pages, Demos
<1>2. ASSUME NEW id \in Demos, OpenReport(id) PROVE ScansSound'
  BY <1>2, <1>g, OrphanedScans DEF OpenReport, Pages
<1>3. CASE EditInput
  <2>1. auditPage' = [auditPage EXCEPT !.input = ~@] /\ UNCHANGED scan
    BY <1>3 DEF EditInput
  <2>2. auditPage' \in [loading : BOOLEAN, input : BOOLEAN]
        /\ auditPage'.loading = auditPage.loading
    BY <1>a, <2>1
  <2> QED
    BY <1>a, <2>1, <2>2 DEF ScansSound
<1>4. ASSUME NEW k \in Scans, NEW demo \in Demos \cup {"none"}, StartScan(k, demo)
      PROVE  ScansSound'
  <2> DEFINE own == [at |-> "running", demo |-> demo, here |-> TRUE]
  <2>1. /\ auditPage' = [auditPage EXCEPT !.loading = TRUE] /\ scan' = [scan EXCEPT ![k] = own]
        /\ ~auditPage.loading
    BY <1>4 DEF StartScan
  <2>2. own \in ScanCall /\ own.here /\ own.at = "running"
    BY DEF ScanCall
  <2>3. auditPage' \in [loading : BOOLEAN, input : BOOLEAN] /\ auditPage'.loading
    BY <1>a, <2>1
  <2> HIDE DEF own
  <2>4. /\ scan' \in [Scans -> ScanCall] /\ scan'[k] = own
        /\ \A j \in Scans : j # k => scan'[j] = scan[j]
    BY <1>a, <2>1, <2>2
  <2>5. \A j \in Scans : scan'[j].here <=> j = k
    BY <1>a, <2>1, <2>2, <2>4
  <2>6. \A j \in Scans : scan'[j].here => scan'[j].at = "running"
    BY <2>2, <2>4, <2>5
  <2> QED
    BY <2>3, <2>4, <2>5, <2>6 DEF ScansSound
<1>5. ASSUME NEW k \in Scans, DemoAnswered(k) PROVE ScansSound'
  <2>1. scan[k].demo \in Demos
    BY <1>5, <1>a DEF DemoAnswered, ScanCall
  <2>2. scan' = [Orphaned(scan) EXCEPT ![k] = NoScan]
    BY <1>5 DEF DemoAnswered
  <2> HIDE DEF NoScan
  <2>3. scan' \in [Scans -> ScanCall] /\ \A j \in Scans : ~scan'[j].here
    BY <1>b, <2>2, OrphanedScans
  <2> QED
    BY <1>5, <1>g, <2>1, <2>3 DEF DemoAnswered, Pages
<1>6. ASSUME NEW k \in Scans, ScanFails(k) PROVE ScansSound'
  <2>1. /\ auditPage' = [auditPage EXCEPT !.loading = @ /\ ~scan[k].here]
        /\ scan' = [scan EXCEPT ![k] = NoScan]
    BY <1>6 DEF ScanFails
  <2>2. auditPage' \in [loading : BOOLEAN, input : BOOLEAN]
        /\ auditPage'.loading = (auditPage.loading /\ ~scan[k].here)
    BY <1>a, <2>1
  <2> HIDE DEF NoScan
  <2>3. /\ scan' \in [Scans -> ScanCall] /\ ~scan'[k].here
        /\ \A j \in Scans : j # k => scan'[j] = scan[j]
    BY <1>a, <1>b, <2>1
  <2>4. auditPage'.loading <=> \E j \in Scans : scan'[j].here
    BY <1>a, <2>2, <2>3
  <2>5. \A j \in Scans : scan'[j].here => scan[j].here /\ scan'[j] = scan[j]
    BY <2>3
  <2> QED
    BY <1>a, <2>2, <2>3, <2>4, <2>5 DEF ScansSound
<1> QED
  BY <1>1, <1>2, <1>3, <1>4, <1>5, <1>6, <1>u
  DEF WebNext, PostEvent, PostBot, FetchSIEMData, SiemAnswered, FortaAnswered, PollFails,
      TriggerSimulation, SimulationPosted, ReportSettles

LEMMA ReportStep ==
  ASSUME SiemSound, ScansSound, ReportSound, WebNext PROVE ReportSound'
<1>u. ASSUME UNCHANGED reportPage PROVE ReportSound'
  BY <1>u DEF ReportSound
<1>1. ASSUME NEW page \in {"home", "siem", "audit"}, Navigate(page) PROVE ReportSound'
  BY <1>1, GotoSound DEF Navigate, Pages, Demos
<1>2. ASSUME NEW id \in Demos, OpenReport(id) PROVE ReportSound'
  BY <1>2, GotoSound DEF OpenReport, Pages
<1>3. ASSUME NEW k \in Scans, DemoAnswered(k) PROVE ReportSound'
  <2>1. scan[k].demo \in Demos
    BY <1>3 DEF DemoAnswered, ScansSound, ScanCall
  <2> QED
    BY <1>3, <2>1, GotoSound DEF DemoAnswered, Pages
<1>4. CASE ReportSettles
  BY <1>4 DEF ReportSettles, ReportSound, ReportPage, Demos
<1> QED
  BY <1>1, <1>2, <1>3, <1>4, <1>u
  DEF WebNext, PostEvent, PostBot, FetchSIEMData, SiemAnswered, FortaAnswered, PollFails,
      TriggerSimulation, SimulationPosted, EditInput, StartScan, ScanFails

LEMMA WebStarts == WebInit => WebInv
<1> SUFFICES ASSUME WebInit PROVE WebInv
  OBVIOUS
<1>1. siemEvents \in Seq(Severities) /\ fortaAlerts \in Seq(Severities)
      /\ <<>> \in Seq(Severities)
  BY EmptySeq DEF WebInit, SiemSeed, FortaSeed, Severities
<1>2. EndsWith(siemEvents, <<>>)
  BY <1>1, EndsWithAll
<1>3. NoPoll \in Poll /\ ~NoPoll.again /\ NoPoll.events = <<>>
  BY <1>1 DEF NoPoll, Poll
<1>4. poll = [p \in Polls |-> NoPoll]
  BY DEF WebInit
<1>5. simulation \in Simulation /\ simulation.at = "none" /\ simulating = FALSE
  BY DEF WebInit, NoSimulation, Simulation, Severities
<1>6. CallsSound(poll, simulation, siemEvents)
  <2> HIDE DEF NoPoll
  <2> QED
    BY <1>2, <1>3, <1>4, <1>5 DEF CallsSound
<1>7. PageSound(siemPage, siemEvents)
  BY <1>1, <1>2 DEF WebInit, PageSound, NoPage, SiemPage
<1>8. SiemSound
  BY <1>1, <1>5, <1>6, <1>7 DEF WebInit, SiemSound, Pages
<1>9. ScansSound
  BY DEF WebInit, ScansSound, NoScan, ScanCall
<1>10. ReportSound
  BY DEF WebInit, ReportSound, NewReport, ReportPage, Demos
<1> QED
  BY <1>8, <1>9, <1>10 DEF WebInv

LEMMA WebCorrect == WebSpec => []WebInv
<1>1. WebInv /\ [WebNext]_webVars => WebInv'
  <2>1. WebInv /\ WebNext => WebInv'
    BY SiemStep, ScansStep, ReportStep DEF WebInv
  <2>2. WebInv /\ UNCHANGED webVars => WebInv'
    BY DEF webVars, siemVars, WebInv, SiemSound, ScansSound, ReportSound, CallsSound, PageSound
  <2> QED
    BY <2>1, <2>2
<1> QED
  BY <1>1, WebStarts, PTL DEF WebSpec

\* The stores of the routes and the state of the tab have their types.
THEOREM WebTypeCorrect == WebSpec => []WebTypeOK
<1>1. WebInv => WebTypeOK
  BY DEF WebInv, WebTypeOK, SiemSound, ScansSound, ReportSound, CallsSound, PageSound,
         Pages, Poll, Simulation, ScanCall, ReportPage
<1> QED
  BY <1>1, WebCorrect, PTL

\* The buttons of the frontend are disabled just while the call that frees them is
\* under way, and no list is a mixture of two answers, for any number of calls and
\* scans, however they overlap, fail or outlive their page.
THEOREM PagesAreConsistent == WebSpec => []PagesConsistent
<1>1. WebInv => PagesConsistent
  <2> SUFFICES ASSUME WebInv PROVE PagesConsistent
    OBVIOUS
  <2>1. FlagsMatchCalls
    BY DEF WebInv, SiemSound, ScansSound, CallsSound, FlagsMatchCalls
  <2>2. IsSuffix(siemPage.events, siemEvents)
    BY SuffixElements DEF WebInv, SiemSound, PageSound, SiemPage
  <2>3. siemPage.metrics = Metrics(siemPage.events)
    BY DEF WebInv, SiemSound, PageSound
  <2>4. simulation.at # "none" => RuleSeverity(simulation.severity)
    BY DEF WebInv, SiemSound, CallsSound
  <2>5. ASSUME NEW id \in Demos
        PROVE  /\ DemoReport[id] = DashboardRow[id]
               /\ DemoReport[id].cvss = BadgeSvg(id).cvss
               /\ DemoReport[id].badge # 0 <=> BadgeSvg(id).guard = "EMERALD"
    BY DEF Demos, DemoReport, DashboardRow, BadgeSvg
  <2>6. reportPage.report \in Demos => reportPage.report = reportPage.id
    BY DEF WebInv, ReportSound
  <2> QED
    BY <2>1, <2>2, <2>3, <2>4, <2>5, <2>6 DEF PagesConsistent, RuleSeverity
<1> QED
  BY <1>1, WebCorrect, PTL

----------------------------------------------------------------------------
(* The components side by side *)

\* Time that passes for one contract passes for the other, and does nothing else.
LEMMA ClockShared ==
  /\ StakeNext /\ UNCHANGED resumeOwnVars => [ResumeNext]_resumeVars
  /\ ResumeNext /\ UNCHANGED stakeOwnVars => [StakeNext]_stakeVars
<1>1. StakeNext => Advance \/ UNCHANGED now
  BY DEF StakeNext, Stake, Unstake, ExecuteUnstake, ClaimRewards, Transfer, RegistryChange,
         StakeTick
<1>2. ResumeNext => Advance \/ UNCHANGED now
  BY DEF ResumeNext, SubmitProof, ProposeVerifierUpdate, ExecuteVerifierUpdate,
         CancelVerifierUpdate
<1> QED
  BY <1>1, <1>2 DEF ResumeNext, resumeVars, resumeOwnVars, StakeNext, StakeTick, stakeVars,
                    stakeOwnVars

\* A step of the composition is a step or a stutter of each component.
LEMMA ContractsStep ==
  [ComponentsNext]_componentVars =>
    [StakeNext]_stakeVars /\ [ResumeNext]_resumeVars /\ [QueueNext]_queueVars
<1> SUFFICES ASSUME [ComponentsNext]_componentVars
             PROVE  [StakeNext]_stakeVars /\ [ResumeNext]_resumeVars /\ [QueueNext]_queueVars
  OBVIOUS
<1>1. ASSUME NEW c \in ComponentNames, OnChain(c)
      PROVE  [StakeNext]_stakeVars /\ [ResumeNext]_resumeVars /\ [QueueNext]_queueVars
  BY <1>1, ClockShared DEF OnChain
<1>2. ASSUME UNCHANGED onChainVars
      PROVE  [StakeNext]_stakeVars /\ [ResumeNext]_resumeVars /\ [QueueNext]_queueVars
  BY <1>2 DEF onChainVars
<1> QED
  BY <1>1, <1>2 DEF ComponentsNext, StepOf, OffChain, componentVars

LEMMA ServicesStep ==
  [ComponentsNext]_componentVars =>
    /\ [AuditNext]_storeVars /\ [BotNext]_botVars /\ [TenantNext]_tenantVars
    /\ [StreamerNext]_streamerVars /\ [AnalyticsNext]_analyticsVars
    /\ [WalletNext]_walletVars /\ [WebNext]_webVars /\ [NetworkNext]_networkVars
<1>1. ASSUME NEW c \in ComponentNames, OffChain(c)
      PROVE  /\ [AuditNext]_storeVars /\ [BotNext]_botVars /\ [TenantNext]_tenantVars
             /\ [StreamerNext]_streamerVars /\ [AnalyticsNext]_analyticsVars
             /\ [WalletNext]_walletVars /\ [WebNext]_webVars /\ [NetworkNext]_networkVars
  BY <1>1 DEF OffChain, AuditNext
<1>2. ASSUME UNCHANGED offChainVars
      PROVE  /\ [AuditNext]_storeVars /\ [BotNext]_botVars /\ [TenantNext]_tenantVars
             /\ [StreamerNext]_streamerVars /\ [AnalyticsNext]_analyticsVars
             /\ [WalletNext]_walletVars /\ [WebNext]_webVars /\ [NetworkNext]_networkVars
  BY <1>2 DEF offChainVars
<1> QED
  BY <1>1, <1>2 DEF ComponentsNext, StepOf, OnChain, componentVars

\* The composition implements each component: whatever the others do between its
\* steps, it behaves as it does alone, so that what is proved of each component
\* alone holds of all of them together.
THEOREM ComponentsStandAlone ==
  ComponentsSpec =>
    /\ StakeSpec /\ ResumeSpec /\ QueueSpec /\ AuditSpec /\ BotSpec /\ TenantSpec
    /\ StreamerSpec /\ AnalyticsSpec /\ WalletSpec /\ WebSpec /\ NetworkSpec
<1>1. ComponentsInit =>
        /\ StakeInit /\ ResumeInit /\ QueueInit /\ PipelineInit /\ StoreInit /\ BotInit
        /\ TenantInit /\ StreamerInit /\ AnalyticsInit /\ WalletInit /\ WebInit /\ NetworkInit
  BY DEF ComponentsInit
<1>2. [ComponentsNext]_componentVars => [AuditNext]_<<pipelineVars, auditStoreVars>>
  BY ServicesStep DEF storeVars
<1> QED
  BY <1>1, <1>2, ContractsStep, ServicesStep, PTL
  DEF ComponentsSpec, StakeSpec, ResumeSpec, QueueSpec, AuditSpec, BotSpec, TenantSpec,
      StreamerSpec, AnalyticsSpec, WalletSpec, WebSpec, NetworkSpec

\* All variables of all components keep their types in every interleaving.
THEOREM ComponentsTypeCorrect == ComponentsSpec => []ComponentsTypeOK
<1>1. (/\ StakeTypeOK /\ ResumeTypeOK /\ QueueTypeOK
       /\ PipelineTypeOK /\ StoreTypeOK /\ BotTypeOK
       /\ TenantTypeOK /\ StreamerTypeOK /\ AnalyticsTypeOK
       /\ WalletTypeOK /\ WebTypeOK /\ NetworkTypeOK) => ComponentsTypeOK
  BY DEF ComponentsTypeOK
<1> QED
  BY <1>1, ComponentsStandAlone, StakeTypeCorrect, ResumeTypeCorrect, QueueTypeCorrect,
     PipelineTypeCorrect, StoreTypeCorrect, BotTypeCorrect, TenantTypeCorrect,
     StreamerTypeCorrect, AnalyticsTypeCorrect, WalletTypeCorrect, WebTypeCorrect,
     NetworkTypeCorrect, PTL

\* What each component promises it keeps in every interleaving of all of them: the
\* contracts between their callers, the services between requests that crash, time
\* out and answer out of order.
THEOREM ComponentsKeepPromises ==
  ComponentsSpec =>
    /\ [](/\ ReceiptsBacked /\ SpentMatchesRecorded /\ JobsPartitioned
         /\ ReportsKept /\ BadgesEarned /\ BotWatchesItsContract
         /\ AnswersHold /\ OneConnection /\ ScenariosRaised
         /\ ConnectingHasCall /\ PagesConsistent /\ FinalWasReported)
    /\ ReceiptsEscrowed /\ RewardClockKept /\ VerifierAnnounced /\ ConsensusReached
<1>1. StakeSpec => []ReceiptsBacked /\ ReceiptsEscrowed /\ RewardClockKept
  BY StakeBacked, StakeManagerImplementsEscrow, ClocksKept
<1>2. ResumeSpec => []SpentMatchesRecorded /\ VerifierAnnounced
  BY SpentRecorded, VerifiersAnnounced
<1>3. AuditSpec => []ReportsKept /\ []BadgesEarned
  BY ReportsAreKept, BadgesAreEarned
<1>4. NetworkSpec => []FinalWasReported /\ ConsensusReached
  BY FinalReported, NetworkImplementsConsensus
<1> QED
  BY <1>1, <1>2, <1>3, <1>4, ComponentsStandAlone, JobsStayApart, BotsWatchTheirContract,
     AnswersTrue, ConnectsOnce, ScenariosAreRaised, ConnectingWaits, PagesAreConsistent, PTL
=============================================================================
