--------------------------- MODULE TenantRegistry ---------------------------
(***************************************************************************)
(* legacy/src/tenantRegistry.ts: the clients and the addresses they watch, *)
(* in memory and in a JSON file, and the webhooks sent for an alert.  The  *)
(* server (server.ts) starts, crashes and starts again; a write of the file*)
(* may fail after the memory was changed.  One dispatch is under way at a  *)
(* time, as dispatchMatchingWebhooks() awaits each.  The registration route*)
(* of the frontend is another process that reads the same file and keeps   *)
(* its own map.  Keys stand for their hashes and for the clients they were *)
(* issued to; names, URLs, formats and signatures are left out.            *)
(***************************************************************************)
EXTENDS Integers, Sequences, SequencesExt, Subsequences

CONSTANTS
  ApiKeys,        \* keys registerClient() can issue
  PolyLanceKeys,  \* those issued to clients named PolyLance
  BootKey,        \* POLYLANCE_API_KEY, when the environment has it
  Addresses,      \* addresses, in lower case
  BootAddress,    \* POLYLANCE_ESCROW_ADDRESS
  NoOwner,        \* the route knows no client of the key
  MaxTries,       \* 3 attempts at a webhook
  MaxRegistrations, MaxStarts, MaxAlerts  \* bounds on what callers do

ASSUME TenantConstants ==
  /\ PolyLanceKeys \subseteq ApiKeys /\ BootKey \in ApiKeys
  /\ BootAddress \in Addresses /\ NoOwner \notin ApiKeys
  /\ MaxTries \in Nat \ {0}
  /\ MaxRegistrations \in Nat /\ MaxStarts \in Nat /\ MaxAlerts \in Nat

VARIABLES
  up,         \* is the server running?
  memory,     \* this.state: [clients, monitored]
  disk,       \* the registry file
  issued,     \* keys and registrations a caller was told of (201)
  hooks,      \* registrations the current alert must still be sent to
  attempt,    \* attempt under way at the first of them, 0 when none is
  receipts,   \* how often the receiver got the alert of this dispatch
  delivered,  \* did the last dispatch return without an error?
  webDb,      \* the route's REGISTRATION_DB: address -> owner, or none
  starts, sent  \* starts and alerts so far, for the bounds

stateVars == <<up, memory, disk, issued>>
hookVars == <<hooks, attempt, receipts, delivered, sent>>
tenantVars == <<stateVars, hookVars, webDb, starts>>

Registration == [key : ApiKeys, address : Addresses]
Registry == [clients : SUBSET ApiKeys, monitored : Seq(Registration)]
NothingRegistered == [clients |-> {}, monitored |-> <<>>]

TenantInit ==
  /\ up = FALSE
  /\ memory = NothingRegistered
  /\ disk = NothingRegistered
  /\ issued = [keys |-> {}, registrations |-> {}]
  /\ hooks = <<>> /\ attempt = 0 /\ receipts = 0 /\ delivered = FALSE
  /\ webDb = [a \in Addresses |-> {}]
  /\ starts = 0 /\ sent = 0

Bounded == Len(memory.monitored) < MaxRegistrations

\* authenticate()
Authenticated(key) == key \in memory.clients

\* lookupAddress()
LookupAddress(registry, address) ==
  SelectSeq(registry.monitored, LAMBDA m : m.address = address)

\* push() and then persist(): the file is renamed over the old one, or the write
\* throws and the memory keeps what was pushed.  The mutation writes first.
SavedBefore(registry) == disk' = memory /\ memory' = registry
Saved(registry) == memory' = registry /\ disk' = registry
NotSaved(registry) == memory' = registry /\ UNCHANGED disk

WithRegistration(registry, key, address) ==
  [registry EXCEPT !.monitored = Append(@, [key |-> key, address |-> address])]

----------------------------------------------------------------------------
(* Starting and stopping the server. *)

\* Does bootstrapPolyLance() have to register the escrow?
Unregistered(registry) ==
  \A i \in DOMAIN LookupAddress(registry, BootAddress) :
    LookupAddress(registry, BootAddress)[i].key \notin PolyLanceKeys

\* The module is loaded without the bootstrap's environment.
StartPlain ==
  /\ ~up /\ starts < MaxStarts
  /\ up' = TRUE
  /\ memory' = disk
  /\ starts' = starts + 1
  /\ UNCHANGED <<disk, issued, hookVars, webDb>>

\* It is loaded with it.  A key that is not on file, or a write that fails,
\* throws, and the server does not come up.
StartPolyLance ==
  /\ ~up /\ starts < MaxStarts
  /\ starts' = starts + 1
  /\ BootKey \in disk.clients
  /\ \/ /\ ~Unregistered(disk)
        /\ up' = TRUE
        /\ memory' = disk
        /\ UNCHANGED disk
     \/ /\ Unregistered(disk)
        /\ up' = TRUE
        /\ Saved(WithRegistration(disk, BootKey, BootAddress))
  /\ UNCHANGED <<issued, hookVars, webDb>>

\* The process ends, and a dispatch under way with it.
Crash ==
  /\ up
  /\ up' = FALSE
  /\ memory' = NothingRegistered
  /\ hooks' = <<>> /\ attempt' = 0 /\ receipts' = 0 /\ delivered' = FALSE
  /\ UNCHANGED <<disk, issued, webDb, starts, sent>>

----------------------------------------------------------------------------
(* The two endpoints of the server. *)

\* POST /api/siem/clients: the key is known to the caller only if it was saved.
RegisterClient(key) ==
  /\ up /\ key \notin memory.clients
  /\ LET registry == [memory EXCEPT !.clients = @ \cup {key}]
     IN \/ /\ Saved(registry)
           /\ issued' = [issued EXCEPT !.keys = @ \cup {key}]
        \/ /\ NotSaved(registry)
           /\ UNCHANGED issued
  /\ UNCHANGED <<up, hookVars, webDb, starts>>

\* POST /api/siem/monitored-addresses, by a client that knows its key: nothing
\* keeps an address from being registered again.
RegisterAddress(key, address) ==
  /\ up /\ Authenticated(key) /\ key \in issued.keys
  /\ Bounded
  /\ LET registry == WithRegistration(memory, key, address)
     IN \/ /\ Saved(registry)
           /\ issued' = [issued EXCEPT
                           !.registrations = @ \cup {[key |-> key, address |-> address]}]
        \/ /\ NotSaved(registry)
           /\ UNCHANGED issued
  /\ UNCHANGED <<up, hookVars, webDb, starts>>

\* POST /api/monitor/register of the frontend: any key is accepted; the file only
\* tells whose it is, and the last registration of an address wins.
WebRegister(key, address) ==
  /\ webDb' = [webDb EXCEPT ![address] = {IF key \in disk.clients THEN key ELSE NoOwner}]
  /\ UNCHANGED <<stateVars, hookVars, starts>>

----------------------------------------------------------------------------
(* Webhooks. *)

\* dispatchMatchingWebhooks() for an alert about the address; whether an event
\* is one the registration watches is left open.
RaiseAlert(address) ==
  /\ up /\ hooks = <<>> /\ sent < MaxAlerts
  /\ \E watched \in SUBSET DOMAIN memory.monitored :
       /\ \A i \in watched : /\ memory.monitored[i].address = address
                             /\ memory.monitored[i].key \in PolyLanceKeys
       /\ watched # {}
       /\ hooks' = Subsequence(memory.monitored, watched)
  /\ attempt' = 1 /\ receipts' = 0 /\ delivered' = FALSE
  /\ sent' = sent + 1
  /\ UNCHANGED <<stateVars, webDb, starts>>

\* Is there another attempt after a failed one?
Retries(n) == n < MaxTries

Dispatching == up /\ hooks # <<>> /\ attempt # 0

\* The receiver gets the request and answers 2xx in time.
Acknowledged ==
  /\ Dispatching
  /\ receipts' = receipts + 1
  /\ attempt' = 0 /\ delivered' = TRUE
  /\ UNCHANGED <<stateVars, hooks, sent, webDb, starts>>

\* The attempt fails: the request is lost, or it arrived and the answer is an
\* error or comes after the 5 s timeout.  There is another one, or dispatchAlert()
\* throws and the error is logged.
Failed ==
  /\ Dispatching
  /\ receipts' \in {receipts, receipts + 1}
  /\ attempt' = IF Retries(attempt) THEN attempt + 1 ELSE 0
  /\ UNCHANGED <<stateVars, hooks, delivered, sent, webDb, starts>>

\* The next registration is taken.
NextHook ==
  /\ up /\ hooks # <<>> /\ attempt = 0
  /\ hooks' = Tail(hooks)
  /\ attempt' = IF Tail(hooks) = <<>> THEN 0 ELSE 1
  /\ receipts' = 0 /\ delivered' = FALSE
  /\ UNCHANGED <<stateVars, sent, webDb, starts>>

Dispatch == Acknowledged \/ Failed \/ NextHook

TenantNext ==
  \/ StartPlain \/ StartPolyLance \/ Crash
  \/ \E key \in ApiKeys : RegisterClient(key)
  \/ \E key \in ApiKeys, address \in Addresses :
       RegisterAddress(key, address) \/ WebRegister(key, address)
  \/ \E address \in Addresses : RaiseAlert(address)
  \/ Dispatch

TenantSpec == TenantInit /\ [][TenantNext]_tenantVars

----------------------------------------------------------------------------

TenantTypeOK ==
  /\ up \in BOOLEAN
  /\ memory \in Registry /\ disk \in Registry
  /\ issued.keys \subseteq ApiKeys /\ issued.registrations \subseteq Registration
  /\ hooks \in Seq(Registration)
  /\ attempt \in 0 .. MaxTries
  /\ delivered \in BOOLEAN
  /\ webDb \in [Addresses -> SUBSET (ApiKeys \cup {NoOwner})]

\* What callers are told is true.  A client or an address answered with 201 is on
\* file and survives any crash, with failed writes in between; no registration is
\* without the client whose secret its webhooks are signed with; and a dispatch
\* that returns without an error was received, once for each attempt at most.
AnswersHold ==
  /\ issued.keys \subseteq disk.clients
  /\ issued.registrations \subseteq Range(disk.monitored)
  /\ \A registry \in {memory, disk} :
       \A m \in Range(registry.monitored) : m.key \in registry.clients
  /\ delivered => receipts > 0
  /\ receipts <= MaxTries
=============================================================================
