---------------------------- MODULE SiemStreamer ----------------------------
(***************************************************************************)
(* scripts/siemStreamer.ts: a process that watches the chain and sends the *)
(* transactions of each block, as events, to the SIEM server's WebSocket,  *)
(* and opens the socket again when it is closed.  The handlers of several  *)
(* blocks run interleaved; a block's RPC calls (the block, and a receipt   *)
(* per transaction) answer in any order.  An event is its set of fields.   *)
(***************************************************************************)
EXTENDS Integers

CONSTANTS
  Links,     \* WebSocket objects; a closed one may stand for a later one
  NoLink,    \* this.ws is null
  Blocks     \* block numbers the provider announces

ASSUME StreamerConstants == NoLink \notin Links

VARIABLES
  isConnecting,  \* the streamer's flag
  link,          \* this.ws
  linkState,     \* link -> "closed", "connecting", "open"
  timers,        \* setTimeout() calls of the close handler, not yet fired
  started,       \* has start() run?
  handling,      \* block -> "unseen", "reading", "handled"
  sentBlocks,    \* blocks whose events were sent over an open socket
  ingested       \* blocks whose events the server processed

linkVars == <<isConnecting, link, linkState, timers>>
streamerVars == <<linkVars, started, handling, sentBlocks, ingested>>

StreamerInit ==
  /\ isConnecting = FALSE
  /\ link = NoLink
  /\ linkState = [l \in Links |-> "closed"]
  /\ timers = 0
  /\ started = FALSE
  /\ handling = [b \in Blocks |-> "unseen"]
  /\ sentBlocks = {}
  /\ ingested = {}

Live == {l \in Links : linkState[l] # "closed"}

\* connectSIEM(): nothing while a connection is being made.
ConnectSIEM ==
  IF isConnecting
  THEN UNCHANGED <<isConnecting, link, linkState>>
  ELSE \E l \in Links \ Live :
         /\ isConnecting' = TRUE
         /\ link' = l
         /\ linkState' = [linkState EXCEPT ![l] = "connecting"]

\* start()
StartStreamer ==
  /\ ~started
  /\ started' = TRUE
  /\ ConnectSIEM
  /\ UNCHANGED <<timers, handling, sentBlocks, ingested>>

\* 'open'
LinkOpens(l) ==
  /\ linkState[l] = "connecting"
  /\ linkState' = [linkState EXCEPT ![l] = "open"]
  /\ isConnecting' = FALSE
  /\ UNCHANGED <<link, timers, started, handling, sentBlocks, ingested>>

\* The flag after 'close', also of a connection that was never made.  The
\* mutation resets it on 'open' only.
FlagKept == isConnecting
FlagAfterClose == FALSE

\* 'close', alone or after an 'error', which is only logged: the server is down,
\* refuses the key, or ends the connection.
LinkCloses(l) ==
  /\ linkState[l] # "closed"
  /\ linkState' = [linkState EXCEPT ![l] = "closed"]
  /\ isConnecting' = FlagAfterClose
  /\ link' = NoLink
  /\ timers' = timers + 1
  /\ UNCHANGED <<started, handling, sentBlocks, ingested>>

\* After RECONNECT_DELAY_MS.
TimerFires ==
  /\ timers > 0
  /\ timers' = timers - 1
  /\ ConnectSIEM
  /\ UNCHANGED <<started, handling, sentBlocks, ingested>>

\* The provider announces a block, and its handler waits for the RPC node.
BlockArrives(b) ==
  /\ started /\ handling[b] = "unseen"
  /\ handling' = [handling EXCEPT ![b] = "reading"]
  /\ UNCHANGED <<linkVars, started, sentBlocks, ingested>>

\* The events streamed, and isValidChainEvent() of the server.
StreamedFields == {"id", "contractAddress", "eventName", "gasUsed", "callValue", "args"}
RequiredFields ==
  {"id", "timestamp", "chainId", "contractAddress", "txHash", "blockNumber",
   "eventName", "args", "gasUsed", "callValue", "from"}

\* The last answer is in: an error, or a block without events ends the handler;
\* otherwise streamToSIEM() sends them if the socket is open at this moment, and
\* drops them if not.  The server ignores a message with an invalid event.
BlockRead(b) ==
  /\ handling[b] = "reading"
  /\ handling' = [handling EXCEPT ![b] = "handled"]
  /\ \/ UNCHANGED <<sentBlocks, ingested>>
     \/ /\ link # NoLink /\ linkState[link] = "open"
        /\ sentBlocks' = sentBlocks \cup {b}
        /\ ingested' = IF RequiredFields \subseteq StreamedFields
                       THEN ingested \cup {b} ELSE ingested
  /\ UNCHANGED <<linkVars, started>>

StreamerNext ==
  \/ StartStreamer \/ TimerFires
  \/ \E l \in Links : LinkOpens(l) \/ LinkCloses(l)
  \/ \E b \in Blocks : BlockArrives(b) \/ BlockRead(b)

StreamerSpec == StreamerInit /\ [][StreamerNext]_streamerVars

----------------------------------------------------------------------------

StreamerTypeOK ==
  /\ isConnecting \in BOOLEAN
  /\ link \in Links \cup {NoLink}
  /\ linkState \in [Links -> {"closed", "connecting", "open"}]
  /\ timers \in Nat
  /\ handling \in [Blocks -> {"unseen", "reading", "handled"}]
  /\ ingested \subseteq sentBlocks /\ sentBlocks \subseteq Blocks

\* A started streamer has exactly one socket or one pending reconnection: however
\* often the connection fails while it is made or breaks later, it neither gives
\* up nor opens a second connection that would send every block twice; and it
\* sends over the live socket, not one that a late `close' has taken from it.
OneConnection ==
  started => /\ timers + (IF Live = {} THEN 0 ELSE 1) = 1
             /\ \A l, m \in Live : l = m
             /\ \A l \in Live : link = l

\* The events of every block that was sent over an open socket are processed
\* (siemStreamer.ts:4-6 "streams them directly to the running SIEM WebSocket
\* server ... for real-time anomaly detection, threat matching, and dashboard
\* updates").  They are not: the server takes no event without a timestamp,
\* chainId, txHash, blockNumber and from.
StreamedIsProcessed == sentBlocks = ingested
=============================================================================
