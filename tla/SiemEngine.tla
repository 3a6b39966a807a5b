----------------------------- MODULE SiemEngine -----------------------------
(***************************************************************************)
(* crates/auditx-core/src/siem.rs: SIEMEngine and SIEMAlertManager, shared *)
(* by threads (every method takes &self, every field that changes is in a  *)
(* Mutex).  A step ends where a thread asks for a lock or reads the clock. *)
(* A lock taken and released with no other lock asked for in between is    *)
(* one step; the alerts lock is only ever taken so.                        *)
(***************************************************************************)
EXTENDS Integers, Sequences

CONSTANTS
  Processors,       \* threads that call process() or process_single()
  Trainers,         \* threads that call train()
  Free,             \* the holder of a lock nobody holds
  Keys,             \* dedup keys of the events over the threshold
  DedupWindow,      \* the 60_000 of process_event()
  Modulus,          \* 2^64, the range of the u64 timestamps
  OverflowChecks,   \* a debug build: u64 underflow panics
  MaxCalls,         \* bound on the calls of one thread
  MaxTime           \* bound on the clock

Threads == Processors \cup Trainers

ASSUME EngineConstants ==
  /\ Processors \cap Trainers = {}
  /\ Free \notin Threads
  /\ DedupWindow \in Nat
  /\ Modulus \in Nat \ {0}
  /\ OverflowChecks \in BOOLEAN
  /\ MaxCalls \in Nat
  /\ MaxTime \in 1 .. Modulus - 1

VARIABLES
  now,            \* Utc::now(), as u64
  detectorLock,   \* the thread that holds `detector', or Free
  trainedLock,    \* the thread that holds `trained', or Free
  trained,        \* the flag in that Mutex
  samples,        \* what trained the detector last: "none", "cold" or "history"
  coldStarts,     \* history: calls of detector.train(&[]) by process()
  scoredBlind,    \* history: was an event scored by an untrained detector?
  dedupCache,     \* key -> timestamp, 0 when the key is not in the map
  poisoned,       \* did a thread panic holding `dedup_cache'?
  alerts,         \* history: the alerts created, [key, timestamp]
  pc,             \* thread -> where it is
  event,          \* thread -> the key of the event it processes
  stamp,          \* thread -> the `now' of its process_event()
  calls           \* thread -> calls it made, for the bound

locks == <<detectorLock, trainedLock>>
detector == <<samples, coldStarts, scoredBlind>>
alerting == <<dedupCache, poisoned, alerts>>
vars == <<now, locks, trained, detector, alerting, pc, event, stamp, calls>>

Init ==
  /\ now = 1
  /\ detectorLock = Free /\ trainedLock = Free
  /\ trained = FALSE
  /\ samples = "none" /\ coldStarts = 0 /\ scoredBlind = FALSE
  /\ dedupCache = [k \in Keys |-> 0]
  /\ poisoned = FALSE
  /\ alerts = <<>>
  /\ pc = [t \in Threads |-> "idle"]
  /\ event \in [Threads -> Keys]
  /\ stamp = [t \in Threads |-> 0]
  /\ calls = [t \in Threads |-> 0]

Goto(t, label) == pc' = [pc EXCEPT ![t] = label]

Call(t, label) ==
  /\ pc[t] = "idle"
  /\ calls[t] < MaxCalls
  /\ calls' = [calls EXCEPT ![t] = @ + 1]
  /\ Goto(t, label)

\* train(): the detector is locked and trained ...
CallTrain(t) ==
  /\ Call(t, "trainDetector")
  /\ UNCHANGED <<now, locks, trained, detector, alerting, event, stamp>>

TrainDetector(t) ==
  /\ pc[t] = "trainDetector"
  /\ detectorLock = Free
  /\ detectorLock' = t
  /\ samples' = "history"
  /\ Goto(t, "setTrained")
  /\ UNCHANGED <<now, trainedLock, trained, coldStarts, scoredBlind, alerting,
                 event, stamp, calls>>

\* ... and is still locked when the flag is.
SetTrained(t) ==
  /\ pc[t] = "setTrained"
  /\ trainedLock = Free
  /\ trained' = TRUE
  /\ detectorLock' = Free
  /\ Goto(t, "idle")
  /\ UNCHANGED <<now, trainedLock, detector, alerting, event, stamp, calls>>

\* process() on an event of key k.
CallProcess(t, k) ==
  /\ Call(t, "checkTrained")
  /\ event' = [event EXCEPT ![t] = k]
  /\ UNCHANGED <<now, locks, trained, detector, alerting, stamp>>

\* What the check of the flag leaves of the lock and of the flag when the
\* detector is untrained: the lock is kept.  The mutations give it back, as an
\* atomic load and an atomic swap would.
LoadOnly(t) == [lock |-> Free, flag |-> FALSE]
SwapFirst(t) == [lock |-> Free, flag |-> TRUE]
AfterCheck(t) == [lock |-> t, flag |-> FALSE]

CheckTrained(t) ==
  /\ pc[t] = "checkTrained"
  /\ trainedLock = Free
  /\ \/ /\ trained
        /\ Goto(t, "score")
        /\ UNCHANGED <<trainedLock, trained>>
     \/ /\ ~trained
        /\ trainedLock' = AfterCheck(t).lock
        /\ trained' = AfterCheck(t).flag
        /\ Goto(t, "coldStart")
  /\ UNCHANGED <<now, detectorLock, detector, alerting, event, stamp, calls>>

\* The holder of the flag's lock once the cold start is over; the mutation
\* never releases it.
LockKept == trainedLock
LockReleased == Free

\* detector.train(&[]), with the flag still locked.
ColdStart(t) ==
  /\ pc[t] = "coldStart"
  /\ detectorLock = Free
  /\ samples' = "cold"
  /\ coldStarts' = coldStarts + 1
  /\ trained' = TRUE
  /\ trainedLock' = LockReleased
  /\ Goto(t, "score")
  /\ UNCHANGED <<now, detectorLock, scoredBlind, alerting, event, stamp, calls>>

\* score_batch() or score_and_update(), under the detector's lock.
Score(t) ==
  /\ pc[t] = "score"
  /\ detectorLock = Free
  /\ scoredBlind' = (scoredBlind \/ samples = "none")
  /\ Goto(t, "readClock")
  /\ UNCHANGED <<now, locks, trained, samples, coldStarts, alerting, event,
                 stamp, calls>>

\* process_event() reads the clock before it asks for the dedup lock.
ReadClock(t) ==
  /\ pc[t] = "readClock"
  /\ stamp' = [stamp EXCEPT ![t] = now]
  /\ Goto(t, "deduplicate")
  /\ UNCHANGED <<now, locks, trained, detector, alerting, event, calls>>

LastSeen(t) == dedupCache[event[t]]
Underflows(t) == LastSeen(t) # 0 /\ stamp[t] < LastSeen(t)

\* now - last_seen, on u64.
Duplicate(t) ==
  LastSeen(t) # 0 /\ (stamp[t] - LastSeen(t)) % Modulus < DedupWindow

\* The cache after an event, duplicate or not.  The mutation writes it only
\* for a key it has not seen.
OnceNoted(t) == [dedupCache EXCEPT ![event[t]] = IF @ = 0 THEN stamp[t] ELSE @]
Noted(t) == [dedupCache EXCEPT ![event[t]] = stamp[t]]

\* The rest of process_event(), under the dedup lock.
Deduplicate(t) ==
  /\ pc[t] = "deduplicate"
  /\ ~poisoned
  /\ ~(OverflowChecks /\ Underflows(t))
  /\ dedupCache' = Noted(t)
  /\ alerts' = IF Duplicate(t) THEN alerts
               ELSE Append(alerts, [key |-> event[t], timestamp |-> stamp[t]])
  /\ Goto(t, "idle")
  /\ UNCHANGED <<now, locks, trained, detector, poisoned, event, stamp, calls>>

\* A debug build panics on the underflow and poisons the lock, and unwrap()
\* panics in every thread that asks for it afterwards.
Panic(t) ==
  /\ pc[t] = "deduplicate"
  /\ poisoned \/ (OverflowChecks /\ Underflows(t))
  /\ poisoned' = TRUE
  /\ Goto(t, "panicked")
  /\ UNCHANGED <<now, locks, trained, detector, dedupCache, alerts, event,
                 stamp, calls>>

Tick ==
  /\ now < MaxTime
  /\ now' = now + 1
  /\ UNCHANGED <<locks, trained, detector, alerting, pc, event, stamp, calls>>

Proceed(t) ==
  \/ TrainDetector(t)
  \/ SetTrained(t)
  \/ CheckTrained(t)
  \/ ColdStart(t)
  \/ Score(t)
  \/ ReadClock(t)
  \/ Deduplicate(t)
  \/ Panic(t)

Next ==
  \/ \E t \in Trainers : CallTrain(t)
  \/ \E t \in Processors, k \in Keys : CallProcess(t, k)
  \/ \E t \in Threads : Proceed(t)
  \/ Tick

Spec == Init /\ [][Next]_vars

\* The scheduler runs every thread that is not blocked.
FairSpec == Spec /\ \A t \in Threads : WF_vars(Proceed(t))

----------------------------------------------------------------------------

Labels == {"idle", "trainDetector", "setTrained", "checkTrained", "coldStart",
           "score", "readClock", "deduplicate", "panicked"}

EngineTypeOK ==
  /\ now \in 1 .. MaxTime
  /\ detectorLock \in Trainers \cup {Free}
  /\ trainedLock \in Processors \cup {Free}
  /\ trained \in BOOLEAN
  /\ samples \in {"none", "cold", "history"}
  /\ coldStarts \in Nat
  /\ scoredBlind \in BOOLEAN
  /\ dedupCache \in [Keys -> 0 .. now]
  /\ poisoned \in BOOLEAN
  /\ alerts \in Seq([key : Keys, timestamp : 1 .. now])
  /\ pc \in [Threads -> Labels]
  /\ event \in [Threads -> Keys]
  /\ stamp \in [Threads -> 0 .. now]
  /\ calls \in [Threads -> 0 .. MaxCalls]
  /\ \A t \in Threads : trainedLock = t <=> pc[t] = "coldStart"

\* The synthetic baseline is generated at most once, however many threads find
\* the engine untrained at the same time.
ColdStartOnce == coldStarts <= 1

\* No event is scored against an empty baseline: a thread that sees the flag
\* also sees the training it stands for, in either order of the two locks.
ScoredWhenTrained == ~scoredBlind

\* Two threads that wait for each other, each holding one of the two locks:
\* process() takes the flag's first and train() the detector's.
LockCycle ==
  \E t, w \in Threads :
    /\ detectorLock = t /\ pc[t] = "setTrained"
    /\ trainedLock = w /\ pc[w] = "coldStart"

\* The opposite order of the two locks in train() and in a first process() is
\* the only way to hang: short of that cycle, every call returns or panics.
EveryCallReturns ==
  \A t \in Threads : pc[t] # "idle" ~> (pc[t] \in {"idle", "panicked"} \/ LockCycle)

\* The test at siem.rs:1031 says that a "duplicate call within window should be
\* suppressed": alerts of one key are at least the window apart.  True of a debug
\* build, which panics instead, and not of a release build.
DuplicatesSuppressed ==
  \A i, j \in DOMAIN alerts :
    (i # j /\ alerts[i].key = alerts[j].key
       /\ alerts[i].timestamp <= alerts[j].timestamp)
      => alerts[j].timestamp - alerts[i].timestamp >= DedupWindow
=============================================================================
