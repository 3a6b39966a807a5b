-------------------------- MODULE SiemEngineProofs --------------------------
(***************************************************************************)
(* Theorems about the Rust engine's locks and its deduplication for any    *)
(* number of threads, any keys and any window.                             *)
(***************************************************************************)
EXTENDS SiemEngine, SequenceTheorems, TLAPS

\* One-line abbreviations of the actions, expanded everywhere.
USE DEF Goto, AfterCheck, LockReleased, Noted, LastSeen

----------------------------------------------------------------------------
(* Type correctness *)

\* The types without the Boolean variables, which the provers treat apart, with the
\* thread that owns the flag's lock, ...
EngineTyped ==
  /\ now \in 1 .. MaxTime
  /\ detectorLock \in Trainers \cup {Free}
  /\ trainedLock \in Processors \cup {Free}
  /\ samples \in {"none", "cold", "history"}
  /\ coldStarts \in Nat
  /\ dedupCache \in [Keys -> 0 .. now]
  /\ alerts \in Seq([key : Keys, timestamp : 1 .. now])
  /\ pc \in [Threads -> Labels]
  /\ event \in [Threads -> Keys]
  /\ stamp \in [Threads -> 0 .. now]
  /\ calls \in [Threads -> 0 .. MaxCalls]
  /\ \A t \in Threads : trainedLock = t <=> pc[t] = "coldStart"

\* ... where the threads of each kind can be, ...
ThreadsInPlace ==
  \A t \in Threads :
    /\ pc[t] \in {"trainDetector", "setTrained"} => t \in Trainers
    /\ pc[t] \in {"checkTrained", "coldStart", "score", "readClock", "deduplicate"}
         => t \in Processors
    /\ pc[t] = "deduplicate" => stamp[t] >= 1

\* ... and the Boolean variables.
FlagsTyped == trained \in BOOLEAN /\ scoredBlind \in BOOLEAN /\ poisoned \in BOOLEAN

EngineInv == EngineTyped /\ ThreadsInPlace

Alert(n) == [key : Keys, timestamp : 1 .. n]

\* What every step leaves of the numbers once the clock is n.
LEMMA TypesGrow ==
  ASSUME EngineTyped, NEW n \in 1 .. MaxTime, n >= now
  PROVE  /\ dedupCache \in [Keys -> 0 .. n]
         /\ alerts \in Seq(Alert(n))
         /\ stamp \in [Threads -> 0 .. n]
<1>1. now \in Nat /\ n \in Nat
  BY EngineConstants DEF EngineTyped
<1>2. 0 .. now \subseteq 0 .. n /\ 1 .. now \subseteq 1 .. n
  BY <1>1
<1>3. alerts \in Seq(Alert(now)) /\ Alert(now) \subseteq Alert(n)
  BY <1>2 DEF EngineTyped, Alert
<1>4. alerts \in Seq(Alert(n))
  BY <1>3, SeqMonotonic, LenProperties, ElementOfSeq
<1> QED
  BY <1>2, <1>4 DEF EngineTyped

\* The engine starts with its types, and every thread in its place.
LEMMA InitEngine == Init => EngineInv
<1> SUFFICES ASSUME Init PROVE EngineInv
  OBVIOUS
<1>1. now \in 1 .. MaxTime /\ 0 \in 0 .. now
  BY EngineConstants DEF Init
<1>2. \A t \in Threads : trainedLock # t /\ pc[t] = "idle"
  BY EngineConstants DEF Init
<1>3. calls \in [Threads -> 0 .. MaxCalls]
  BY EngineConstants DEF Init
<1> QED
  BY <1>1, <1>2, <1>3 DEF Init, EngineInv, EngineTyped, ThreadsInPlace, Labels

\* Calls made by a thread stay within their bound.
LEMMA CallTyped ==
  ASSUME EngineTyped, NEW t \in Threads, NEW label \in Labels, Call(t, label)
  PROVE  /\ calls' \in [Threads -> 0 .. MaxCalls]
         /\ pc' \in [Threads -> Labels]
         /\ pc[t] = "idle"
         /\ \A x \in Threads : pc'[x] = IF x = t THEN label ELSE pc[x]
<1>1. MaxCalls \in Nat
  BY EngineConstants
<1> QED
  BY <1>1 DEF EngineTyped, Call

\* train() and process() are entered by the threads of their kind.
LEMMA CallsKeep ==
  ASSUME EngineInv, (\E t \in Trainers : CallTrain(t))
                      \/ (\E t \in Processors, k \in Keys : CallProcess(t, k))
  PROVE  EngineInv'
<1>1. ASSUME NEW t \in Trainers, CallTrain(t) PROVE EngineInv'
  <2>1. t \in Threads /\ "trainDetector" \in Labels
    BY DEF Threads, Labels
  <2>2. /\ calls' \in [Threads -> 0 .. MaxCalls]
        /\ pc' \in [Threads -> Labels]
        /\ pc[t] = "idle"
        /\ \A x \in Threads : pc'[x] = IF x = t THEN "trainDetector" ELSE pc[x]
    BY <1>1, <2>1, CallTyped DEF EngineInv, CallTrain
  <2> QED
    BY <1>1, <2>1, <2>2
    DEF EngineInv, EngineTyped, ThreadsInPlace, CallTrain, locks, detector, alerting
<1>2. ASSUME NEW t \in Processors, NEW k \in Keys, CallProcess(t, k) PROVE EngineInv'
  <2>1. t \in Threads /\ "checkTrained" \in Labels
    BY DEF Threads, Labels
  <2>2. /\ calls' \in [Threads -> 0 .. MaxCalls]
        /\ pc' \in [Threads -> Labels]
        /\ pc[t] = "idle"
        /\ \A x \in Threads : pc'[x] = IF x = t THEN "checkTrained" ELSE pc[x]
    BY <1>2, <2>1, CallTyped DEF EngineInv, CallProcess
  <2> QED
    BY <1>2, <2>1, <2>2
    DEF EngineInv, EngineTyped, ThreadsInPlace, CallProcess, locks, detector, alerting
<1> QED
  BY <1>1, <1>2

\* The two steps of train() after its call.
LEMMA TrainKeeps ==
  ASSUME EngineInv, NEW t \in Threads, TrainDetector(t) \/ SetTrained(t)
  PROVE  EngineInv'
<1>1. pc \in [Threads -> Labels] /\ t \in Trainers
  BY DEF EngineInv, EngineTyped, ThreadsInPlace, TrainDetector, SetTrained
<1>2. CASE TrainDetector(t)
  <2>1. /\ pc[t] = "trainDetector" /\ pc' \in [Threads -> Labels]
        /\ \A x \in Threads : pc'[x] = IF x = t THEN "setTrained" ELSE pc[x]
    BY <1>1, <1>2 DEF TrainDetector, Labels
  <2> QED
    BY <1>1, <1>2, <2>1 DEF EngineInv, EngineTyped, ThreadsInPlace, TrainDetector, alerting
<1>3. CASE SetTrained(t)
  <2>1. /\ pc[t] = "setTrained" /\ pc' \in [Threads -> Labels]
        /\ \A x \in Threads : pc'[x] = IF x = t THEN "idle" ELSE pc[x]
    BY <1>1, <1>3 DEF SetTrained, Labels
  <2> QED
    BY <1>1, <1>3, <2>1
    DEF EngineInv, EngineTyped, ThreadsInPlace, SetTrained, detector, alerting
<1> QED
  BY <1>2, <1>3

\* The check of the flag, and the cold start under its lock.
LEMMA ColdStartKeeps ==
  ASSUME EngineInv, NEW t \in Threads, CheckTrained(t) \/ ColdStart(t)
  PROVE  EngineInv'
<1>1. /\ pc \in [Threads -> Labels] /\ t \in Processors /\ Free \notin Threads
      /\ \A x \in Threads : trainedLock = x <=> pc[x] = "coldStart"
  BY EngineConstants DEF EngineInv, EngineTyped, ThreadsInPlace, CheckTrained, ColdStart
<1>2. CASE CheckTrained(t) /\ trained
  <2>1. /\ pc[t] = "checkTrained" /\ pc' \in [Threads -> Labels]
        /\ trainedLock' = trainedLock
        /\ \A x \in Threads : pc'[x] = IF x = t THEN "score" ELSE pc[x]
    BY <1>1, <1>2 DEF CheckTrained, Labels
  <2> QED
    BY <1>1, <1>2, <2>1
    DEF EngineInv, EngineTyped, ThreadsInPlace, CheckTrained, detector, alerting
<1>3. CASE CheckTrained(t) /\ ~trained
  <2>1. /\ pc[t] = "checkTrained" /\ pc' \in [Threads -> Labels]
        /\ trainedLock = Free /\ trainedLock' = t
        /\ \A x \in Threads : pc'[x] = IF x = t THEN "coldStart" ELSE pc[x]
    BY <1>1, <1>3 DEF CheckTrained, Labels
  <2>2. \A x \in Threads : trainedLock' = x <=> pc'[x] = "coldStart"
    BY <1>1, <2>1
  <2> QED
    BY <1>1, <1>3, <2>1, <2>2
    DEF EngineInv, EngineTyped, ThreadsInPlace, CheckTrained, detector, alerting
<1>4. CASE ColdStart(t)
  <2>1. /\ pc[t] = "coldStart" /\ pc' \in [Threads -> Labels]
        /\ trainedLock = t /\ trainedLock' = Free
        /\ \A x \in Threads : pc'[x] = IF x = t THEN "score" ELSE pc[x]
    BY <1>1, <1>4 DEF ColdStart, Labels
  <2>2. \A x \in Threads : trainedLock' = x <=> pc'[x] = "coldStart"
    BY <1>1, <2>1
  <2>3. coldStarts' \in Nat
    BY <1>4 DEF EngineInv, EngineTyped, ColdStart
  <2> QED
    BY <1>1, <1>4, <2>1, <2>2, <2>3
    DEF EngineInv, EngineTyped, ThreadsInPlace, ColdStart, alerting
<1> QED
  BY <1>2, <1>3, <1>4

\* Scoring, and reading the clock before the dedup lock.
LEMMA ScoreKeeps ==
  ASSUME EngineInv, NEW t \in Threads, Score(t) \/ ReadClock(t)
  PROVE  EngineInv'
<1>1. /\ pc \in [Threads -> Labels] /\ t \in Processors
      /\ now \in Nat /\ now >= 1 /\ stamp \in [Threads -> 0 .. now]
  BY EngineConstants DEF EngineInv, EngineTyped, ThreadsInPlace, Score, ReadClock
<1>2. CASE Score(t)
  <2>1. /\ pc[t] = "score" /\ pc' \in [Threads -> Labels]
        /\ \A x \in Threads : pc'[x] = IF x = t THEN "readClock" ELSE pc[x]
    BY <1>1, <1>2 DEF Score, Labels
  <2> QED
    BY <1>1, <1>2, <2>1 DEF EngineInv, EngineTyped, ThreadsInPlace, Score, locks, alerting
<1>3. CASE ReadClock(t)
  <2>1. /\ pc[t] = "readClock" /\ pc' \in [Threads -> Labels]
        /\ \A x \in Threads : pc'[x] = IF x = t THEN "deduplicate" ELSE pc[x]
    BY <1>1, <1>3 DEF ReadClock, Labels
  <2>2. /\ stamp' \in [Threads -> 0 .. now] /\ stamp'[t] >= 1
        /\ \A x \in Threads \ {t} : stamp'[x] = stamp[x]
    BY <1>1, <1>3 DEF ReadClock
  <2> QED
    BY <1>1, <1>3, <2>1, <2>2
    DEF EngineInv, EngineTyped, ThreadsInPlace, ReadClock, locks, detector, alerting
<1> QED
  BY <1>2, <1>3

\* The end of process_event(), with its alert or its panic.
LEMMA DeduplicateKeeps ==
  ASSUME EngineInv, NEW t \in Threads, Deduplicate(t) \/ Panic(t)
  PROVE  EngineInv'
<1>1. /\ pc \in [Threads -> Labels] /\ pc[t] = "deduplicate"
      /\ now \in Nat /\ stamp[t] \in 1 .. now /\ event[t] \in Keys
  BY EngineConstants DEF EngineInv, EngineTyped, ThreadsInPlace, Deduplicate, Panic
<1>2. CASE Deduplicate(t)
  <2>1. /\ pc' \in [Threads -> Labels]
        /\ \A x \in Threads : pc'[x] = IF x = t THEN "idle" ELSE pc[x]
    BY <1>1, <1>2 DEF Deduplicate, Labels
  <2>2. dedupCache' \in [Keys -> 0 .. now]
    BY <1>1, <1>2 DEF EngineInv, EngineTyped, Deduplicate
  <2>3. alerts' \in Seq([key : Keys, timestamp : 1 .. now])
    <3>1. [key |-> event[t], timestamp |-> stamp[t]] \in Alert(now)
      BY <1>1 DEF Alert
    <3>2. alerts \in Seq(Alert(now))
      BY DEF EngineInv, EngineTyped, Alert
    <3>3. alerts' \in Seq(Alert(now))
      BY <1>2, <3>1, <3>2 DEF Deduplicate
    <3> QED
      BY <3>3 DEF Alert
  <2> QED
    BY <1>1, <1>2, <2>1, <2>2, <2>3
    DEF EngineInv, EngineTyped, ThreadsInPlace, Deduplicate, locks, detector
<1>3. CASE Panic(t)
  <2>1. /\ pc' \in [Threads -> Labels]
        /\ \A x \in Threads : pc'[x] = IF x = t THEN "panicked" ELSE pc[x]
    BY <1>1, <1>3 DEF Panic, Labels
  <2> QED
    BY <1>1, <1>3, <2>1 DEF EngineInv, EngineTyped, ThreadsInPlace, Panic, locks, detector
<1> QED
  BY <1>2, <1>3

\* Time passes, or nothing happens.
LEMMA TickKeeps ==
  ASSUME EngineInv, Tick \/ UNCHANGED vars
  PROVE  EngineInv'
<1>1. now \in 1 .. MaxTime /\ now' \in 1 .. MaxTime /\ now' >= now
  BY EngineConstants DEF EngineInv, EngineTyped, Tick, vars
<1>2. UNCHANGED <<locks, detector, alerting, pc, event, stamp, calls>>
  BY DEF Tick, vars
<1>3. /\ dedupCache \in [Keys -> 0 .. now']
      /\ alerts \in Seq(Alert(now'))
      /\ stamp \in [Threads -> 0 .. now']
  BY <1>1, TypesGrow DEF EngineInv
<1> QED
  BY <1>1, <1>2, <1>3
  DEF EngineInv, EngineTyped, ThreadsInPlace, Alert, locks, detector, alerting

\* Every step keeps the types and the places.
LEMMA EngineStep == EngineInv /\ [Next]_vars => EngineInv'
BY CallsKeep, TrainKeeps, ColdStartKeeps, ScoreKeeps, DeduplicateKeeps, TickKeeps
   DEF Next, Proceed

\* The two hold in every state.
LEMMA EngineCorrect == Spec => []EngineInv
BY InitEngine, EngineStep, PTL DEF Spec

\* Boolean variables stay Boolean.
LEMMA FlagsStep == FlagsTyped /\ [Next]_vars => FlagsTyped'
<1> SUFFICES ASSUME FlagsTyped, [Next]_vars PROVE FlagsTyped'
  OBVIOUS
<1>1. trained' = trained \/ trained' = TRUE \/ trained' = FALSE
  BY DEF Next, Proceed, vars, CallTrain, CallProcess, TrainDetector, SetTrained, CheckTrained,
         ColdStart, Score, ReadClock, Deduplicate, Panic, Tick
<1>2. scoredBlind' = scoredBlind \/ scoredBlind' = (scoredBlind \/ samples = "none")
  BY DEF Next, Proceed, vars, detector, CallTrain, CallProcess, TrainDetector, SetTrained,
         CheckTrained, ColdStart, Score, ReadClock, Deduplicate, Panic, Tick
<1>3. poisoned' = poisoned \/ poisoned' = TRUE
  BY DEF Next, Proceed, vars, alerting, CallTrain, CallProcess, TrainDetector, SetTrained,
         CheckTrained, ColdStart, Score, ReadClock, Deduplicate, Panic, Tick
<1> QED
  BY <1>1, <1>2, <1>3 DEF FlagsTyped

\* Every variable keeps its type, and a thread owns the flag's lock exactly while it does
\* the cold start, whatever the number of threads.
THEOREM EngineTypeCorrect == Spec => []EngineTypeOK
<1>1. Init => FlagsTyped
  BY DEF Init, FlagsTyped
<1>2. EngineInv /\ FlagsTyped => EngineTypeOK
  BY DEF EngineInv, EngineTyped, FlagsTyped, EngineTypeOK
<1> QED
  BY <1>1, <1>2, FlagsStep, EngineCorrect, PTL DEF Spec

----------------------------------------------------------------------------
(* Training *)

\* A thread in the cold start holds the flag's lock, so that nobody else starts one and
\* the flag stays down: at most one cold start is over once the flag is up.
StartedOnce ==
  /\ \A t \in Threads : pc[t] = "coldStart" => ~trained
  /\ ~trained => coldStarts = 0
  /\ coldStarts <= 1

\* Whoever sees the flag sees the training it stands for.
TrainedBefore ==
  /\ \A t \in Threads : pc[t] \in {"score", "setTrained"} => samples # "none"
  /\ trained => samples # "none"
  /\ ~scoredBlind

\* Every step keeps the cold starts to one.
LEMMA StartedStep == EngineInv /\ StartedOnce /\ [Next]_vars => StartedOnce'
<1> SUFFICES ASSUME EngineInv, StartedOnce, [Next]_vars PROVE StartedOnce'
  OBVIOUS
<1>0. /\ pc \in [Threads -> Labels] /\ coldStarts \in Nat /\ Free \notin Threads
      /\ \A x \in Threads : trainedLock = x <=> pc[x] = "coldStart"
  BY EngineConstants DEF EngineInv, EngineTyped
<1>1. ASSUME NEW t \in Threads, CheckTrained(t) PROVE StartedOnce'
  <2>1. CASE trained
    <3>1. /\ trained' = trained /\ coldStarts' = coldStarts
          /\ \A x \in Threads : pc'[x] = IF x = t THEN "score" ELSE pc[x]
      BY <1>0, <1>1, <2>1 DEF CheckTrained, detector
    <3> QED
      BY <2>1, <3>1 DEF StartedOnce
  <2>2. CASE ~trained
    <3>1. trained' = FALSE /\ coldStarts' = coldStarts
      BY <1>1, <2>2 DEF CheckTrained, detector
    <3> QED
      BY <2>2, <3>1 DEF StartedOnce
  <2> QED
    BY <2>1, <2>2
<1>2. ASSUME NEW t \in Threads, ColdStart(t) PROVE StartedOnce'
  <2>1. /\ trained' = TRUE /\ coldStarts' = coldStarts + 1 /\ pc[t] = "coldStart"
        /\ \A x \in Threads : pc'[x] = IF x = t THEN "score" ELSE pc[x]
    BY <1>0, <1>2 DEF ColdStart
  <2>2. coldStarts = 0
    BY <2>1 DEF StartedOnce
  <2>3. \A x \in Threads : pc'[x] # "coldStart"
    BY <1>0, <2>1
  <2> QED
    BY <2>1, <2>2, <2>3 DEF StartedOnce
<1>3. ASSUME NEW t \in Threads, SetTrained(t) PROVE StartedOnce'
  <2>1. /\ trained' = TRUE /\ coldStarts' = coldStarts /\ trainedLock = Free
        /\ \A x \in Threads : pc'[x] = IF x = t THEN "idle" ELSE pc[x]
    BY <1>0, <1>3 DEF SetTrained, detector
  <2>2. \A x \in Threads : pc'[x] # "coldStart"
    BY <1>0, <2>1
  <2> QED
    BY <2>1, <2>2 DEF StartedOnce
<1>4. ASSUME NEW t \in Threads, NEW label \in Labels \ {"coldStart"},
             Goto(t, label), UNCHANGED <<trained, coldStarts>>
      PROVE  StartedOnce'
  <2>1. \A x \in Threads : pc'[x] = "coldStart" => pc[x] = "coldStart"
    BY <1>0, <1>4
  <2> QED
    BY <1>4, <2>1 DEF StartedOnce
<1>5. \A label \in {"trainDetector", "setTrained", "checkTrained", "readClock",
                    "deduplicate", "idle", "panicked"} : label \in Labels \ {"coldStart"}
  BY DEF Labels
<1>6. ASSUME NEW t \in Trainers, CallTrain(t) PROVE StartedOnce'
  BY <1>4, <1>5, <1>6 DEF CallTrain, Call, Threads, detector
<1>7. ASSUME NEW t \in Processors, NEW k \in Keys, CallProcess(t, k) PROVE StartedOnce'
  BY <1>4, <1>5, <1>7 DEF CallProcess, Call, Threads, detector
<1>8. ASSUME NEW t \in Threads, TrainDetector(t) PROVE StartedOnce'
  BY <1>4, <1>5, <1>8 DEF TrainDetector
<1>9. ASSUME NEW t \in Threads, Score(t) \/ ReadClock(t) PROVE StartedOnce'
  BY <1>4, <1>5, <1>9 DEF Score, ReadClock, detector
<1>10. ASSUME NEW t \in Threads, Deduplicate(t) \/ Panic(t) PROVE StartedOnce'
  BY <1>4, <1>5, <1>10 DEF Deduplicate, Panic, detector
<1>11. CASE Tick \/ UNCHANGED vars
  BY <1>11 DEF Tick, vars, detector, StartedOnce
<1> QED
  BY <1>1, <1>2, <1>3, <1>6, <1>7, <1>8, <1>9, <1>10, <1>11 DEF Next, Proceed

\* However many threads find the engine untrained at the same time, one generates the
\* synthetic baseline: the flag stays locked from the check to the end of the cold start.
THEOREM OneColdStart == Spec => []ColdStartOnce
<1>1. Init => StartedOnce
  BY DEF Init, StartedOnce
<1> QED
  BY <1>1, StartedStep, EngineCorrect, PTL DEF Spec, StartedOnce, ColdStartOnce

\* Every step keeps what the flag stands for.
LEMMA TrainedStep == EngineInv /\ TrainedBefore /\ [Next]_vars => TrainedBefore'
<1> SUFFICES ASSUME EngineInv, TrainedBefore, [Next]_vars PROVE TrainedBefore'
  OBVIOUS
<1>0. pc \in [Threads -> Labels]
  BY DEF EngineInv, EngineTyped
<1>1. ASSUME NEW t \in Threads, CheckTrained(t) PROVE TrainedBefore'
  <2>1. CASE trained
    <3>1. /\ trained' = trained /\ UNCHANGED detector
          /\ \A x \in Threads : pc'[x] = IF x = t THEN "score" ELSE pc[x]
      BY <1>0, <1>1, <2>1 DEF CheckTrained
    <3> QED
      BY <2>1, <3>1 DEF TrainedBefore, detector
  <2>2. CASE ~trained
    <3>1. /\ trained' = FALSE /\ UNCHANGED detector
          /\ \A x \in Threads : pc'[x] = IF x = t THEN "coldStart" ELSE pc[x]
      BY <1>0, <1>1, <2>2 DEF CheckTrained
    <3> QED
      BY <3>1 DEF TrainedBefore, detector
  <2> QED
    BY <2>1, <2>2
<1>2. ASSUME NEW t \in Threads, TrainDetector(t) \/ ColdStart(t) PROVE TrainedBefore'
  <2>1. samples' # "none" /\ scoredBlind' = scoredBlind
    BY <1>2 DEF TrainDetector, ColdStart
  <2> QED
    BY <2>1 DEF TrainedBefore
<1>3. ASSUME NEW t \in Threads, SetTrained(t) PROVE TrainedBefore'
  <2>1. samples # "none" /\ UNCHANGED detector
    BY <1>3 DEF SetTrained, TrainedBefore
  <2> QED
    BY <2>1 DEF TrainedBefore, detector
<1>4. ASSUME NEW t \in Threads, Score(t) PROVE TrainedBefore'
  <2>1. /\ samples # "none" /\ samples' = samples /\ trained' = trained
        /\ scoredBlind' = (scoredBlind \/ samples = "none")
        /\ \A x \in Threads : pc'[x] = IF x = t THEN "readClock" ELSE pc[x]
    BY <1>0, <1>4 DEF Score, TrainedBefore
  <2> QED
    BY <2>1 DEF TrainedBefore
<1>5. ASSUME NEW t \in Threads, NEW label \in Labels \ {"score", "setTrained"},
             Goto(t, label), UNCHANGED <<trained, detector>>
      PROVE  TrainedBefore'
  <2>1. \A x \in Threads : pc'[x] \in {"score", "setTrained"} => pc'[x] = pc[x]
    BY <1>0, <1>5
  <2> QED
    BY <1>5, <2>1 DEF TrainedBefore, detector
<1>6. \A label \in {"trainDetector", "checkTrained", "deduplicate", "idle", "panicked"} :
        label \in Labels \ {"score", "setTrained"}
  BY DEF Labels
<1>7. ASSUME NEW t \in Trainers, CallTrain(t) PROVE TrainedBefore'
  BY <1>5, <1>6, <1>7 DEF CallTrain, Call, Threads
<1>8. ASSUME NEW t \in Processors, NEW k \in Keys, CallProcess(t, k) PROVE TrainedBefore'
  BY <1>5, <1>6, <1>8 DEF CallProcess, Call, Threads
<1>9. ASSUME NEW t \in Threads, ReadClock(t) \/ Deduplicate(t) \/ Panic(t)
      PROVE  TrainedBefore'
  BY <1>5, <1>6, <1>9 DEF ReadClock, Deduplicate, Panic
<1>10. CASE Tick \/ UNCHANGED vars
  BY <1>10 DEF Tick, vars, detector, TrainedBefore
<1> QED
  BY <1>1, <1>2, <1>3, <1>4, <1>7, <1>8, <1>9, <1>10 DEF Next, Proceed

\* No event is scored against an empty baseline, in either order in which train() and
\* process() take the two locks.
THEOREM ScoredTrained == Spec => []ScoredWhenTrained
<1>1. Init => TrainedBefore
  BY DEF Init, TrainedBefore
<1> QED
  BY <1>1, TrainedStep, EngineCorrect, PTL DEF Spec, TrainedBefore, ScoredWhenTrained

----------------------------------------------------------------------------
(* The two locks *)

\* The holder of a lock is where the code holds it.
DetectorHeld == \A t \in Threads : detectorLock = t <=> pc[t] = "setTrained"

\* The lock the next step of a thread takes, and whether another holds it.
NeedsDetector(t) == pc[t] \in {"trainDetector", "coldStart", "score"}
NeedsFlag(t) == pc[t] \in {"setTrained", "checkTrained"}
Blocked(t) ==
  \/ NeedsDetector(t) /\ detectorLock # Free
  \/ NeedsFlag(t) /\ trainedLock # Free

\* Whoever is blocked waits for a thread that holds the lock and can go on to the
\* step that releases it.
HolderGoesOn(t) ==
  \E w \in Threads :
    /\ ~Blocked(w)
    /\ \/ NeedsDetector(t) /\ detectorLock = w /\ pc[w] = "setTrained"
       \/ NeedsFlag(t) /\ trainedLock = w /\ pc[w] = "coldStart"

\* Every step leaves the detector's lock with the thread that trains.
LEMMA HeldStep == EngineInv /\ DetectorHeld /\ [Next]_vars => DetectorHeld'
<1> SUFFICES ASSUME EngineInv, DetectorHeld, [Next]_vars PROVE DetectorHeld'
  OBVIOUS
<1>0. pc \in [Threads -> Labels] /\ Free \notin Threads
  BY EngineConstants DEF EngineInv, EngineTyped
<1>1. ASSUME NEW t \in Threads, TrainDetector(t) PROVE DetectorHeld'
  <2>1. /\ detectorLock = Free /\ detectorLock' = t
        /\ \A x \in Threads : pc'[x] = IF x = t THEN "setTrained" ELSE pc[x]
    BY <1>0, <1>1 DEF TrainDetector
  <2> QED
    BY <1>0, <2>1 DEF DetectorHeld
<1>2. ASSUME NEW t \in Threads, SetTrained(t) PROVE DetectorHeld'
  <2>1. /\ pc[t] = "setTrained" /\ detectorLock' = Free
        /\ \A x \in Threads : pc'[x] = IF x = t THEN "idle" ELSE pc[x]
    BY <1>0, <1>2 DEF SetTrained
  <2> QED
    BY <1>0, <2>1 DEF DetectorHeld
<1>3. ASSUME NEW t \in Threads, NEW label \in Labels \ {"setTrained"}, Goto(t, label),
             pc[t] # "setTrained", UNCHANGED detectorLock
      PROVE  DetectorHeld'
  <2>1. \A x \in Threads : pc'[x] = "setTrained" <=> pc[x] = "setTrained"
    BY <1>0, <1>3
  <2> QED
    BY <1>3, <2>1 DEF DetectorHeld
<1>4. \A label \in {"trainDetector", "checkTrained", "coldStart", "score", "readClock",
                    "deduplicate", "idle", "panicked"} : label \in Labels \ {"setTrained"}
  BY DEF Labels
<1>5. ASSUME NEW t \in Trainers, CallTrain(t) PROVE DetectorHeld'
  BY <1>3, <1>4, <1>5 DEF CallTrain, Call, Threads, locks
<1>6. ASSUME NEW t \in Processors, NEW k \in Keys, CallProcess(t, k) PROVE DetectorHeld'
  BY <1>3, <1>4, <1>6 DEF CallProcess, Call, Threads, locks
<1>7. ASSUME NEW t \in Threads, CheckTrained(t) \/ ColdStart(t) PROVE DetectorHeld'
  BY <1>3, <1>4, <1>7 DEF CheckTrained, ColdStart
<1>8. ASSUME NEW t \in Threads, Score(t) \/ ReadClock(t) PROVE DetectorHeld'
  BY <1>3, <1>4, <1>8 DEF Score, ReadClock, locks
<1>9. ASSUME NEW t \in Threads, Deduplicate(t) \/ Panic(t) PROVE DetectorHeld'
  BY <1>3, <1>4, <1>9 DEF Deduplicate, Panic, locks
<1>10. CASE Tick \/ UNCHANGED vars
  BY <1>10 DEF Tick, vars, locks, DetectorHeld
<1> QED
  BY <1>1, <1>2, <1>5, <1>6, <1>7, <1>8, <1>9, <1>10 DEF Next, Proceed

\* The detector's lock is held by a thread between the two locks of train().
LEMMA HeldCorrect == Spec => []DetectorHeld
<1>1. Init => DetectorHeld
  BY EngineConstants DEF Init, DetectorHeld
<1> QED
  BY <1>1, HeldStep, EngineCorrect, PTL DEF Spec

\* However many threads process and train, a blocked one waits for a lock whose holder
\* can go on, unless a trainer and a cold start hold one lock each and wait for each
\* other's: the opposite order of the two locks is the only deadlock of the engine.
THEOREM OnlyTheCycleHangs ==
  Spec => [](\A t \in Threads : Blocked(t) => HolderGoesOn(t) \/ LockCycle)
<1>1. EngineInv /\ DetectorHeld
        => \A t \in Threads : Blocked(t) => HolderGoesOn(t) \/ LockCycle
  <2> SUFFICES ASSUME EngineInv, DetectorHeld, NEW t \in Threads, Blocked(t), ~LockCycle
               PROVE  HolderGoesOn(t)
    OBVIOUS
  <2>0. /\ detectorLock \in Trainers \cup {Free} /\ trainedLock \in Processors \cup {Free}
        /\ Free \notin Threads
        /\ \A x \in Threads : trainedLock = x <=> pc[x] = "coldStart"
    BY EngineConstants DEF EngineInv, EngineTyped
  <2>1. CASE NeedsDetector(t) /\ detectorLock # Free
    <3>1. detectorLock \in Threads /\ pc[detectorLock] = "setTrained"
      BY <2>0, <2>1 DEF DetectorHeld, Threads
    <3>2. ~Blocked(detectorLock)
      BY <2>0, <3>1 DEF Blocked, NeedsDetector, LockCycle, Threads
    <3> QED
      BY <2>1, <3>1, <3>2 DEF HolderGoesOn
  <2>2. CASE NeedsFlag(t) /\ trainedLock # Free
    <3>1. trainedLock \in Threads /\ pc[trainedLock] = "coldStart"
      BY <2>0, <2>2 DEF Threads
    <3>2. ~Blocked(trainedLock)
      BY <2>0, <3>1 DEF Blocked, NeedsFlag, LockCycle, DetectorHeld, Threads
    <3> QED
      BY <2>2, <3>1, <3>2 DEF HolderGoesOn
  <2> QED
    BY <2>1, <2>2 DEF Blocked
<1> QED
  BY <1>1, HeldCorrect, EngineCorrect, PTL

\* And that deadlock is for ever: no step of any thread resolves it, and as the flag's
\* lock stays taken no later process() gets past its check.
THEOREM CycleIsForEver == Spec => [][LockCycle => LockCycle' /\ trainedLock' # Free]_vars
<1>1. EngineInv /\ [Next]_vars => (LockCycle => LockCycle' /\ trainedLock' # Free)
  <2> SUFFICES ASSUME EngineInv, [Next]_vars, NEW u \in Threads, NEW w \in Threads,
                      detectorLock = u, pc[u] = "setTrained",
                      trainedLock = w, pc[w] = "coldStart"
               PROVE  LockCycle' /\ trainedLock' # Free
    BY DEF LockCycle
  <2>0. pc \in [Threads -> Labels] /\ Free \notin Threads
    BY EngineConstants DEF EngineInv, EngineTyped
  <2>1. UNCHANGED locks /\ pc'[u] = pc[u] /\ pc'[w] = pc[w]
    <3>1. ASSUME NEW t \in Threads, NEW label \in Labels, Goto(t, label), UNCHANGED locks,
                 pc[t] \notin {"setTrained", "coldStart"}
          PROVE  <2>1
      BY <2>0, <3>1
    <3>2. \A t \in Threads : ~TrainDetector(t) /\ ~SetTrained(t) /\ ~CheckTrained(t)
                              /\ ~ColdStart(t) /\ ~Score(t)
      BY <2>0 DEF TrainDetector, SetTrained, CheckTrained, ColdStart, Score
    <3>3. {"idle", "trainDetector", "checkTrained", "deduplicate", "panicked"} \subseteq Labels
      BY DEF Labels
    <3>4. ASSUME NEW t \in Trainers, CallTrain(t) PROVE <2>1
      BY <3>1, <3>3, <3>4 DEF CallTrain, Call, Threads
    <3>5. ASSUME NEW t \in Processors, NEW k \in Keys, CallProcess(t, k) PROVE <2>1
      BY <3>1, <3>3, <3>5 DEF CallProcess, Call, Threads
    <3>6. ASSUME NEW t \in Threads, ReadClock(t) \/ Deduplicate(t) \/ Panic(t) PROVE <2>1
      BY <3>1, <3>3, <3>6 DEF ReadClock, Deduplicate, Panic
    <3>7. CASE Tick \/ UNCHANGED vars
      BY <3>7 DEF Tick, vars
    <3> QED
      BY <3>2, <3>4, <3>5, <3>6, <3>7 DEF Next, Proceed
  <2> QED
    BY <2>0, <2>1 DEF LockCycle, locks
<1> QED
  BY <1>1, EngineCorrect, PTL DEF Spec

----------------------------------------------------------------------------
(* Deduplication *)

\* The cache holds the time of the latest event of a key, at least that of its alerts.
CacheCovers ==
  \A i \in 1 .. Len(alerts) :
    alerts[i].timestamp >= 1 /\ alerts[i].timestamp <= dedupCache[alerts[i].key]

AlertsApart ==
  \A i, j \in 1 .. Len(alerts) :
    (i # j /\ alerts[i].key = alerts[j].key
       /\ alerts[i].timestamp <= alerts[j].timestamp)
      => alerts[j].timestamp - alerts[i].timestamp >= DedupWindow

\* Any alert is of a key, at a time of the past.
LEMMA AlertType ==
  ASSUME EngineInv, NEW i \in 1 .. Len(alerts)
  PROVE  alerts[i].key \in Keys /\ alerts[i].timestamp \in 1 .. now
<1>1. alerts \in Seq(Alert(now))
  BY DEF EngineInv, EngineTyped, Alert
<1>2. alerts[i] \in Alert(now)
  BY <1>1
<1> QED
  BY <1>2 DEF Alert

\* No thread that is to enter the deduplication read the clock before the time that is
\* noted for its key: none was overtaken by another between the reading and the lock.
NoneOvertaken ==
  \A t \in Threads : pc[t] = "deduplicate" => stamp[t] >= dedupCache[event[t]]

\* The subtraction never wraps: it panics in a debug build, and in any build it does not
\* happen where no reading is overtaken.
NeverWraps == OverflowChecks \/ NoneOvertaken

\* Where the subtraction does not wrap, the remainder changes nothing.
LEMMA NoWrap ==
  ASSUME NEW n \in 0 .. MaxTime
  PROVE  n % Modulus = n
BY EngineConstants

\* An alert is then at least the window after every earlier one of its key.
LEMMA AlertWaits ==
  ASSUME NeverWraps, EngineInv, CacheCovers, NEW t \in Threads, Deduplicate(t),
         ~Duplicate(t), NEW i \in 1 .. Len(alerts), alerts[i].key = event[t]
  PROVE  stamp[t] - alerts[i].timestamp >= DedupWindow
<1>1. /\ dedupCache[event[t]] \in 0 .. now /\ stamp[t] \in 0 .. now /\ now \in 1 .. MaxTime
      /\ alerts[i].timestamp \in 1 .. now /\ DedupWindow \in Nat /\ MaxTime \in Nat
  <2>1. /\ now \in 1 .. MaxTime /\ event \in [Threads -> Keys]
        /\ dedupCache \in [Keys -> 0 .. now] /\ stamp \in [Threads -> 0 .. now]
    BY DEF EngineInv, EngineTyped
  <2>2. dedupCache[event[t]] \in 0 .. now /\ stamp[t] \in 0 .. now
    BY <2>1
  <2>3. alerts[i].timestamp \in 1 .. now
    BY AlertType
  <2>4. DedupWindow \in Nat /\ MaxTime \in Nat
    BY EngineConstants
  <2> QED
    BY <2>1, <2>2, <2>3, <2>4
<1>2. dedupCache[event[t]] # 0 /\ alerts[i].timestamp <= dedupCache[event[t]]
  BY <1>1 DEF CacheCovers
<1>3. stamp[t] >= dedupCache[event[t]]
  BY <1>1, <1>2 DEF NeverWraps, NoneOvertaken, Deduplicate, Underflows
<1>4. stamp[t] - dedupCache[event[t]] \in 0 .. MaxTime
  BY <1>1, <1>3
<1>5. stamp[t] - dedupCache[event[t]] >= DedupWindow
  BY <1>1, <1>2, <1>4, NoWrap DEF Duplicate
<1> QED
  BY <1>1, <1>2, <1>5

\* The cache never goes back.
LEMMA CacheForward ==
  ASSUME NeverWraps, EngineInv, NEW t \in Threads, Deduplicate(t)
  PROVE  /\ \A k \in Keys : dedupCache'[k] >= dedupCache[k]
         /\ dedupCache'[event[t]] = stamp[t] /\ event[t] \in Keys
<1>1. /\ dedupCache \in [Keys -> 0 .. now] /\ stamp[t] \in 0 .. now /\ now \in 1 .. MaxTime
      /\ event[t] \in Keys
  BY DEF EngineInv, EngineTyped
<1>2. stamp[t] >= dedupCache[event[t]]
  BY <1>1 DEF NeverWraps, NoneOvertaken, Deduplicate, Underflows
<1>3. dedupCache' = [dedupCache EXCEPT ![event[t]] = stamp[t]]
  BY DEF Deduplicate
<1> QED
  BY <1>1, <1>2, <1>3

\* Every step keeps the cache and the distances.
LEMMA ApartStep ==
  EngineInv /\ NeverWraps /\ CacheCovers /\ AlertsApart /\ [Next]_vars
    => CacheCovers' /\ AlertsApart'
<1> SUFFICES ASSUME EngineInv, NeverWraps, CacheCovers, AlertsApart, [Next]_vars
             PROVE  CacheCovers' /\ AlertsApart'
  OBVIOUS
<1>1. ASSUME NEW t \in Threads, Deduplicate(t) PROVE CacheCovers' /\ AlertsApart'
  <2>0. /\ alerts \in Seq(Alert(now)) /\ Len(alerts) \in Nat
        /\ stamp[t] \in 1 .. now /\ now \in Nat /\ DedupWindow \in Nat
        /\ \A i \in 1 .. Len(alerts) : alerts[i].key \in Keys /\ alerts[i].timestamp \in 1 .. now
        /\ dedupCache \in [Keys -> 0 .. now]
    <3>1. alerts \in Seq(Alert(now)) /\ now \in Nat
      BY EngineConstants DEF EngineInv, EngineTyped, Alert
    <3>2. \A i \in 1 .. Len(alerts) :
            alerts[i].key \in Keys /\ alerts[i].timestamp \in 1 .. now
      BY AlertType
    <3>3. stamp[t] \in 1 .. now /\ DedupWindow \in Nat /\ dedupCache \in [Keys -> 0 .. now]
      BY <1>1, <3>1, EngineConstants DEF EngineInv, EngineTyped, ThreadsInPlace, Deduplicate
    <3> QED
      BY <3>1, <3>2, <3>3
  <2>1. CASE Duplicate(t)
    <3>1. alerts' = alerts
      BY <1>1, <2>1 DEF Deduplicate
    <3>2. CacheCovers'
      <4> SUFFICES ASSUME NEW i \in 1 .. Len(alerts)
                   PROVE  /\ alerts[i].timestamp >= 1
                          /\ alerts[i].timestamp <= dedupCache'[alerts[i].key]
        BY <3>1 DEF CacheCovers
      <4>1. /\ alerts[i].key \in Keys /\ alerts[i].timestamp \in Nat
            /\ alerts[i].timestamp >= 1
            /\ alerts[i].timestamp <= dedupCache[alerts[i].key]
            /\ dedupCache[alerts[i].key] \in Nat
        BY <2>0 DEF CacheCovers
      <4>2. dedupCache'[alerts[i].key] >= dedupCache[alerts[i].key]
        BY <1>1, <4>1, CacheForward
      <4>3. dedupCache'[alerts[i].key] \in Nat
        BY <1>1, <2>0, <4>1 DEF Deduplicate
      <4> QED
        BY <4>1, <4>2, <4>3
    <3> QED
      BY <3>1, <3>2 DEF AlertsApart
  <2>2. CASE ~Duplicate(t)
    <3> DEFINE n == Len(alerts) + 1
               new == [key |-> event[t], timestamp |-> stamp[t]]
    <3>1. /\ Len(alerts') = n /\ alerts'[n] = new
          /\ \A i \in 1 .. Len(alerts) : alerts'[i] = alerts[i]
      <4>1. alerts' = Append(alerts, new)
        BY <1>1, <2>2 DEF Deduplicate
      <4> HIDE DEF new
      <4> QED
        BY <2>0, <4>1
    <3>2. \A i \in 1 .. n : i \in 1 .. Len(alerts) \/ i = n
      BY <2>0
    <3>3. new.key = event[t] /\ new.timestamp = stamp[t]
      OBVIOUS
    <3> HIDE DEF n, new
    <3>4. CacheCovers'
      <4> SUFFICES ASSUME NEW i \in 1 .. n
                   PROVE  /\ alerts'[i].timestamp >= 1
                          /\ alerts'[i].timestamp <= dedupCache'[alerts'[i].key]
        BY <3>1 DEF CacheCovers
      <4>1. CASE i = n
        BY <1>1, <2>0, <3>1, <3>3, <4>1, CacheForward
      <4>2. CASE i \in 1 .. Len(alerts)
        <5>1. /\ alerts[i].key \in Keys /\ alerts[i].timestamp \in Nat
              /\ alerts[i].timestamp >= 1
              /\ alerts[i].timestamp <= dedupCache[alerts[i].key]
              /\ dedupCache[alerts[i].key] \in Nat
          BY <2>0, <4>2 DEF CacheCovers
        <5>2. dedupCache'[alerts[i].key] >= dedupCache[alerts[i].key]
          BY <1>1, <5>1, CacheForward
        <5>3. dedupCache'[alerts[i].key] \in Nat
          BY <1>1, <2>0, <5>1 DEF Deduplicate
        <5> QED
          BY <3>1, <4>2, <5>1, <5>2, <5>3
      <4> QED
        BY <3>2, <4>1, <4>2
    <3>5. ASSUME NEW i \in 1 .. Len(alerts), alerts[i].key = event[t]
          PROVE  stamp[t] - alerts[i].timestamp >= DedupWindow
      BY <1>1, <2>2, <3>5, AlertWaits
    <3>6. AlertsApart'
      <4> SUFFICES ASSUME NEW i \in 1 .. n, NEW j \in 1 .. n, i # j,
                          alerts'[i].key = alerts'[j].key,
                          alerts'[i].timestamp <= alerts'[j].timestamp
                   PROVE  alerts'[j].timestamp - alerts'[i].timestamp >= DedupWindow
        BY <3>1 DEF AlertsApart
      <4>1. CASE i \in 1 .. Len(alerts) /\ j \in 1 .. Len(alerts)
        BY <3>1, <4>1 DEF AlertsApart
      <4>2. CASE i \in 1 .. Len(alerts) /\ j = n
        BY <3>1, <3>3, <3>5, <4>2
      <4>3. CASE i = n /\ j \in 1 .. Len(alerts)
        <5>1. stamp[t] - alerts[j].timestamp >= DedupWindow /\ stamp[t] <= alerts[j].timestamp
          BY <3>1, <3>3, <3>5, <4>3
        <5> QED
          BY <2>0, <3>1, <3>3, <4>3, <5>1
      <4> QED
        BY <3>2, <4>1, <4>2, <4>3
    <3> QED
      BY <3>4, <3>6
  <2> QED
    BY <2>1, <2>2
<1>2. CASE UNCHANGED <<dedupCache, alerts>>
  BY <1>2 DEF CacheCovers, AlertsApart
<1> QED
  BY <1>1, <1>2
  DEF Next, Proceed, vars, alerting, CallTrain, CallProcess, TrainDetector, SetTrained,
      CheckTrained, ColdStart, Score, ReadClock, Panic, Tick

\* In every build the alerts of one key are a whole window apart as long as no thread
\* enters the deduplication with an older reading of the clock than the one noted for
\* its key: there is no other way to a second alert.
THEOREM SuppressesUnlessOvertaken == Spec /\ []NeverWraps => []DuplicatesSuppressed
<1>1. Init => CacheCovers /\ AlertsApart
  BY DEF Init, CacheCovers, AlertsApart
<1>2. EngineInv /\ AlertsApart => DuplicatesSuppressed
  <2>1. EngineInv => DOMAIN alerts = 1 .. Len(alerts)
    BY DEF EngineInv, EngineTyped
  <2> QED
    BY <2>1 DEF AlertsApart, DuplicatesSuppressed
<1> QED
  BY <1>1, <1>2, ApartStep, EngineCorrect, PTL DEF Spec

\* In a debug build they always are, whichever threads process the events and in
\* whatever order they read the clock and take the dedup lock: an event that comes too
\* late panics there instead of wrapping around.
THEOREM DebugSuppresses == OverflowChecks => (Spec => []DuplicatesSuppressed)
<1> SUFFICES ASSUME OverflowChecks PROVE Spec => []DuplicatesSuppressed
  OBVIOUS
<1>1. NeverWraps
  BY DEF NeverWraps
<1> QED
  BY <1>1, SuppressesUnlessOvertaken, PTL

\* And with one thread that processes, in a release build too: it enters the
\* deduplication with the latest reading of the clock there is.
THEOREM OneProcessorSuppresses ==
  (\A t, w \in Processors : t = w) => (Spec => []DuplicatesSuppressed)
<1> SUFFICES ASSUME \A t, w \in Processors : t = w PROVE Spec => []DuplicatesSuppressed
  OBVIOUS
<1>1. Init => NoneOvertaken
  BY DEF Init, NoneOvertaken
<1>2. EngineInv /\ NoneOvertaken /\ [Next]_vars => NoneOvertaken'
  <2> SUFFICES ASSUME EngineInv, NoneOvertaken, [Next]_vars PROVE NoneOvertaken'
    OBVIOUS
  <2>0. /\ pc \in [Threads -> Labels] /\ now \in Nat /\ event \in [Threads -> Keys]
        /\ dedupCache \in [Keys -> 0 .. now] /\ stamp \in [Threads -> 0 .. now]
        /\ \A t, w \in Threads : pc[t] = "deduplicate" /\ pc[w] = "deduplicate" => t = w
    BY EngineConstants DEF EngineInv, EngineTyped, ThreadsInPlace
  <2>1. ASSUME NEW t \in Threads, ReadClock(t) PROVE NoneOvertaken'
    <3>1. /\ dedupCache' = dedupCache /\ event' = event
          /\ stamp' = [stamp EXCEPT ![t] = now]
          /\ \A x \in Threads : pc'[x] = IF x = t THEN "deduplicate" ELSE pc[x]
      BY <2>0, <2>1 DEF ReadClock, alerting
    <3> QED
      BY <2>0, <3>1 DEF NoneOvertaken
  <2>2. ASSUME NEW t \in Threads, Deduplicate(t) PROVE NoneOvertaken'
    <3>1. /\ pc[t] = "deduplicate"
          /\ \A x \in Threads : pc'[x] = IF x = t THEN "idle" ELSE pc[x]
      BY <2>0, <2>2 DEF Deduplicate
    <3>2. \A x \in Threads : pc'[x] # "deduplicate"
      BY <2>0, <3>1
    <3> QED
      BY <3>2 DEF NoneOvertaken
  <2>3. ASSUME NEW t \in Threads, NEW label \in Labels \ {"deduplicate"}, Goto(t, label),
               UNCHANGED <<dedupCache, stamp>>,
               \A x \in Threads \ {t} : event'[x] = event[x]
        PROVE  NoneOvertaken'
    <3>1. \A x \in Threads : pc'[x] = "deduplicate" => x # t /\ pc[x] = "deduplicate"
      BY <2>0, <2>3
    <3> QED
      BY <2>3, <3>1 DEF NoneOvertaken
  <2>4. \A label \in {"trainDetector", "setTrained", "checkTrained", "coldStart", "score",
                      "readClock", "idle", "panicked"} : label \in Labels \ {"deduplicate"}
    BY DEF Labels
  <2>5. ASSUME NEW t \in Trainers, CallTrain(t) PROVE NoneOvertaken'
    BY <2>3, <2>4, <2>5 DEF CallTrain, Call, Threads, alerting
  <2>6. ASSUME NEW t \in Processors, NEW k \in Keys, CallProcess(t, k) PROVE NoneOvertaken'
    <3>1. \A x \in Threads \ {t} : event'[x] = event[x]
      BY <2>0, <2>6 DEF CallProcess
    <3> QED
      BY <2>3, <2>4, <2>6, <3>1 DEF CallProcess, Call, Threads, alerting
  <2>7. ASSUME NEW t \in Threads, TrainDetector(t) \/ SetTrained(t) PROVE NoneOvertaken'
    BY <2>3, <2>4, <2>7 DEF TrainDetector, SetTrained, alerting
  <2>8. ASSUME NEW t \in Threads, CheckTrained(t) \/ ColdStart(t) PROVE NoneOvertaken'
    BY <2>3, <2>4, <2>8 DEF CheckTrained, ColdStart, alerting
  <2>9. ASSUME NEW t \in Threads, Score(t) \/ Panic(t) PROVE NoneOvertaken'
    BY <2>3, <2>4, <2>9 DEF Score, Panic, alerting
  <2>10. CASE Tick \/ UNCHANGED vars
    BY <2>10 DEF Tick, vars, alerting, NoneOvertaken
  <2> QED
    BY <2>1, <2>2, <2>5, <2>6, <2>7, <2>8, <2>9, <2>10 DEF Next, Proceed
<1>3. NoneOvertaken => NeverWraps
  BY DEF NeverWraps
<1> QED
  BY <1>1, <1>2, <1>3, SuppressesUnlessOvertaken, EngineCorrect, PTL DEF Spec
=============================================================================
