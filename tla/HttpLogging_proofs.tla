-------------------------- MODULE HttpLogging_proofs --------------------------
(***************************************************************************)
(* What HttpLogging promises for any set of requests, any queue size and   *)
(* any number of crashes of the drain task.  The inductive invariant IInv  *)
(* joins the checked invariants with two facts about the lifespan:         *)
(* LifespanShape says what tasks and None can be where, FlushPending that  *)
(* the events put before None are ahead of it until they are delivered.    *)
(***************************************************************************)
EXTENDS HttpLogging, SequenceTheorems, FiniteSetTheorems, TLAPS

LifespanShape ==
  /\ lifespan \in {"down", "up", "putting"} => sentinel = NoSentinel
  /\ lifespan \in {"up", "putting"} => drainTask \in live \cup crashed

FlushPending ==
  lifespan = "awaiting" =>
    \/ Len(delivered) >= flushed
    \/ /\ sentinel # NoSentinel
       /\ flushed = Len(delivered) + sentinel
       /\ awaited \in live \cup crashed

IInv == /\ TypeOK /\ InOrder /\ Bounded /\ SingleConsumer
        /\ LifespanShape /\ FlushPending /\ ShutdownFlushes

-----------------------------------------------------------------------------

LEMMA SizeIsInt == maxsize \in Int
  BY SizesAreInts DEF maxsize

(***************************************************************************)
(* Handing over the first n events keeps InOrder; the delivered events are *)
(* then the first of the accepted ones.                                    *)
(***************************************************************************)
LEMMA HandOverFacts ==
  ASSUME TypeOK, InOrder, NEW n \in 0..Len(queue), HandOver(n)
  PROVE  /\ queue' \in Seq(Requests) /\ delivered' \in Seq(Requests)
         /\ accepted' = accepted
         /\ Len(queue') = Len(queue) - n
         /\ Len(delivered') = Len(delivered) + n
         /\ InOrder'
         /\ delivered' = SubSeq(accepted, 1, Len(delivered'))
<1> DEFINE front == SubSeq(queue, 1, n)
           rest == SubSeq(queue, n + 1, Len(queue))
<1>1. /\ queue \in Seq(Requests) /\ delivered \in Seq(Requests)
      /\ accepted \in Seq(Requests)
      /\ n \in Nat /\ n <= Len(queue) /\ Len(queue) \in Nat /\ Len(delivered) \in Nat
      /\ \A i \in 1..Len(queue) : queue[i] \in Requests
      /\ \A i \in 1..Len(accepted) : accepted[i] \in Requests
  BY DEF TypeOK
<1>2. /\ front \in Seq(Requests) /\ Len(front) = n
      /\ \A i \in 1..n : front[i] = queue[i]
  <2>1. \A i \in 1..n : queue[i] \in Requests
    BY <1>1
  <2> QED
    BY <1>1, <2>1, SubSeqProperties
<1>3. /\ rest \in Seq(Requests) /\ Len(rest) = Len(queue) - n
      /\ \A i \in 1..(Len(queue) - n) : rest[i] = queue[n + i]
  <2>1. \A i \in (n + 1)..Len(queue) : queue[i] \in Requests
    BY <1>1
  <2> HIDE DEF rest
  <2>2. /\ rest \in Seq(Requests)
        /\ Len(rest) = IF n + 1 <= Len(queue) THEN Len(queue) - (n + 1) + 1 ELSE 0
        /\ \A i \in 1..(Len(queue) - (n + 1) + 1) : rest[i] = queue[(n + 1) + i - 1]
    BY <1>1, <2>1, SubSeqProperties DEF rest
  <2> QED
    BY <1>1, <2>2
<1>4. queue' = rest /\ delivered' = delivered \o front /\ accepted' = accepted
  BY DEF HandOver
<1> HIDE DEF front, rest
<1>5. /\ delivered' \in Seq(Requests) /\ Len(delivered') = Len(delivered) + n
      /\ \A i \in 1..(Len(delivered) + n) :
           delivered'[i] = IF i <= Len(delivered) THEN delivered[i]
                           ELSE queue[i - Len(delivered)]
  BY <1>1, <1>2, <1>4, ConcatProperties
<1>6. \A i \in 1..Len(delivered') : delivered'[i] = accepted[i]
  <2> SUFFICES ASSUME NEW i \in 1..(Len(delivered) + n)
               PROVE  delivered'[i] = accepted[i]
    BY <1>5
  <2>1. CASE i <= Len(delivered)
    <3>1. i \in 1..Len(delivered)
      BY <1>1, <2>1
    <3>2. delivered'[i] = delivered[i]
      BY <1>5, <2>1
    <3> QED
      BY <3>1, <3>2 DEF InOrder
  <2>2. CASE ~(i <= Len(delivered))
    <3>1. i - Len(delivered) \in 1..Len(queue)
      BY <1>1, <2>2
    <3>2. queue[i - Len(delivered)] = accepted[Len(delivered) + (i - Len(delivered))]
      BY <3>1 DEF InOrder
    <3>3. Len(delivered) + (i - Len(delivered)) = i
      BY <1>1
    <3>4. delivered'[i] = queue[i - Len(delivered)]
      BY <1>5, <2>2
    <3> QED
      BY <3>2, <3>3, <3>4
  <2> QED
    BY <2>1, <2>2
<1>7. InOrder'
  <2>1. Len(accepted') = Len(delivered') + Len(queue')
    <3>1. Len(accepted) = Len(delivered) + Len(queue)
      BY DEF InOrder
    <3>2. Len(accepted') = Len(accepted) /\ Len(queue') = Len(queue) - n
      BY <1>3, <1>4
    <3>3. Len(delivered') = Len(delivered) + n
      BY <1>5
    <3> QED
      BY <1>1, <3>1, <3>2, <3>3
  <2>2. ASSUME NEW i \in 1..Len(queue')
        PROVE  queue'[i] = accepted'[Len(delivered') + i]
    <3>0. i \in Nat /\ i >= 1 /\ i <= Len(queue) - n
      BY <1>1, <1>3, <1>4
    <3>1. i \in 1..(Len(queue) - n) /\ n + i \in 1..Len(queue)
      BY <1>1, <3>0
    <3>2. queue'[i] = queue[n + i]
      BY <1>3, <1>4, <3>1
    <3>3. queue[n + i] = accepted[Len(delivered) + (n + i)]
      BY <3>1 DEF InOrder
    <3>4. Len(delivered) + (n + i) = Len(delivered') + i
      BY <1>1, <1>5, <3>1
    <3> QED
      BY <1>4, <3>2, <3>3, <3>4
  <2> QED
    BY <1>4, <1>6, <2>1, <2>2 DEF InOrder
<1>8. delivered' = SubSeq(accepted, 1, Len(delivered'))
  <2> DEFINE k == Len(delivered')
  <2>1. k \in Nat /\ k <= Len(accepted)
    BY <1>1, <1>5 DEF InOrder
  <2>2. \A i \in 1..k : accepted[i] \in Requests
    BY <1>1, <2>1
  <2>3. /\ SubSeq(accepted, 1, k) \in Seq(Requests)
        /\ Len(SubSeq(accepted, 1, k)) = k
        /\ \A i \in 1..k : SubSeq(accepted, 1, k)[i] = accepted[i]
    BY <2>1, <2>2, SubSeqProperties
  <2> HIDE DEF k
  <2>4. Len(delivered') = k /\ \A i \in 1..k : delivered'[i] = SubSeq(accepted, 1, k)[i]
    BY <1>6, <2>3 DEF k
  <2>5. delivered' = SubSeq(accepted, 1, k)
    BY <1>5, <2>3, <2>4, SeqEqual
  <2> QED
    BY <2>5 DEF k
<1> QED
  BY <1>3, <1>4, <1>5, <1>7, <1>8

\* One more event in queue and history keeps InOrder.
LEMMA AppendFacts ==
  ASSUME TypeOK, InOrder, NEW r \in Requests,
         queue' = Append(queue, r), accepted' = Append(accepted, r),
         delivered' = delivered
  PROVE  /\ queue' \in Seq(Requests) /\ accepted' \in Seq(Requests)
         /\ Len(queue') = Len(queue) + 1
         /\ Len(accepted') = Len(accepted) + 1
         /\ InOrder'
<1>1. /\ queue \in Seq(Requests) /\ accepted \in Seq(Requests)
      /\ Len(queue) \in Nat /\ Len(accepted) \in Nat /\ Len(delivered) \in Nat
  BY DEF TypeOK
<1>2. /\ queue' \in Seq(Requests) /\ Len(queue') = Len(queue) + 1
      /\ \A i \in 1..Len(queue) : queue'[i] = queue[i]
      /\ queue'[Len(queue) + 1] = r
  BY <1>1, AppendProperties
<1>3. /\ accepted' \in Seq(Requests) /\ Len(accepted') = Len(accepted) + 1
      /\ \A i \in 1..Len(accepted) : accepted'[i] = accepted[i]
      /\ accepted'[Len(accepted) + 1] = r
  BY <1>1, AppendProperties
<1>4. Len(accepted') = Len(delivered') + Len(queue')
  BY <1>1, <1>2, <1>3 DEF InOrder
<1>5. ASSUME NEW i \in 1..Len(delivered')
      PROVE  delivered'[i] = accepted'[i]
  <2>1. i \in 1..Len(delivered) /\ i \in 1..Len(accepted)
    BY <1>1 DEF InOrder
  <2>2. delivered[i] = accepted[i]
    BY <2>1 DEF InOrder
  <2> QED
    BY <1>3, <2>1, <2>2
<1>6. ASSUME NEW i \in 1..Len(queue')
      PROVE  queue'[i] = accepted'[Len(delivered') + i]
  <2>1. CASE i <= Len(queue)
    <3>1. i \in 1..Len(queue) /\ Len(delivered) + i \in 1..Len(accepted)
      BY <1>1, <1>2, <2>1 DEF InOrder
    <3>2. queue[i] = accepted[Len(delivered) + i]
      BY <3>1 DEF InOrder
    <3> QED
      BY <1>2, <1>3, <3>1, <3>2
  <2>2. CASE ~(i <= Len(queue))
    <3>0. i = Len(queue) + 1
      BY <1>1, <1>2, <2>2
    <3>1. i = Len(queue) + 1 /\ Len(delivered) + i = Len(accepted) + 1
      BY <1>1, <3>0 DEF InOrder
    <3> QED
      BY <1>2, <1>3, <3>1
  <2> QED
    BY <2>1, <2>2
<1>7. InOrder'
  BY <1>4, <1>5, <1>6 DEF InOrder
<1> QED
  BY <1>2, <1>3, <1>7

\* Replacing the drain task keeps the tasks' types and the single consumer.
LEMMA EnsureFacts ==
  ASSUME TypeOK, SingleConsumer, EnsureDrainTask
  PROVE  /\ spawned' \in Nat /\ spawned' >= spawned
         /\ drainTask' \in live' /\ drainTask' \in 0..spawned'
         /\ live' \in SUBSET (1..spawned') /\ live \subseteq live'
         /\ crashed' = crashed /\ crashed \in SUBSET (1..spawned')
         /\ lifespan \notin {"stopped", "failed", "exited"} => live' \subseteq {drainTask'}
<1>1. /\ spawned \in Nat /\ drainTask \in 0..spawned
      /\ live \in SUBSET (1..spawned) /\ crashed \in SUBSET (1..spawned)
  BY DEF TypeOK
<1>2. CASE drainTask = NoTask \/ drainTask \notin live
  <2>1. /\ spawned' = spawned + 1 /\ drainTask' = spawned + 1
        /\ live' = live \cup {spawned + 1} /\ crashed' = crashed
    BY <1>2 DEF EnsureDrainTask, Spawn
  <2>2. 1..spawned \subseteq 1..(spawned + 1) /\ spawned + 1 \in 1..(spawned + 1)
    BY <1>1
  <2>3. lifespan \notin {"stopped", "failed", "exited"} => live = {}
    <3>1. NoTask \notin live
      BY <1>1 DEF NoTask
    <3> QED
      BY <1>2, <3>1 DEF SingleConsumer
  <2>4. spawned' \in Nat /\ spawned' >= spawned /\ drainTask' \in 0..spawned'
    BY <1>1, <2>1
  <2> QED
    BY <1>1, <2>1, <2>2, <2>3, <2>4
<1>3. CASE ~(drainTask = NoTask \/ drainTask \notin live)
  <2>1. UNCHANGED <<drainTask, live, crashed, spawned>>
    BY <1>3 DEF EnsureDrainTask, taskVars
  <2> QED
    BY <1>1, <1>3, <2>1 DEF SingleConsumer
<1> QED
  BY <1>2, <1>3

-----------------------------------------------------------------------------
(* The initial state and one lemma per action *)

LEMMA InitIInv == Init => IInv
<1> SUFFICES ASSUME Init PROVE IInv
  OBVIOUS
<1>1. queue = <<>> /\ accepted = <<>> /\ delivered = <<>> /\ <<>> \in Seq(Requests)
  BY DEF Init
<1>2. TypeOK
  BY <1>1 DEF Init, TypeOK, NoTask, NoSentinel, Phases
<1>3. InOrder
  BY <1>1 DEF InOrder
<1>4. Bounded
  <2>1. qsize = 0
    BY <1>1 DEF Init, qsize
  <2> QED
    BY <2>1, SizeIsInt DEF Bounded
<1>5. SingleConsumer /\ LifespanShape /\ FlushPending /\ ShutdownFlushes
  BY DEF Init, SingleConsumer, LifespanShape, FlushPending, ShutdownFlushes
<1> QED
  BY <1>2, <1>3, <1>4, <1>5 DEF IInv

LEMMA EnqueueIInv == ASSUME IInv, NEW r \in Requests, Enqueue(r) PROVE IInv'
<1>1. TypeOK /\ InOrder /\ SingleConsumer /\ EnsureDrainTask
  BY DEF IInv, Enqueue
<1>2. /\ ended' = ended \cup {r} /\ ~Full
      /\ queue' = Append(queue, r) /\ accepted' = Append(accepted, r)
      /\ UNCHANGED <<sentinel, delivered, dropped, failed, lifespan, awaited, flushed>>
  BY DEF Enqueue, Ends, lifeVars
<1>3. /\ queue' \in Seq(Requests) /\ accepted' \in Seq(Requests)
      /\ Len(queue') = Len(queue) + 1 /\ InOrder'
  BY <1>1, <1>2, AppendFacts
<1>4. Len(queue) \in Nat
  BY <1>1 DEF TypeOK
<1>5. /\ spawned' \in Nat /\ spawned' >= spawned
      /\ drainTask' \in live' /\ drainTask' \in 0..spawned'
      /\ live' \in SUBSET (1..spawned') /\ live \subseteq live'
      /\ crashed' = crashed /\ crashed \in SUBSET (1..spawned')
      /\ lifespan \notin {"stopped", "failed", "exited"} => live' \subseteq {drainTask'}
  BY <1>1, EnsureFacts
<1>6. TypeOK'
  BY <1>1, <1>2, <1>3, <1>4, <1>5 DEF TypeOK
<1>7. Bounded'
  <2>1. qsize' = qsize + 1 /\ qsize \in Int
    BY <1>2, <1>3, <1>4 DEF qsize
  <2>2. maxsize > 0 => qsize < maxsize
    BY <1>2, <2>1, SizeIsInt DEF Full
  <2> QED
    BY <2>1, <2>2, SizeIsInt DEF Bounded, maxsize
<1>8. SingleConsumer' /\ LifespanShape' /\ FlushPending' /\ ShutdownFlushes'
  BY <1>2, <1>5 DEF IInv, SingleConsumer, LifespanShape, FlushPending, ShutdownFlushes
<1> QED
  BY <1>3, <1>6, <1>7, <1>8 DEF IInv

\* A request that puts nothing, but may replace the task.
LEMMA OtherEndIInv ==
  ASSUME IInv, NEW r \in Requests, Drop(r) \/ FailToBuild(r)
  PROVE  IInv'
<1>1. TypeOK /\ InOrder /\ SingleConsumer /\ EnsureDrainTask
  BY DEF IInv, Drop, FailToBuild
<1>2. /\ ended' = ended \cup {r}
      /\ dropped' \subseteq dropped \cup {r} /\ failed' \subseteq failed \cup {r}
      /\ UNCHANGED <<queue, sentinel, accepted, delivered, lifespan, awaited, flushed>>
  BY DEF Drop, FailToBuild, Ends, lifeVars, queueVars
<1>3. /\ spawned' \in Nat /\ spawned' >= spawned
      /\ drainTask' \in live' /\ drainTask' \in 0..spawned'
      /\ live' \in SUBSET (1..spawned') /\ live \subseteq live'
      /\ crashed' = crashed /\ crashed \in SUBSET (1..spawned')
      /\ lifespan \notin {"stopped", "failed", "exited"} => live' \subseteq {drainTask'}
  BY <1>1, EnsureFacts
<1>4. TypeOK'
  BY <1>1, <1>2, <1>3 DEF TypeOK
<1>5. InOrder' /\ Bounded'
  BY <1>2 DEF IInv, InOrder, Bounded, qsize, maxsize
<1>6. SingleConsumer' /\ LifespanShape' /\ FlushPending' /\ ShutdownFlushes'
  BY <1>2, <1>3 DEF IInv, SingleConsumer, LifespanShape, FlushPending, ShutdownFlushes
<1> QED
  BY <1>4, <1>5, <1>6 DEF IInv

LEMMA EndUnloggedIInv == ASSUME IInv, NEW r \in Requests, EndUnlogged(r) PROVE IInv'
<1>1. /\ ended' = ended \cup {r}
      /\ UNCHANGED <<queueVars, taskVars, lifeVars, dropped, failed>>
  BY DEF EndUnlogged, Ends
<1>2. TypeOK'
  BY <1>1 DEF IInv, TypeOK, queueVars, taskVars, lifeVars
<1>3. InOrder' /\ Bounded'
  BY <1>1 DEF IInv, InOrder, Bounded, qsize, maxsize, queueVars
<1>4. SingleConsumer' /\ LifespanShape' /\ FlushPending' /\ ShutdownFlushes'
  BY <1>1 DEF IInv, SingleConsumer, LifespanShape, FlushPending, ShutdownFlushes,
              queueVars, taskVars, lifeVars
<1> QED
  BY <1>2, <1>3, <1>4 DEF IInv

LEMMA DrainAllIInv == ASSUME IInv, NEW t \in live, DrainAll(t) PROVE IInv'
<1>1. TypeOK /\ InOrder /\ HandOver(Len(queue)) /\ sentinel = NoSentinel
      /\ UNCHANGED <<ended, sentinel, taskVars, lifeVars, dropped, failed>>
  BY DEF IInv, DrainAll
<1>2. Len(queue) \in 0..Len(queue) /\ Len(delivered) \in Nat
  BY <1>1 DEF TypeOK
<1>3. /\ queue' \in Seq(Requests) /\ delivered' \in Seq(Requests)
      /\ accepted' = accepted /\ Len(queue') = 0
      /\ Len(delivered') = Len(delivered) + Len(queue) /\ InOrder'
  BY <1>1, <1>2, HandOverFacts
<1>4. TypeOK'
  BY <1>1, <1>3 DEF TypeOK, taskVars, lifeVars
<1>5. Bounded'
  BY <1>1, <1>3, SizeIsInt DEF Bounded, qsize, maxsize
<1>6. SingleConsumer' /\ LifespanShape'
  BY <1>1 DEF IInv, SingleConsumer, LifespanShape, taskVars, lifeVars
<1>7. /\ Len(delivered') >= Len(delivered) /\ flushed \in Nat /\ Len(queue) \in Nat
      /\ UNCHANGED <<lifespan, flushed>>
  BY <1>1, <1>2, <1>3 DEF TypeOK, lifeVars
<1>8. FlushPending' /\ ShutdownFlushes'
  BY <1>1, <1>2, <1>3, <1>7 DEF IInv, FlushPending, ShutdownFlushes
<1> QED
  BY <1>3, <1>4, <1>5, <1>6, <1>8 DEF IInv

LEMMA DrainToSentinelIInv ==
  ASSUME IInv, NEW t \in live, DrainToSentinel(t)
  PROVE  IInv'
<1>1. /\ TypeOK /\ InOrder /\ HandOver(sentinel) /\ sentinel # NoSentinel
      /\ sentinel' = NoSentinel /\ live' = live \ {t}
      /\ UNCHANGED <<ended, drainTask, crashed, spawned, lifeVars, dropped, failed>>
  BY DEF IInv, DrainToSentinel
<1>2. /\ sentinel \in 0..Len(queue) /\ Len(queue) \in Nat /\ Len(delivered) \in Nat
      /\ Len(accepted) \in Nat /\ flushed \in Nat
  BY <1>1 DEF TypeOK
<1>3. /\ queue' \in Seq(Requests) /\ delivered' \in Seq(Requests)
      /\ accepted' = accepted /\ Len(queue') = Len(queue) - sentinel
      /\ Len(delivered') = Len(delivered) + sentinel /\ InOrder'
  BY <1>1, <1>2, HandOverFacts
<1>4. TypeOK'
  BY <1>1, <1>3 DEF TypeOK, lifeVars
<1>5. Bounded'
  <2>1. qsize' <= qsize /\ qsize \in Int /\ qsize' \in Int
    BY <1>1, <1>2, <1>3 DEF qsize, NoSentinel
  <2> QED
    BY <2>1, SizeIsInt DEF IInv, Bounded, maxsize
<1>6. SingleConsumer' /\ LifespanShape'
  BY <1>1 DEF IInv, SingleConsumer, LifespanShape, lifeVars
<1>7. FlushPending' /\ ShutdownFlushes'
  BY <1>1, <1>2, <1>3 DEF IInv, FlushPending, ShutdownFlushes, lifeVars
<1> QED
  BY <1>3, <1>4, <1>5, <1>6, <1>7 DEF IInv

LEMMA DrainCrashesIInv ==
  ASSUME IInv, NEW t \in live, DrainCrashes(t)
  PROVE  IInv'
<1> PICK n \in Ahead : /\ HandOver(n)
                       /\ sentinel' = IF sentinel = NoSentinel THEN NoSentinel
                                       ELSE sentinel - n
  BY DEF DrainCrashes
<1>1. /\ TypeOK /\ InOrder /\ live' = live \ {t} /\ crashed' = crashed \cup {t}
      /\ UNCHANGED <<ended, drainTask, spawned, lifeVars, dropped, failed>>
  BY DEF IInv, DrainCrashes
<1>2. /\ n \in 0..Len(queue) /\ Len(queue) \in Nat /\ Len(delivered) \in Nat
      /\ sentinel # NoSentinel => sentinel \in 0..Len(queue) /\ n <= sentinel
      /\ Len(accepted) \in Nat /\ flushed \in Nat
  BY <1>1 DEF TypeOK, Ahead
<1>3. /\ queue' \in Seq(Requests) /\ delivered' \in Seq(Requests)
      /\ accepted' = accepted /\ Len(queue') = Len(queue) - n
      /\ Len(delivered') = Len(delivered) + n /\ InOrder'
  BY <1>1, <1>2, HandOverFacts
<1>4. sentinel' = NoSentinel \/ sentinel' \in 0..Len(queue')
  BY <1>2, <1>3
<1>5. TypeOK'
  BY <1>1, <1>3, <1>4 DEF TypeOK, lifeVars
<1>6. Bounded'
  <2>1. qsize' <= qsize /\ qsize \in Int /\ qsize' \in Int
    BY <1>2, <1>3 DEF qsize, NoSentinel
  <2> QED
    BY <2>1, SizeIsInt DEF IInv, Bounded, maxsize
<1>7. SingleConsumer' /\ LifespanShape'
  BY <1>1 DEF IInv, SingleConsumer, LifespanShape, lifeVars
<1>8. Len(delivered') >= Len(delivered) /\ UNCHANGED <<lifespan, awaited, flushed>>
  BY <1>1, <1>2, <1>3 DEF lifeVars
<1>9. FlushPending'
  <2>1. CASE Len(delivered) >= flushed
    BY <1>2, <1>3, <1>8, <2>1 DEF FlushPending
  <2>2. CASE /\ sentinel # NoSentinel
             /\ flushed = Len(delivered) + sentinel
             /\ awaited \in live \cup crashed
    <3>1. sentinel' = sentinel - n /\ sentinel' # NoSentinel
      BY <1>2, <2>2 DEF NoSentinel
    <3>2. flushed' = Len(delivered') + sentinel'
      BY <1>2, <1>3, <1>8, <2>2, <3>1
    <3>3. awaited' \in live' \cup crashed'
      BY <1>1, <1>8, <2>2
    <3> QED
      BY <3>1, <3>2, <3>3 DEF FlushPending
  <2> QED
    BY <1>8, <2>1, <2>2 DEF IInv, FlushPending
<1>10. ShutdownFlushes'
  BY <1>2, <1>3, <1>8 DEF IInv, ShutdownFlushes
<1> QED
  BY <1>3, <1>5, <1>6, <1>7, <1>9, <1>10 DEF IInv

LEMMA StartupIInv == ASSUME IInv, Startup PROVE IInv'
<1>1. /\ TypeOK /\ SingleConsumer /\ EnsureDrainTask
      /\ lifespan = "down" /\ lifespan' = "up"
      /\ UNCHANGED <<ended, queue, sentinel, accepted, delivered, awaited, flushed,
                     dropped, failed>>
  BY DEF IInv, Startup, queueVars
<1>2. /\ spawned' \in Nat /\ spawned' >= spawned
      /\ drainTask' \in live' /\ drainTask' \in 0..spawned'
      /\ live' \in SUBSET (1..spawned') /\ live \subseteq live'
      /\ crashed' = crashed /\ crashed \in SUBSET (1..spawned')
      /\ lifespan \notin {"stopped", "failed", "exited"} => live' \subseteq {drainTask'}
  BY <1>1, EnsureFacts
<1>3. TypeOK'
  BY <1>1, <1>2 DEF TypeOK, Phases
<1>4. InOrder' /\ Bounded'
  BY <1>1 DEF IInv, InOrder, Bounded, qsize, maxsize
<1>5. SingleConsumer' /\ LifespanShape' /\ FlushPending' /\ ShutdownFlushes'
  BY <1>1, <1>2 DEF IInv, SingleConsumer, LifespanShape, FlushPending, ShutdownFlushes
<1> QED
  BY <1>3, <1>4, <1>5 DEF IInv

LEMMA BeginShutdownIInv == ASSUME IInv, BeginShutdown PROVE IInv'
<1>1. drainTask # NoTask
  BY DEF IInv, LifespanShape, TypeOK, BeginShutdown, NoTask
<1>2. /\ lifespan = "up" /\ lifespan' = "putting"
      /\ UNCHANGED <<ended, queueVars, taskVars, awaited, flushed, dropped, failed>>
  BY <1>1 DEF BeginShutdown
<1>3. TypeOK'
  BY <1>2 DEF IInv, TypeOK, Phases, queueVars, taskVars
<1>4. InOrder' /\ Bounded'
  BY <1>2 DEF IInv, InOrder, Bounded, qsize, maxsize, queueVars
<1>5. SingleConsumer' /\ LifespanShape' /\ FlushPending' /\ ShutdownFlushes'
  BY <1>2 DEF IInv, SingleConsumer, LifespanShape, FlushPending, ShutdownFlushes,
              queueVars, taskVars
<1> QED
  BY <1>3, <1>4, <1>5 DEF IInv

LEMMA PutSentinelIInv == ASSUME IInv, PutSentinel PROVE IInv'
<1>1. /\ TypeOK /\ InOrder /\ ~Full
      /\ lifespan = "putting" /\ lifespan' = "awaiting"
      /\ sentinel = NoSentinel /\ sentinel' = Len(queue)
      /\ flushed' = Len(accepted) /\ awaited' = drainTask
      /\ drainTask \in live \cup crashed
      /\ UNCHANGED <<ended, queue, accepted, delivered, taskVars, dropped, failed>>
  BY DEF IInv, PutSentinel, LifespanShape
<1>2. Len(queue) \in Nat /\ Len(delivered) \in Nat /\ Len(accepted) \in Nat
  BY <1>1 DEF TypeOK
<1>3. Len(accepted) = Len(delivered) + Len(queue)
  BY <1>1 DEF InOrder
<1>4. TypeOK'
  BY <1>1, <1>2 DEF TypeOK, Phases, taskVars
<1>5. InOrder'
  BY <1>1 DEF InOrder
<1>6. Bounded'
  <2>1. qsize' = qsize + 1 /\ qsize \in Int
    BY <1>1, <1>2 DEF qsize, NoSentinel
  <2>2. maxsize > 0 => qsize < maxsize
    BY <1>1, <2>1, SizeIsInt DEF Full
  <2> QED
    BY <2>1, <2>2, SizeIsInt DEF Bounded, maxsize
<1>7. SingleConsumer' /\ LifespanShape' /\ ShutdownFlushes'
  BY <1>1 DEF IInv, SingleConsumer, LifespanShape, ShutdownFlushes, taskVars
<1>8. FlushPending'
  BY <1>1, <1>2, <1>3 DEF FlushPending, NoSentinel, taskVars
<1> QED
  BY <1>4, <1>5, <1>6, <1>7, <1>8 DEF IInv

LEMMA AwaitDrainTaskIInv == ASSUME IInv, AwaitDrainTask PROVE IInv'
<1>1. /\ TypeOK /\ lifespan = "awaiting" /\ awaited \notin live
      /\ lifespan' \in {"failed", "stopped"}
      /\ drainTask' \in {drainTask, NoTask}
      /\ lifespan' = "stopped" => awaited \notin crashed
      /\ UNCHANGED <<ended, queueVars, live, crashed, spawned, awaited, flushed,
                     dropped, failed>>
  BY DEF IInv, AwaitDrainTask
<1>2. TypeOK'
  BY <1>1 DEF TypeOK, Phases, NoTask, queueVars
<1>3. InOrder' /\ Bounded'
  BY <1>1 DEF IInv, InOrder, Bounded, qsize, maxsize, queueVars
<1>4. SingleConsumer' /\ LifespanShape' /\ FlushPending' /\ ShutdownFlushes'
  BY <1>1 DEF IInv, SingleConsumer, LifespanShape, FlushPending, ShutdownFlushes,
              queueVars
<1> QED
  BY <1>2, <1>3, <1>4 DEF IInv

LEMMA LoopClosesIInv == ASSUME IInv, LoopCloses PROVE IInv'
<1>1. /\ lifespan' = "exited" /\ live' = {}
      /\ UNCHANGED <<ended, queueVars, drainTask, crashed, spawned, awaited, flushed,
                     dropped, failed>>
  BY DEF LoopCloses
<1>2. TypeOK'
  BY <1>1 DEF IInv, TypeOK, Phases, queueVars
<1>3. InOrder' /\ Bounded'
  BY <1>1 DEF IInv, InOrder, Bounded, qsize, maxsize, queueVars
<1>4. SingleConsumer' /\ LifespanShape' /\ FlushPending' /\ ShutdownFlushes'
  BY <1>1 DEF SingleConsumer, LifespanShape, FlushPending, ShutdownFlushes
<1> QED
  BY <1>2, <1>3, <1>4 DEF IInv

LEMMA StutterIInv == IInv /\ UNCHANGED vars => IInv'
<1> SUFFICES ASSUME IInv, UNCHANGED vars PROVE IInv'
  OBVIOUS
<1>1. UNCHANGED <<ended, queue, sentinel, accepted, delivered, drainTask, live, crashed,
                  spawned, lifespan, awaited, flushed, dropped, failed>>
  BY DEF vars, queueVars, taskVars, lifeVars
<1>2. TypeOK'
  BY <1>1 DEF IInv, TypeOK
<1>3. InOrder' /\ Bounded'
  BY <1>1 DEF IInv, InOrder, Bounded, qsize, maxsize
<1>4. SingleConsumer' /\ LifespanShape' /\ FlushPending' /\ ShutdownFlushes'
  BY <1>1 DEF IInv, SingleConsumer, LifespanShape, FlushPending, ShutdownFlushes
<1> QED
  BY <1>2, <1>3, <1>4 DEF IInv

LEMMA NextIInv == IInv /\ [Next]_vars => IInv'
<1> SUFFICES ASSUME IInv, [Next]_vars PROVE IInv'
  OBVIOUS
<1>1. ASSUME NEW r \in Requests, RequestEnds(r) PROVE IInv'
  BY <1>1, EnqueueIInv, OtherEndIInv, EndUnloggedIInv DEF RequestEnds
<1>2. ASSUME NEW t \in live, Drain(t) \/ DrainCrashes(t) PROVE IInv'
  BY <1>2, DrainAllIInv, DrainToSentinelIInv, DrainCrashesIInv DEF Drain
<1>3. CASE Startup \/ BeginShutdown \/ Shutdown \/ LoopCloses
  BY <1>3, StartupIInv, BeginShutdownIInv, PutSentinelIInv, AwaitDrainTaskIInv,
     LoopClosesIInv DEF Shutdown
<1>4. CASE UNCHANGED vars
  BY <1>4, StutterIInv
<1> QED
  BY <1>1, <1>2, <1>3, <1>4 DEF Next

\* Every behaviour of the middleware satisfies the inductive invariant.
THEOREM Invariance == Spec => []IInv
  BY InitIInv, NextIInv, PTL DEF Spec

(***************************************************************************)
(* Every variable keeps its type for any set of requests, any queue size   *)
(* and any number of crashes: in particular None always has a place behind *)
(* events that are in the queue (http_middleware.py, _drain_queue).        *)
(***************************************************************************)
THEOREM TypeCorrect == Spec => []TypeOK
<1>1. IInv => TypeOK
  BY DEF IInv
<1> QED
  BY <1>1, Invariance, PTL

(***************************************************************************)
(* Queue, sink and history agree: no event is lost, repeated or overtaken  *)
(* between put_nowait and emit_http_event.                                 *)
(***************************************************************************)
THEOREM NothingLostInQueue == Spec => []InOrder
<1>1. IInv => InOrder
  BY DEF IInv
<1> QED
  BY <1>1, Invariance, PTL

(***************************************************************************)
(* The queue stays within maxsize, and one drain task at most consumes it  *)
(* until the lifespan has given it up.                                     *)
(***************************************************************************)
THEOREM QueueIsBounded == Spec => []Bounded
<1>1. IInv => Bounded
  BY DEF IInv
<1> QED
  BY <1>1, Invariance, PTL

\* A single consumer, however often a crashed drain task is replaced.
THEOREM OneConsumer == Spec => []SingleConsumer
<1>1. IInv => SingleConsumer
  BY DEF IInv
<1> QED
  BY <1>1, Invariance, PTL

(***************************************************************************)
(* A shutdown that returns normally has flushed what was put before None.  *)
(***************************************************************************)
THEOREM ShutdownHasFlushed == Spec => []ShutdownFlushes
<1>1. IInv => ShutdownFlushes
  BY DEF IInv
<1> QED
  BY <1>1, Invariance, PTL

-----------------------------------------------------------------------------
(* The shutdown *)

\* As long as the awaited task is not done, its None is in the queue.
NoneIsThere == lifespan = "awaiting" => awaited \notin live \/ sentinel # NoSentinel

(***************************************************************************)
(* Only the task that is not done can take None, and then it is done; a    *)
(* crash also ends it, and a replacement is not the task awaited.          *)
(***************************************************************************)
LEMMA NextNoneIsThere ==
  ASSUME IInv, NoneIsThere, [Next]_vars
  PROVE  NoneIsThere'
<1>0. TypeOK /\ SingleConsumer /\ LifespanShape
  BY DEF IInv
<1>1. ASSUME NEW r \in Requests, RequestEnds(r) PROVE NoneIsThere'
  <2>1. UNCHANGED <<lifespan, awaited, sentinel>>
    BY <1>1 DEF RequestEnds, Enqueue, Drop, FailToBuild, EndUnlogged, Ends, queueVars, lifeVars
  <2>2. UNCHANGED live \/ live' = live \cup {spawned + 1}
    BY <1>1 DEF RequestEnds, Enqueue, Drop, FailToBuild, EndUnlogged, EnsureDrainTask, Spawn, taskVars
  <2>3. awaited # spawned + 1
    BY <1>0 DEF TypeOK
  <2> QED
    BY <2>1, <2>2, <2>3 DEF NoneIsThere
<1>2. ASSUME NEW t \in live, DrainAll(t) PROVE NoneIsThere'
  BY <1>2 DEF DrainAll, taskVars, lifeVars, NoneIsThere
<1>3. ASSUME NEW t \in live, DrainToSentinel(t) \/ DrainCrashes(t) PROVE NoneIsThere'
  <2>1. live' = live \ {t} /\ UNCHANGED lifeVars
    BY <1>3 DEF DrainToSentinel, DrainCrashes
  <2>2. lifespan = "awaiting" => live \subseteq {t}
    BY <1>0 DEF SingleConsumer
  <2> QED
    BY <2>1, <2>2 DEF NoneIsThere, lifeVars
<1>4. CASE PutSentinel
  <2>1. Len(queue) \in Nat /\ sentinel' = Len(queue)
    BY <1>0, <1>4 DEF PutSentinel, TypeOK
  <2> QED
    BY <2>1 DEF NoneIsThere, NoSentinel
<1>5. CASE Startup \/ BeginShutdown \/ AwaitDrainTask \/ LoopCloses
  BY <1>5 DEF Startup, BeginShutdown, AwaitDrainTask, LoopCloses, NoneIsThere
<1>6. CASE UNCHANGED vars
  BY <1>6 DEF vars, lifeVars, taskVars, queueVars, NoneIsThere
<1> QED
  BY <1>1, <1>2, <1>3, <1>4, <1>5, <1>6 DEF Next, Drain, Shutdown

(***************************************************************************)
(* A full queue has something to take, and before None is put the task is  *)
(* there to take it or has crashed.                                        *)
(***************************************************************************)
LEMMA RoomWillCome == IInv /\ NoneIsThere => ShutdownCanGoOn
<1> SUFFICES ASSUME IInv, lifespan = "putting", Full
             PROVE  (drainTask \in live /\ queue # <<>>) \/ drainTask \in crashed
  BY DEF NoneIsThere, ShutdownCanGoOn
<1>1. sentinel = NoSentinel /\ drainTask \in live \cup crashed
  BY DEF IInv, LifespanShape
<1>2. queue # <<>>
  <2>1. Len(queue) > 0
    BY <1>1, SizeIsInt DEF Full, qsize
  <2> QED
    BY <2>1
<1> QED
  BY <1>1, <1>2

(***************************************************************************)
(* The shutdown is never stuck but for the one documented reason: what     *)
(* ShutdownEnds needs besides a fair event loop.                           *)
(***************************************************************************)
THEOREM ShutdownIsNotStuck == Spec => []ShutdownCanGoOn
<1>1. Init => NoneIsThere
  BY DEF Init, NoneIsThere
<1>2. IInv /\ NoneIsThere /\ [Next]_vars => NoneIsThere'
  BY NextNoneIsThere
<1> QED
  BY <1>1, <1>2, RoomWillCome, Invariance, PTL DEF Spec

\* No drain task has crashed, and what was put before None is with the sink.
CleanSoFar ==
  /\ crashed = {}
  /\ lifespan # "failed"
  /\ lifespan = "exited" => Len(delivered) >= flushed

LEMMA NextCleanSoFar ==
  ASSUME MaxCrashes = 0, IInv, CleanSoFar, [Next]_vars
  PROVE  CleanSoFar'
<1> USE DEF CleanSoFar
<1>1. ASSUME NEW r \in Requests, RequestEnds(r) PROVE CleanSoFar'
  BY <1>1
  DEF RequestEnds, Enqueue, Drop, FailToBuild, EndUnlogged, Ends, EnsureDrainTask, Spawn,
      queueVars, lifeVars, taskVars
<1>2. ASSUME NEW t \in live, DrainCrashes(t) PROVE FALSE
  <2>1. Cardinality(crashed) < 0
    BY <1>2 DEF DrainCrashes
  <2>2. Cardinality({}) = 0
    BY FS_EmptySet
  <2> QED
    BY <2>1, <2>2
<1>3. ASSUME NEW t \in live, Drain(t) PROVE CleanSoFar'
  <2>1. \E n \in 0..Len(queue) : HandOver(n)
    BY <1>3 DEF IInv, TypeOK, Drain, DrainAll, DrainToSentinel
  <2>2. Len(delivered') >= Len(delivered) /\ Len(delivered') \in Nat /\ Len(delivered) \in Nat
    BY <2>1, HandOverFacts DEF IInv, TypeOK
  <2>3. UNCHANGED <<crashed, lifespan, flushed>> /\ flushed \in Nat
    BY <1>3 DEF IInv, TypeOK, Drain, DrainAll, DrainToSentinel, taskVars, lifeVars
  <2> QED
    BY <2>2, <2>3
<1>4. CASE LoopCloses
  BY <1>4 DEF LoopCloses, IInv, ShutdownFlushes, queueVars
<1>5. CASE Startup \/ BeginShutdown \/ PutSentinel \/ AwaitDrainTask
  BY <1>5 DEF Startup, BeginShutdown, PutSentinel, AwaitDrainTask, EnsureDrainTask, Spawn, taskVars
<1>6. CASE UNCHANGED vars
  BY <1>6 DEF vars, taskVars, lifeVars, queueVars
<1> QED
  BY <1>1, <1>2, <1>3, <1>4, <1>5, <1>6 DEF Next, Shutdown

(***************************************************************************)
(* Where no drain task crashes, every shutdown returns normally, and when  *)
(* the process ends all that was accepted before None is with the sink.    *)
(***************************************************************************)
THEOREM CleanShutdownLosesNothing ==
  ASSUME MaxCrashes = 0
  PROVE  Spec => [](/\ lifespan # "failed"
                    /\ lifespan \in {"stopped", "exited"} => Len(delivered) >= flushed)
<1>1. Init => CleanSoFar
  BY DEF Init, CleanSoFar
<1>2. IInv /\ CleanSoFar /\ [Next]_vars => CleanSoFar'
  BY MaxCrashes = 0, NextCleanSoFar
<1>3. IInv /\ CleanSoFar => /\ lifespan # "failed"
                            /\ lifespan \in {"stopped", "exited"} => Len(delivered) >= flushed
  BY DEF IInv, ShutdownFlushes, CleanSoFar
<1> QED
  BY <1>1, <1>2, <1>3, Invariance, PTL DEF Spec

-----------------------------------------------------------------------------
(* The middleware implements EventChannel *)

\* What was accepted or dropped has ended: no request is offered twice.
Recorded == /\ dropped \subseteq ended
            /\ \A i \in 1..Len(accepted) : accepted[i] \in ended

LEMMA NextRecorded == IInv /\ Recorded /\ [Next]_vars => Recorded'
<1> SUFFICES ASSUME IInv, Recorded, [Next]_vars PROVE Recorded'
  OBVIOUS
<1>1. ASSUME NEW r \in Requests, Enqueue(r) PROVE Recorded'
  <2>1. /\ ended' = ended \cup {r} /\ dropped' = dropped
        /\ accepted' = Append(accepted, r) /\ accepted \in Seq(Requests)
    BY <1>1 DEF Enqueue, Ends, IInv, TypeOK
  <2>2. /\ Len(accepted') = Len(accepted) + 1 /\ Len(accepted) \in Nat
        /\ \A i \in 1..Len(accepted) : accepted'[i] = accepted[i]
        /\ accepted'[Len(accepted) + 1] = r
    BY <2>1, AppendProperties
  <2> QED
    BY <2>1, <2>2 DEF Recorded
<1>2. ASSUME NEW r \in Requests, Drop(r) \/ FailToBuild(r) \/ EndUnlogged(r)
      PROVE  Recorded'
  <2>1. /\ ended' = ended \cup {r} /\ dropped' \subseteq dropped \cup {r}
        /\ accepted' = accepted
    BY <1>2 DEF Drop, FailToBuild, EndUnlogged, Ends, queueVars
  <2> QED
    BY <2>1 DEF Recorded
<1>3. ASSUME NEW t \in live, Drain(t) \/ DrainCrashes(t) PROVE Recorded'
  BY <1>3 DEF Drain, DrainAll, DrainToSentinel, DrainCrashes, HandOver, Recorded
<1>4. CASE Startup \/ BeginShutdown \/ Shutdown \/ LoopCloses
  BY <1>4 DEF Startup, BeginShutdown, Shutdown, PutSentinel, AwaitDrainTask, LoopCloses,
              queueVars, Recorded
<1>5. CASE UNCHANGED vars
  BY <1>5 DEF vars, queueVars, Recorded
<1> QED
  BY <1>1, <1>2, <1>3, <1>4, <1>5 DEF Next, RequestEnds

\* Handing over a batch is one hand-over of the channel, or none.
LEMMA HandOverImplements ==
  ASSUME TypeOK, InOrder, NEW n \in 0..Len(queue), HandOver(n), dropped' = dropped
  PROVE  [Channel!ChannelNext]_(Channel!channelVars)
<1>1. /\ delivered' \in Seq(Requests) /\ accepted' = accepted
      /\ Len(delivered') = Len(delivered) + n
      /\ delivered' = SubSeq(accepted, 1, Len(delivered')) /\ InOrder'
  BY HandOverFacts
<1>2. Len(delivered) \in Nat /\ delivered \in Seq(Requests) /\ Len(queue) \in Nat /\ n \in Nat
  BY DEF TypeOK
<1>3. CASE n = 0
  <2>1. Len(delivered') = Len(delivered)
    BY <1>1, <1>2, <1>3
  <2>2. \A i \in 1..Len(delivered) : delivered'[i] = delivered[i]
    BY <1>1, <2>1 DEF InOrder
  <2>3. delivered' = delivered
    BY <1>1, <1>2, <2>1, <2>2, SeqEqual
  <2> QED
    BY <1>1, <2>3 DEF Channel!channelVars
<1>4. CASE n # 0
  <2>1. Len(delivered') \in (Len(delivered) + 1)..Len(accepted)
    BY <1>1, <1>2, <1>4 DEF InOrder
  <2>2. Channel!HandOverUpTo(Len(delivered'))
    BY <1>1 DEF Channel!HandOverUpTo
  <2> QED
    BY <2>1, <2>2 DEF Channel!ChannelNext
<1> QED
  BY <1>3, <1>4

LEMMA StepImplements ==
  IInv /\ Recorded /\ [Next]_vars => [Channel!ChannelNext]_(Channel!channelVars)
<1> SUFFICES ASSUME IInv, Recorded, [Next]_vars
             PROVE  [Channel!ChannelNext]_(Channel!channelVars)
  OBVIOUS
<1>1. /\ TypeOK /\ InOrder /\ Len(queue) \in Nat /\ Len(accepted) \in Nat
      /\ Len(delivered) \in Nat /\ maxsize \in Int
      /\ Len(accepted) - Len(delivered) = Len(queue)
  BY SizeIsInt DEF IInv, TypeOK, InOrder
<1>2. ASSUME NEW r \in Requests, r \notin ended PROVE Channel!IsNew(r)
  BY <1>2 DEF Recorded, Channel!IsNew
<1>3. ASSUME NEW r \in Requests, Enqueue(r) PROVE Channel!Accept(r)
  <2>1. /\ r \notin ended /\ ~Full /\ accepted' = Append(accepted, r)
        /\ delivered' = delivered /\ dropped' = dropped
    BY <1>3 DEF Enqueue, Ends
  <2>2. maxsize > 0 => Len(queue) < maxsize
    BY <1>1, <2>1 DEF Full, qsize
  <2> QED
    BY <1>1, <1>2, <2>1, <2>2 DEF Channel!Accept, Channel!Waiting
<1>4. ASSUME NEW r \in Requests, Drop(r) PROVE Channel!TurnAway(r)
  <2>1. /\ r \notin ended /\ Full /\ dropped' = dropped \cup {r}
        /\ accepted' = accepted /\ delivered' = delivered
    BY <1>4 DEF Drop, Ends, queueVars
  <2>2. maxsize > 0 /\ Len(queue) + 1 >= maxsize
    BY <1>1, <2>1 DEF Full, qsize
  <2> QED
    BY <1>1, <1>2, <2>1, <2>2 DEF Channel!TurnAway, Channel!Waiting
<1>5. ASSUME NEW r \in Requests, FailToBuild(r) \/ EndUnlogged(r)
      PROVE  UNCHANGED Channel!channelVars
  BY <1>5 DEF FailToBuild, EndUnlogged, queueVars, Channel!channelVars
<1>6. ASSUME NEW t \in live, Drain(t) \/ DrainCrashes(t)
      PROVE  [Channel!ChannelNext]_(Channel!channelVars)
  <2>1. \E n \in 0..Len(queue) : HandOver(n)
    BY <1>1, <1>6
    DEF TypeOK, Drain, DrainAll, DrainToSentinel, DrainCrashes, Ahead
  <2>2. dropped' = dropped
    BY <1>6 DEF Drain, DrainAll, DrainToSentinel, DrainCrashes
  <2> QED
    BY <1>1, <2>1, <2>2, HandOverImplements
<1>7. CASE Startup \/ BeginShutdown \/ Shutdown \/ LoopCloses
  BY <1>7 DEF Startup, BeginShutdown, Shutdown, PutSentinel, AwaitDrainTask, LoopCloses,
              queueVars, Channel!channelVars
<1>8. CASE UNCHANGED vars
  BY <1>8 DEF vars, queueVars, Channel!channelVars
<1> QED
  BY <1>3, <1>4, <1>5, <1>6, <1>7, <1>8 DEF Next, RequestEnds, Channel!ChannelNext

(***************************************************************************)
(* The middleware implements the first-in first-out, lossy channel of      *)
(* maxsize places, whatever requests, drain tasks and shutdown do.         *)
(***************************************************************************)
THEOREM ImplementsChannel == Spec => IsChannel
<1>1. Init => Recorded /\ Channel!ChannelInit
  BY DEF Init, Recorded, Channel!ChannelInit
<1>2. Spec => []IInv
  BY Invariance
<1>3. Spec => []Recorded
  BY <1>1, <1>2, NextRecorded, PTL DEF Spec
<1> QED
  BY <1>1, <1>2, <1>3, StepImplements, PTL DEF Spec, IsChannel, Channel!ChannelSpec

=============================================================================
