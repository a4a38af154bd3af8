----------------------------- MODULE HttpLogging -----------------------------
(***************************************************************************)
(* HttpLoggingMiddleware on its asyncio event loop: finished requests put  *)
(* an event into a bounded queue and never wait; a background drain task   *)
(* hands the events to the sink; the lifespan starts that task and, at     *)
(* shutdown, puts None behind the last event and waits for the task.       *)
(*                                                                         *)
(* One action is what the loop runs without a suspension.  queue.get() of  *)
(* a queue that is not empty does not suspend, so a drain task that runs   *)
(* works through everything that waits.                                    *)
(***************************************************************************)
EXTENDS Integers, Sequences, FiniteSets

CONSTANTS Requests,      \* HTTP requests of the satellite's life
          QueueSizeArg,  \* the queue_size argument; None is 0
          QueueSizeEnv,  \* what _env_int makes of the environment
          MaxCrashes     \* bound on drain tasks ended by a BaseException

ASSUME SizesAreInts == QueueSizeArg \in Int /\ QueueSizeEnv \in Int
ASSUME MaxCrashesType == MaxCrashes \in Nat

VARIABLES
  ended,      \* requests whose response is complete
  queue,      \* the events waiting, without the None
  sentinel,   \* how many events wait before the None; NoSentinel if none
  drainTask,  \* self._drain_task; NoTask if None
  live,       \* drain tasks that are not done
  crashed,    \* drain tasks that ended with an exception
  spawned,    \* drain tasks created so far, also the name of the newest
  lifespan,   \* how far _run_lifespan is
  awaited,    \* the task _run_lifespan awaits
  accepted,   \* history: events put, in that order
  delivered,  \* history: events given to emit_http_event
  dropped,    \* requests counted by dropped_events_counter
  failed,     \* requests counted by sink_failure_counter
  flushed     \* history: events put when None was

queueVars == <<queue, sentinel, accepted, delivered>>
taskVars == <<drainTask, live, crashed, spawned>>
lifeVars == <<lifespan, awaited, flushed>>
vars == <<ended, queueVars, taskVars, lifeVars, dropped, failed>>

NoSentinel == -1
NoTask == 0
Phases == {"down", "up", "putting", "awaiting", "stopped", "failed", "exited"}

TypeOK ==
  /\ ended \in SUBSET Requests
  /\ queue \in Seq(Requests)
  /\ sentinel = NoSentinel \/ sentinel \in 0..Len(queue)
  /\ spawned \in Nat
  /\ drainTask \in 0..spawned
  /\ live \in SUBSET (1..spawned)
  /\ crashed \in SUBSET (1..spawned)
  /\ lifespan \in Phases
  /\ awaited \in 0..spawned
  /\ accepted \in Seq(Requests)
  /\ delivered \in Seq(Requests)
  /\ dropped \in SUBSET Requests
  /\ failed \in SUBSET Requests
  /\ flushed \in Nat

Init ==
  /\ ended = {} /\ dropped = {} /\ failed = {}
  /\ queue = <<>> /\ sentinel = NoSentinel /\ accepted = <<>> /\ delivered = <<>>
  /\ drainTask = NoTask /\ live = {} /\ crashed = {} /\ spawned = 0
  /\ lifespan = "down" /\ awaited = NoTask /\ flushed = 0

-----------------------------------------------------------------------------
(* The queue *)

\* An argument of 0 counts as none given; a maxsize of 0 or less is no limit.
maxsize == IF QueueSizeArg # 0 THEN QueueSizeArg ELSE QueueSizeEnv

qsize == Len(queue) + (IF sentinel = NoSentinel THEN 0 ELSE 1)

\* Mutant: one event too many fits.
FullOffByOne == maxsize > 0 /\ qsize > maxsize

Full == maxsize > 0 /\ qsize >= maxsize

\* Mutant: the queue is thrown away with the first batch.
HandOverAndClear(n) == /\ delivered' = delivered \o SubSeq(queue, 1, n)
                       /\ queue' = <<>>
                       /\ UNCHANGED accepted

\* The first n events of the queue go to the sink.
HandOver(n) == /\ delivered' = delivered \o SubSeq(queue, 1, n)
               /\ queue' = SubSeq(queue, n + 1, Len(queue))
               /\ UNCHANGED accepted

-----------------------------------------------------------------------------
(* The drain task *)

Spawn == /\ spawned' = spawned + 1
         /\ drainTask' = spawned + 1
         /\ live' = live \cup {spawned + 1}
         /\ UNCHANGED crashed

\* Mutant: the task is created without looking at the one there is.
EnsureAnother == Spawn

\* Mutant: only the lifespan creates the task.
EnsureNothing == UNCHANGED taskVars

EnsureDrainTask == IF drainTask = NoTask \/ drainTask \notin live
                   THEN Spawn
                   ELSE UNCHANGED taskVars

DrainAll(t) ==
  /\ t \in live
  /\ sentinel = NoSentinel /\ queue # <<>>
  /\ HandOver(Len(queue))
  /\ UNCHANGED <<ended, sentinel, taskVars, lifeVars, dropped, failed>>

\* Mutant: None is skipped, the task goes on.
DrainPastSentinel(t) ==
  /\ t \in live
  /\ sentinel # NoSentinel
  /\ HandOver(Len(queue))
  /\ sentinel' = NoSentinel
  /\ UNCHANGED <<ended, taskVars, lifeVars, dropped, failed>>

\* Mutant: None is looked at but not taken from the queue.
DrainLeavesSentinel(t) ==
  /\ t \in live
  /\ sentinel # NoSentinel
  /\ HandOver(sentinel)
  /\ UNCHANGED sentinel
  /\ live' = live \ {t}
  /\ UNCHANGED <<ended, drainTask, crashed, spawned, lifeVars, dropped, failed>>

\* None ends the task; what was put behind it stays.
DrainToSentinel(t) ==
  /\ t \in live
  /\ sentinel # NoSentinel
  /\ HandOver(sentinel)
  /\ sentinel' = NoSentinel
  /\ live' = live \ {t}
  /\ UNCHANGED <<ended, drainTask, crashed, spawned, lifeVars, dropped, failed>>

Ahead == 1..(IF sentinel = NoSentinel THEN Len(queue) ELSE sentinel)

\* The sink raises a BaseException for the n-th event: no except catches it.
DrainCrashes(t) ==
  /\ t \in live
  /\ Cardinality(crashed) < MaxCrashes
  /\ \E n \in Ahead :
       /\ HandOver(n)
       /\ sentinel' = IF sentinel = NoSentinel THEN NoSentinel ELSE sentinel - n
  /\ live' = live \ {t}
  /\ crashed' = crashed \cup {t}
  /\ UNCHANGED <<ended, drainTask, spawned, lifeVars, dropped, failed>>

-----------------------------------------------------------------------------
(* Requests: the end of _call_http.  What comes before changes no state of *)
(* the middleware.                                                         *)

Ends(r) == /\ r \in Requests \ ended
           /\ lifespan # "exited"
           /\ ended' = ended \cup {r}
           /\ UNCHANGED lifeVars

\* Completed or errored, and the queue has room.
Enqueue(r) ==
  /\ Ends(r)
  /\ EnsureDrainTask
  /\ ~Full
  /\ queue' = Append(queue, r)
  /\ accepted' = Append(accepted, r)
  /\ UNCHANGED <<sentinel, delivered, dropped, failed>>

\* Mutant: the oldest event makes room and is the one counted.
DropOldest(r) ==
  /\ Ends(r)
  /\ EnsureDrainTask
  /\ Full /\ queue # <<>>
  /\ dropped' = dropped \cup {Head(queue)}
  /\ queue' = Append(Tail(queue), r)
  /\ accepted' = Append(accepted, r)
  /\ UNCHANGED <<sentinel, delivered, failed>>

\* put_nowait raises QueueFull.
Drop(r) ==
  /\ Ends(r)
  /\ EnsureDrainTask
  /\ Full
  /\ dropped' = dropped \cup {r}
  /\ UNCHANGED <<queueVars, failed>>

\* AccessLogEntry or HttpEvent refuses the fields.
FailToBuild(r) ==
  /\ Ends(r)
  /\ EnsureDrainTask
  /\ failed' = failed \cup {r}
  /\ UNCHANGED <<queueVars, dropped>>

\* An excluded content type, or the request's task is cancelled.
EndUnlogged(r) ==
  /\ Ends(r)
  /\ UNCHANGED <<queueVars, taskVars, dropped, failed>>

-----------------------------------------------------------------------------
(* The lifespan *)

Startup ==
  /\ lifespan = "down"
  /\ lifespan' = "up"
  /\ EnsureDrainTask
  /\ UNCHANGED <<ended, queueVars, awaited, flushed, dropped, failed>>

\* The application's lifespan returns or raises: the finally clause.
BeginShutdown ==
  /\ lifespan = "up"
  /\ lifespan' = IF drainTask = NoTask THEN "stopped" ELSE "putting"
  /\ UNCHANGED <<ended, queueVars, taskVars, awaited, flushed, dropped, failed>>

\* Mutant: None goes in front of the events that wait.
PutSentinelFirst ==
  /\ lifespan = "putting"
  /\ ~Full
  /\ sentinel' = 0
  /\ flushed' = Len(accepted)
  /\ awaited' = drainTask
  /\ lifespan' = "awaiting"
  /\ UNCHANGED <<ended, queue, accepted, delivered, taskVars, dropped, failed>>

\* queue.put waits for room; then the task to await is read.
PutSentinel ==
  /\ lifespan = "putting"
  /\ ~Full
  /\ sentinel' = Len(queue)
  /\ flushed' = Len(accepted)
  /\ awaited' = drainTask
  /\ lifespan' = "awaiting"
  /\ UNCHANGED <<ended, queue, accepted, delivered, taskVars, dropped, failed>>

\* The await returns, or raises what ended the task.
AwaitDrainTask ==
  /\ lifespan = "awaiting"
  /\ awaited \notin live
  /\ IF awaited \in crashed
     THEN lifespan' = "failed" /\ UNCHANGED drainTask
     ELSE lifespan' = "stopped" /\ drainTask' = NoTask
  /\ UNCHANGED <<ended, queueVars, live, crashed, spawned, awaited, flushed, dropped, failed>>

\* The server closes the loop, which cancels every task left.
LoopCloses ==
  /\ lifespan \in {"stopped", "failed"}
  /\ lifespan' = "exited"
  /\ live' = {}
  /\ UNCHANGED <<ended, queueVars, drainTask, crashed, spawned, awaited, flushed, dropped, failed>>

-----------------------------------------------------------------------------

RequestEnds(r) == Enqueue(r) \/ Drop(r) \/ FailToBuild(r) \/ EndUnlogged(r)
Drain(t) == DrainAll(t) \/ DrainToSentinel(t)
Shutdown == PutSentinel \/ AwaitDrainTask

Next == \/ \E r \in Requests : RequestEnds(r)
        \/ \E t \in live : Drain(t) \/ DrainCrashes(t)
        \/ Startup \/ BeginShutdown \/ Shutdown \/ LoopCloses

Spec == Init /\ [][Next]_vars

(***************************************************************************)
(* The event loop runs every ready task: a drain task that has something   *)
(* to take and the lifespan once what it waits for has happened.  Requests *)
(* need not end and the server need not shut down.                         *)
(***************************************************************************)
FairSpec == Spec /\ WF_vars(\E t \in live : Drain(t)) /\ WF_vars(Shutdown)

-----------------------------------------------------------------------------
(* Properties *)

(***************************************************************************)
(* The events handed to the sink, followed by those that wait, are the     *)
(* events accepted: none is lost, repeated or overtaken in the queue,      *)
(* whatever tasks crash, restart or run side by side after the shutdown    *)
(* (http_middleware.py, _enqueue and _drain_queue).                        *)
(***************************************************************************)
InOrder ==
  /\ Len(accepted) = Len(delivered) + Len(queue)
  /\ \A i \in 1..Len(delivered) : delivered[i] = accepted[i]
  /\ \A i \in 1..Len(queue) : queue[i] = accepted[Len(delivered) + i]

(***************************************************************************)
(* The queue never holds more than maxsize, the None included: memory is   *)
(* bounded under a burst.                                                  *)
(***************************************************************************)
Bounded == maxsize > 0 => qsize <= maxsize

(***************************************************************************)
(* Until the lifespan has given the task up at most one drain task is not  *)
(* done, and it is the one self._drain_task names: a single consumer,      *)
(* however often a crashed task is replaced while requests come in.        *)
(***************************************************************************)
SingleConsumer == lifespan \notin {"stopped", "failed", "exited"} => live \subseteq {drainTask}

(***************************************************************************)
(* When _run_lifespan returns without an exception, every event put before *)
(* the None has been given to the sink, though earlier drain tasks may     *)
(* have crashed and requests may still come in.                            *)
(***************************************************************************)
ShutdownFlushes == lifespan = "stopped" => Len(delivered) >= flushed

(***************************************************************************)
(* What the shutdown waits for can still happen: there is room for None,   *)
(* or a drain task that will make room, unless that task has crashed; and  *)
(* as long as the task awaited is not done, the None that ends it is in    *)
(* the queue, whichever tasks have come and gone (_run_lifespan).          *)
(***************************************************************************)
ShutdownCanGoOn ==
  /\ lifespan = "putting" => \/ ~Full
                             \/ drainTask \in live /\ queue # <<>>
                             \/ drainTask \in crashed
  /\ lifespan = "awaiting" => awaited \notin live \/ sentinel # NoSentinel

(***************************************************************************)
(* The middleware is an EventChannel of maxsize places: its promise to the *)
(* sink, for every interleaving of requests, drain tasks and shutdown.     *)
(***************************************************************************)
Channel == INSTANCE EventChannel WITH Events <- Requests, Capacity <- maxsize

IsChannel == Channel!ChannelSpec

(***************************************************************************)
(* An event accepted before the shutdown reaches the sink, unless the drain*)
(* task has crashed and no later request replaces it, or replaces it too   *)
(* late for the loop to run the new one.                                   *)
(***************************************************************************)
AcceptedIsDelivered ==
  \A i \in 1..Cardinality(Requests) :
    Len(accepted) >= i /\ lifespan \in {"down", "up"}
      ~> \/ Len(delivered) >= i
         \/ crashed # {} /\ lifespan = "exited"
         \/ [](drainTask \in crashed)

(***************************************************************************)
(* The shutdown ends.  It hangs in one case only: the drain task has       *)
(* crashed, the queue is full and no request comes to replace the task, so *)
(* put(None) waits for ever.                                               *)
(***************************************************************************)
ShutdownEnds ==
  lifespan = "putting" ~> \/ lifespan \in {"stopped", "failed", "exited"}
                          \/ drainTask \in crashed /\ Full
=============================================================================
