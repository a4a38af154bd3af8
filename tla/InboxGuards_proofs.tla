-------------------------- MODULE InboxGuards_proofs --------------------------
(***************************************************************************)
(* What the documentation promises of the inbox and the code keeps only    *)
(* under conditions: each theorem names the condition that is enough, for  *)
(* any numbers of requests, passes and submissions and any faults left.    *)
(***************************************************************************)
EXTENDS InboxRecords_proofs

(***************************************************************************)
(* The inbox as if router and script took a lock on it and wrote to it in  *)
(* one piece.  The lock: no request appends while a pass with --commit is  *)
(* between reading the file and writing it back, and one such pass runs at *)
(* a time.  One piece: an append leaves no fragment, and a pass does not   *)
(* end between truncating the file and having written it.                  *)
(***************************************************************************)
LocksInbox ==
  /\ \A r \in Requests, p \in Replays :
       step[r] = "fallback" /\ step'[r] = "returned" => ~Rewriting(p)
  /\ \A p, q \in Replays : Rewriting(p)' /\ Rewriting(q)' => p = q

WritesWhole ==
  /\ ending' # "torn"
  /\ \A p \in Replays : ~(stage[p] = "truncated" /\ ReplayDies(p))

Guarded == LocksInbox /\ WritesWhole

\* No line has been put where it can be destroyed.
NoneExposed ==
  /\ exposed = {}
  /\ ending # "torn"
  /\ \A p, q \in Replays : Rewriting(p) /\ Rewriting(q) => p = q

(***************************************************************************)
(* Each of the three writers of the inbox exposes a line only unguarded,   *)
(* and its reader only where a text holds a line end of its own.           *)
(***************************************************************************)
LEMMA NextNoneExposed ==
  ASSUME Splits = {}, TypeOK, Shape, NoneExposed, [Next]_vars, [Guarded]_vars
  PROVE  NoneExposed'
<1>1. CASE UNCHANGED vars
  BY <1>1
  DEF vars, dispatchVars, fileVars, inboxVars, replayVars, NoneExposed, Rewriting
<1>2. CASE Guarded /\ Next
  <2> SUFFICES exposed' = {}
    BY <1>2 DEF Guarded, LocksInbox, WritesWhole, NoneExposed
  <2> USE ActorsDistinct, <1>2
  <2> USE DEF NoneExposed, fileVars, inboxVars, dispatchVars
  <2>1. ASSUME NEW r \in Requests, Submit(r)
        PROVE  exposed' = {}
    BY <2>1 DEF Submit
  <2>2. ASSUME NEW r \in Requests, step[r] = "fallback", step'[r] = "returned"
        PROVE  ~Unseen(r)
    BY <2>2 DEF Guarded, LocksInbox, Unseen
  <2>3. ASSUME NEW r \in Requests, WorkerDies(r, Unseen(r))
        PROVE  exposed' = {}
    <3>1. CASE step[r] = "fallback"
      <4>1. step'[r] = "returned"
        BY <2>3 DEF WorkerDies, Return, GoTo, TypeOK, DispatchTypeOK, Callers
      <4> QED
        BY <2>2, <2>3, <3>1, <4>1 DEF WorkerDies, AppendToInbox, AppendBreaksOff
    <3> QED
      BY <2>3, <3>1 DEF WorkerDies
  <2>4. ASSUME NEW d \in Callers, Queue(d, d \in Requests /\ Unseen(d))
        PROVE  exposed' = {}
    <3>1. d \in Requests => step'[d] = "returned"
      BY <2>4 DEF Queue, Return, GoTo, TypeOK, DispatchTypeOK, Callers
    <3> QED
      BY <2>2, <2>4, <3>1 DEF Queue, AppendToInbox
  <2>5. ASSUME NEW d \in Callers, CallStep(d) \/ CallFault(d)
        PROVE  exposed' = {}
    BY <2>5
    DEF CallStep, CallFault, FoundExisting, FoundNothing, GhRejectsArgv, GhSends, CreateLands,
        GhSucceeds, GhMissing, GhFails, QueueRaises, AppendBreaksOff
  <2>6. ASSUME NEW p \in Replays, WriteBack(p)
        PROVE  exposed' = {}
    <3>1. Rewriting(p)
      BY <2>6 DEF WriteBack, Shape, Rewriting
    <3> QED
      BY <2>6, <3>1 DEF WriteBack, UnseenBesides
  <2>7. ASSUME NEW p \in Replays, ReplayDies(p)
        PROVE  exposed' = {}
    BY <2>7 DEF ReplayDies, Guarded, WritesWhole
  <2>8. ASSUME NEW p \in Replays,
               \/ \E c \in BOOLEAN : StartPass(p, c)
               \/ \E l \in Readable : KeepUnparsed(p, l)
               \/ ParseRaises(p)
               \/ \E l \in Lines : SkipFiled(p, l) \/ KeepInDryRun(p, l) \/ Dispatch(p, l)
               \/ TakeResult(p) \/ AbortPass(p) \/ EndDryRun(p) \/ Truncate(p)
        PROVE  exposed' = {}
    BY <2>8
    DEF StartPass, SplitLines, KeepUnparsed, ParseRaises, SkipFiled, KeepInDryRun, Dispatch,
        TakeResult, AbortPass, EndDryRun, Truncate
  <2> QED
    BY <2>1, <2>3, <2>4, <2>5, <2>6, <2>7, <2>8 DEF Next, CallProgress, ReplayStep
<1> QED
  BY <1>1, <1>2

LEMMA InitNoneExposed == Init => NoneExposed
  BY DEF Init, DispatchInit, ReplayInit, NoneExposed, Rewriting

\* A line that is not exposed is filed, in the inbox or with a pass.
LEMMA UnexposedIsKept == QueuedNotLost /\ NoneExposed => NothingLost
  BY DEF QueuedNotLost, NoneExposed, NothingLost, SafeInInbox, BeingRewritten, Held

(***************************************************************************)
(* "nothing the operator typed is lost" holds of an inbox that is locked   *)
(* and written in one piece, as long as no text holds one of the line ends *)
(* at which only reading cuts (an inbox read with split("\n") would need no *)
(* such condition): gh and the search may fail, requests may be sent again *)
(* and processes may die anywhere else.  Not lost is not yet filed: a text *)
(* that outgrew the payload is still in the inbox, where it is for good.   *)
(***************************************************************************)
THEOREM NothingLostWhenGuarded ==
  ASSUME Splits = {}
  PROVE  Spec /\ [][Guarded]_vars => []NothingLost
<1>1. IInv /\ NoneExposed /\ [Next]_vars /\ [Guarded]_vars => NoneExposed'
  BY Splits = {}, NextNoneExposed DEF IInv
<1>2. IInv /\ NoneExposed => NothingLost
  BY UnexposedIsKept DEF IInv
<1> QED
  BY <1>1, <1>2, InitNoneExposed, Invariance, PTL DEF Spec

-----------------------------------------------------------------------------
(* Deduplication *)

(***************************************************************************)
(* "this submission_id was found to already have an issue": of its own,    *)
(* where no operator's text cites the id of another submission.            *)
(***************************************************************************)
THEOREM OwnIssueUnlessQuoted ==
  ASSUME \A t \in Submissions : Quotes[t] \subseteq {t}
  PROVE  Spec => []DedupIsOwnIssue
<1>1. \A s \in Submissions : Mentioned(s) => IsFiled(s)
  BY DEF Mentioned, BodyIds
<1>2. ASSUME IInv PROVE DedupIsOwnIssue
  <2>1. \A l \in Lines : SidOf[l] \in Submissions
    BY SidOfType
  <2>2. \A l \in archive : l \in Lines
    BY <1>2 DEF IInv, TypeOK, ReplayTypeOK
  <2>3. \A r \in Requests : r \in Callers /\ r \in Lines /\ Sub(r) = SidOf[r]
    BY DEF Callers, Lines, Sub, LineOf
  <2> QED
    BY <1>1, <1>2, <2>1, <2>2, <2>3 DEF IInv, CallsAreTrue, ArchivedIsFiled, DedupIsOwnIssue
<1> QED
  BY <1>2, Invariance, PTL

-----------------------------------------------------------------------------
(* Passes that reach their end *)

(***************************************************************************)
(* What else could end a pass: a text that is no argv, a piece of a text   *)
(* that is JSON and no object, an append refused by the disk, a kill or    *)
(* another exception of the script.                                        *)
(***************************************************************************)
NothingRaises ==
  Unspawnable = {} /\ Strays = {} /\ FaultKinds \intersect {"disk", "crash"} = {}

NoneRaised == \A p \in Replays : outcome[p] # "raised" /\ StrayLine \notin todo[p]

LEMMA NextNoneRaised ==
  ASSUME NothingRaises, TypeOK, NoneRaised, [Next]_vars
  PROVE  NoneRaised'
<1> USE ActorsDistinct
<1> USE DEF NoneRaised, TypeOK, DispatchTypeOK, ReplayTypeOK, Callers, Return, dispatchVars,
            replayVars
<1>1. ASSUME NEW d \in Callers, GhRejectsArgv(d) \/ QueueRaises(d)
      PROVE  FALSE
  BY <1>1 DEF NothingRaises, GhRejectsArgv, QueueRaises, Fault
<1>2. ASSUME NEW d \in Callers,
             \/ FoundExisting(d) \/ FoundNothing(d) \/ GhSends(d) \/ CreateLands(d)
             \/ GhSucceeds(d) \/ GhMissing(d) \/ GhFails(d)
             \/ Queue(d, d \in Requests /\ Unseen(d)) \/ WorkerDies(d, Unseen(d)),
             UNCHANGED replayVars
      PROVE  NoneRaised'
  BY <1>2
  DEF FoundExisting, FoundNothing, GhSends, CreateLands, GhSucceeds, GhMissing, GhFails,
      Queue, WorkerDies
<1>3. ASSUME NEW r \in Requests, Submit(r), UNCHANGED replayVars
      PROVE  NoneRaised'
  BY <1>3 DEF Submit, Sanitize
<1>4. ASSUME NEW p \in Replays, NEW c \in BOOLEAN, StartPass(p, c)
      PROVE  NoneRaised'
  <2>1. StrayLine \notin ReadBack
    BY DEF NothingRaises, ReadBack, SplitLines
  <2> QED
    BY <1>4, <2>1 DEF StartPass
<1>5. ASSUME NEW p \in Replays, ReplayStep(p) \/ ReplayDies(p)
      PROVE  NoneRaised'
  <2>1. \E o \in {"none", "refused"} : outcome' \in {outcome, [outcome EXCEPT ![p] = o]}
    BY <1>5
    DEF ReplayStep, ReplayDies, KeepUnparsed, ParseRaises, SkipFiled, KeepInDryRun, Dispatch,
        TakeResult, AbortPass, EndDryRun, Truncate, WriteBack, Sanitize, ResetCall
  <2>2. \A q \in Replays : todo'[q] \subseteq todo[q]
    BY <1>5
    DEF ReplayStep, ReplayDies, KeepUnparsed, ParseRaises, SkipFiled, KeepInDryRun, Dispatch,
        TakeResult, AbortPass, EndDryRun, Truncate, WriteBack, Leave, Forget
  <2> QED
    BY <2>1, <2>2
<1> QED
  BY <1>1, <1>2, <1>3, <1>4, <1>5 DEF Next, CallProgress, CallStep, CallFault, vars

\* What takes a pass back to "idle" is then one of its two proper ends.
LEMMA EndsProperly ==
  ASSUME NothingRaises, TypeOK, NoneRaised, Next, NEW p \in Replays,
         stage[p] # "idle", stage'[p] = "idle"
  PROVE  EndDryRun(p) \/ WriteBack(p)
<1> USE DEF TypeOK, ReplayTypeOK
<1>1. ~ReplayDies(p) /\ ~AbortPass(p) /\ ~ParseRaises(p)
  BY DEF NothingRaises, NoneRaised, ReplayDies, AbortPass, ParseRaises, Fault
<1>2. stage' # stage
  OBVIOUS
<1>3. ASSUME NEW q \in Replays, NEW c \in BOOLEAN, StartPass(q, c)
      PROVE  FALSE
  BY <1>3 DEF StartPass
<1>4. ASSUME NEW q \in Replays, ReplayStep(q) \/ ReplayDies(q)
      PROVE  q = p
  BY <1>4
  DEF ReplayStep, ReplayDies, KeepUnparsed, ParseRaises, SkipFiled, KeepInDryRun, Dispatch,
      TakeResult, AbortPass, EndDryRun, Truncate, WriteBack, Forget
<1>5. ReplayStep(p)
  BY <1>1, <1>2, <1>3, <1>4 DEF Next, replayVars
<1> QED
  BY <1>1, <1>5
  DEF ReplayStep, KeepUnparsed, SkipFiled, KeepInDryRun, Dispatch, TakeResult, Truncate

(***************************************************************************)
(* Where nothing of this kind happens, a pass that has begun reaches its   *)
(* end, the rewrite or that of a dry run, and nothing else ends it: then   *)
(* no line keeps the others from being looked at, which the replay does    *)
(* not ensure for itself (replay-feedback-inbox.py, the loop of replay).   *)
(* A file that is not UTF-8 is not among the conditions: it keeps a pass   *)
(* from beginning.                                                         *)
(***************************************************************************)
THEOREM PassesRunThrough ==
  ASSUME NothingRaises
  PROVE  Spec => [][\A p \in Replays : stage[p] # "idle" /\ stage'[p] = "idle"
                                         => EndDryRun(p) \/ WriteBack(p)]_vars
<1>1. Init => NoneRaised
  BY DEF Init, DispatchInit, ReplayInit, NoneRaised, Callers
<1>2. IInv /\ NoneRaised /\ [Next]_vars => NoneRaised'
  BY NothingRaises, NextNoneRaised DEF IInv
<1>3. IInv /\ NoneRaised /\ [Next]_vars =>
        [\A p \in Replays : stage[p] # "idle" /\ stage'[p] = "idle"
                              => EndDryRun(p) \/ WriteBack(p)]_vars
  BY NothingRaises, EndsProperly DEF IInv
<1> QED
  BY <1>1, <1>2, <1>3, Invariance, PTL DEF Spec

-----------------------------------------------------------------------------
(* Calls and passes count down *)

\* What is left of a call: every step of its own takes it nearer to 0.
CallLeft(d) ==
  CASE step[d] = "search"   -> 6
    [] step[d] = "create"   -> 5
    [] step[d] = "await"    -> IF d \in landed THEN 3 ELSE 4
    [] step[d] = "fallback" -> 2
    [] step[d] = "returned" -> 1
    [] step[d] = "idle"     -> 0

CallAdvances(d) ==
  /\ step[d] # "idle" => CallLeft(d)' <= CallLeft(d)
  /\ CallProgress(d) \/ CallFault(d) => CallLeft(d)' < CallLeft(d)

PassAdvances(p) ==
  /\ stage[p] # "idle" => todo'[p] \subseteq todo[p]
  /\ ReplayStep(p) => \/ stage[p] = "truncated" /\ stage'[p] = "idle"
                      \/ stage[p] = "pass" /\ stage'[p] # "pass"
                      \/ todo'[p] # todo[p]
                      \/ CallLeft(p)' < CallLeft(p)

\* CallLeft for each place a call can be at.
LEMMA LeftValues ==
  ASSUME NEW d, step[d] \in Steps
  PROVE  /\ CallLeft(d) \in 0..6
         /\ step[d] = "idle" => CallLeft(d) = 0
         /\ step[d] = "search" => CallLeft(d) = 6
         /\ step[d] = "create" => CallLeft(d) = 5
         /\ step[d] = "await" => CallLeft(d) = IF d \in landed THEN 3 ELSE 4
         /\ step[d] = "fallback" => CallLeft(d) = 2
         /\ step[d] = "returned" => CallLeft(d) = 1
  BY DEF CallLeft, Steps

LEMMA LeftValuesAfter ==
  ASSUME NEW d, step'[d] \in Steps
  PROVE  /\ CallLeft(d)' \in 0..6
         /\ step'[d] = "idle" => CallLeft(d)' = 0
         /\ step'[d] = "search" => CallLeft(d)' = 6
         /\ step'[d] = "create" => CallLeft(d)' = 5
         /\ step'[d] = "await" => CallLeft(d)' = IF d \in landed' THEN 3 ELSE 4
         /\ step'[d] = "fallback" => CallLeft(d)' = 2
         /\ step'[d] = "returned" => CallLeft(d)' = 1
  BY DEF CallLeft, Steps

\* Every step of a call counts down, and no call's is undone by another's.
LEMMA OwnStepCounts ==
  ASSUME TypeOK, TypeOK', NEW d \in Callers, CallProgress(d) \/ CallFault(d)
  PROVE  /\ CallLeft(d)' < CallLeft(d)
         /\ \A e \in Callers \ {d} : CallLeft(e)' = CallLeft(e)
<1> step[d] \in Steps /\ step'[d] \in Steps
  BY DEF TypeOK, DispatchTypeOK
<1>1. /\ step' # step => \E st \in Steps : step' = [step EXCEPT ![d] = st]
      /\ landed' \in {landed, landed \cup {d}, landed \ {d}}
  BY DEF CallProgress, CallStep, CallFault, FoundExisting, FoundNothing, GhRejectsArgv, GhSends,
         CreateLands, GhSucceeds, Queue, GhMissing, GhFails, QueueRaises, GoTo, Return, Steps
<1>2. \A e \in Callers \ {d} : CallLeft(e)' = CallLeft(e)
  <2> SUFFICES ASSUME NEW e \in Callers \ {d}
               PROVE  step'[e] = step[e] /\ (e \in landed' <=> e \in landed)
    BY DEF CallLeft
  <2> QED
    BY <1>1 DEF TypeOK, DispatchTypeOK
<1>3. CASE FoundExisting(d) \/ FoundNothing(d)
  <2>1. step[d] = "search" /\ step'[d] \in {"returned", "create"}
    BY <1>3 DEF FoundExisting, FoundNothing, GoTo, Return, TypeOK, DispatchTypeOK
  <2> QED
    BY <1>2, <2>1, LeftValues, LeftValuesAfter
<1>4. CASE GhRejectsArgv(d) \/ GhSends(d) \/ GhMissing(d)
  <2>1. step[d] = "create" /\ step'[d] \in {"returned", "await", "fallback"}
    BY <1>4 DEF GhRejectsArgv, GhSends, GhMissing, GoTo, Return, TypeOK, DispatchTypeOK
  <2> QED
    BY <1>2, <2>1, LeftValues, LeftValuesAfter
<1>5. CASE CreateLands(d)
  <2>1. /\ step[d] = "await" /\ step'[d] = "await"
        /\ d \notin landed /\ d \in landed'
    BY <1>5 DEF CreateLands
  <2> QED
    BY <1>2, <2>1, LeftValues, LeftValuesAfter
<1>6. CASE GhSucceeds(d) \/ GhFails(d)
  <2>1. step[d] = "await" /\ step'[d] \in {"returned", "fallback"}
    BY <1>6 DEF GhSucceeds, GhFails, GoTo, Return, TypeOK, DispatchTypeOK
  <2> QED
    BY <1>2, <2>1, LeftValues, LeftValuesAfter
<1>7. CASE QueueRaises(d) \/ Queue(d, d \in Requests /\ Unseen(d))
  <2>1. step[d] = "fallback" /\ step'[d] = "returned"
    BY <1>7 DEF QueueRaises, Queue, GoTo, Return, TypeOK, DispatchTypeOK
  <2> QED
    BY <1>2, <2>1, LeftValues, LeftValuesAfter
<1> QED
  BY <1>3, <1>4, <1>5, <1>6, <1>7 DEF CallProgress, CallStep, CallFault

\* A kill or the end of the pass takes what is left of a call away.
LEMMA OthersCount ==
  ASSUME IInv, IInv', Next, NEW d \in Callers, step[d] # "idle"
  PROVE  CallLeft(d)' <= CallLeft(d)
<1> USE ActorsDistinct
<1> DEFINE Same(e) == step'[e] = step[e] /\ (e \in landed' <=> e \in landed)
           Over(e) == step'[e] = "idle" \/ (step'[e] = "returned" /\ step[e] # "idle")
<1>t. TypeOK /\ TypeOK' /\ step[d] \in Steps /\ step'[d] \in Steps
  BY DEF IInv, TypeOK, DispatchTypeOK
<1>1. ASSUME Same(d) PROVE CallLeft(d)' <= CallLeft(d)
  <2>1. CallLeft(d)' = CallLeft(d)
    BY <1>1 DEF CallLeft
  <2> QED
    BY <2>1, <1>t, LeftValues
<1>2. ASSUME Over(d) PROVE CallLeft(d)' <= CallLeft(d)
  BY <1>2, <1>t, LeftValues, LeftValuesAfter DEF Steps
<1>3. CASE \E e \in Callers : CallProgress(e) \/ CallFault(e)
  <2> PICK e \in Callers : CallProgress(e) \/ CallFault(e)
    BY <1>3
  <2>1. CallLeft(d)' < CallLeft(d) \/ CallLeft(d)' = CallLeft(d)
    BY <1>t, OwnStepCounts
  <2> QED
    BY <2>1, <1>t, LeftValues, LeftValuesAfter
<1>4. CASE \E r \in Requests : Submit(r)
  <2>1. Same(d)
    BY <1>4, <1>t DEF Submit, Sanitize, GoTo, Return, TypeOK, DispatchTypeOK
  <2> QED
    BY <1>1, <2>1
<1>5. CASE \E r \in Requests : WorkerDies(r, Unseen(r))
  <2>1. Same(d) \/ Over(d)
    BY <1>5, <1>t DEF WorkerDies, AbandonCreate, GoTo, Return, TypeOK, DispatchTypeOK
  <2> QED
    BY <1>1, <1>2, <2>1
<1>6. CASE UNCHANGED dispatchVars
  BY <1>1, <1>6 DEF dispatchVars
<1>7. CASE \E p \in Replays : \/ \E c \in BOOLEAN : StartPass(p, c)
                            \/ ReplayStep(p) \/ ReplayDies(p)
  <2> PICK p \in Replays : \/ \E c \in BOOLEAN : StartPass(p, c)
                          \/ ReplayStep(p) \/ ReplayDies(p)
    BY <1>7
  <2>1. Same(d) \/ Over(d)
    BY <1>t
    DEF ReplayStep, ReplayDies, StartPass, KeepUnparsed, ParseRaises, SkipFiled, KeepInDryRun, Dispatch,
        TakeResult, AbortPass, EndDryRun, Truncate, WriteBack, Sanitize, ResetCall, GoTo,
        Return, AbandonCreate, dispatchVars, TypeOK, DispatchTypeOK, Callers
  <2> QED
    BY <1>1, <1>2, <2>1
<1> QED
  BY <1>3, <1>4, <1>5, <1>6, <1>7 DEF Next

\* What a pass has not looked at only shrinks, and a step of it that takes no
\* line ends it, has it truncate, or takes its call onwards.
LEMMA PassCounts ==
  ASSUME IInv, IInv', Next, NEW p \in Replays
  PROVE  PassAdvances(p)
<1> USE ActorsDistinct
<1>t. TypeOK /\ TypeOK' /\ step[p] \in Steps /\ step'[p] \in Steps /\ p \in Callers
  BY DEF IInv, TypeOK, DispatchTypeOK, Callers
<1>1. ASSUME stage[p] # "idle" PROVE todo'[p] \subseteq todo[p]
  <2>1. CASE UNCHANGED replayVars
    BY <2>1 DEF replayVars
  <2>2. CASE \E q \in Replays : \/ \E c \in BOOLEAN : StartPass(q, c)
                              \/ ReplayStep(q) \/ ReplayDies(q)
    BY <1>1, <2>2, <1>t
    DEF ReplayStep, ReplayDies, StartPass, KeepUnparsed, ParseRaises, SkipFiled, KeepInDryRun, Dispatch,
        TakeResult, AbortPass, EndDryRun, Truncate, WriteBack, Leave, Forget, TypeOK,
        ReplayTypeOK
  <2> QED
    BY <2>1, <2>2 DEF Next
<1>2. ASSUME ReplayStep(p)
      PROVE  \/ stage[p] = "truncated" /\ stage'[p] = "idle"
             \/ stage[p] = "pass" /\ stage'[p] # "pass"
             \/ todo'[p] # todo[p]
             \/ CallLeft(p)' < CallLeft(p)
  <2>1. ASSUME AbortPass(p) \/ ParseRaises(p) \/ EndDryRun(p) \/ Truncate(p) \/ WriteBack(p)
        PROVE  \/ stage[p] = "truncated" /\ stage'[p] = "idle"
               \/ stage[p] = "pass" /\ stage'[p] # "pass"
    BY <2>1, <1>t
    DEF AbortPass, ParseRaises, EndDryRun, Truncate, WriteBack, Forget, TypeOK, ReplayTypeOK
  <2>2. ASSUME \/ \E l \in Readable : KeepUnparsed(p, l)
               \/ \E l \in Lines : SkipFiled(p, l) \/ KeepInDryRun(p, l) \/ Dispatch(p, l)
        PROVE  todo'[p] # todo[p]
    BY <2>2, <1>t DEF KeepUnparsed, SkipFiled, KeepInDryRun, Dispatch, Leave, Parses, TypeOK, ReplayTypeOK
  <2>3. ASSUME TakeResult(p) PROVE CallLeft(p)' < CallLeft(p)
    <3>1. step[p] = "returned" /\ step'[p] = "idle"
      BY <2>3, <1>t DEF TakeResult, ResetCall, TypeOK, DispatchTypeOK
    <3> QED
      BY <3>1, <1>t, LeftValues, LeftValuesAfter
  <2> QED
    BY <1>2, <2>1, <2>2, <2>3 DEF ReplayStep
<1> QED
  BY <1>1, <1>2 DEF PassAdvances

(***************************************************************************)
(* A call of dispatch_feedback has six steps at most and repeats none; a   *)
(* pass looks at every line it has read once, and between two lines only   *)
(* goes on with its call or to its end, whatever the callers beside it do. *)
(* This is what EveryRequestAnswered and QueueDrains need besides fairness *)
(* (dispatch.py, dispatch_feedback; replay-feedback-inbox.py, replay).     *)
(***************************************************************************)
THEOREM CallsAndPassesAdvance ==
  Spec => /\ [](\A d \in Callers : CallLeft(d) \in 0..6)
          /\ [][/\ \A d \in Callers : CallAdvances(d)
                /\ \A p \in Replays : PassAdvances(p)]_vars
<1>1. IInv => \A d \in Callers : CallLeft(d) \in 0..6
  BY LeftValues DEF IInv, TypeOK, DispatchTypeOK
<1>2. IInv /\ IInv' /\ [Next]_vars => [/\ \A d \in Callers : CallAdvances(d)
                                      /\ \A p \in Replays : PassAdvances(p)]_vars
  <2> SUFFICES ASSUME IInv, IInv', Next
               PROVE  /\ \A d \in Callers : CallAdvances(d)
                      /\ \A p \in Replays : PassAdvances(p)
    OBVIOUS
  <2>1. ASSUME NEW d \in Callers PROVE CallAdvances(d)
    <3>1. step[d] # "idle" => CallLeft(d)' <= CallLeft(d)
      BY OthersCount
    <3>2. CallProgress(d) \/ CallFault(d) => CallLeft(d)' < CallLeft(d)
      BY OwnStepCounts DEF IInv
    <3> QED
      BY <3>1, <3>2 DEF CallAdvances
  <2> QED
    BY <2>1, PassCounts
<1> QED
  BY <1>1, <1>2, Invariance, PTL DEF Spec

=============================================================================
