-------------------------- MODULE InboxReplay_proofs --------------------------
(***************************************************************************)
(* Proofs about InboxReplay, for any numbers of requests, replays, legacy  *)
(* lines and submissions and any fault budget.                             *)
(***************************************************************************)
EXTENDS InboxReplay, TLAPS

\* The initial state has the right types and no pass under way.
LEMMA InitShape == Init => TypeOK /\ Shape
<1> SUFFICES ASSUME Init PROVE TypeOK /\ Shape
  OBVIOUS
<1>1. TrackerTypeOK
  BY DEF Init, TrackerInit, TrackerTypeOK
<1>2. DispatchTypeOK
  BY FaultBudget DEF Init, DispatchInit, DispatchTypeOK, Lines, Steps, Outcomes, Endings
<1>3. ReplayTypeOK
  BY DEF Init, ReplayInit, ReplayTypeOK
<1>4. Shape
  BY DEF Init, DispatchInit, ReplayInit, Shape, Callers
<1> QED
  BY <1>1, <1>2, <1>3, <1>4 DEF TypeOK

\* A call that is under way is about a line, and the line has a submission.
LEMMA SubType ==
  ASSUME TypeOK, Shape, NEW d \in Callers, step[d] # "idle"
  PROVE  LineOf(d) \in Lines /\ Sub(d) \in Submissions
  BY SidOfType, ActorsDistinct
  DEF TypeOK, DispatchTypeOK, Shape, LineOf, Sub, Callers, Lines

(***************************************************************************)
(* Every action keeps the types and keeps pass and call in step.           *)
(***************************************************************************)
LEMMA NextShape == TypeOK /\ Shape /\ [Next]_vars => TypeOK' /\ Shape'
<1> SUFFICES ASSUME TypeOK, Shape, [Next]_vars
             PROVE  TypeOK' /\ Shape'
  OBVIOUS
<1> USE ActorsDistinct, SidOfType, FaultBudget
<1> USE DEF TypeOK, TrackerTypeOK, DispatchTypeOK, ReplayTypeOK, Shape,
            Steps, Outcomes, Events, Endings, GoTo, Return, Emit, Fault,
            trackerVars, inboxVars, fileVars, dispatchVars, replayVars, Callers
<1>1. ASSUME NEW r \in Requests, Submit(r), UNCHANGED replayVars
      PROVE  TypeOK' /\ Shape'
  BY <1>1, SubType DEF Submit, Sanitize, Lines
<1>2. ASSUME NEW r \in Requests, WorkerDies(r, Unseen(r)), UNCHANGED replayVars
      PROVE  TypeOK' /\ Shape'
  BY <1>2, SubType
  DEF WorkerDies, AbandonCreate, AppendToInbox, AppendBreaksOff, Fragments, InboxPlus, Lines
<1>3. ASSUME NEW d \in Callers, FoundExisting(d), UNCHANGED replayVars
      PROVE  TypeOK' /\ Shape'
  BY <1>3, SubType DEF FoundExisting
<1>4. ASSUME NEW d \in Callers, FoundNothing(d), UNCHANGED replayVars
      PROVE  TypeOK' /\ Shape'
  BY <1>4, SubType DEF FoundNothing, SearchFindsNothing
<1>5. ASSUME NEW d \in Callers, GhRejectsArgv(d), UNCHANGED replayVars
      PROVE  TypeOK' /\ Shape'
  BY <1>5, SubType DEF GhRejectsArgv
<1>6. ASSUME NEW d \in Callers, GhSends(d), UNCHANGED replayVars
      PROVE  TypeOK' /\ Shape'
  BY <1>6, SubType DEF GhSends
<1>7. ASSUME NEW d \in Callers, CreateLands(d), UNCHANGED replayVars
      PROVE  TypeOK' /\ Shape'
  BY <1>7, SubType DEF CreateLands, AddIssue
<1>8. ASSUME NEW d \in Callers, GhSucceeds(d), UNCHANGED replayVars
      PROVE  TypeOK' /\ Shape'
  BY <1>8, SubType DEF GhSucceeds
<1>9. ASSUME NEW d \in Callers, Queue(d, d \in Requests /\ Unseen(d)), UNCHANGED replayVars
      PROVE  TypeOK' /\ Shape'
  BY <1>9, SubType DEF Queue, AppendToInbox, InboxPlus, LineOf, Lines
<1>10. ASSUME NEW d \in Callers, GhMissing(d), UNCHANGED replayVars
      PROVE  TypeOK' /\ Shape'
  BY <1>10, SubType DEF GhMissing
<1>11. ASSUME NEW d \in Callers, GhFails(d), UNCHANGED replayVars
      PROVE  TypeOK' /\ Shape'
  BY <1>11, SubType DEF GhFails
<1>12. ASSUME NEW d \in Callers, QueueRaises(d), UNCHANGED replayVars
      PROVE  TypeOK' /\ Shape'
  BY <1>12, SubType DEF QueueRaises, AppendBreaksOff, Fragments, Lines
<1>13. ASSUME NEW s \in Submissions, LateCreateLands(s), UNCHANGED <<dispatchVars, replayVars>>
      PROVE  TypeOK' /\ Shape'
  BY <1>13, SubType DEF LateCreateLands, AddIssue
<1>14. ASSUME NEW s \in Submissions, IndexCatchesUp(s), UNCHANGED <<dispatchVars, replayVars>>
      PROVE  TypeOK' /\ Shape'
  BY <1>14, SubType DEF IndexCatchesUp
<1>15. ASSUME NEW p \in Replays, NEW c \in BOOLEAN, StartPass(p, c)
      PROVE  TypeOK' /\ Shape'
  BY <1>15, SubType DEF StartPass, SplitLines, ReadBack, Readable
<1>16. ASSUME NEW p \in Replays, NEW l \in Readable, KeepUnparsed(p, l)
      PROVE  TypeOK' /\ Shape'
  BY <1>16, SubType DEF KeepUnparsed, Leave, Readable
<1>17. ASSUME NEW p \in Replays, NEW l \in Lines, SkipFiled(p, l)
      PROVE  TypeOK' /\ Shape'
  BY <1>17, SubType DEF SkipFiled, Parses, Leave, ArchiveIfCommitted, Archive, Readable
<1>18. ASSUME NEW p \in Replays, NEW l \in Lines, KeepInDryRun(p, l)
      PROVE  TypeOK' /\ Shape'
  BY <1>18, SubType DEF KeepInDryRun, Parses, Leave, SearchFindsNothing, Readable
<1>19. ASSUME NEW p \in Replays, NEW l \in Lines, Dispatch(p, l)
      PROVE  TypeOK' /\ Shape'
  BY <1>19, SubType DEF Dispatch, Parses, Leave, SearchFindsNothing, Sanitize
<1>20. ASSUME NEW p \in Replays, TakeResult(p)
      PROVE  TypeOK' /\ Shape'
  BY <1>20, SubType DEF TakeResult, Leave, Archive, ResetCall, Readable
<1>21. ASSUME NEW p \in Replays, AbortPass(p)
      PROVE  TypeOK' /\ Shape'
  BY <1>21, SubType DEF AbortPass, Forget, ResetCall
<1>22. ASSUME NEW p \in Replays, EndDryRun(p)
      PROVE  TypeOK' /\ Shape'
  BY <1>22, SubType DEF EndDryRun, Forget
<1>23. ASSUME NEW p \in Replays, Truncate(p)
      PROVE  TypeOK' /\ Shape'
  BY <1>23, SubType DEF Truncate
<1>24. ASSUME NEW p \in Replays, WriteBack(p)
      PROVE  TypeOK' /\ Shape'
  BY <1>24, SubType DEF WriteBack, Forget, Overwritten, Fragments, Readable, Lines
<1>25. ASSUME NEW p \in Replays, ReplayDies(p)
      PROVE  TypeOK' /\ Shape'
  <2>1. TrackerTypeOK'
    BY <1>25, SubType DEF ReplayDies, AbandonCreate
  <2>2. DispatchTypeOK'
    BY <1>25 DEF ReplayDies, ResetCall, AbandonCreate, WriteBreaksOff, Fragments, Readable, Lines
  <2>3. ReplayTypeOK' /\ Shape'
    BY <1>25 DEF ReplayDies, Forget, ResetCall
  <2> QED
    BY <2>1, <2>2, <2>3
<1>26. ASSUME NEW p \in Replays, ParseRaises(p)
      PROVE  TypeOK' /\ Shape'
  BY <1>26, SubType DEF ParseRaises, Forget
<1>27. CASE UNCHANGED vars
  BY <1>27 DEF vars
<1> QED
  BY <1>1, <1>2, <1>3, <1>4, <1>5, <1>6, <1>7, <1>8, <1>9, <1>10, <1>11, <1>12, <1>13,
     <1>14, <1>15, <1>16, <1>17, <1>18, <1>19, <1>20, <1>21, <1>22, <1>23, <1>24, <1>25,
     <1>26, <1>27
  DEF Next, CallProgress, CallStep, CallFault, TrackerNext, ReplayStep


(***************************************************************************)
(* Issues are never taken back, and so neither are the ids in them.        *)
(***************************************************************************)
LEMMA AddIssueKeeps ==
  ASSUME TypeOK, NEW s \in Submissions, AddIssue(s) \/ UNCHANGED filed
  PROVE  \A t \in Submissions : IsFiled(t) => IsFiled(t)'
  BY DEF TypeOK, TrackerTypeOK, AddIssue, IsFiled

LEMMA IssuesStay ==
  ASSUME TypeOK, Shape, [Next]_vars
  PROVE  /\ \A t \in Submissions : IsFiled(t) => IsFiled(t)'
         /\ \A t \in Submissions : Mentioned(t) => Mentioned(t)'
<1>1. (\E s \in Submissions : AddIssue(s)) \/ UNCHANGED filed
  <2>1. ASSUME NEW d \in Callers, CreateLands(d) PROVE AddIssue(Sub(d)) /\ Sub(d) \in Submissions
    BY <2>1, SubType DEF CreateLands
  <2>2. ASSUME NEW s \in Submissions, LateCreateLands(s) PROVE AddIssue(s)
    BY <2>2 DEF LateCreateLands
  <2> QED
    BY <2>1, <2>2
    DEF Next, vars, CallProgress, CallStep, CallFault, TrackerNext, ReplayStep,
        Submit, WorkerDies, AbandonCreate, FoundExisting, FoundNothing, GhRejectsArgv,
        GhSends, GhSucceeds, Queue, GhMissing, GhFails, QueueRaises, IndexCatchesUp,
        StartPass, KeepUnparsed, ParseRaises, SkipFiled, KeepInDryRun, Dispatch, TakeResult, AbortPass,
        EndDryRun, Truncate, WriteBack, ReplayDies, trackerVars
<1>2. \A t \in Submissions : IsFiled(t) => IsFiled(t)'
  <2>1. CASE UNCHANGED filed
    BY <2>1 DEF IsFiled
  <2>2. CASE \E s \in Submissions : AddIssue(s)
    BY <2>2, AddIssueKeeps
  <2> QED
    BY <1>1, <2>1, <2>2
<1> QED
  BY <1>2 DEF Mentioned


\* The search finds only what an issue carries.
LEMMA FoundIsMentioned ==
  ASSUME CallsAreTrue, TypeOK, NEW s \in Submissions
  PROVE  /\ IsFiled(s) => Mentioned(s)
         /\ SearchFinds(s) => Mentioned(s)
  BY
  DEF CallsAreTrue, TypeOK, TrackerTypeOK, Mentioned, BodyIds, SearchFinds, SearchHits

(***************************************************************************)
(* What calls know stays true: every step of a call keeps its knowledge    *)
(* and its outcome honest, because issues are never taken back.            *)
(***************************************************************************)
LEMMA NextCallsAreTrue == TypeOK /\ Shape /\ CallsAreTrue /\ [Next]_vars => CallsAreTrue'
<1> SUFFICES ASSUME TypeOK, Shape, CallsAreTrue, [Next]_vars
             PROVE  CallsAreTrue'
  OBVIOUS
<1>0. /\ \A t \in Submissions : IsFiled(t) => IsFiled(t)'
      /\ \A t \in Submissions : Mentioned(t) => Mentioned(t)'
  BY IssuesStay
<1> USE ActorsDistinct, SidOfType, <1>0
<1> USE DEF CallsAreTrue, Accepted, Sub, LineOf
<1> USE DEF TypeOK, TrackerTypeOK, DispatchTypeOK, ReplayTypeOK, Shape, Steps, Outcomes,
            GoTo, Return, Emit, Fault, trackerVars, inboxVars, fileVars, dispatchVars, replayVars,
            Callers
<1>1. ASSUME NEW r \in Requests, Submit(r), UNCHANGED replayVars
      PROVE  CallsAreTrue'
  BY <1>1, SubType DEF Submit, Sanitize, Lines
<1>2. ASSUME NEW r \in Requests, WorkerDies(r, Unseen(r)), UNCHANGED replayVars
      PROVE  CallsAreTrue'
  BY <1>2, SubType
  DEF WorkerDies, AbandonCreate, AppendToInbox, AppendBreaksOff, Fragments, InboxPlus, Lines
<1>3. ASSUME NEW d \in Callers, FoundExisting(d), UNCHANGED replayVars
      PROVE  CallsAreTrue'
  BY <1>3, SubType, FoundIsMentioned DEF FoundExisting, Lines
<1>4. ASSUME NEW d \in Callers, FoundNothing(d), UNCHANGED replayVars
      PROVE  CallsAreTrue'
  BY <1>4, SubType DEF FoundNothing, SearchFindsNothing
<1>5. ASSUME NEW d \in Callers, GhRejectsArgv(d), UNCHANGED replayVars
      PROVE  CallsAreTrue'
  BY <1>5, SubType DEF GhRejectsArgv
<1>6. ASSUME NEW d \in Callers, GhSends(d), UNCHANGED replayVars
      PROVE  CallsAreTrue'
  BY <1>6, SubType DEF GhSends
<1>7. ASSUME NEW d \in Callers, CreateLands(d), UNCHANGED replayVars
      PROVE  CallsAreTrue'
  BY <1>7, SubType DEF CreateLands, AddIssue, IsFiled
<1>8. ASSUME NEW d \in Callers, GhSucceeds(d), UNCHANGED replayVars
      PROVE  CallsAreTrue'
  BY <1>8, SubType DEF GhSucceeds
<1>9. ASSUME NEW d \in Callers, Queue(d, d \in Requests /\ Unseen(d)), UNCHANGED replayVars
      PROVE  CallsAreTrue'
  BY <1>9, SubType DEF Queue, AppendToInbox, InboxPlus, LineOf, Lines
<1>10. ASSUME NEW d \in Callers, GhMissing(d), UNCHANGED replayVars
      PROVE  CallsAreTrue'
  BY <1>10, SubType DEF GhMissing
<1>11. ASSUME NEW d \in Callers, GhFails(d), UNCHANGED replayVars
      PROVE  CallsAreTrue'
  BY <1>11, SubType DEF GhFails
<1>12. ASSUME NEW d \in Callers, QueueRaises(d), UNCHANGED replayVars
      PROVE  CallsAreTrue'
  BY <1>12, SubType DEF QueueRaises, AppendBreaksOff, Fragments, Lines
<1>13. ASSUME NEW s \in Submissions, LateCreateLands(s), UNCHANGED <<dispatchVars, replayVars>>
      PROVE  CallsAreTrue'
  BY <1>13, SubType DEF LateCreateLands, AddIssue, IsFiled
<1>14. ASSUME NEW s \in Submissions, IndexCatchesUp(s), UNCHANGED <<dispatchVars, replayVars>>
      PROVE  CallsAreTrue'
  BY <1>14, SubType DEF IndexCatchesUp
<1>15. ASSUME NEW p \in Replays, NEW c \in BOOLEAN, StartPass(p, c)
      PROVE  CallsAreTrue'
  BY <1>15, SubType DEF StartPass, SplitLines, ReadBack, Readable
<1>16. ASSUME NEW p \in Replays, NEW l \in Readable, KeepUnparsed(p, l)
      PROVE  CallsAreTrue'
  BY <1>16, SubType DEF KeepUnparsed, Leave, Readable
<1>17. ASSUME NEW p \in Replays, NEW l \in Lines, SkipFiled(p, l)
      PROVE  CallsAreTrue'
  BY <1>17, SubType DEF SkipFiled, Parses, Leave, ArchiveIfCommitted, Archive, Readable
<1>18. ASSUME NEW p \in Replays, NEW l \in Lines, KeepInDryRun(p, l)
      PROVE  CallsAreTrue'
  BY <1>18, SubType DEF KeepInDryRun, Parses, Leave, SearchFindsNothing, Readable
<1>19. ASSUME NEW p \in Replays, NEW l \in Lines, Dispatch(p, l)
      PROVE  CallsAreTrue'
  BY <1>19, SubType DEF Dispatch, Parses, Leave, SearchFindsNothing, Sanitize
<1>20. ASSUME NEW p \in Replays, TakeResult(p)
      PROVE  CallsAreTrue'
  BY <1>20, SubType DEF TakeResult, Leave, Archive, ResetCall, Readable
<1>21. ASSUME NEW p \in Replays, AbortPass(p)
      PROVE  CallsAreTrue'
  BY <1>21, SubType DEF AbortPass, Forget, ResetCall
<1>22. ASSUME NEW p \in Replays, EndDryRun(p)
      PROVE  CallsAreTrue'
  BY <1>22, SubType DEF EndDryRun, Forget
<1>23. ASSUME NEW p \in Replays, Truncate(p)
      PROVE  CallsAreTrue'
  BY <1>23, SubType DEF Truncate
<1>24. ASSUME NEW p \in Replays, WriteBack(p)
      PROVE  CallsAreTrue'
  BY <1>24, SubType DEF WriteBack, Forget, Overwritten, Fragments, Readable, Lines
<1>25. ASSUME NEW p \in Replays, ReplayDies(p)
      PROVE  CallsAreTrue'
  BY <1>25, SubType
  DEF ReplayDies, Forget, ResetCall, AbandonCreate, WriteBreaksOff, Fragments, Readable, Lines
<1>26. ASSUME NEW p \in Replays, ParseRaises(p)
      PROVE  CallsAreTrue'
  BY <1>26, SubType DEF ParseRaises, Forget
<1>27. CASE UNCHANGED vars
  BY <1>27, SubType DEF vars
<1> QED
  BY <1>1, <1>2, <1>3, <1>4, <1>5, <1>6, <1>7, <1>8, <1>9, <1>10, <1>11, <1>12, <1>13,
     <1>14, <1>15, <1>16, <1>17, <1>18, <1>19, <1>20, <1>21, <1>22, <1>23, <1>24, <1>25,
     <1>26, <1>27
  DEF Next, CallProgress, CallStep, CallFault, TrackerNext, ReplayStep

(***************************************************************************)
(* Lines enter the inbox only through the fallback, which the sanitizer    *)
(* guards, and the passes only copy what was in the inbox.                 *)
(***************************************************************************)
LEMMA NextNoRefusedLine == TypeOK /\ Shape /\ CallsAreTrue /\ NoRefusedLine /\ [Next]_vars => NoRefusedLine'
<1> SUFFICES ASSUME TypeOK, Shape, CallsAreTrue, NoRefusedLine, [Next]_vars
             PROVE  NoRefusedLine'
  OBVIOUS
<1> USE ActorsDistinct, SidOfType
<1> USE DEF NoRefusedLine, CallsAreTrue, Accepted, Sub, LineOf, Held, Lines
<1> USE DEF TypeOK, TrackerTypeOK, DispatchTypeOK, ReplayTypeOK, Shape, Steps, Outcomes,
            GoTo, Return, Emit, Fault, trackerVars, inboxVars, fileVars, dispatchVars, replayVars,
            Callers
<1>1. ASSUME NEW r \in Requests, Submit(r), UNCHANGED replayVars
      PROVE  NoRefusedLine'
  BY <1>1, SubType DEF Submit, Sanitize, Lines
<1>2. ASSUME NEW r \in Requests, WorkerDies(r, Unseen(r)), UNCHANGED replayVars
      PROVE  NoRefusedLine'
  BY <1>2, SubType
  DEF WorkerDies, AbandonCreate, AppendToInbox, AppendBreaksOff, Fragments, InboxPlus, Lines
<1>3. ASSUME NEW d \in Callers, FoundExisting(d), UNCHANGED replayVars
      PROVE  NoRefusedLine'
  BY <1>3, SubType DEF FoundExisting
<1>4. ASSUME NEW d \in Callers, FoundNothing(d), UNCHANGED replayVars
      PROVE  NoRefusedLine'
  BY <1>4, SubType DEF FoundNothing, SearchFindsNothing
<1>5. ASSUME NEW d \in Callers, GhRejectsArgv(d), UNCHANGED replayVars
      PROVE  NoRefusedLine'
  BY <1>5, SubType DEF GhRejectsArgv
<1>6. ASSUME NEW d \in Callers, GhSends(d), UNCHANGED replayVars
      PROVE  NoRefusedLine'
  BY <1>6, SubType DEF GhSends
<1>7. ASSUME NEW d \in Callers, CreateLands(d), UNCHANGED replayVars
      PROVE  NoRefusedLine'
  BY <1>7, SubType DEF CreateLands, AddIssue
<1>8. ASSUME NEW d \in Callers, GhSucceeds(d), UNCHANGED replayVars
      PROVE  NoRefusedLine'
  BY <1>8, SubType DEF GhSucceeds
<1>9. ASSUME NEW d \in Callers, Queue(d, d \in Requests /\ Unseen(d)), UNCHANGED replayVars
      PROVE  NoRefusedLine'
  BY <1>9, SubType DEF Queue, AppendToInbox, InboxPlus, LineOf, Lines
<1>10. ASSUME NEW d \in Callers, GhMissing(d), UNCHANGED replayVars
      PROVE  NoRefusedLine'
  BY <1>10, SubType DEF GhMissing
<1>11. ASSUME NEW d \in Callers, GhFails(d), UNCHANGED replayVars
      PROVE  NoRefusedLine'
  BY <1>11, SubType DEF GhFails
<1>12. ASSUME NEW d \in Callers, QueueRaises(d), UNCHANGED replayVars
      PROVE  NoRefusedLine'
  BY <1>12, SubType DEF QueueRaises, AppendBreaksOff, Fragments, Lines
<1>13. ASSUME NEW s \in Submissions, LateCreateLands(s), UNCHANGED <<dispatchVars, replayVars>>
      PROVE  NoRefusedLine'
  BY <1>13, SubType DEF LateCreateLands, AddIssue
<1>14. ASSUME NEW s \in Submissions, IndexCatchesUp(s), UNCHANGED <<dispatchVars, replayVars>>
      PROVE  NoRefusedLine'
  BY <1>14, SubType DEF IndexCatchesUp
<1>15. ASSUME NEW p \in Replays, NEW c \in BOOLEAN, StartPass(p, c)
      PROVE  NoRefusedLine'
  BY <1>15, SubType DEF StartPass, SplitLines, ReadBack, Readable
<1>16. ASSUME NEW p \in Replays, NEW l \in Readable, KeepUnparsed(p, l)
      PROVE  NoRefusedLine'
  BY <1>16, SubType DEF KeepUnparsed, Leave, Readable
<1>17. ASSUME NEW p \in Replays, NEW l \in Lines, SkipFiled(p, l)
      PROVE  NoRefusedLine'
  BY <1>17, SubType DEF SkipFiled, Parses, Leave, ArchiveIfCommitted, Archive, Readable
<1>18. ASSUME NEW p \in Replays, NEW l \in Lines, KeepInDryRun(p, l)
      PROVE  NoRefusedLine'
  BY <1>18, SubType DEF KeepInDryRun, Parses, Leave, SearchFindsNothing, Readable
<1>19. ASSUME NEW p \in Replays, NEW l \in Lines, Dispatch(p, l)
      PROVE  NoRefusedLine'
  BY <1>19, SubType DEF Dispatch, Parses, Leave, SearchFindsNothing, Sanitize
<1>20. ASSUME NEW p \in Replays, TakeResult(p)
      PROVE  NoRefusedLine'
  BY <1>20, SubType DEF TakeResult, Leave, Archive, ResetCall, Readable
<1>21. ASSUME NEW p \in Replays, AbortPass(p)
      PROVE  NoRefusedLine'
  BY <1>21, SubType DEF AbortPass, Forget, ResetCall
<1>22. ASSUME NEW p \in Replays, EndDryRun(p)
      PROVE  NoRefusedLine'
  BY <1>22, SubType DEF EndDryRun, Forget
<1>23. ASSUME NEW p \in Replays, Truncate(p)
      PROVE  NoRefusedLine'
  BY <1>23, SubType DEF Truncate
<1>24. ASSUME NEW p \in Replays, WriteBack(p)
      PROVE  NoRefusedLine'
  BY <1>24, SubType DEF WriteBack, Forget, Overwritten, Fragments, Readable, Lines
<1>25. ASSUME NEW p \in Replays, ReplayDies(p)
      PROVE  NoRefusedLine'
  BY <1>25, SubType
  DEF ReplayDies, Forget, ResetCall, AbandonCreate, WriteBreaksOff, Fragments, Readable, Lines
<1>26. ASSUME NEW p \in Replays, ParseRaises(p)
      PROVE  NoRefusedLine'
  BY <1>26, SubType DEF ParseRaises, Forget
<1>27. CASE UNCHANGED vars
  BY <1>27, SubType DEF vars
<1> QED
  BY <1>1, <1>2, <1>3, <1>4, <1>5, <1>6, <1>7, <1>8, <1>9, <1>10, <1>11, <1>12, <1>13,
     <1>14, <1>15, <1>16, <1>17, <1>18, <1>19, <1>20, <1>21, <1>22, <1>23, <1>24, <1>25,
     <1>26, <1>27
  DEF Next, CallProgress, CallStep, CallFault, TrackerNext, ReplayStep

(***************************************************************************)
(* A refused submission stays without issue, without pending request and   *)
(* without line: every create and every append is made by a call the       *)
(* sanitizer let through.                                                  *)
(***************************************************************************)
LEMMA NextRefusedStaysOut == TypeOK /\ Shape /\ CallsAreTrue /\ NoRefusedLine /\ RefusedStaysOut /\ [Next]_vars => RefusedStaysOut'
<1> SUFFICES ASSUME TypeOK, Shape, CallsAreTrue, NoRefusedLine, RefusedStaysOut, [Next]_vars
             PROVE  RefusedStaysOut'
  OBVIOUS
<1> USE ActorsDistinct, SidOfType, TextClasses
<1> USE DEF RefusedStaysOut, NoRefusedLine, CallsAreTrue, Accepted, Sub, LineOf, Held, Lines
<1> USE DEF TypeOK, TrackerTypeOK, DispatchTypeOK, ReplayTypeOK, Shape, Steps, Outcomes,
            GoTo, Return, Emit, Fault, trackerVars, inboxVars, fileVars, dispatchVars, replayVars,
            Callers
<1>1. ASSUME NEW r \in Requests, Submit(r), UNCHANGED replayVars
      PROVE  RefusedStaysOut'
  BY <1>1, SubType DEF Submit, Sanitize, Lines
<1>2. ASSUME NEW r \in Requests, WorkerDies(r, Unseen(r)), UNCHANGED replayVars
      PROVE  RefusedStaysOut'
  BY <1>2, SubType
  DEF WorkerDies, AbandonCreate, AppendToInbox, AppendBreaksOff, Fragments, InboxPlus, Lines
<1>3. ASSUME NEW d \in Callers, FoundExisting(d), UNCHANGED replayVars
      PROVE  RefusedStaysOut'
  BY <1>3, SubType DEF FoundExisting
<1>4. ASSUME NEW d \in Callers, FoundNothing(d), UNCHANGED replayVars
      PROVE  RefusedStaysOut'
  BY <1>4, SubType DEF FoundNothing, SearchFindsNothing
<1>5. ASSUME NEW d \in Callers, GhRejectsArgv(d), UNCHANGED replayVars
      PROVE  RefusedStaysOut'
  BY <1>5, SubType DEF GhRejectsArgv
<1>6. ASSUME NEW d \in Callers, GhSends(d), UNCHANGED replayVars
      PROVE  RefusedStaysOut'
  BY <1>6, SubType DEF GhSends
<1>7. ASSUME NEW d \in Callers, CreateLands(d), UNCHANGED replayVars
      PROVE  RefusedStaysOut'
  BY <1>7, SubType DEF CreateLands, AddIssue
<1>8. ASSUME NEW d \in Callers, GhSucceeds(d), UNCHANGED replayVars
      PROVE  RefusedStaysOut'
  BY <1>8, SubType DEF GhSucceeds
<1>9. ASSUME NEW d \in Callers, Queue(d, d \in Requests /\ Unseen(d)), UNCHANGED replayVars
      PROVE  RefusedStaysOut'
  BY <1>9, SubType DEF Queue, AppendToInbox, InboxPlus, LineOf, Lines
<1>10. ASSUME NEW d \in Callers, GhMissing(d), UNCHANGED replayVars
      PROVE  RefusedStaysOut'
  BY <1>10, SubType DEF GhMissing
<1>11. ASSUME NEW d \in Callers, GhFails(d), UNCHANGED replayVars
      PROVE  RefusedStaysOut'
  BY <1>11, SubType DEF GhFails
<1>12. ASSUME NEW d \in Callers, QueueRaises(d), UNCHANGED replayVars
      PROVE  RefusedStaysOut'
  BY <1>12, SubType DEF QueueRaises, AppendBreaksOff, Fragments, Lines
<1>13. ASSUME NEW s \in Submissions, LateCreateLands(s), UNCHANGED <<dispatchVars, replayVars>>
      PROVE  RefusedStaysOut'
  BY <1>13, SubType DEF LateCreateLands, AddIssue
<1>14. ASSUME NEW s \in Submissions, IndexCatchesUp(s), UNCHANGED <<dispatchVars, replayVars>>
      PROVE  RefusedStaysOut'
  BY <1>14, SubType DEF IndexCatchesUp
<1>15. ASSUME NEW p \in Replays, NEW c \in BOOLEAN, StartPass(p, c)
      PROVE  RefusedStaysOut'
  BY <1>15, SubType DEF StartPass, SplitLines, ReadBack, Readable
<1>16. ASSUME NEW p \in Replays, NEW l \in Readable, KeepUnparsed(p, l)
      PROVE  RefusedStaysOut'
  BY <1>16, SubType DEF KeepUnparsed, Leave, Readable
<1>17. ASSUME NEW p \in Replays, NEW l \in Lines, SkipFiled(p, l)
      PROVE  RefusedStaysOut'
  BY <1>17, SubType DEF SkipFiled, Parses, Leave, ArchiveIfCommitted, Archive, Readable
<1>18. ASSUME NEW p \in Replays, NEW l \in Lines, KeepInDryRun(p, l)
      PROVE  RefusedStaysOut'
  BY <1>18, SubType DEF KeepInDryRun, Parses, Leave, SearchFindsNothing, Readable
<1>19. ASSUME NEW p \in Replays, NEW l \in Lines, Dispatch(p, l)
      PROVE  RefusedStaysOut'
  BY <1>19, SubType DEF Dispatch, Parses, Leave, SearchFindsNothing, Sanitize
<1>20. ASSUME NEW p \in Replays, TakeResult(p)
      PROVE  RefusedStaysOut'
  BY <1>20, SubType DEF TakeResult, Leave, Archive, ResetCall, Readable
<1>21. ASSUME NEW p \in Replays, AbortPass(p)
      PROVE  RefusedStaysOut'
  BY <1>21, SubType DEF AbortPass, Forget, ResetCall
<1>22. ASSUME NEW p \in Replays, EndDryRun(p)
      PROVE  RefusedStaysOut'
  BY <1>22, SubType DEF EndDryRun, Forget
<1>23. ASSUME NEW p \in Replays, Truncate(p)
      PROVE  RefusedStaysOut'
  BY <1>23, SubType DEF Truncate
<1>24. ASSUME NEW p \in Replays, WriteBack(p)
      PROVE  RefusedStaysOut'
  BY <1>24, SubType DEF WriteBack, Forget, Overwritten, Fragments, Readable, Lines
<1>25. ASSUME NEW p \in Replays, ReplayDies(p)
      PROVE  RefusedStaysOut'
  BY <1>25, SubType
  DEF ReplayDies, Forget, ResetCall, AbandonCreate, WriteBreaksOff, Fragments, Readable, Lines
<1>26. ASSUME NEW p \in Replays, ParseRaises(p)
      PROVE  RefusedStaysOut'
  BY <1>26, SubType DEF ParseRaises, Forget
<1>27. CASE UNCHANGED vars
  BY <1>27, SubType DEF vars
<1> QED
  BY <1>1, <1>2, <1>3, <1>4, <1>5, <1>6, <1>7, <1>8, <1>9, <1>10, <1>11, <1>12, <1>13,
     <1>14, <1>15, <1>16, <1>17, <1>18, <1>19, <1>20, <1>21, <1>22, <1>23, <1>24, <1>25,
     <1>26, <1>27
  DEF Next, CallProgress, CallStep, CallFault, TrackerNext, ReplayStep

(***************************************************************************)
(* A line is archived after a search hit or after the dispatcher returned, *)
(* and each outcome but a refusal has an issue behind it.                  *)
(***************************************************************************)
LEMMA NextArchivedIsFiled == TypeOK /\ Shape /\ CallsAreTrue /\ ArchivedIsFiled /\ [Next]_vars => ArchivedIsFiled'
<1> SUFFICES ASSUME TypeOK, Shape, CallsAreTrue, ArchivedIsFiled, [Next]_vars
             PROVE  ArchivedIsFiled'
  OBVIOUS
<1>0. \A t \in Submissions : Mentioned(t) => Mentioned(t)'
  BY IssuesStay
<1> USE ActorsDistinct, SidOfType, <1>0
<1> USE DEF ArchivedIsFiled, CallsAreTrue, Sub, LineOf, Lines
<1> USE DEF TypeOK, TrackerTypeOK, DispatchTypeOK, ReplayTypeOK, Shape, Steps, Outcomes,
            GoTo, Return, Emit, Fault, trackerVars, inboxVars, fileVars, dispatchVars, replayVars,
            Callers
<1>1. ASSUME NEW r \in Requests, Submit(r), UNCHANGED replayVars
      PROVE  ArchivedIsFiled'
  BY <1>1, SubType DEF Submit, Sanitize, Lines
<1>2. ASSUME NEW r \in Requests, WorkerDies(r, Unseen(r)), UNCHANGED replayVars
      PROVE  ArchivedIsFiled'
  BY <1>2, SubType
  DEF WorkerDies, AbandonCreate, AppendToInbox, AppendBreaksOff, Fragments, InboxPlus, Lines
<1>3. ASSUME NEW d \in Callers, FoundExisting(d), UNCHANGED replayVars
      PROVE  ArchivedIsFiled'
  BY <1>3, SubType DEF FoundExisting
<1>4. ASSUME NEW d \in Callers, FoundNothing(d), UNCHANGED replayVars
      PROVE  ArchivedIsFiled'
  BY <1>4, SubType DEF FoundNothing, SearchFindsNothing
<1>5. ASSUME NEW d \in Callers, GhRejectsArgv(d), UNCHANGED replayVars
      PROVE  ArchivedIsFiled'
  BY <1>5, SubType DEF GhRejectsArgv
<1>6. ASSUME NEW d \in Callers, GhSends(d), UNCHANGED replayVars
      PROVE  ArchivedIsFiled'
  BY <1>6, SubType DEF GhSends
<1>7. ASSUME NEW d \in Callers, CreateLands(d), UNCHANGED replayVars
      PROVE  ArchivedIsFiled'
  BY <1>7, SubType DEF CreateLands, AddIssue
<1>8. ASSUME NEW d \in Callers, GhSucceeds(d), UNCHANGED replayVars
      PROVE  ArchivedIsFiled'
  BY <1>8, SubType DEF GhSucceeds
<1>9. ASSUME NEW d \in Callers, Queue(d, d \in Requests /\ Unseen(d)), UNCHANGED replayVars
      PROVE  ArchivedIsFiled'
  BY <1>9, SubType DEF Queue, AppendToInbox, InboxPlus, LineOf, Lines
<1>10. ASSUME NEW d \in Callers, GhMissing(d), UNCHANGED replayVars
      PROVE  ArchivedIsFiled'
  BY <1>10, SubType DEF GhMissing
<1>11. ASSUME NEW d \in Callers, GhFails(d), UNCHANGED replayVars
      PROVE  ArchivedIsFiled'
  BY <1>11, SubType DEF GhFails
<1>12. ASSUME NEW d \in Callers, QueueRaises(d), UNCHANGED replayVars
      PROVE  ArchivedIsFiled'
  BY <1>12, SubType DEF QueueRaises, AppendBreaksOff, Fragments, Lines
<1>13. ASSUME NEW s \in Submissions, LateCreateLands(s), UNCHANGED <<dispatchVars, replayVars>>
      PROVE  ArchivedIsFiled'
  BY <1>13, SubType DEF LateCreateLands, AddIssue
<1>14. ASSUME NEW s \in Submissions, IndexCatchesUp(s), UNCHANGED <<dispatchVars, replayVars>>
      PROVE  ArchivedIsFiled'
  BY <1>14, SubType DEF IndexCatchesUp
<1>15. ASSUME NEW p \in Replays, NEW c \in BOOLEAN, StartPass(p, c)
      PROVE  ArchivedIsFiled'
  BY <1>15, SubType DEF StartPass, SplitLines, ReadBack, Readable
<1>16. ASSUME NEW p \in Replays, NEW l \in Readable, KeepUnparsed(p, l)
      PROVE  ArchivedIsFiled'
  BY <1>16, SubType DEF KeepUnparsed, Leave, Readable
<1>17. ASSUME NEW p \in Replays, NEW l \in Lines, SkipFiled(p, l)
      PROVE  ArchivedIsFiled'
  BY <1>17, SubType, FoundIsMentioned
  DEF SkipFiled, Parses, Leave, ArchiveIfCommitted, Archive, Readable
<1>18. ASSUME NEW p \in Replays, NEW l \in Lines, KeepInDryRun(p, l)
      PROVE  ArchivedIsFiled'
  BY <1>18, SubType DEF KeepInDryRun, Parses, Leave, SearchFindsNothing, Readable
<1>19. ASSUME NEW p \in Replays, NEW l \in Lines, Dispatch(p, l)
      PROVE  ArchivedIsFiled'
  BY <1>19, SubType DEF Dispatch, Parses, Leave, SearchFindsNothing, Sanitize
<1>20. ASSUME NEW p \in Replays, TakeResult(p)
      PROVE  ArchivedIsFiled'
  BY <1>20, SubType, FoundIsMentioned DEF TakeResult, Leave, Archive, ResetCall, Readable
<1>21. ASSUME NEW p \in Replays, AbortPass(p)
      PROVE  ArchivedIsFiled'
  BY <1>21, SubType DEF AbortPass, Forget, ResetCall
<1>22. ASSUME NEW p \in Replays, EndDryRun(p)
      PROVE  ArchivedIsFiled'
  BY <1>22, SubType DEF EndDryRun, Forget
<1>23. ASSUME NEW p \in Replays, Truncate(p)
      PROVE  ArchivedIsFiled'
  BY <1>23, SubType DEF Truncate
<1>24. ASSUME NEW p \in Replays, WriteBack(p)
      PROVE  ArchivedIsFiled'
  BY <1>24, SubType DEF WriteBack, Forget, Overwritten, Fragments, Readable, Lines
<1>25. ASSUME NEW p \in Replays, ReplayDies(p)
      PROVE  ArchivedIsFiled'
  BY <1>25, SubType
  DEF ReplayDies, Forget, ResetCall, AbandonCreate, WriteBreaksOff, Fragments, Readable, Lines
<1>26. ASSUME NEW p \in Replays, ParseRaises(p)
      PROVE  ArchivedIsFiled'
  BY <1>26, SubType DEF ParseRaises, Forget
<1>27. CASE UNCHANGED vars
  BY <1>27, SubType DEF vars
<1> QED
  BY <1>1, <1>2, <1>3, <1>4, <1>5, <1>6, <1>7, <1>8, <1>9, <1>10, <1>11, <1>12, <1>13,
     <1>14, <1>15, <1>16, <1>17, <1>18, <1>19, <1>20, <1>21, <1>22, <1>23, <1>24, <1>25,
     <1>26, <1>27
  DEF Next, CallProgress, CallStep, CallFault, TrackerNext, ReplayStep

(***************************************************************************)
(* A step can part a queued line from the inbox only in Truncate, where    *)
(* the pass holds it, or by writing over it, where the line was exposed    *)
(* before.                                                                 *)
(***************************************************************************)
LEMMA NextQueuedNotLost == TypeOK /\ Shape /\ CallsAreTrue /\ NoRefusedLine /\ QueuedNotLost /\ [Next]_vars => QueuedNotLost'
<1> SUFFICES ASSUME TypeOK, Shape, CallsAreTrue, NoRefusedLine, QueuedNotLost, [Next]_vars
             PROVE  QueuedNotLost'
  OBVIOUS
<1>0. \A t \in Submissions : Mentioned(t) => Mentioned(t)'
  BY IssuesStay
<1> USE ActorsDistinct, SidOfType, <1>0
<1> USE DEF QueuedNotLost, SafeInInbox, BeingRewritten, Rewriting, Held, CallsAreTrue, NoRefusedLine, Sub, LineOf, Lines
<1> USE DEF TypeOK, TrackerTypeOK, DispatchTypeOK, ReplayTypeOK, Shape, Steps, Outcomes,
            GoTo, Return, Emit, Fault, trackerVars, inboxVars, fileVars, dispatchVars, replayVars,
            Callers
<1>1. ASSUME NEW r \in Requests, Submit(r), UNCHANGED replayVars
      PROVE  QueuedNotLost'
  BY <1>1, SubType DEF Submit, Sanitize, Lines
<1>2. ASSUME NEW r \in Requests, WorkerDies(r, Unseen(r)), UNCHANGED replayVars
      PROVE  QueuedNotLost'
  BY <1>2, SubType
  DEF WorkerDies, AbandonCreate, AppendToInbox, AppendBreaksOff, Fragments, InboxPlus, Lines,
      Unseen
<1>3. ASSUME NEW d \in Callers, FoundExisting(d), UNCHANGED replayVars
      PROVE  QueuedNotLost'
  BY <1>3, SubType DEF FoundExisting
<1>4. ASSUME NEW d \in Callers, FoundNothing(d), UNCHANGED replayVars
      PROVE  QueuedNotLost'
  BY <1>4, SubType DEF FoundNothing, SearchFindsNothing
<1>5. ASSUME NEW d \in Callers, GhRejectsArgv(d), UNCHANGED replayVars
      PROVE  QueuedNotLost'
  BY <1>5, SubType DEF GhRejectsArgv
<1>6. ASSUME NEW d \in Callers, GhSends(d), UNCHANGED replayVars
      PROVE  QueuedNotLost'
  BY <1>6, SubType DEF GhSends
<1>7. ASSUME NEW d \in Callers, CreateLands(d), UNCHANGED replayVars
      PROVE  QueuedNotLost'
  BY <1>7, SubType DEF CreateLands, AddIssue
<1>8. ASSUME NEW d \in Callers, GhSucceeds(d), UNCHANGED replayVars
      PROVE  QueuedNotLost'
  BY <1>8, SubType DEF GhSucceeds
<1>9. ASSUME NEW d \in Callers, Queue(d, d \in Requests /\ Unseen(d)), UNCHANGED replayVars
      PROVE  QueuedNotLost'
  BY <1>9, SubType DEF Queue, AppendToInbox, InboxPlus, LineOf, Lines, Unseen
<1>10. ASSUME NEW d \in Callers, GhMissing(d), UNCHANGED replayVars
      PROVE  QueuedNotLost'
  BY <1>10, SubType DEF GhMissing
<1>11. ASSUME NEW d \in Callers, GhFails(d), UNCHANGED replayVars
      PROVE  QueuedNotLost'
  BY <1>11, SubType DEF GhFails
<1>12. ASSUME NEW d \in Callers, QueueRaises(d), UNCHANGED replayVars
      PROVE  QueuedNotLost'
  BY <1>12, SubType DEF QueueRaises, AppendBreaksOff, Fragments, Lines
<1>13. ASSUME NEW s \in Submissions, LateCreateLands(s), UNCHANGED <<dispatchVars, replayVars>>
      PROVE  QueuedNotLost'
  BY <1>13, SubType DEF LateCreateLands, AddIssue
<1>14. ASSUME NEW s \in Submissions, IndexCatchesUp(s), UNCHANGED <<dispatchVars, replayVars>>
      PROVE  QueuedNotLost'
  BY <1>14, SubType DEF IndexCatchesUp
<1>15. ASSUME NEW p \in Replays, NEW c \in BOOLEAN, StartPass(p, c)
      PROVE  QueuedNotLost'
  BY <1>15, SubType DEF StartPass, SplitLines, ReadBack, Readable
<1>16. ASSUME NEW p \in Replays, NEW l \in Readable, KeepUnparsed(p, l)
      PROVE  QueuedNotLost'
  BY <1>16, SubType DEF KeepUnparsed, Leave, Readable
<1>17. ASSUME NEW p \in Replays, NEW l \in Lines, SkipFiled(p, l)
      PROVE  QueuedNotLost'
  BY <1>17, SubType, FoundIsMentioned
  DEF SkipFiled, Parses, Leave, ArchiveIfCommitted, Archive, Readable
<1>18. ASSUME NEW p \in Replays, NEW l \in Lines, KeepInDryRun(p, l)
      PROVE  QueuedNotLost'
  BY <1>18, SubType DEF KeepInDryRun, Parses, Leave, SearchFindsNothing, Readable
<1>19. ASSUME NEW p \in Replays, NEW l \in Lines, Dispatch(p, l)
      PROVE  QueuedNotLost'
  BY <1>19, SubType DEF Dispatch, Parses, Leave, SearchFindsNothing, Sanitize
<1>20. ASSUME NEW p \in Replays, TakeResult(p)
      PROVE  QueuedNotLost'
  BY <1>20, SubType, FoundIsMentioned DEF TakeResult, Leave, Archive, ResetCall, Readable
<1>21. ASSUME NEW p \in Replays, AbortPass(p)
      PROVE  QueuedNotLost'
  BY <1>21, SubType DEF AbortPass, Forget, ResetCall
<1>22. ASSUME NEW p \in Replays, EndDryRun(p)
      PROVE  QueuedNotLost'
  BY <1>22, SubType DEF EndDryRun, Forget
<1>23. ASSUME NEW p \in Replays, Truncate(p)
      PROVE  QueuedNotLost'
  BY <1>23, SubType DEF Truncate
<1>24. ASSUME NEW p \in Replays, WriteBack(p)
      PROVE  QueuedNotLost'
  BY <1>24, SubType DEF WriteBack, Forget, Overwritten, Fragments, Readable, Lines, UnseenBesides
<1>25. ASSUME NEW p \in Replays, ReplayDies(p)
      PROVE  QueuedNotLost'
  BY <1>25, SubType
  DEF ReplayDies, Forget, ResetCall, AbandonCreate, WriteBreaksOff, Fragments, Readable, Lines
<1>26. ASSUME NEW p \in Replays, ParseRaises(p)
      PROVE  QueuedNotLost'
  BY <1>26, SubType DEF ParseRaises, Forget
<1>27. CASE UNCHANGED vars
  BY <1>27, SubType DEF vars
<1> QED
  BY <1>1, <1>2, <1>3, <1>4, <1>5, <1>6, <1>7, <1>8, <1>9, <1>10, <1>11, <1>12, <1>13,
     <1>14, <1>15, <1>16, <1>17, <1>18, <1>19, <1>20, <1>21, <1>22, <1>23, <1>24, <1>25,
     <1>26, <1>27
  DEF Next, CallProgress, CallStep, CallFault, TrackerNext, ReplayStep

(***************************************************************************)
(* The inductive invariant.  CallsAreTrue is what makes a line archived    *)
(* after a successful outcome filed; NoRefusedLine is what keeps the       *)
(* outcome "refused" from archiving a captured line; Shape ties both to    *)
(* the pass.                                                               *)
(***************************************************************************)
IInv == /\ TypeOK /\ Shape /\ CallsAreTrue /\ NoRefusedLine
        /\ RefusedStaysOut /\ ArchivedIsFiled /\ QueuedNotLost

LEMMA InitIInv == Init => IInv
<1> SUFFICES ASSUME Init PROVE IInv
  OBVIOUS
<1>1. TypeOK /\ Shape
  BY InitShape
<1>2. CallsAreTrue
  BY ActorsDistinct
  DEF Init, TrackerInit, DispatchInit, CallsAreTrue, Accepted, Callers
<1>3. NoRefusedLine
  BY ActorsDistinct
  DEF Init, DispatchInit, ReplayInit, NoRefusedLine, Held, Lines
<1>4. RefusedStaysOut
  BY ActorsDistinct, TextClasses
  DEF Init, TrackerInit, DispatchInit, ReplayInit, RefusedStaysOut, Lines
<1>5. ArchivedIsFiled /\ QueuedNotLost
  BY DEF Init, DispatchInit, ReplayInit, ArchivedIsFiled, QueuedNotLost
<1> QED
  BY <1>1, <1>2, <1>3, <1>4, <1>5 DEF IInv

LEMMA NextIInv == IInv /\ [Next]_vars => IInv'
  BY NextShape, NextCallsAreTrue, NextNoRefusedLine, NextRefusedStaysOut,
     NextArchivedIsFiled, NextQueuedNotLost
  DEF IInv

\* Every behaviour of the system satisfies the inductive invariant.
THEOREM Invariance == Spec => []IInv
  BY InitIInv, NextIInv, PTL DEF Spec

\* Every variable keeps its type, for any number of actors and faults.
THEOREM TypeCorrect == Spec => []TypeOK
<1>1. IInv => TypeOK
  BY DEF IInv
<1> QED
  BY <1>1, Invariance, PTL

(***************************************************************************)
(* A submission its operator was told is queued is filed, safe in the      *)
(* inbox or in the hands of the pass rewriting it, unless its line was     *)
(* exposed in one of the four windows QueuedNotLost names.                 *)
(***************************************************************************)
THEOREM QueuedNeverLost == Spec => []QueuedNotLost
<1>1. IInv => QueuedNotLost
  BY DEF IInv
<1> QED
  BY <1>1, Invariance, PTL

(***************************************************************************)
(* The archive holds no line of a submission that no issue mentions,       *)
(* refused lines aside.                                                    *)
(***************************************************************************)
THEOREM ArchiveIsSound == Spec => []ArchivedIsFiled
<1>1. IInv => ArchivedIsFiled
  BY DEF IInv
<1> QED
  BY <1>1, Invariance, PTL

(***************************************************************************)
(* What the sanitizer refuses never reaches GitHub, whichever call brings  *)
(* it and however often, and a refused POST reaches no file, inbox and     *)
(* archive included.                                                       *)
(***************************************************************************)
THEOREM RefusalsStayOut == Spec => []RefusedStaysOut
<1>1. IInv => RefusedStaysOut
  BY DEF IInv
<1> QED
  BY <1>1, Invariance, PTL

=============================================================================
