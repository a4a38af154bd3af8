------------------------- MODULE InboxRecords_proofs -------------------------
(***************************************************************************)
(* More proofs about InboxReplay, on the invariant of InboxReplay_proofs:  *)
(* what operators and auditors are told, what a dry run leaves alone, when *)
(* a submission becomes one issue only, and the promise of delivery.       *)
(***************************************************************************)
EXTENDS InboxReplay_proofs

(***************************************************************************)
(* The answers of requests have their event, a queued one its line.        *)
(***************************************************************************)
Recorded ==
  \A r \in Requests :
    /\ outcome[r] = "created" => <<"feedback.issue_created", SidOf[r]>> \in audit
    /\ outcome[r] = "deduplicated" => <<"feedback.deduplicated", SidOf[r]>> \in audit
    /\ outcome[r] = "queued" => r \in captured /\ <<"feedback.queued_offline", SidOf[r]>> \in audit
    /\ outcome[r] = "refused" => <<"feedback.refused", SidOf[r]>> \in audit

\* With what the calls know, the events make the answers true.
LEMMA RecordsSuffice ==
  ASSUME CallsAreTrue, Recorded
  PROVE  RepliesAreTrue
  BY DEF CallsAreTrue, Recorded, RepliesAreTrue, Sub, LineOf, Callers

\* The steps of a pass touch neither an answer nor what is told.
LEMMA PassesKeepRecords ==
  ASSUME TypeOK, Recorded, NEW p \in Replays,
         \/ \E c \in BOOLEAN : StartPass(p, c)
         \/ ReplayStep(p)
         \/ ReplayDies(p)
  PROVE  Recorded'
<1> DEFINE Goal == /\ \A r \in Requests : outcome'[r] = outcome[r]
                   /\ audit \subseteq audit' /\ captured \subseteq captured'
<1> USE ActorsDistinct DEF TypeOK, DispatchTypeOK, Callers, dispatchVars, fileVars
<1>1. ASSUME NEW l, KeepUnparsed(p, l) \/ SkipFiled(p, l) \/ KeepInDryRun(p, l) PROVE Goal
  BY <1>1 DEF KeepUnparsed, SkipFiled, KeepInDryRun
<1>2. ASSUME NEW l, Dispatch(p, l) PROVE Goal
  BY <1>2 DEF Dispatch, Sanitize, Emit, Return
<1>3. ASSUME TakeResult(p) \/ AbortPass(p) \/ ReplayDies(p) PROVE Goal
  BY <1>3 DEF TakeResult, AbortPass, ReplayDies, ResetCall
<1>4. ASSUME \/ \E c \in BOOLEAN : StartPass(p, c)
             \/ ParseRaises(p) \/ EndDryRun(p) \/ Truncate(p) \/ WriteBack(p)
      PROVE  Goal
  BY <1>4 DEF StartPass, ParseRaises, EndDryRun, Truncate, WriteBack
<1>5. Goal
  BY <1>1, <1>2, <1>3, <1>4 DEF ReplayStep
<1> QED
  BY <1>5 DEF Recorded

(***************************************************************************)
(* A request gets its answer in the step that emits the event, and nothing *)
(* takes back an event or a capture.                                       *)
(***************************************************************************)
LEMMA NextRecorded ==
  ASSUME TypeOK, Shape, Recorded, [Next]_vars
  PROVE  Recorded'
<1> USE ActorsDistinct, SidOfType
<1> USE DEF Recorded, TypeOK, DispatchTypeOK, Callers, Sub, LineOf, GoTo, Return, Emit,
            fileVars, dispatchVars
<1>1. ASSUME NEW r \in Requests, Submit(r)
      PROVE  Recorded'
  BY <1>1 DEF Submit, Sanitize
<1>2. ASSUME NEW r \in Requests, WorkerDies(r, Unseen(r))
      PROVE  Recorded'
  BY <1>2 DEF WorkerDies
<1>3. ASSUME NEW d \in Callers, FoundExisting(d)
      PROVE  Recorded'
  BY <1>3 DEF FoundExisting
<1>4. ASSUME NEW d \in Callers, FoundNothing(d) \/ GhMissing(d) \/ GhSends(d)
                                \/ CreateLands(d) \/ GhFails(d)
      PROVE  Recorded'
  BY <1>4 DEF FoundNothing, GhMissing, GhSends, CreateLands, GhFails
<1>5. ASSUME NEW d \in Callers, GhRejectsArgv(d) \/ QueueRaises(d)
      PROVE  Recorded'
  BY <1>5 DEF GhRejectsArgv, QueueRaises
<1>6. ASSUME NEW d \in Callers, GhSucceeds(d)
      PROVE  Recorded'
  BY <1>6 DEF GhSucceeds
<1>7. ASSUME NEW d \in Callers, Queue(d, d \in Requests /\ Unseen(d))
      PROVE  Recorded'
  BY <1>7 DEF Queue
<1>8. CASE UNCHANGED dispatchVars
  BY <1>8
<1> QED
  BY <1>1, <1>2, <1>3, <1>4, <1>5, <1>6, <1>7, <1>8, PassesKeepRecords
  DEF Next, CallProgress, CallStep, CallFault, vars

(***************************************************************************)
(* The events that name an issue are emitted where gh has succeeded or the *)
(* search has found one; issues stay.                                      *)
(***************************************************************************)
LEMMA NextAuditIsTrue ==
  ASSUME TypeOK, Shape, CallsAreTrue, AuditIsTrue, [Next]_vars
  PROVE  AuditIsTrue'
<1>0. /\ \A t \in Submissions : IsFiled(t) => IsFiled(t)'
      /\ \A t \in Submissions : Mentioned(t) => Mentioned(t)'
  BY IssuesStay
<1>1. SUFFICES
        \A s \in Submissions :
          /\ <<"feedback.issue_created", s>> \in audit' \ audit => IsFiled(s)
          /\ <<"feedback.deduplicated", s>> \in audit' \ audit => Mentioned(s)
  BY <1>0 DEF AuditIsTrue
<1> USE ActorsDistinct DEF Emit, dispatchVars
<1>2. ASSUME NEW d \in Callers, FoundExisting(d)
      PROVE  audit' = audit \union {<<"feedback.deduplicated", Sub(d)>>} /\ Mentioned(Sub(d))
  BY <1>2, SubType, FoundIsMentioned DEF FoundExisting
<1>3. ASSUME NEW d \in Callers, GhSucceeds(d)
      PROVE  audit' = audit \union {<<"feedback.issue_created", Sub(d)>>} /\ IsFiled(Sub(d))
  BY <1>3 DEF GhSucceeds, CallsAreTrue
<1>4. ASSUME NEW d, NEW s, Sanitize(d, s)
      PROVE  \A e \in audit' \ audit : e[1] \in {"feedback.refused", "feedback.dispatch_started"}
  BY <1>4 DEF Sanitize
<1>5. ASSUME NEW r \in Requests, Submit(r)
      PROVE  \A e \in audit' \ audit : e[1] \in {"feedback.refused", "feedback.dispatch_started"}
  BY <1>5, <1>4 DEF Submit
<1>6. ASSUME NEW p \in Replays, NEW l \in Lines, Dispatch(p, l)
      PROVE  \A e \in audit' \ audit : e[1] \in {"feedback.refused", "feedback.dispatch_started"}
  BY <1>6, <1>4 DEF Dispatch
<1>7. ASSUME NEW d \in Callers, NEW u, Queue(d, u)
      PROVE  audit' = audit \union {<<"feedback.queued_offline", Sub(d)>>}
  BY <1>7 DEF Queue
<1>8. ASSUME NEW d \in Callers, \/ FoundNothing(d) \/ GhMissing(d) \/ GhRejectsArgv(d)
                                \/ GhSends(d) \/ CreateLands(d) \/ GhFails(d)
                                \/ QueueRaises(d) \/ WorkerDies(d, Unseen(d))
      PROVE  audit' = audit
  BY <1>8
  DEF FoundNothing, GhMissing, GhRejectsArgv, GhSends, CreateLands, GhFails, QueueRaises,
      WorkerDies
<1>9. ASSUME NEW p \in Replays,
             \/ \E c \in BOOLEAN : StartPass(p, c)
             \/ \E l \in Lines : SkipFiled(p, l) \/ KeepInDryRun(p, l)
             \/ \E l \in Readable : KeepUnparsed(p, l)
             \/ ParseRaises(p) \/ TakeResult(p) \/ AbortPass(p) \/ EndDryRun(p)
             \/ Truncate(p) \/ WriteBack(p) \/ ReplayDies(p)
      PROVE  audit' = audit
  BY <1>9
  DEF StartPass, KeepUnparsed, ParseRaises, SkipFiled, KeepInDryRun, TakeResult, AbortPass, EndDryRun,
      Truncate, WriteBack, ReplayDies
<1>10. \/ audit' = audit
       \/ \A e \in audit' \ audit : e[1] \in {"feedback.refused", "feedback.dispatch_started"}
       \/ \E d \in Callers :
            \/ audit' = audit \union {<<"feedback.queued_offline", Sub(d)>>}
            \/ FoundExisting(d) \/ GhSucceeds(d)
  <2>1. ASSUME TrackerNext, UNCHANGED dispatchVars PROVE audit' = audit
    BY <2>1
  <2>2. ASSUME NEW p \in Replays, ReplayStep(p)
        PROVE  audit' = audit \/ \E l \in Lines : Dispatch(p, l)
    BY <2>2, <1>9 DEF ReplayStep
  <2>3. ASSUME NEW d \in Callers, CallProgress(d) \/ CallFault(d)
        PROVE  \/ audit' = audit \union {<<"feedback.queued_offline", Sub(d)>>}
               \/ FoundExisting(d) \/ GhSucceeds(d) \/ audit' = audit
    BY <2>3, <1>7, <1>8 DEF CallProgress, CallStep, CallFault
  <2>4. ASSUME NEW r \in Requests, Submit(r) \/ WorkerDies(r, Unseen(r))
        PROVE  \/ audit' = audit
               \/ \A e \in audit' \ audit : e[1] \in {"feedback.refused", "feedback.dispatch_started"}
    BY <2>4, <1>5, <1>8 DEF Callers
  <2> QED
    BY <2>1, <2>2, <2>3, <2>4, <1>6, <1>9 DEF Next, vars
<1> QED
  BY <1>10, <1>2, <1>3

\* Answers and audit trail, on the invariant of the inbox.
RecordInv == IInv /\ Recorded /\ AuditIsTrue

LEMMA InitRecordInv == Init => RecordInv
  BY InitIInv DEF Init, DispatchInit, RecordInv, Recorded, AuditIsTrue, Callers

LEMMA NextRecordInv == RecordInv /\ [Next]_vars => RecordInv'
  BY NextIInv, NextRecorded, NextAuditIsTrue DEF RecordInv, IInv

THEOREM RecordInvariance == Spec => []RecordInv
  BY InitRecordInv, NextRecordInv, PTL DEF Spec

(***************************************************************************)
(* Whatever the operator is answered is so, and the audit trail says it,   *)
(* however calls and passes interleave and whichever die.                  *)
(***************************************************************************)
THEOREM AnswersAreTrue == Spec => []RepliesAreTrue
<1>1. RecordInv => RepliesAreTrue
  BY RecordsSuffice DEF RecordInv, IInv
<1> QED
  BY <1>1, RecordInvariance, PTL

\* No event of the audit trail names an issue that does not exist.
THEOREM AuditTrailIsTrue == Spec => []AuditIsTrue
<1>1. RecordInv => AuditIsTrue
  BY DEF RecordInv
<1> QED
  BY <1>1, RecordInvariance, PTL

-----------------------------------------------------------------------------
(* Dry runs *)

(***************************************************************************)
(* A pass without --commit calls no dispatcher, so what moves it on leaves *)
(* every file and the tracker alone, also when it is killed.               *)
(***************************************************************************)
LEMMA DryStep ==
  ASSUME TypeOK, Shape, [Next]_vars, NEW p \in Replays,
         stage[p] = "pass", ~commit[p],
         <<stage[p], todo[p]>>' # <<stage[p], todo[p]>>
  PROVE  UNCHANGED <<trackerVars, inboxVars, archive, failedLog, audit>>
<1>1. /\ stage \in [Replays -> {"idle", "pass", "truncated"}]
      /\ todo \in [Replays -> SUBSET (Readable \cup {StrayLine})]
      /\ step[p] = "idle"
  BY DEF TypeOK, ReplayTypeOK, Shape
<1>2. ASSUME NEW q \in Replays, q # p,
             (\E c \in BOOLEAN : StartPass(q, c)) \/ ReplayStep(q) \/ ReplayDies(q)
      PROVE  FALSE
  BY <1>1, <1>2
  DEF StartPass, ReplayStep, ReplayDies, KeepUnparsed, ParseRaises, SkipFiled, KeepInDryRun, Dispatch,
      TakeResult, AbortPass, EndDryRun, Truncate, WriteBack, Leave, Forget
<1>3. (\E c \in BOOLEAN : StartPass(p, c)) \/ ReplayStep(p) \/ ReplayDies(p)
  BY <1>1, <1>2 DEF Next, vars, replayVars
<1>4. CASE ReplayDies(p)
  BY <1>1, <1>4 DEF ReplayDies, AbandonCreate, trackerVars, inboxVars
<1>5. CASE ReplayStep(p) \/ \E c \in BOOLEAN : StartPass(p, c)
  BY <1>1, <1>5
  DEF StartPass, ReplayStep, KeepUnparsed, ParseRaises, SkipFiled, KeepInDryRun, Dispatch, TakeResult,
      AbortPass, EndDryRun, Truncate, WriteBack, ArchiveIfCommitted, trackerVars,
      inboxVars, fileVars, dispatchVars
<1> QED
  BY <1>3, <1>4, <1>5

\* A dry run leaves inbox, archive, tracker and audit trail as they are.
THEOREM DryRunsAreInert == Spec => DryRunIsInert
<1>1. IInv /\ [Next]_vars =>
        [\A p \in Replays :
          (stage[p] = "pass" /\ ~commit[p] /\ <<stage[p], todo[p]>>' # <<stage[p], todo[p]>>)
          => UNCHANGED <<trackerVars, inboxVars, archive, failedLog, audit>>]_vars
  BY DryStep DEF IInv
<1> QED
  BY <1>1, Invariance, PTL DEF Spec, DryRunIsInert

-----------------------------------------------------------------------------
(* One issue for each submission *)

(***************************************************************************)
(* What the code needs from GitHub: an index that is never late, searches  *)
(* that do not fail, and no request that lands after its gh was given up.  *)
(***************************************************************************)
PromptTracker == ~IndexLags /\ FaultKinds \intersect {"search", "late"} = {}

(***************************************************************************)
(* From the answer of its search to the answer of gh a call is alone with  *)
(* its submission, as if it held a lock on it.                             *)
(***************************************************************************)
Serial ==
  \A d, e \in Callers :
    {step[d], step[e]} \subseteq {"create", "await"} /\ Sub(d) = Sub(e) => d = e

(***************************************************************************)
(* A use of the satellite that needs no lock: passes do not overlap, and a *)
(* submission is delivered once.                                           *)
(***************************************************************************)
OneAtATime ==
  /\ PromptTracker
  /\ \A p, q \in Replays : p = q
  /\ \A l, m \in Lines : SidOf[l] = SidOf[m] => l = m \/ SidOf[l] \in Refuses

\* A request that has not been answered has no line anywhere yet.
LineAfterAnswer ==
  \A r \in Requests : step[r] # "returned" =>
     r \notin inbox /\ \A p \in Replays : r \notin Held(p)

\* A call between its search and the landing of its issue is the first.
FirstToFile ==
  /\ \A s \in Submissions : late[s] = 0 /\ (IsFiled(s) => s \in searchable)
  /\ \A d \in Callers :
       step[d] = "create" \/ (step[d] = "await" /\ d \notin landed) => ~IsFiled(Sub(d))

\* Lines come from calls that end, and passes only move them.
LEMMA NextLineAfterAnswer ==
  ASSUME TypeOK, Shape, LineAfterAnswer, [Next]_vars
  PROVE  LineAfterAnswer'
<1> USE ActorsDistinct
<1> USE DEF LineAfterAnswer, Held, Lines, TypeOK, DispatchTypeOK, ReplayTypeOK, Shape, GoTo,
            Return, inboxVars, fileVars, dispatchVars, replayVars, Callers
<1>1. ASSUME NEW r \in Requests, Submit(r), UNCHANGED replayVars
      PROVE  LineAfterAnswer'
  BY <1>1 DEF Submit, Sanitize
<1>2. ASSUME NEW r \in Requests, WorkerDies(r, Unseen(r)), UNCHANGED replayVars
      PROVE  LineAfterAnswer'
  BY <1>2 DEF WorkerDies, AppendToInbox, AppendBreaksOff, Fragments, InboxPlus
<1>3. ASSUME NEW d \in Callers, CallStep(d) \/ GhMissing(d) \/ GhFails(d), UNCHANGED replayVars
      PROVE  LineAfterAnswer'
  BY <1>3
  DEF CallStep, FoundExisting, FoundNothing, GhRejectsArgv, GhSends, CreateLands,
      GhSucceeds, GhMissing, GhFails
<1>4. ASSUME NEW d \in Callers, Queue(d, d \in Requests /\ Unseen(d)), UNCHANGED replayVars
      PROVE  LineAfterAnswer'
  BY <1>4 DEF Queue, AppendToInbox, InboxPlus
<1>5. ASSUME NEW d \in Callers, QueueRaises(d), UNCHANGED replayVars
      PROVE  LineAfterAnswer'
  BY <1>5 DEF QueueRaises, AppendBreaksOff, Fragments
<1>6. ASSUME NEW p \in Replays, NEW c \in BOOLEAN, StartPass(p, c)
      PROVE  LineAfterAnswer'
  BY <1>6 DEF StartPass, SplitLines, ReadBack
<1>7. ASSUME NEW p \in Replays, NEW l \in Readable, KeepUnparsed(p, l)
      PROVE  LineAfterAnswer'
  BY <1>7 DEF KeepUnparsed, Leave
<1>8. ASSUME NEW p \in Replays, NEW l \in Lines, SkipFiled(p, l) \/ KeepInDryRun(p, l)
      PROVE  LineAfterAnswer'
  BY <1>8 DEF SkipFiled, KeepInDryRun, Leave
<1>9. ASSUME NEW p \in Replays, NEW l \in Lines, Dispatch(p, l)
      PROVE  LineAfterAnswer'
  BY <1>9 DEF Dispatch, Leave, Sanitize
<1>10. ASSUME NEW p \in Replays, TakeResult(p)
      PROVE  LineAfterAnswer'
  BY <1>10 DEF TakeResult, Leave, ResetCall
<1>11. ASSUME NEW p \in Replays, AbortPass(p) \/ EndDryRun(p) \/ ParseRaises(p)
      PROVE  LineAfterAnswer'
  BY <1>11 DEF AbortPass, EndDryRun, ParseRaises, Forget, ResetCall
<1>12. ASSUME NEW p \in Replays, Truncate(p)
      PROVE  LineAfterAnswer'
  BY <1>12 DEF Truncate
<1>13. ASSUME NEW p \in Replays, WriteBack(p)
      PROVE  LineAfterAnswer'
  BY <1>13 DEF WriteBack, Forget, Overwritten, Fragments
<1>14. ASSUME NEW p \in Replays, ReplayDies(p)
      PROVE  LineAfterAnswer'
  BY <1>14 DEF ReplayDies, Forget, ResetCall, WriteBreaksOff, Fragments
<1>15. CASE UNCHANGED <<dispatchVars, replayVars>>
  BY <1>15
<1> QED
  BY <1>1, <1>2, <1>3, <1>4, <1>5, <1>6, <1>7, <1>8, <1>9, <1>10, <1>11, <1>12, <1>13,
     <1>14, <1>15
  DEF Next, CallProgress, CallFault, ReplayStep, vars

\* Two calls about one submission that was let through are one call.
LEMMA OneCallEach ==
  ASSUME OneAtATime, TypeOK, Shape, CallsAreTrue, LineAfterAnswer,
         NEW d \in Callers, NEW e \in Callers,
         step[d] \in Accepted, step[e] \in Accepted, Sub(d) = Sub(e)
  PROVE  d = e
<1>1. LineOf(d) \in Lines /\ LineOf(e) \in Lines /\ LineOf(d) = LineOf(e)
  BY SubType DEF OneAtATime, CallsAreTrue, Accepted, Sub
<1>2. \A r \in Requests, p \in Replays : step[r] \in Accepted => carrying[p] # r
  BY DEF LineAfterAnswer, Held, Accepted
<1> QED
  BY <1>1, <1>2, ActorsDistinct DEF OneAtATime, LineOf, Callers

\* A new issue is the first of its submission, and its call has landed.
LEMMA FirstLands ==
  ASSUME PromptTracker, TypeOK, Shape, CallsAreTrue, Serial, FirstToFile, AtMostOneIssue,
         NEW d \in Callers, CreateLands(d)
  PROVE  FirstToFile' /\ AtMostOneIssue'
<1> DEFINE s == Sub(d)
<1>1. /\ s \in Submissions /\ ~IsFiled(s) /\ step[d] \in Accepted
      /\ filed \in [Submissions -> Nat]
  BY SubType DEF CreateLands, FirstToFile, Accepted, TypeOK, TrackerTypeOK
<1>2. /\ filed' = [filed EXCEPT ![s] = @ + 1] /\ searchable' = searchable \union {s}
      /\ late' = late /\ step' = step /\ carrying' = carrying /\ landed' = landed \union {d}
  BY DEF CreateLands, AddIssue, PromptTracker
<1>3. filed[s] = 0
  BY <1>1 DEF IsFiled
<1>4. AtMostOneIssue'
  BY <1>1, <1>2, <1>3 DEF AtMostOneIssue
<1>5. ASSUME NEW e \in Callers, step[e] = "create" \/ (step[e] = "await" /\ e \notin landed'),
             IsFiled(Sub(e))'
      PROVE  FALSE
  <2>1. Sub(e) # s
    BY <1>1, <1>2, <1>5 DEF Serial, CreateLands
  <2>2. Sub(e)' = Sub(e) /\ Sub(e) \in Submissions
    BY <1>2, <1>5, SubType DEF Sub, LineOf
  <2>3. ~IsFiled(Sub(e))
    BY <1>2, <1>5 DEF FirstToFile
  <2> QED
    BY <1>1, <1>2, <1>5, <2>1, <2>2, <2>3 DEF IsFiled
<1> QED
  BY <1>1, <1>2, <1>4, <1>5 DEF FirstToFile, IsFiled, Callers

(***************************************************************************)
(* No other step adds an issue, and a call goes on to create only when its *)
(* search, which has found nothing, proves that there is none.             *)
(***************************************************************************)
LEMMA NextFirstToFile ==
  ASSUME PromptTracker, TypeOK, Shape, CallsAreTrue, Serial, FirstToFile, AtMostOneIssue,
         [Next]_vars
  PROVE  FirstToFile' /\ AtMostOneIssue'
<1> USE ActorsDistinct
<1> USE DEF PromptTracker, FirstToFile, AtMostOneIssue, IsFiled, Sub, LineOf, TypeOK, TrackerTypeOK,
            DispatchTypeOK, Shape, GoTo, Return, Fault, trackerVars, dispatchVars, Callers
<1>1. ASSUME NEW r \in Requests, Submit(r)
      PROVE  FirstToFile' /\ AtMostOneIssue'
  BY <1>1 DEF Submit, Sanitize
<1>2. ASSUME NEW r \in Requests, WorkerDies(r, Unseen(r))
      PROVE  FirstToFile' /\ AtMostOneIssue'
  BY <1>2 DEF WorkerDies, AbandonCreate
<1>3. ASSUME NEW d \in Callers, FoundNothing(d)
      PROVE  FirstToFile' /\ AtMostOneIssue'
  <2>1. Sub(d) \notin searchable
    BY <1>3 DEF FoundNothing, SearchFindsNothing, SearchHits, BodyIds
  <2>2. Sub(d) \in Submissions
    BY <1>3, SubType DEF FoundNothing
  <2> QED
    BY <1>3, <2>1, <2>2 DEF FoundNothing
<1>4. ASSUME NEW d \in Callers, FoundExisting(d) \/ GhRejectsArgv(d) \/ GhMissing(d)
      PROVE  FirstToFile' /\ AtMostOneIssue'
  BY <1>4 DEF FoundExisting, GhRejectsArgv, GhMissing
<1>5. ASSUME NEW d \in Callers, GhSends(d)
      PROVE  FirstToFile' /\ AtMostOneIssue'
  BY <1>5 DEF GhSends
<1>6. ASSUME NEW d \in Callers, GhSucceeds(d) \/ GhFails(d)
      PROVE  FirstToFile' /\ AtMostOneIssue'
  BY <1>6 DEF GhSucceeds, GhFails
<1>7. ASSUME NEW d \in Callers, NEW u, Queue(d, u) \/ QueueRaises(d)
      PROVE  FirstToFile' /\ AtMostOneIssue'
  BY <1>7 DEF Queue, QueueRaises
<1>8. ASSUME NEW s \in Submissions, LateCreateLands(s) \/ IndexCatchesUp(s)
      PROVE  FALSE
  BY <1>8 DEF LateCreateLands, IndexCatchesUp
<1>9. ASSUME NEW p \in Replays, NEW c \in BOOLEAN, StartPass(p, c)
      PROVE  FirstToFile' /\ AtMostOneIssue'
  BY <1>9 DEF StartPass
<1>10. ASSUME NEW p \in Replays, NEW l \in Lines, Dispatch(p, l)
      PROVE  FirstToFile' /\ AtMostOneIssue'
  BY <1>10 DEF Dispatch, Sanitize
<1>11. ASSUME NEW p \in Replays,
             \/ ParseRaises(p) \/ EndDryRun(p) \/ Truncate(p) \/ WriteBack(p)
             \/ \E l \in Readable : KeepUnparsed(p, l)
             \/ \E l \in Lines : SkipFiled(p, l) \/ KeepInDryRun(p, l)
      PROVE  FirstToFile' /\ AtMostOneIssue'
  BY <1>11 DEF KeepUnparsed, ParseRaises, EndDryRun, Truncate, WriteBack, SkipFiled, KeepInDryRun
<1>12. ASSUME NEW p \in Replays, TakeResult(p) \/ AbortPass(p)
      PROVE  FirstToFile' /\ AtMostOneIssue'
  <2>1. /\ step' = [step EXCEPT ![p] = "idle"] /\ carrying' = [carrying EXCEPT ![p] = NoLine]
        /\ UNCHANGED <<landed, filed, searchable, late>>
    BY <1>12 DEF TakeResult, AbortPass, ResetCall
  <2> QED
    BY <2>1
<1>13. ASSUME NEW p \in Replays, ReplayDies(p)
      PROVE  FirstToFile' /\ AtMostOneIssue'
  BY <1>13 DEF ReplayDies, ResetCall, AbandonCreate
<1>14. CASE UNCHANGED vars
  BY <1>14 DEF vars
<1>15. ASSUME NEW d \in Callers, CreateLands(d)
       PROVE  FirstToFile' /\ AtMostOneIssue'
  BY <1>15, FirstLands
<1> HIDE DEF PromptTracker, FirstToFile, AtMostOneIssue, IsFiled, Sub, LineOf, TypeOK,
             TrackerTypeOK, DispatchTypeOK, Shape, GoTo, Return, Fault, trackerVars,
             dispatchVars, Callers
<1> QED
  BY <1>1, <1>2, <1>3, <1>4, <1>5, <1>6, <1>7, <1>8, <1>9, <1>10, <1>11, <1>12, <1>13,
     <1>14, <1>15
  DEF Next, CallProgress, CallStep, CallFault, TrackerNext, ReplayStep

\* Whoever creates is first, and there is one issue at most.
OneIssueInv == IInv /\ FirstToFile /\ AtMostOneIssue

LEMMA InitOneIssueInv == Init => OneIssueInv
<1>1. Init => FirstToFile /\ AtMostOneIssue
  BY DEF Init, TrackerInit, DispatchInit, FirstToFile, AtMostOneIssue, IsFiled
<1> QED
  BY <1>1, InitIInv DEF OneIssueInv

LEMMA NextOneIssueInv == PromptTracker /\ Serial /\ OneIssueInv /\ [Next]_vars => OneIssueInv'
  BY NextIInv, NextFirstToFile DEF OneIssueInv, IInv

(***************************************************************************)
(* With a tracker that answers, a lock per submission from search to gh's  *)
(* answer is enough: no retry, overlapping pass, failure or kill files it  *)
(* twice.  (The code has no such lock.)                                    *)
(***************************************************************************)
THEOREM OneIssueWhenSerial ==
  ASSUME PromptTracker
  PROVE  Spec /\ []Serial => []AtMostOneIssue
<1>1. Serial /\ OneIssueInv /\ [Next]_vars => OneIssueInv'
  BY PromptTracker, NextOneIssueInv
<1>2. OneIssueInv => AtMostOneIssue
  BY DEF OneIssueInv
<1> QED
  BY <1>1, <1>2, InitOneIssueInv, PTL DEF Spec

\* No request has been answered, and no pass holds a line.
LEMMA InitLineAfterAnswer == Init => LineAfterAnswer
  BY ActorsDistinct DEF Init, DispatchInit, ReplayInit, LineAfterAnswer, Held, Lines

\* Without overlaps and retries no lock is needed: two calls never meet.
LEMMA SerialByUse == OneAtATime /\ IInv /\ LineAfterAnswer => Serial
<1> SUFFICES ASSUME OneAtATime, IInv, LineAfterAnswer, NEW d \in Callers, NEW e \in Callers,
                    {step[d], step[e]} \subseteq {"create", "await"}, Sub(d) = Sub(e)
             PROVE  d = e
  BY DEF Serial
<1> QED
  BY OneCallEach DEF IInv, Accepted

(***************************************************************************)
(* Where searches answer, the index is prompt, nothing lands late, passes  *)
(* do not overlap and each submission is sent once, it becomes at most one *)
(* issue, whichever calls and passes fail, are killed or come again.       *)
(***************************************************************************)
THEOREM OneIssueEach ==
  ASSUME OneAtATime
  PROVE  Spec => []AtMostOneIssue
<1>1. OneIssueInv /\ LineAfterAnswer /\ [Next]_vars => OneIssueInv' /\ LineAfterAnswer'
  BY OneAtATime, NextOneIssueInv, NextLineAfterAnswer, SerialByUse DEF OneIssueInv, IInv, OneAtATime
<1>2. OneIssueInv => AtMostOneIssue
  BY DEF OneIssueInv
<1> QED
  BY <1>1, <1>2, InitOneIssueInv, InitLineAfterAnswer, PTL DEF Spec

-----------------------------------------------------------------------------
(* The promise of delivery *)

(***************************************************************************)
(* No fate is "lost": it is a matter of the answer, the text, the issues   *)
(* and the exposed lines alone.                                            *)
(***************************************************************************)
FateIsKnown ==
  \A r \in Requests :
    /\ outcome[r] \in Outcomes
    /\ outcome[r] = "none" => Fate(r) = "open"
    /\ outcome[r] \in {"rejected", "refused"} => Fate(r) = "declined"
    /\ outcome[r] \in {"raised", "died"} => Fate(r) = "failed"
    /\ outcome[r] \in {"created", "deduplicated"} => Fate(r) = "filed" /\ Mentioned(SidOf[r])
    /\ outcome[r] = "queued" => Fate(r) = IF Mentioned(SidOf[r]) THEN "filed"
                                          ELSE IF r \in exposed THEN "exposed"
                                          ELSE IF Parses(r) THEN "held" ELSE "stuck"

LEMMA KnownFates == RecordInv => FateIsKnown
<1> SUFFICES ASSUME RecordInv, NEW r \in Requests
             PROVE  FateIsKnown!(r)
  BY DEF FateIsKnown
<1>1. SidOf[r] \in Submissions
  BY SidOfType DEF Lines
<1>2. outcome[r] \in {"created", "deduplicated"} => Mentioned(SidOf[r])
  BY <1>1, FoundIsMentioned DEF RecordInv, IInv, CallsAreTrue, Sub, LineOf, Callers
<1>3. outcome[r] = "queued" =>
        \/ Mentioned(SidOf[r]) \/ r \in exposed \/ SafeInInbox(r) \/ BeingRewritten(r)
  BY DEF RecordInv, IInv, Recorded, QueuedNotLost
<1>4. outcome[r] \in Outcomes
  BY DEF RecordInv, IInv, TypeOK, DispatchTypeOK, Callers
<1> QED
  BY <1>2, <1>3, <1>4 DEF Fate

(***************************************************************************)
(* A step answers one request, or brings an issue, or does neither; it     *)
(* exposes nobody else in the first two cases and takes nothing back.      *)
(***************************************************************************)
Answers(r) ==
  /\ outcome[r] = "none"
  /\ outcome'[r] \in {"rejected", "refused"} => SidOf[r] \in RouterRejects \cup Refuses
  /\ outcome' = [outcome EXCEPT ![r] = outcome'[r]]
  /\ UNCHANGED filed
  /\ exposed \subseteq exposed' /\ exposed' \subseteq exposed \cup {r}

NewIssue ==
  /\ \A r \in Requests : outcome'[r] = outcome[r]
  /\ exposed' = exposed

Exposes ==
  /\ \A r \in Requests : outcome'[r] = outcome[r]
  /\ UNCHANGED filed
  /\ exposed \subseteq exposed'

\* No step of router, dispatcher or replay is of another kind.
LEMMA StepKinds ==
  ASSUME RecordInv, [Next]_vars
  PROVE  (\E r \in Requests : Answers(r)) \/ NewIssue \/ Exposes
<1> USE ActorsDistinct
<1>0. TypeOK /\ Shape /\ CallsAreTrue
  BY DEF RecordInv, IInv
<1> USE <1>0 DEF TypeOK, DispatchTypeOK, Callers, Return, dispatchVars, fileVars, inboxVars
<1>1. ASSUME NEW r \in Requests, Submit(r)
      PROVE  Answers(r) \/ Exposes
  BY <1>1 DEF Submit, Sanitize, Answers, Exposes, CallsAreTrue, trackerVars
<1>2. ASSUME NEW r \in Requests, WorkerDies(r, Unseen(r))
      PROVE  Answers(r)
  BY <1>2 DEF WorkerDies, AppendToInbox, AppendBreaksOff, Fragments, AbandonCreate, Answers, CallsAreTrue
<1>3. ASSUME NEW d \in Callers, FoundExisting(d) \/ GhRejectsArgv(d) \/ GhSucceeds(d)
      PROVE  (d \in Requests /\ Answers(d)) \/ Exposes
  BY <1>3 DEF FoundExisting, GhRejectsArgv, GhSucceeds, Answers, Exposes, CallsAreTrue, trackerVars
<1>4. ASSUME NEW d \in Callers, FoundNothing(d) \/ GhMissing(d) \/ GhSends(d) \/ GhFails(d)
      PROVE  Exposes
  BY <1>4 DEF FoundNothing, GhMissing, GhSends, GhFails, Exposes, trackerVars
<1>5. ASSUME NEW d \in Callers, CreateLands(d)
      PROVE  NewIssue
  BY <1>5 DEF CreateLands, NewIssue
<1>6. ASSUME NEW d \in Callers, Queue(d, d \in Requests /\ Unseen(d))
      PROVE  (d \in Requests /\ Answers(d)) \/ Exposes
  BY <1>6 DEF Queue, AppendToInbox, Answers, Exposes, CallsAreTrue, trackerVars
<1>7. ASSUME NEW d \in Callers, QueueRaises(d)
      PROVE  (d \in Requests /\ Answers(d)) \/ Exposes
  BY <1>7 DEF QueueRaises, AppendBreaksOff, Fragments, Answers, Exposes, CallsAreTrue, trackerVars
<1>8. CASE TrackerNext /\ UNCHANGED dispatchVars
  BY <1>8 DEF NewIssue
<1>9. ASSUME NEW p \in Replays,
             (\E c \in BOOLEAN : StartPass(p, c)) \/ ReplayStep(p) \/ ReplayDies(p)
      PROVE  Exposes
  <2>1. \A r \in Requests : outcome'[r] = outcome[r]
    BY <1>9
    DEF ReplayStep, ReplayDies, StartPass, KeepUnparsed, ParseRaises, SkipFiled, KeepInDryRun, Dispatch,
        TakeResult, AbortPass, EndDryRun, Truncate, WriteBack, Sanitize, ResetCall
  <2>2. UNCHANGED filed /\ exposed \subseteq exposed'
    BY <1>9
    DEF ReplayStep, ReplayDies, StartPass, KeepUnparsed, ParseRaises, SkipFiled, KeepInDryRun, Dispatch,
        TakeResult, AbortPass, EndDryRun, Truncate, WriteBack, AbandonCreate, trackerVars
  <2> QED
    BY <2>1, <2>2 DEF Exposes
<1>10. CASE UNCHANGED vars
  BY <1>10 DEF vars, Exposes, trackerVars
<1> QED
  BY <1>1, <1>2, <1>3, <1>4, <1>5, <1>6, <1>7, <1>8, <1>9, <1>10
  DEF Next, CallProgress, CallStep, CallFault

\* Without a new issue the same ids are tracked.
LEMMA SameIssues ==
  ASSUME UNCHANGED filed
  PROVE  \A s \in Submissions : Mentioned(s)' <=> Mentioned(s)
  BY DEF Mentioned, IsFiled

\* The answer a request gets in one step is one the promise allows.
LEMMA AnswerImplements ==
  ASSUME FateIsKnown, FateIsKnown', NEW r \in Requests, Answers(r), outcome'[r] # "none",
         outcome \in [Callers -> Outcomes]
  PROVE  \E q \in Promise!Open, f \in Promise!Fates \ {"open"} : Promise!Answer(q, f)
<1> DEFINE f == Fate(r)'
<1>1. \A q \in Requests : Mentioned(SidOf[q])' <=> Mentioned(SidOf[q])
  BY SidOfType, SameIssues DEF Lines, Answers
<1>2. {s \in Submissions : Mentioned(s)}' = {s \in Submissions : Mentioned(s)}
  BY SameIssues DEF Answers
<1>3. ASSUME NEW q \in Requests, q # r PROVE Fate(q)' = Fate(q)
  <2>1. outcome'[q] = outcome[q] /\ (q \in exposed' <=> q \in exposed)
    BY <1>3 DEF Answers, Callers
  <2> QED
    BY <1>1, <2>1 DEF FateIsKnown, Outcomes
<1>4. SidOf[r] \in Submissions
  BY SidOfType DEF Lines
<1>5. /\ Fate(r) = "open"
      /\ f \in Promise!Fates \ {"open"}
      /\ f = "declined" => SidOf[r] \in RouterRejects \union Refuses
      /\ f = "filed" => Mentioned(SidOf[r])
      /\ f \in Promise!Queued => ~Mentioned(SidOf[r])
      /\ f = "held" => SidOf[r] \notin Outgrows
      /\ f = "stuck" => SidOf[r] \in Outgrows
  BY <1>1 DEF FateIsKnown, Outcomes, Answers, Promise!Fates, Promise!Queued, Parses, Lines
<1> HIDE DEF f
<1>6. r \in Promise!Open
  BY <1>5 DEF Promise!Open
<1>7. Promise!Answer(r, f)
  BY <1>2, <1>3, <1>4, <1>5 DEF Promise!Answer, f
<1> QED
  BY <1>5, <1>6, <1>7

\* A step that answers nobody settles, or exposes, what was queued.
LEMMA QuietImplements ==
  ASSUME FateIsKnown, FateIsKnown', TypeOK, Shape, [Next]_vars, NewIssue \/ Exposes
  PROVE  [Promise!PromiseNext]_(Promise!promiseVars)
<1> DEFINE ids == {s \in Submissions : Mentioned(s)}
<1>1. \A q \in Requests : SidOf[q] \in Submissions /\ outcome'[q] = outcome[q]
  BY SidOfType DEF Lines, NewIssue, Exposes
<1>2. \A s \in Submissions : Mentioned(s) => Mentioned(s)'
  BY IssuesStay
<1>3. CASE ids' # ids
  <2>1. exposed' = exposed
    BY <1>3, SameIssues DEF NewIssue, Exposes
  <2>2. \A q \in Requests : Fate(q)' = IF Promise!Settled(q) THEN "filed" ELSE Fate(q)
    BY <1>1, <1>2, <2>1 DEF FateIsKnown, Outcomes, Promise!Settled, Promise!Queued
  <2>3. Promise!File
    BY <1>2, <1>3, <2>2 DEF Promise!File
  <2> QED
    BY <2>3 DEF Promise!PromiseNext
<1>4. CASE ids' = ids
  <2> DEFINE R == {q \in Requests : Fate(q) \in {"held", "stuck"} /\ Fate(q)' = "exposed"}
  <2>1. \A q \in Requests : Mentioned(SidOf[q])' <=> Mentioned(SidOf[q])
    BY <1>1, <1>4
  <2>2. exposed \subseteq exposed'
    BY DEF NewIssue, Exposes
  <2>3. \A q \in Requests : Fate(q)' = IF q \in R THEN "exposed" ELSE Fate(q)
    BY <1>1, <2>1, <2>2 DEF FateIsKnown, Outcomes
  <2>4. CASE R = {}
    BY <1>4, <2>3, <2>4 DEF Promise!promiseVars
  <2>5. CASE R # {}
    <3>1. \A q \in R : q \in Promise!Kept
      BY DEF Promise!Kept
    <3>2. Promise!Expose(R)
      BY <1>4, <2>3 DEF Promise!Expose
    <3> QED
      <4> HIDE DEF R
      <4>1. R \in (SUBSET Promise!Kept) \ {{}}
        BY <2>5, <3>1
      <4>2. Promise!PromiseNext
        BY <3>2, <4>1 DEF Promise!PromiseNext
      <4> QED
        BY <4>2
  <2> QED
    BY <2>4, <2>5
<1> QED
  BY <1>3, <1>4

\* Every step is one of the promise, or changes no fate and brings no issue.
LEMMA PromiseStep ==
  RecordInv /\ FateIsKnown /\ FateIsKnown' /\ [Next]_vars
    => [Promise!PromiseNext]_(Promise!promiseVars)
<1> SUFFICES ASSUME RecordInv, FateIsKnown, FateIsKnown', [Next]_vars
             PROVE  [Promise!PromiseNext]_(Promise!promiseVars)
  OBVIOUS
<1>1. TypeOK /\ Shape /\ outcome \in [Callers -> Outcomes]
  BY DEF RecordInv, IInv, TypeOK, DispatchTypeOK
<1>2. ASSUME NEW r \in Requests, Answers(r), outcome'[r] # "none"
      PROVE  Promise!PromiseNext
  BY <1>1, <1>2, AnswerImplements DEF Promise!PromiseNext
<1>3. ASSUME NEW r \in Requests, Answers(r), outcome'[r] = "none"
      PROVE  Exposes
  BY <1>1, <1>3 DEF Answers, Exposes, Callers
<1> QED
  BY <1>1, <1>2, <1>3, StepKinds, QuietImplements

(***************************************************************************)
(* Router, dispatcher and replay script deliver as DeliveryPromise says,   *)
(* whatever gh, search, disk and crashes do and however passes overlap.    *)
(***************************************************************************)
THEOREM ImplementsDelivery == Spec => IsDelivery
<1>1. Init => Promise!PromiseInit
  BY DEF Init, TrackerInit, DispatchInit, Promise!PromiseInit, Mentioned, IsFiled, Fate, Callers
<1>2. Spec => []RecordInv
  BY RecordInvariance
<1> QED
  BY <1>1, <1>2, KnownFates, PromiseStep, PTL DEF Spec, IsDelivery, Promise!PromiseSpec
=============================================================================
