--------------------------- MODULE FeedbackDispatch ---------------------------
(***************************************************************************)
(* One call of dispatch_feedback, as the POST handler of the feedback      *)
(* router and as the replay script make it: sanitize, search, create with  *)
(* the gh CLI, fall back to a line of the JSONL inbox.                     *)
(*                                                                         *)
(* Every call runs in a thread or process of its own, so the steps of two  *)
(* calls interleave at each network or file operation.  A request makes    *)
(* one call; a replay pass makes one for each line it reads.               *)
(*                                                                         *)
(* A line of a JSONL file is named by the request that captured it.  The   *)
(* inbox is the set of its lines: a pass may read them in any order, which *)
(* includes the order of the file.  What a line's text does to the script  *)
(* that reads it back depends on the submission: the sets of CONSTANTS.    *)
(***************************************************************************)
EXTENDS IssueTracker, FiniteSets

CONSTANTS Requests,      \* POSTs of the operators' browsers, retries included
          Replays,       \* runs of the replay script that may exist at once
          Legacy,        \* lines an earlier release left in the inbox
          SidOf,         \* the submission id of a request or a legacy line
          TornLine,      \* a fragment of a line, which does not parse
          GarbledLine,   \* a fragment that is not even UTF-8
          StrayLine,     \* a piece of a line: JSON, but not an object
          NoLine,        \* nothing is being carried
          RouterRejects, \* submissions the router's own credential scan rejects
          Refuses,       \* submissions sanitize_feedback refuses
          Unspawnable,   \* submissions whose text cannot be an argv (a NUL)
          Splits,        \* submissions whose text holds U+2028, U+2029, U+0085
          Strays,        \* those of them with a StrayLine between two cuts
          Outgrows,      \* submissions too long for a payload once sanitized
          CutsCharacters, \* can a broken-off write end inside a character?
          FaultKinds,    \* what may go wrong in this instance
          MaxFaults      \* how often (bounds every counter of the model)

Lines == Requests \cup Legacy
Callers == Requests \cup Replays

ASSUME ActorsDistinct ==
  /\ Requests \cap Replays = {}
  /\ Requests \cap Legacy = {}
  /\ Lines \cap {TornLine, GarbledLine, StrayLine} = {}
  /\ TornLine # GarbledLine /\ StrayLine \notin {TornLine, GarbledLine}
  /\ NoLine \notin Lines \cup {TornLine, GarbledLine, StrayLine}
ASSUME SidOfType == SidOf \in [Lines -> Submissions]
ASSUME TextClasses == /\ RouterRejects \subseteq Submissions
                      /\ Refuses \subseteq Submissions
                      /\ Unspawnable \subseteq Submissions
                      /\ Splits \subseteq Submissions
                      /\ Strays \subseteq Splits
                      /\ Outgrows \subseteq Submissions
                      /\ CutsCharacters \in BOOLEAN
ASSUME FaultBudget ==
  /\ FaultKinds \subseteq {"search", "spawn", "gh", "late", "disk", "crash"}
  /\ MaxFaults \in Nat

VARIABLES step,      \* where the call of each caller stands
          carrying,  \* the line a replay is dispatching
          outcome,   \* what the call returned
          landed,    \* callers whose create request GitHub has carried out
          inbox,     \* lines of the inbox file
          ending,    \* how the file ends: no file, a whole line, a fragment
          failedLog, \* lines of the replay's own fallback file
          captured,  \* requests told that their submission is queued
          exposed,   \* requests whose line was put where it can be destroyed
          audit,     \* events emitted, with the submission they name
          faults     \* faults so far

inboxVars == <<inbox, ending>>
fileVars == <<inboxVars, failedLog, captured, exposed>>
dispatchVars == <<step, carrying, outcome, landed, fileVars, audit, faults>>

Steps == {"idle", "search", "create", "await", "fallback", "returned"}
Outcomes == {"none", "rejected", "refused", "deduplicated", "created",
             "queued", "raised", "died"}
Endings == {"absent", "whole", "torn"}
Events == {"feedback.refused", "feedback.dispatch_started",
           "feedback.deduplicated", "feedback.issue_created",
           "feedback.queued_offline"}

DispatchTypeOK ==
  /\ step \in [Callers -> Steps]
  /\ carrying \in [Replays -> Lines \cup {NoLine}]
  /\ outcome \in [Callers -> Outcomes]
  /\ landed \in SUBSET Callers
  /\ inbox \in SUBSET (Lines \cup {TornLine, GarbledLine})
  /\ ending \in Endings
  /\ failedLog \in SUBSET Lines
  /\ captured \in SUBSET Requests
  /\ exposed \in SUBSET Requests
  /\ audit \in SUBSET (Events \X Submissions)
  /\ faults \in 0 .. MaxFaults

DispatchInit ==
  /\ step = [d \in Callers |-> "idle"]
  /\ carrying = [p \in Replays |-> NoLine]
  /\ outcome = [d \in Callers |-> "none"]
  /\ landed = {}
  /\ inbox = Legacy
  /\ ending = IF Legacy = {} THEN "absent" ELSE "whole"
  /\ failedLog = {}
  /\ captured = {}
  /\ exposed = {}
  /\ audit = {}
  /\ faults = 0

-----------------------------------------------------------------------------
(* Helpers *)

\* The line a call is about, and its submission.
LineOf(d) == IF d \in Requests THEN d ELSE carrying[d]
Sub(d) == SidOf[LineOf(d)]

\* Something outside the code goes wrong, within the budget of the instance.
Fault(k) == k \in FaultKinds /\ faults < MaxFaults /\ faults' = faults + 1

Emit(name, s) == audit' = audit \cup {<<name, s>>}

GoTo(d, st) == step' = [step EXCEPT ![d] = st]

Return(d, o) == /\ GoTo(d, "returned")
                /\ outcome' = [outcome EXCEPT ![d] = o]

\* Mutant: the verdict is ignored.
SanitizeNothing(d, s) ==
  /\ Emit("feedback.dispatch_started", s)
  /\ GoTo(d, "search")
  /\ UNCHANGED outcome

(***************************************************************************)
(* sanitize_feedback and what dispatch_feedback does with its verdict.     *)
(***************************************************************************)
Sanitize(d, s) ==
  IF s \in Refuses
  THEN /\ Emit("feedback.refused", s)
       /\ Return(d, "refused")
  ELSE /\ Emit("feedback.dispatch_started", s)
       /\ GoTo(d, "search")
       /\ UNCHANGED outcome

\* Mutant: any answer of the search counts as a hit.
SearchAlwaysFinds(s) == TRUE

(***************************************************************************)
(* The idempotency check's answer: at best one of the issues that carry    *)
(* the id, and nothing when the request failed.                            *)
(***************************************************************************)
SearchFinds(s) == SearchHits(s) # {}
SearchFindsNothing(s) ==
  \/ SearchHits(s) = {} /\ UNCHANGED faults
  \/ Fault("search")

(***************************************************************************)
(* Appending to a file that ends in a fragment glues the new line to it:   *)
(* the result parses as neither.                                           *)
(***************************************************************************)
InboxPlus(r) == IF ending = "torn" THEN inbox ELSE inbox \cup {r}

-----------------------------------------------------------------------------
(* The router *)

(***************************************************************************)
(* POST /api/feedback: a credential ends it with a 400; otherwise the      *)
(* dispatcher is called in the request's worker thread.                    *)
(***************************************************************************)
Submit(r) ==
  /\ step[r] = "idle"
  /\ IF SidOf[r] \in RouterRejects
     THEN Return(r, "rejected") /\ UNCHANGED audit
     ELSE Sanitize(r, SidOf[r])
  /\ UNCHANGED <<carrying, landed, fileVars, faults, trackerVars>>

-----------------------------------------------------------------------------
(* dispatch_feedback, after the sanitizer let the payload through *)

FoundExisting(d) ==
  /\ step[d] = "search"
  /\ SearchFinds(Sub(d))
  /\ Emit("feedback.deduplicated", Sub(d))
  /\ Return(d, "deduplicated")
  /\ UNCHANGED <<carrying, landed, fileVars, faults, trackerVars>>

FoundNothing(d) ==
  /\ step[d] = "search"
  /\ SearchFindsNothing(Sub(d))
  /\ GoTo(d, "create")
  /\ UNCHANGED <<carrying, outcome, landed, fileVars, audit, trackerVars>>

\* gh is not on PATH, or the operating system cannot start it.
GhMissing(d) ==
  /\ step[d] = "create"
  /\ Fault("spawn")
  /\ GoTo(d, "fallback")
  /\ UNCHANGED <<carrying, outcome, landed, fileVars, audit, trackerVars>>

\* Mutant: the exception is swallowed and the call tries again.
GhRejectsArgvForEver(d) ==
  /\ step[d] = "create"
  /\ Sub(d) \in Unspawnable
  /\ UNCHANGED <<trackerVars, dispatchVars>>

\* subprocess.run raises ValueError, which no handler expects.
GhRejectsArgv(d) ==
  /\ step[d] = "create"
  /\ Sub(d) \in Unspawnable
  /\ Return(d, "raised")
  /\ UNCHANGED <<carrying, landed, fileVars, audit, faults, trackerVars>>

GhSends(d) ==
  /\ step[d] = "create"
  /\ Sub(d) \notin Unspawnable
  /\ GoTo(d, "await")
  /\ UNCHANGED <<carrying, outcome, landed, fileVars, audit, faults,
                 trackerVars>>

\* GitHub carries out the create request while gh waits for its answer.
CreateLands(d) ==
  /\ step[d] = "await"
  /\ d \notin landed
  /\ landed' = landed \cup {d}
  /\ AddIssue(Sub(d))
  /\ UNCHANGED <<late, step, carrying, outcome, fileVars, audit, faults>>

\* Mutant: the exit code and the URL are not looked at.
GhAssumedToSucceed(d) ==
  /\ step[d] = "await"
  /\ Emit("feedback.issue_created", Sub(d))
  /\ Return(d, "created")
  /\ landed' = landed \ {d}
  /\ UNCHANGED <<carrying, fileVars, faults, trackerVars>>

\* gh exits 0 and prints the issue's URL.
GhSucceeds(d) ==
  /\ step[d] = "await"
  /\ d \in landed
  /\ Emit("feedback.issue_created", Sub(d))
  /\ Return(d, "created")
  /\ landed' = landed \ {d}
  /\ UNCHANGED <<carrying, fileVars, faults, trackerVars>>

(***************************************************************************)
(* gh times out, exits nonzero, or prints no URL: whether or not GitHub    *)
(* has created the issue, and in the "late" case while the request is      *)
(* still on its way.                                                       *)
(***************************************************************************)
GhFails(d) ==
  /\ step[d] = "await"
  /\ \/ Fault("gh") /\ UNCHANGED late
     \/ /\ d \notin landed
        /\ Fault("late")
        /\ late' = [late EXCEPT ![Sub(d)] = @ + 1]
  /\ GoTo(d, "fallback")
  /\ landed' = landed \ {d}
  /\ UNCHANGED <<carrying, outcome, fileVars, audit, filed, searchable>>

-----------------------------------------------------------------------------
(* The fallback queue.  unseen says that a pass is rewriting the inbox from *)
(* a copy that does not have the line: see InboxReplay.                     *)

AppendToInbox(r, unseen) ==
  /\ inbox' = InboxPlus(r)
  /\ ending' = "whole"
  /\ exposed' = IF ending = "torn" \/ unseen THEN exposed \cup {r} ELSE exposed

\* What is left of a line of which only a part was written.
Fragments == {TornLine} \cup (IF CutsCharacters THEN {GarbledLine} ELSE {})

\* The write stops half way, or before it has begun.
AppendBreaksOff ==
  /\ UNCHANGED exposed
  /\ \/ UNCHANGED inboxVars
     \/ /\ \E f \in Fragments : inbox' = inbox \cup {f}
        /\ ending' = "torn"

(***************************************************************************)
(* _fallback: a request appends to the inbox, a replay to a file of its    *)
(* own beside it.                                                          *)
(***************************************************************************)
Queue(d, unseen) ==
  /\ step[d] = "fallback"
  /\ IF d \in Requests
     THEN /\ AppendToInbox(d, unseen)
          /\ captured' = captured \cup {d}
          /\ UNCHANGED failedLog
     ELSE /\ failedLog' = failedLog \cup {carrying[d]}
          /\ UNCHANGED <<inbox, ending, captured, exposed>>
  /\ Emit("feedback.queued_offline", Sub(d))
  /\ Return(d, "queued")
  /\ UNCHANGED <<carrying, landed, faults, trackerVars>>

\* Mutant: the OSError is caught, and the line reported as queued.
QueueHidesError(d) ==
  /\ step[d] = "fallback"
  /\ Fault("disk")
  /\ IF d \in Requests
     THEN AppendBreaksOff
     ELSE UNCHANGED <<inbox, ending, exposed>>
  /\ Return(d, "queued")
  /\ UNCHANGED <<carrying, landed, failedLog, captured, audit, trackerVars>>

\* The file system refuses the append; nothing above catches the OSError.
QueueRaises(d) ==
  /\ step[d] = "fallback"
  /\ Fault("disk")
  /\ IF d \in Requests
     THEN AppendBreaksOff
     ELSE UNCHANGED <<inbox, ending, exposed>>
  /\ Return(d, "raised")
  /\ UNCHANGED <<carrying, landed, failedLog, captured, audit, trackerVars>>

\* A request still on its way to GitHub outlives the process that sent it.
AbandonCreate(d) ==
  /\ landed' = landed \ {d}
  /\ UNCHANGED <<filed, searchable>>
  /\ \/ UNCHANGED late
     \/ /\ "late" \in FaultKinds
        /\ step[d] = "await"
        /\ d \notin landed
        /\ late' = [late EXCEPT ![Sub(d)] = @ + 1]

\* The satellite's process is killed while it handles the request.
WorkerDies(r, unseen) ==
  /\ step[r] \notin {"idle", "returned"}
  /\ Fault("crash")
  /\ Return(r, "died")
  /\ AbandonCreate(r)
  /\ \/ UNCHANGED <<inbox, ending, exposed>>
     \/ /\ step[r] = "fallback"
        /\ AppendToInbox(r, unseen) \/ AppendBreaksOff
  /\ UNCHANGED <<carrying, failedLog, captured, audit>>

\* The steps a call takes by itself, GitHub answering in time.
CallStep(d) ==
  \/ FoundExisting(d)
  \/ FoundNothing(d)
  \/ GhRejectsArgv(d)
  \/ GhSends(d)
  \/ CreateLands(d)
  \/ GhSucceeds(d)

=============================================================================
