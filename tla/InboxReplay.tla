----------------------------- MODULE InboxReplay -----------------------------
(***************************************************************************)
(* The replay script drains the inbox that the dispatcher appends to.  It  *)
(* is a process of its own, started by cron or by hand: it reads the file  *)
(* once, dispatches line by line, and at the end truncates the file and    *)
(* writes the surviving lines back.  No lock is taken by either side, and  *)
(* two passes may overlap.                                                 *)
(*                                                                         *)
(* This module composes the requests of FeedbackDispatch with such passes. *)
(***************************************************************************)
EXTENDS FeedbackDispatch

VARIABLES stage,   \* "idle", "pass", or "truncated" (being written back)
          commit,  \* --commit was given
          todo,    \* lines read and not yet looked at
          kept,    \* "remaining": lines to be written back
          archive  \* lines of inbox-archive

replayVars == <<stage, commit, todo, kept, archive>>
vars == <<trackerVars, dispatchVars, replayVars>>

\* What a pass can hold: lines of the file, and pieces it cut them into.
Readable == Lines \cup {TornLine}

ReplayTypeOK ==
  /\ stage \in [Replays -> {"idle", "pass", "truncated"}]
  /\ commit \in [Replays -> BOOLEAN]
  /\ todo \in [Replays -> SUBSET (Readable \cup {StrayLine})]
  /\ kept \in [Replays -> SUBSET Readable]
  /\ archive \in SUBSET Lines

ReplayInit ==
  /\ stage = [p \in Replays |-> "idle"]
  /\ commit = [p \in Replays |-> FALSE]
  /\ todo = [p \in Replays |-> {}]
  /\ kept = [p \in Replays |-> {}]
  /\ archive = {}

-----------------------------------------------------------------------------
(* Helpers *)

\* The lines a pass still has: it will dispatch them or write them back.
Held(p) == todo[p] \cup kept[p] \cup {carrying[p]}

\* The passes that will overwrite the inbox, or are overwriting it.
Rewriting(p) == stage[p] # "idle" /\ commit[p]

\* A pass other than p is going to overwrite the line l from a copy without it.
UnseenBesides(p, l) == \E q \in Replays \ {p} : Rewriting(q) /\ l \notin Held(q)
Unseen(l) == \E q \in Replays : Rewriting(q) /\ l \notin Held(q)

(***************************************************************************)
(* The text on disk after the surviving lines are written from offset 0    *)
(* over a file to which others have written since it was truncated: lines  *)
(* beyond the reach of the write survive, and one may be cut in two.       *)
(***************************************************************************)
Overwritten(p) ==
  IF kept[p] = {} THEN {inbox}
  ELSE IF inbox = {} THEN {kept[p]}
  ELSE {kept[p] \cup tail : tail \in SUBSET (inbox \cup Fragments)}

(***************************************************************************)
(* read_text().splitlines() also cuts at line ends other than the newline, *)
(* which json.dumps(ensure_ascii=False) leaves in a text as they are.  In  *)
(* place of such a line the pass has its pieces, and none of them parses.  *)
(***************************************************************************)
SplitLines == {l \in inbox \cap Lines : SidOf[l] \in Splits}

ReadBack ==
  (inbox \ SplitLines) \cup {TornLine : l \in SplitLines}
    \cup {StrayLine : l \in {k \in SplitLines : SidOf[k] \in Strays}}

\* _parse_record makes a payload of it, which validates the text once more.
Parses(l) == l \in Lines /\ SidOf[l] \notin Outgrows

\* Mutant: a line whose dispatch was queued again is not written back.
LeaveForgetsQueued(p, l, hold) ==
  /\ todo' = [todo EXCEPT ![p] = @ \ {l}]
  /\ UNCHANGED kept

Leave(p, l, hold) ==
  /\ todo' = [todo EXCEPT ![p] = @ \ {l}]
  /\ kept' = IF hold THEN [kept EXCEPT ![p] = @ \cup {l}] ELSE kept

\* _archive_record, which a dry run does not call.
Archive(l) == archive' = archive \cup {l}

\* Mutant: the test of --commit is missing.
ArchiveAlways(p, l) == Archive(l)

ArchiveIfCommitted(p, l) ==
  IF commit[p] THEN Archive(l) ELSE UNCHANGED archive

\* What a process holds in memory is gone when it ends.
Forget(p) ==
  /\ stage' = [stage EXCEPT ![p] = "idle"]
  /\ commit' = [commit EXCEPT ![p] = FALSE]
  /\ todo' = [todo EXCEPT ![p] = {}]
  /\ kept' = [kept EXCEPT ![p] = {}]

ResetCall(p) ==
  /\ step' = [step EXCEPT ![p] = "idle"]
  /\ outcome' = [outcome EXCEPT ![p] = "none"]
  /\ carrying' = [carrying EXCEPT ![p] = NoLine]

-----------------------------------------------------------------------------
(* One pass *)

(***************************************************************************)
(* The script starts, finds the file and reads it to the end.  Bytes that  *)
(* are not UTF-8 make read_text raise: the script ends with the file as it *)
(* was.  A line that reading cuts up is on its way to be overwritten by    *)
(* its pieces when the pass commits.                                       *)
(***************************************************************************)
StartPass(p, c) ==
  /\ stage[p] = "idle"
  /\ ending # "absent"
  /\ GarbledLine \notin inbox
  /\ stage' = [stage EXCEPT ![p] = "pass"]
  /\ commit' = [commit EXCEPT ![p] = c]
  /\ todo' = [todo EXCEPT ![p] = ReadBack]
  /\ exposed' = IF c THEN exposed \cup (SplitLines \cap Requests) ELSE exposed
  /\ UNCHANGED <<kept, archive, step, carrying, outcome, landed, inboxVars,
                 failedLog, captured, audit, faults, trackerVars>>

\* Mutant: a line that does not parse is archived like a filed one.
ArchiveUnparsed(p, l) ==
  /\ stage[p] = "pass"
  /\ step[p] = "idle"
  /\ l \in todo[p] \cap Readable
  /\ ~Parses(l)
  /\ Leave(p, l, FALSE)
  /\ Archive(l)
  /\ UNCHANGED <<stage, commit, dispatchVars, trackerVars>>

\* Neither fragments nor texts that outgrew the payload parse: they are kept.
KeepUnparsed(p, l) ==
  /\ stage[p] = "pass"
  /\ step[p] = "idle"
  /\ l \in todo[p] \cap Readable
  /\ ~Parses(l)
  /\ Leave(p, l, TRUE)
  /\ UNCHANGED <<stage, commit, archive, dispatchVars, trackerVars>>

(***************************************************************************)
(* raw.get of a piece that is JSON and no object raises AttributeError,    *)
(* which no handler expects: the script ends, and nothing is rewritten.    *)
(***************************************************************************)
ParseRaises(p) ==
  /\ stage[p] = "pass"
  /\ step[p] = "idle"
  /\ StrayLine \in todo[p]
  /\ Forget(p)
  /\ UNCHANGED <<archive, dispatchVars, trackerVars>>

\* The script's own check finds the submission: archived, and no event.
SkipFiled(p, l) ==
  /\ stage[p] = "pass"
  /\ step[p] = "idle"
  /\ l \in todo[p] /\ Parses(l)
  /\ SearchFinds(SidOf[l])
  /\ Leave(p, l, FALSE)
  /\ ArchiveIfCommitted(p, l)
  /\ UNCHANGED <<stage, commit, dispatchVars, trackerVars>>

\* A dry run only reports what it would do.
KeepInDryRun(p, l) ==
  /\ stage[p] = "pass"
  /\ step[p] = "idle"
  /\ l \in todo[p] /\ Parses(l)
  /\ SearchFindsNothing(SidOf[l])
  /\ ~commit[p]
  /\ Leave(p, l, TRUE)
  /\ UNCHANGED <<stage, commit, archive, step, carrying, outcome, landed,
                 fileVars, audit, trackerVars>>

\* The script's check finds nothing: dispatch_feedback is called.
Dispatch(p, l) ==
  /\ stage[p] = "pass"
  /\ step[p] = "idle"
  /\ l \in todo[p] /\ Parses(l)
  /\ SearchFindsNothing(SidOf[l])
  /\ commit[p]
  /\ Leave(p, l, FALSE)
  /\ carrying' = [carrying EXCEPT ![p] = l]
  /\ Sanitize(p, SidOf[l])
  /\ UNCHANGED <<stage, commit, archive, landed, fileVars, trackerVars>>

\* A queued result keeps the line; any other result archives it.
TakeResult(p) ==
  /\ stage[p] = "pass"
  /\ step[p] = "returned"
  /\ outcome[p] # "raised"
  /\ IF outcome[p] = "queued"
     THEN Leave(p, carrying[p], TRUE) /\ UNCHANGED archive
     ELSE Leave(p, carrying[p], FALSE) /\ Archive(carrying[p])
  /\ ResetCall(p)
  /\ UNCHANGED <<stage, commit, landed, fileVars, audit, faults, trackerVars>>

\* An exception from dispatch_feedback ends the script: nothing is rewritten.
AbortPass(p) ==
  /\ stage[p] = "pass"
  /\ step[p] = "returned"
  /\ outcome[p] = "raised"
  /\ Forget(p)
  /\ ResetCall(p)
  /\ UNCHANGED <<archive, landed, fileVars, audit, faults, trackerVars>>

\* A dry run ends without touching the file.
EndDryRun(p) ==
  /\ stage[p] = "pass"
  /\ step[p] = "idle"
  /\ todo[p] = {}
  /\ ~commit[p]
  /\ Forget(p)
  /\ UNCHANGED <<archive, dispatchVars, trackerVars>>

\* Opening the inbox for writing empties it.
Truncate(p) ==
  /\ stage[p] = "pass"
  /\ step[p] = "idle"
  /\ todo[p] = {}
  /\ commit[p]
  /\ stage' = [stage EXCEPT ![p] = "truncated"]
  /\ inbox' = {}
  /\ ending' = "whole"
  /\ UNCHANGED <<commit, todo, kept, archive, step, carrying, outcome, landed,
                 failedLog, captured, exposed, audit, faults, trackerVars>>

\* The surviving lines reach the file, and the pass is over.
WriteBack(p) ==
  /\ stage[p] = "truncated"
  /\ inbox' \in Overwritten(p)
  /\ ending' \in IF kept[p] = {} THEN {ending}
                 ELSE {"whole"} \cup (IF inbox' \cap Fragments # {} THEN {ending} ELSE {})
  /\ exposed' = exposed \cup {r \in Requests \cap kept[p] : UnseenBesides(p, r)}
  /\ Forget(p)
  /\ UNCHANGED <<archive, step, carrying, outcome, landed, failedLog, captured,
                 audit, faults, trackerVars>>

\* Part of the text reaches the file and the write ends there.
WriteBreaksOff(p) ==
  \/ UNCHANGED <<inbox, ending>>
  \/ \E part \in SUBSET kept[p], tail \in SUBSET inbox, torn \in SUBSET Fragments :
       /\ inbox' = part \cup tail \cup torn
       /\ ending' \in {"whole"} \cup {"torn" : t \in torn}

(***************************************************************************)
(* The script is killed, or an exception of its own ends it.               *)
(***************************************************************************)
ReplayDies(p) ==
  /\ stage[p] # "idle"
  /\ Fault("crash")
  /\ Forget(p)
  /\ ResetCall(p)
  /\ AbandonCreate(p)
  /\ IF stage[p] = "truncated"
     THEN /\ WriteBreaksOff(p)
          /\ exposed' = exposed \cup (kept[p] \cap Requests)
     ELSE UNCHANGED <<inbox, ending, exposed>>
  /\ UNCHANGED <<failedLog, captured, audit, archive>>

-----------------------------------------------------------------------------
(* The system *)

ReplayStep(p) ==
  \/ \E l \in Readable : KeepUnparsed(p, l)
  \/ ParseRaises(p)
  \/ \E l \in Lines : SkipFiled(p, l) \/ KeepInDryRun(p, l) \/ Dispatch(p, l)
  \/ TakeResult(p)
  \/ AbortPass(p)
  \/ EndDryRun(p)
  \/ Truncate(p)
  \/ WriteBack(p)

\* A call's own step, or its fallback.
CallProgress(d) ==
  CallStep(d) \/ Queue(d, d \in Requests /\ Unseen(d))

CallFault(d) == GhMissing(d) \/ GhFails(d) \/ QueueRaises(d)

Init == TrackerInit /\ DispatchInit /\ ReplayInit

Next ==
  \/ /\ \/ \E r \in Requests : Submit(r) \/ WorkerDies(r, Unseen(r))
        \/ \E d \in Callers : CallProgress(d) \/ CallFault(d)
        \/ TrackerNext /\ UNCHANGED dispatchVars
     /\ UNCHANGED replayVars
  \/ \E p \in Replays : \/ \E c \in BOOLEAN : StartPass(p, c)
                        \/ ReplayStep(p)
                        \/ ReplayDies(p)

Spec == Init /\ [][Next]_vars

(***************************************************************************)
(* Worker threads and the script run until they are done; gh is bounded by *)
(* its timeout; cron starts the script again and again with --commit; the  *)
(* search index catches up.  Nothing obliges an operator to submit, or a   *)
(* late request to land.                                                   *)
(***************************************************************************)
Fairness ==
  /\ \A d \in Callers : WF_vars(CallProgress(d) /\ UNCHANGED replayVars)
  /\ \A p \in Replays : WF_vars(ReplayStep(p)) /\ SF_vars(StartPass(p, TRUE))
  /\ WF_vars(TrackerNext /\ UNCHANGED <<dispatchVars, replayVars>> /\ UNCHANGED late)

FairSpec == Spec /\ Fairness

-----------------------------------------------------------------------------
(* Properties *)

\* Every variable keeps its type, fault budget included.
TypeOK == TrackerTypeOK /\ DispatchTypeOK /\ ReplayTypeOK

\* Every pass that will overwrite the inbox has the line.
SafeInInbox(r) ==
  /\ r \in inbox
  /\ \A p \in Replays : Rewriting(p) => r \in Held(p)

\* The line is in the memory of a pass that is about to write it back.
BeingRewritten(r) == \E p \in Replays : stage[p] = "truncated" /\ r \in kept[p]

(***************************************************************************)
(* A submission its operator was told is queued is never lost: an issue    *)
(* carries its id, or its line is in the inbox and in every pass that will *)
(* overwrite the inbox, or a pass is writing it back.  The code does not   *)
(* ensure this of a line that is "exposed", in one of four windows:        *)
(*   - appended or written back while a pass that will overwrite the inbox *)
(*     does not have it;                                                   *)
(*   - appended after a broken-off line;                                   *)
(*   - in memory when a pass dies between truncating and writing;          *)
(*   - cut into pieces by splitlines() of a pass with --commit.            *)
(* That the line is there does not mean that a pass can use it: a text     *)
(* that outgrew the payload is kept for ever (see QueueDrains).            *)
(***************************************************************************)
QueuedNotLost ==
  \A r \in captured : \/ Mentioned(SidOf[r])
                      \/ r \in exposed
                      \/ SafeInInbox(r)
                      \/ BeingRewritten(r)

(***************************************************************************)
(* A line reaches inbox-archive only when an issue carries its submission  *)
(* id, unless the sanitizer of this release refuses the line.              *)
(***************************************************************************)
ArchivedIsFiled ==
  \A l \in archive : Mentioned(SidOf[l]) \/ SidOf[l] \in Refuses

(***************************************************************************)
(* What the sanitizer refuses reaches neither GitHub nor, from a POST, a   *)
(* file: whichever of POST, retry and replay brought it there is no issue, *)
(* no request on its way to one and no line in the replay's fallback file, *)
(* and a refused POST has no line in inbox or archive either.  A line of   *)
(* an earlier release which this one refuses is archived as it stands, by  *)
(* the branch for all results that are not queued.                         *)
(***************************************************************************)
RefusedStaysOut ==
  \A s \in Refuses :
     /\ filed[s] = 0 /\ late[s] = 0
     /\ \A l \in Lines : SidOf[l] = s => l \notin (failedLog \cup captured)
     /\ \A r \in Requests : SidOf[r] = s => r \notin inbox \cup archive

(***************************************************************************)
(* The answer an operator got is true and has its event in the audit       *)
(* trail; "queued" was said of a line that reached the file.               *)
(***************************************************************************)
RepliesAreTrue ==
  \A r \in Requests :
    /\ outcome[r] = "created" =>
         IsFiled(SidOf[r]) /\ <<"feedback.issue_created", SidOf[r]>> \in audit
    /\ outcome[r] = "deduplicated" =>
         Mentioned(SidOf[r]) /\ <<"feedback.deduplicated", SidOf[r]>> \in audit
    /\ outcome[r] = "queued" =>
         r \in captured /\ <<"feedback.queued_offline", SidOf[r]>> \in audit
    /\ outcome[r] = "refused" => <<"feedback.refused", SidOf[r]>> \in audit

(***************************************************************************)
(* An event naming an issue, whoever caused it, has an issue behind it.    *)
(***************************************************************************)
AuditIsTrue ==
  \A s \in Submissions :
    /\ <<"feedback.issue_created", s>> \in audit => IsFiled(s)
    /\ <<"feedback.deduplicated", s>> \in audit => Mentioned(s)

(***************************************************************************)
(* A pass without --commit changes no file and calls no dispatcher: from   *)
(* start to end its steps leave inbox, archive and tracker as they are.    *)
(***************************************************************************)
DryRunIsInert ==
  [][\A p \in Replays :
       (stage[p] = "pass" /\ ~commit[p] /\ <<stage[p], todo[p]>>' # <<stage[p], todo[p]>>)
       => UNCHANGED <<trackerVars, inboxVars, archive, failedLog, audit>>]_vars

(***************************************************************************)
(* No submission becomes two issues.                                       *)
(***************************************************************************)
AtMostOneIssue == \A s \in Submissions : filed[s] <= 1

\* Every POST the satellite takes up is answered, however gh fares.
EveryRequestAnswered ==
  \A r \in Requests : step[r] # "idle" ~> step[r] = "returned"

(***************************************************************************)
(* Once outages are over, every queued submission is filed, or was exposed *)
(* (QueuedNotLost says how).  Two kinds of lines never drain and are       *)
(* excused by name: texts that outgrew the payload, skipped by each pass,  *)
(* and all lines while the file ends up, for good, with bytes that are not *)
(* UTF-8, over which each pass raises before it has read one.              *)
(***************************************************************************)
QueueDrains ==
  \/ <>[](GarbledLine \in inbox)
  \/ \A r \in Requests :
       r \in captured /\ SidOf[r] \notin Outgrows
         ~> Mentioned(SidOf[r]) \/ r \in exposed

-----------------------------------------------------------------------------
(* The delivery that is promised, and how files, calls and passes keep it *)

(***************************************************************************)
(* What has become of a request.  A queued line is held where every pass   *)
(* that will overwrite the inbox has it, or is writing it back, and stuck  *)
(* there if no pass can make a payload of it; a line that is neither there *)
(* nor filed nor exposed is lost.                                          *)
(***************************************************************************)
Fate(r) ==
  CASE outcome[r] = "none" -> "open"
    [] outcome[r] \in {"rejected", "refused"} -> "declined"
    [] outcome[r] \in {"raised", "died"} -> "failed"
    [] OTHER -> IF Mentioned(SidOf[r]) THEN "filed"
                ELSE IF r \in exposed THEN "exposed"
                ELSE IF ~(SafeInInbox(r) \/ BeingRewritten(r)) THEN "lost"
                ELSE IF Parses(r) THEN "held" ELSE "stuck"

Promise == INSTANCE DeliveryPromise
             WITH Declines <- RouterRejects \cup Refuses,
                  Unusable <- Outgrows,
                  tracked <- {s \in Submissions : Mentioned(s)},
                  fate <- [r \in Requests |-> Fate(r)]

(***************************************************************************)
(* The satellite and the replay script keep the promise of delivery, step  *)
(* by step: nothing filed, declined or failed changes its mind, and what   *)
(* is held or stuck in the inbox is settled by an issue or exposed, but    *)
(* does not disappear otherwise.                                           *)
(***************************************************************************)
IsDelivery == Promise!PromiseSpec

-----------------------------------------------------------------------------
(* Why the invariants hold: what is true of every call and pass on the way *)

(***************************************************************************)
(* A replay carries a line exactly while it is in the dispatcher, and is   *)
(* there only in a committing pass; a pass that has truncated the inbox    *)
(* has looked at every line.                                               *)
(***************************************************************************)
Shape ==
  /\ \A p \in Replays : carrying[p] = NoLine <=> step[p] = "idle"
  /\ \A p \in Replays : step[p] # "idle" => stage[p] = "pass" /\ commit[p]
  /\ \A p \in Replays : stage[p] = "truncated" => commit[p] /\ todo[p] = {}

\* The steps of a call whose payload the sanitizer has let through.
Accepted == {"search", "create", "await", "fallback"}

(***************************************************************************)
(* What a call knows is so: the index holds only issues, gh's success has  *)
(* an issue behind it, and an outcome tells what happened.                 *)
(***************************************************************************)
CallsAreTrue ==
  /\ \A s \in searchable : IsFiled(s)
  /\ \A d \in landed : step[d] = "await" /\ IsFiled(Sub(d))
  /\ \A d \in Callers :
       /\ step[d] = "returned" <=> outcome[d] # "none"
       /\ step[d] \in Accepted => Sub(d) \notin Refuses
       /\ outcome[d] = "created" => IsFiled(Sub(d))
       /\ outcome[d] = "deduplicated" => Mentioned(Sub(d))
       /\ outcome[d] = "refused" => Sub(d) \in Refuses
  /\ \A p \in Replays : outcome[p] \notin {"rejected", "died"}

\* A refused request has no line on disk or in any pass.
NoRefusedLine ==
  \A r \in Requests : SidOf[r] \in Refuses =>
     /\ r \notin inbox \cup captured
     /\ \A p \in Replays : r \notin Held(p)

-----------------------------------------------------------------------------
(* What the documentation says and the code does not do *)

(***************************************************************************)
(* "nothing the operator typed is lost": a submission told to be queued is *)
(* filed, or its line is in the inbox or in the memory of a running pass.  *)
(***************************************************************************)
NothingLost ==
  \A r \in captured : \/ Mentioned(SidOf[r])
                      \/ r \in inbox
                      \/ \E p \in Replays : r \in Held(p)

(***************************************************************************)
(* "this submission_id was found to already have an issue": a deduplicated *)
(* submission, or a line archived as one, has an issue of its own.         *)
(***************************************************************************)
DedupIsOwnIssue ==
  /\ \A r \in Requests : outcome[r] = "deduplicated" => IsFiled(SidOf[r])
  /\ \A l \in archive : SidOf[l] \notin Refuses => IsFiled(SidOf[l])

=============================================================================
