---------------------------- MODULE AgentDispatch ----------------------------
(***************************************************************************)
(* The agent-dispatch workflow on one feedback issue.  GitHub starts a run *)
(* when the issue is opened with the routing label and whenever that label *)
(* is added, so several runs may work on one issue side by side, each on   *)
(* its own runner and checkout.  A run classifies the issue (triage.py),   *)
(* routes it to scripts (dispatch.py, three attempts each) and leaves its  *)
(* outcome as the agent/status label, a comment or a pull request.         *)
(***************************************************************************)
EXTENDS Naturals, Sequences, FiniteSets

CONSTANTS Runs,        \* workflow runs triggered for the issue
          Issues,      \* the issues it may be
          Setups,      \* the secrets and permissions the workflow may have
          Proposals,   \* the single-file fixes Codex may propose
          FaultKinds,  \* what may go wrong in the environment
          MaxFaults    \* bound on the faults that are counted

Kinds == {"bug", "suggestion", "question", "none"}
Faults == {"label", "comment", "model", "docker", "gh", "raise", "hang", "setup", "kill"}

ASSUME IssuesType ==
  Issues \subseteq [kind : Kinds,           \* "none": no valid machine block
                    risky : BOOLEAN,        \* high-risk surface or keyword
                    unsupported : BOOLEAN,  \* an UNSUPPORTED_REQUESTS phrase
                    wellFormed : BOOLEAN,   \* parse_issue_body accepts it
                    hasBody : BOOLEAN]
ASSUME SetupsType ==
  Setups \subseteq [codex : BOOLEAN,        \* CODEX_API_KEY is set
                    anthropic : BOOLEAN,    \* ANTHROPIC_API_KEY is set
                    sandbox : BOOLEAN,      \* GHCR_SANDBOX_ENABLED
                    mayPush : BOOLEAN]      \* contents: write
ASSUME FaultKindsType == FaultKinds \subseteq Faults /\ MaxFaults \in Nat

VARIABLES
  issue, setup,  \* chosen once
  status,        \* the issue's agent/status label
  prs,           \* pull requests: who opened it, its branch, its changes
  remote,        \* fix branches at GitHub, named by their proposal
  posted,        \* comments with a review or an answer, and the attempt they are from
  pc,            \* where a run is
  step,          \* index of its current script
  attempt,       \* attempt at that script
  proposal,      \* the fix being pushed
  tree,          \* fixes committed or staged in the run's checkout
  container,     \* a repro container is still up on the runner
  lastLabel,     \* history: the status this run set last
  excuses,       \* history: what went wrong in this run
  faults         \* counted faults so far

shared == <<status, prs, remote, posted>>
local == <<step, attempt, proposal, tree, container>>
history == <<lastLabel, excuses, faults>>
vars == <<issue, setup, shared, pc, local, history>>

Statuses == {"queued", "processing", "fix-ready", "needs-human"}
Stages == {"idle", "triage", "route", "start", "work", "push", "open", "reconcile",
           "comment", "announce", "exit0", "exit1", "done", "failed", "killed"}
Unset == "unset"
MAX_ATTEMPTS == 3

TypeOK ==
  /\ issue \in Issues /\ setup \in Setups
  /\ status \in Statuses
  /\ prs \subseteq [by : Runs, branch : Proposals, changes : SUBSET Proposals]
  /\ remote \subseteq Proposals
  /\ posted \subseteq [by : Runs, attempt : 1..MAX_ATTEMPTS]
  /\ pc \in [Runs -> Stages]
  /\ step \in [Runs -> 1..2]
  /\ attempt \in [Runs -> 1..MAX_ATTEMPTS]
  /\ proposal \in [Runs -> Proposals \cup {Unset}]
  /\ tree \in [Runs -> SUBSET Proposals]
  /\ container \in [Runs -> BOOLEAN]
  /\ lastLabel \in [Runs -> Statuses \cup {Unset}]
  /\ excuses \in [Runs -> SUBSET (Faults \cup {"skip", "empty"})]
  /\ faults \in 0..MaxFaults

Init ==
  /\ issue \in Issues /\ setup \in Setups
  /\ status = "queued" /\ prs = {} /\ remote = {} /\ posted = {}
  /\ pc = [w \in Runs |-> "idle"]
  /\ step = [w \in Runs |-> 1] /\ attempt = [w \in Runs |-> 1]
  /\ proposal = [w \in Runs |-> Unset] /\ tree = [w \in Runs |-> {}]
  /\ container = [w \in Runs |-> FALSE]
  /\ lastLabel = [w \in Runs |-> Unset] /\ excuses = [w \in Runs |-> {}] /\ faults = 0

-----------------------------------------------------------------------------
(* Helpers *)

At(w, stage) == pc[w] = stage
Go(w, stage) == pc' = [pc EXCEPT ![w] = stage]
Note(w, what) == excuses' = [excuses EXCEPT ![w] = @ \cup {what}]
Fault(w, kind) == /\ kind \in FaultKinds
                  /\ faults < MaxFaults /\ faults' = faults + 1
                  /\ Note(w, kind)

(***************************************************************************)
(* transition_status: one gh call replaces the status label.  It never     *)
(* raises and its caller never learns whether the call went through.       *)
(***************************************************************************)
TransitionStatus(w, label) ==
  \/ /\ status' = label
     /\ lastLabel' = [lastLabel EXCEPT ![w] = label]
     /\ UNCHANGED <<excuses, faults>>
  \/ /\ Fault(w, "label")
     /\ UNCHANGED <<status, lastLabel>>

\* Mutant: only the comment is posted.
BailSilently(w) == Go(w, "exit0") /\ UNCHANGED <<status, history>>

\* _bail_to_human: a comment, needs-human, and exit 0 so that nothing retries.
BailToHuman(w) == Go(w, "exit0") /\ TransitionStatus(w, "needs-human")

\* Mutant: surfaces and keywords are not looked at.
ClassifyByKind ==
  IF issue.kind = "none" \/ issue.unsupported THEN "needs-human"
  ELSE CASE issue.kind = "question"   -> "answer-draft"
         [] issue.kind = "suggestion" -> "trinity"
         [] OTHER                     -> "sandbox"

Classify ==
  IF issue.kind = "none" \/ issue.unsupported THEN "needs-human"
  ELSE IF issue.kind = "question" THEN "answer-draft"
  ELSE IF issue.risky \/ issue.kind = "suggestion" THEN "trinity"
  ELSE "sandbox"

DECISION_TO_SCRIPT ==
  [d \in {"sandbox", "trinity", "answer-draft"} |->
     CASE d = "sandbox"      -> <<"sandbox_repro", "fix_pr">>
       [] d = "trinity"      -> <<"trinity_dispatch">>
       [] d = "answer-draft" -> <<"answer_draft">>]

Scripts == DECISION_TO_SCRIPT[Classify]
IsAt(w, script) == Classify # "needs-human" /\ Scripts[step[w]] = script

-----------------------------------------------------------------------------
(* The workflow job and dispatch.py *)

\* The issue is opened, or the routing label is added.
Trigger(w) ==
  /\ At(w, "idle")
  /\ Go(w, "triage")
  /\ UNCHANGED <<issue, setup, shared, local, history>>

\* The environment is not approved, or a checkout or setup.sh fails: the job
\* ends before any script of the repository could set a label.
SetupFails(w) ==
  /\ At(w, "triage")
  /\ Fault(w, "setup")
  /\ Go(w, "failed")
  /\ UNCHANGED <<issue, setup, shared, local, lastLabel>>

\* triage.py fails on an empty body; the job stops there.
Triage(w) ==
  /\ At(w, "triage")
  /\ IF issue.hasBody THEN Go(w, "route") /\ UNCHANGED excuses
                      ELSE Go(w, "failed") /\ Note(w, "empty")
  /\ UNCHANGED <<issue, setup, shared, local, lastLabel, faults>>

Route(w) ==
  /\ At(w, "route")
  /\ IF Classify = "needs-human"
     THEN Go(w, "done") /\ TransitionStatus(w, "needs-human")
     ELSE Go(w, "start") /\ TransitionStatus(w, "processing")
  /\ UNCHANGED <<issue, setup, prs, remote, posted, local>>

\* Mutant: every run that comes to its end is labelled a success (v0.1).
FinishFixReady(w) ==
  /\ At(w, "exit0")
  /\ step[w] = Len(Scripts)
  /\ Go(w, "done")
  /\ TransitionStatus(w, "fix-ready")
  /\ UNCHANGED <<issue, setup, prs, remote, posted, local>>

\* The last script exits 0; its own label stands.
Finish(w) ==
  /\ At(w, "exit0")
  /\ step[w] = Len(Scripts)
  /\ Go(w, "done")
  /\ UNCHANGED <<issue, setup, shared, local, history>>

NextScript(w) ==
  /\ At(w, "exit0")
  /\ step[w] < Len(Scripts)
  /\ step' = [step EXCEPT ![w] = @ + 1]
  /\ attempt' = [attempt EXCEPT ![w] = 1]
  /\ Go(w, "start")
  /\ UNCHANGED <<issue, setup, shared, proposal, tree, container, history>>

\* Mutant: attempts are not counted.
RetryForEver(w) ==
  /\ At(w, "exit1")
  /\ Go(w, "start")
  /\ UNCHANGED <<issue, setup, shared, local, history>>

\* Mutant: one attempt more than the ceiling.
RetryOnceMore(w) ==
  /\ At(w, "exit1")
  /\ attempt[w] <= MAX_ATTEMPTS
  /\ attempt' = [attempt EXCEPT ![w] = @ + 1]
  /\ Go(w, "start")
  /\ UNCHANGED <<issue, setup, shared, step, proposal, tree, container, history>>

Retry(w) ==
  /\ At(w, "exit1")
  /\ attempt[w] < MAX_ATTEMPTS
  /\ attempt' = [attempt EXCEPT ![w] = @ + 1]
  /\ Go(w, "start")
  /\ UNCHANGED <<issue, setup, shared, step, proposal, tree, container, history>>

\* Mutant: the exit code of the last attempt is not returned to main.
GiveUpAndGoOn(w) ==
  /\ At(w, "exit1")
  /\ attempt[w] = MAX_ATTEMPTS
  /\ Go(w, "exit0")
  /\ TransitionStatus(w, "needs-human")
  /\ UNCHANGED <<issue, setup, prs, remote, posted, local>>

\* The termination ceiling: label, comment, and the job fails.
GiveUp(w) ==
  /\ At(w, "exit1")
  /\ attempt[w] = MAX_ATTEMPTS
  /\ Go(w, "failed")
  /\ TransitionStatus(w, "needs-human")
  /\ UNCHANGED <<issue, setup, prs, remote, posted, local>>

InScript == {"start", "work", "push", "open", "reconcile", "comment", "announce"}

\* The step outlives its 600 seconds: TimeoutExpired ends dispatch.py.
StepTimesOut(w) ==
  /\ Fault(w, "hang")
  /\ pc[w] \in InScript
  /\ Go(w, "failed")
  /\ UNCHANGED <<issue, setup, shared, local, lastLabel>>

\* The job reaches its 15 minutes, or the runner is lost.
JobIsKilled(w) ==
  /\ Fault(w, "kill")
  /\ pc[w] \in InScript \cup {"triage", "route", "exit0", "exit1"}
  /\ Go(w, "killed")
  /\ UNCHANGED <<issue, setup, shared, local, lastLabel>>

-----------------------------------------------------------------------------
(* What the scripts have in common *)

\* Mutant: one voice is enough for a review.
HasAnyKey(script) ==
  CASE script \in {"sandbox_repro", "fix_pr"} -> setup.codex
    [] OTHER                                  -> setup.codex \/ setup.anthropic

HasKeys(script) ==
  CASE script \in {"sandbox_repro", "fix_pr"} -> setup.codex
    [] script = "trinity_dispatch"            -> setup.codex /\ setup.anthropic
    [] script = "answer_draft"                -> setup.anthropic

ExpectedKind(script) ==
  CASE script = "fix_pr"           -> "bug"
    [] script = "trinity_dispatch" -> "suggestion"
    [] script = "answer_draft"     -> "question"

\* A key is missing, or the sandbox is off: exit 0 without a word on the issue.
SkipIfNoKey(w) ==
  /\ At(w, "start")
  /\ \/ ~HasKeys(Scripts[step[w]])
     \/ IsAt(w, "sandbox_repro") /\ ~setup.sandbox
  /\ Go(w, "exit0")
  /\ IF HasKeys(Scripts[step[w]]) THEN UNCHANGED excuses ELSE Note(w, "skip")
  /\ UNCHANGED <<issue, setup, shared, local, lastLabel, faults>>

\* The three model scripts begin by setting the status.
StartModelScript(w) ==
  /\ At(w, "start")
  /\ ~IsAt(w, "sandbox_repro")
  /\ HasKeys(Scripts[step[w]])
  /\ Go(w, "work")
  /\ TransitionStatus(w, "processing")
  /\ UNCHANGED <<issue, setup, prs, remote, posted, local>>

InModelScript(w) == At(w, "work") /\ ~IsAt(w, "sandbox_repro")

Accepts(w) == issue.wellFormed /\ issue.kind = ExpectedKind(Scripts[step[w]])

\* The body does not parse, or is of another kind.
RefuseIssue(w) ==
  /\ InModelScript(w)
  /\ ~Accepts(w)
  /\ BailToHuman(w)
  /\ UNCHANGED <<issue, setup, prs, remote, posted, local>>

\* The model fails, or answers what the script does not use.
ModelIsNoHelp(w) ==
  /\ InModelScript(w)
  /\ Accepts(w)
  /\ "model" \in FaultKinds
  /\ BailToHuman(w)
  /\ UNCHANGED <<issue, setup, prs, remote, posted, local>>

\* An exception no except names ends the script with exit code 1.
ScriptRaises(w) ==
  /\ Fault(w, "raise")
  /\ pc[w] \in {"start", "work", "reconcile", "comment"}
  /\ Go(w, "exit1")
  /\ UNCHANGED <<issue, setup, shared, local, lastLabel>>

-----------------------------------------------------------------------------
(* sandbox_repro.py *)

StartSandbox(w) ==
  /\ At(w, "start")
  /\ IsAt(w, "sandbox_repro")
  /\ setup.sandbox /\ setup.codex
  /\ Go(w, "work")
  /\ UNCHANGED <<issue, setup, shared, local, history>>

\* The image is pulled, the container runs and is stopped.
Repro(w) ==
  /\ At(w, "work") /\ IsAt(w, "sandbox_repro")
  /\ ~container[w]
  /\ Go(w, "exit0")
  /\ UNCHANGED <<issue, setup, shared, local, history>>

\* No image, no container, or its name is taken by one left running.
ReproFails(w) ==
  /\ At(w, "work") /\ IsAt(w, "sandbox_repro")
  /\ "docker" \in FaultKinds \/ container[w]
  /\ Go(w, "exit1")
  /\ UNCHANGED <<issue, setup, shared, local, history>>

\* docker run or docker stop times out and the container stays up.
ContainerStaysUp(w) ==
  /\ At(w, "work") /\ IsAt(w, "sandbox_repro")
  /\ Fault(w, "raise")
  /\ container' = [container EXCEPT ![w] = TRUE]
  /\ Go(w, "exit1")
  /\ UNCHANGED <<issue, setup, shared, step, attempt, proposal, tree, lastLabel>>

-----------------------------------------------------------------------------
(* fix_pr.py *)

\* Codex proposes a change of an allowed file, which is committed on a branch
\* of its own.  What an earlier attempt committed is below it.
ProposeFix(w) ==
  /\ At(w, "work") /\ IsAt(w, "fix_pr")
  /\ Accepts(w)
  /\ \E p \in Proposals \ tree[w] :
       /\ proposal' = [proposal EXCEPT ![w] = p]
       /\ tree' = [tree EXCEPT ![w] = @ \cup {p}]
  /\ Go(w, "push")
  /\ UNCHANGED <<issue, setup, shared, step, attempt, container, history>>

\* The proposal is what the file already holds.
ProposeNothingNew(w) ==
  /\ At(w, "work") /\ IsAt(w, "fix_pr")
  /\ Accepts(w)
  /\ tree[w] # {}
  /\ BailToHuman(w)
  /\ UNCHANGED <<issue, setup, prs, remote, posted, local>>

\* Mutant: git push --force.
ForcedPushIsTaken(w) == setup.mayPush

\* GitHub takes a branch the token may write and nobody pushed before.
PushIsTaken(w) == setup.mayPush /\ proposal[w] \notin remote

Push(w) ==
  /\ At(w, "push")
  /\ PushIsTaken(w)
  /\ remote' = remote \cup {proposal[w]}
  /\ Go(w, "open")
  /\ UNCHANGED <<issue, setup, status, prs, posted, local, history>>

PushIsRejected(w) ==
  /\ At(w, "push")
  /\ ~PushIsTaken(w)
  /\ BailToHuman(w)
  /\ UNCHANGED <<issue, setup, prs, remote, posted, local>>

\* git push does not return in time, whether or not GitHub has the branch.
PushRaises(w) ==
  /\ At(w, "push")
  /\ Fault(w, "raise")
  /\ \/ PushIsTaken(w) /\ remote' = remote \cup {proposal[w]}
     \/ UNCHANGED remote
  /\ Go(w, "exit1")
  /\ UNCHANGED <<issue, setup, status, prs, posted, local, lastLabel>>

NewPr(w) == prs' = prs \cup {[by |-> w, branch |-> proposal[w], changes |-> tree[w]]}

CreatePr(w) ==
  /\ At(w, "open")
  /\ NewPr(w)
  /\ Go(w, "announce")
  /\ UNCHANGED <<issue, setup, status, remote, posted, local, history>>

CreatePrFails(w) ==
  /\ At(w, "open")
  /\ "gh" \in FaultKinds
  /\ BailToHuman(w)
  /\ UNCHANGED <<issue, setup, prs, remote, posted, local>>

\* gh pr create does not return in time, whether or not the request is open.
CreatePrRaises(w) ==
  /\ At(w, "open")
  /\ Fault(w, "raise")
  /\ NewPr(w) \/ UNCHANGED prs
  /\ Go(w, "exit1")
  /\ UNCHANGED <<issue, setup, status, remote, posted, local, lastLabel>>

-----------------------------------------------------------------------------
(* trinity_dispatch.py and answer_draft.py *)

\* Codex has written its critique.
Critique(w) ==
  /\ At(w, "work") /\ IsAt(w, "trinity_dispatch")
  /\ Accepts(w)
  /\ Go(w, "reconcile")
  /\ UNCHANGED <<issue, setup, shared, local, history>>

\* Claude has read the suggestion and the critique.
Reconcile(w) ==
  /\ At(w, "reconcile")
  /\ Go(w, "comment")
  /\ UNCHANGED <<issue, setup, shared, local, history>>

\* Claude fails, or answers no JSON.
NoReconciliation(w) ==
  /\ At(w, "reconcile")
  /\ "model" \in FaultKinds
  /\ BailToHuman(w)
  /\ UNCHANGED <<issue, setup, prs, remote, posted, local>>

\* Claude has drafted an answer.
DraftAnswer(w) ==
  /\ At(w, "work") /\ IsAt(w, "answer_draft")
  /\ Accepts(w)
  /\ Go(w, "comment")
  /\ UNCHANGED <<issue, setup, shared, local, history>>

NewComment(w) == posted' = posted \cup {[by |-> w, attempt |-> attempt[w]]}

\* The review or the draft answer is posted.
PostAdvice(w) ==
  /\ At(w, "comment")
  /\ NewComment(w)
  /\ Go(w, "announce")
  /\ UNCHANGED <<issue, setup, status, prs, remote, local, history>>

\* Mutant: a script whose comment failed exits with 1.
PostFailsExitOne(w) ==
  /\ At(w, "comment")
  /\ Fault(w, "comment")
  /\ NewComment(w) \/ UNCHANGED posted
  /\ Go(w, "exit1")
  /\ UNCHANGED <<issue, setup, status, prs, remote, local, lastLabel>>

\* The comment is refused, or gh does not return in time, whether or not the
\* comment is there: exit 0 without a transition.
PostFails(w) ==
  /\ At(w, "comment")
  /\ Fault(w, "comment")
  /\ NewComment(w) \/ UNCHANGED posted
  /\ Go(w, "exit0")
  /\ UNCHANGED <<issue, setup, status, prs, remote, local, lastLabel>>

\* Mutant: a script that succeeded exits with 1.
AnnounceExitOne(w) ==
  /\ At(w, "announce")
  /\ Go(w, "exit1")
  /\ TransitionStatus(w, "fix-ready")
  /\ UNCHANGED <<issue, setup, prs, remote, posted, local>>

\* The end of the three model scripts.
Announce(w) ==
  /\ At(w, "announce")
  /\ Go(w, "exit0")
  /\ TransitionStatus(w, "fix-ready")
  /\ UNCHANGED <<issue, setup, prs, remote, posted, local>>

-----------------------------------------------------------------------------

JobStep(w) == \/ Triage(w) \/ Route(w) \/ Finish(w) \/ NextScript(w)
              \/ Retry(w) \/ GiveUp(w)
ScriptStep(w) == \/ SkipIfNoKey(w) \/ StartModelScript(w) \/ RefuseIssue(w)
                 \/ ModelIsNoHelp(w) \/ ScriptRaises(w)
                 \/ StartSandbox(w) \/ Repro(w) \/ ReproFails(w) \/ ContainerStaysUp(w)
                 \/ ProposeFix(w) \/ ProposeNothingNew(w)
                 \/ Push(w) \/ PushIsRejected(w) \/ PushRaises(w)
                 \/ CreatePr(w) \/ CreatePrFails(w) \/ CreatePrRaises(w)
                 \/ Critique(w) \/ Reconcile(w) \/ NoReconciliation(w) \/ DraftAnswer(w)
                 \/ PostAdvice(w) \/ PostFails(w) \/ Announce(w)
RunStep(w) == JobStep(w) \/ ScriptStep(w)

Next == \E w \in Runs : \/ Trigger(w) \/ RunStep(w)
                        \/ SetupFails(w) \/ StepTimesOut(w) \/ JobIsKilled(w)

Spec == Init /\ [][Next]_vars

\* A runner goes on with what it has begun.
FairSpec == Spec /\ \A w \in Runs : WF_vars(RunStep(w))

-----------------------------------------------------------------------------
(* Properties *)

(***************************************************************************)
(* No pull request is drafted for an issue that touches a high-risk        *)
(* surface or names a security keyword, nor for anything but a well-formed *)
(* bug report, whichever runs and retries come about (triage.py:126-133,   *)
(* dispatch.py:41-50).  The docstring of dispatch.py says otherwise: it    *)
(* has fix_pr.py follow the review (line 8), as in v0.1, and would draft a *)
(* request for a risky bug; the table has had no such step since v0.2.     *)
(***************************************************************************)
NoPrForRisky ==
  prs # {} => /\ issue.kind = "bug" /\ issue.wellFormed
              /\ ~issue.risky /\ ~issue.unsupported

\* What may keep the outcome of a run off the issue.
Excuses == {"label", "skip", "comment", "hang", "empty", "setup", "kill"}

OpenedBy(w) == {pr \in prs : pr.by = w}
AdviceOf(w) == {comment \in posted : comment.by = w}

(***************************************************************************)
(* A run that labelled the issue fix-ready has left a pull request, a      *)
(* review or an answer: the label is no courtesy of the orchestrator       *)
(* (dispatch.py:149-153).                                                  *)
(***************************************************************************)
FixReadyIsTrue ==
  \A w \in Runs : lastLabel[w] = "fix-ready" => AdviceOf(w) # {} \/ OpenedBy(w) # {}

(***************************************************************************)
(* A run that has ended, however it ended, leaves the issue fix-ready or   *)
(* needs-human, except in these cases: a label edit failed, a key was      *)
(* missing, the comment did not go through, a step timed out, the body was *)
(* empty, the job failed before triage, or it was killed.  In each of them *)
(* the issue stays queued or processing and no run comes back to it.       *)
(***************************************************************************)
OutcomeIsVisible ==
  \A w \in Runs :
    pc[w] \in {"done", "failed", "killed"} =>
      \/ lastLabel[w] \in {"fix-ready", "needs-human"}
      \/ excuses[w] \cap Excuses # {}

(***************************************************************************)
(* A run never takes back its own needs-human: neither a later script, nor *)
(* a retry, nor the end of dispatch.py overwrites it.                      *)
(***************************************************************************)
VerdictStands ==
  [][\A w \in Runs : lastLabel[w] = "needs-human" => lastLabel'[w] = "needs-human"]_vars

(***************************************************************************)
(* A run in which no script ended with an exception opens at most one pull *)
(* request, which changes a single file.                                   *)
(***************************************************************************)
OnePrPerRun ==
  \A w \in Runs :
    "raise" \notin excuses[w] =>
      /\ Cardinality(OpenedBy(w)) <= 1
      /\ \A pr \in OpenedBy(w) : pr.changes = {pr.branch}

(***************************************************************************)
(* No two pull requests are drafted from one branch, although runs side by *)
(* side and attempts after one another may propose the same fix: who may   *)
(* open the request is settled by the push (fix_pr.py:465, 494).           *)
(***************************************************************************)
OnePrPerBranch == \A one, other \in prs : one.branch = other.branch => one = other

(***************************************************************************)
(* An issue gets advice only of its kind and from all the voices it needs: *)
(* a review of a suggestion from Codex and Claude, an answer to a question *)
(* from Claude ("without one, there is no review",                         *)
(* trinity_dispatch.py:382-383).                                           *)
(***************************************************************************)
AdviceFits ==
  /\ issue.wellFormed /\ setup.anthropic
  /\ issue.kind = "question" \/ (issue.kind = "suggestion" /\ setup.codex)
AdviceHasItsVoices == posted # {} => AdviceFits

(***************************************************************************)
(* A run comments on the issue once at most, however often its script is   *)
(* attempted and although gh may fail after the comment is there: a failed *)
(* comment is not retried (answer_draft.py:280-284).                       *)
(***************************************************************************)
AdviceOnce == \A one, other \in posted : one.by = other.by => one = other

\* Every run that was triggered ends: three attempts per step, not more.
EveryRunEnds ==
  \A w \in Runs : At(w, "triage") ~> pc[w] \in {"done", "failed", "killed"}
=============================================================================
