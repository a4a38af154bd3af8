------------------------- MODULE AgentDispatch_proofs -------------------------
(***************************************************************************)
(* Safety of the agent-dispatch workflow, for any number of runs on the    *)
(* issue, any issue, any setup and any fault budget.                       *)
(*                                                                         *)
(* Runs share the issue's label, the pull requests and the branches, but   *)
(* no property of a run rests on what another wrote there.  The invariant  *)
(* is therefore RunOk, a predicate of one run, for every run: a step of w  *)
(* establishes RunOk(w)', and OnlyRun(w) carries RunOk of the others over. *)
(***************************************************************************)
EXTENDS AgentDispatch, FiniteSetTheorems, TLAPS

-----------------------------------------------------------------------------
(* The inductive invariant *)

Running == {"start", "work", "push", "open", "reconcile", "comment", "announce", "exit0",
            "exit1"}

\* The run is in the last of its scripts.
InLast(w) == step[w] = Len(Scripts)

(***************************************************************************)
(* A run that has come to a script was routed there by the classifier, and *)
(* only fix_pr, having accepted the issue, pushes and opens.               *)
(***************************************************************************)
Routed(w) ==
  /\ pc[w] \in {"idle", "triage", "route"} => step[w] = 1
  /\ pc[w] \in Running => Classify # "needs-human" /\ step[w] <= Len(Scripts)
  /\ pc[w] \in {"push", "open"} =>
       /\ Scripts[step[w]] = "fix_pr" /\ issue.wellFormed /\ issue.kind = "bug"
       /\ proposal[w] \in Proposals
  /\ pc[w] \in {"reconcile", "comment", "announce"} => InLast(w)

\* What a run leaves behind when its last script is over.
Told(w) == \/ lastLabel[w] \in {"fix-ready", "needs-human"}
           \/ \E e \in Excuses : e \in excuses[w]

Over(w) == pc[w] \in {"done", "failed", "killed"} \/ (pc[w] = "exit0" /\ InLast(w))

\* The run has something to show before it says fix-ready.
Shown(w) == AdviceOf(w) # {} \/ OpenedBy(w) # {}

(***************************************************************************)
(* Without an exception no script is run twice on one checkout: nothing is *)
(* committed or opened before fix_pr's only attempt.                       *)
(***************************************************************************)
Untouched(w) == \/ pc[w] \in {"idle", "triage", "route", "start", "work", "exit1"}
                \/ pc[w] = "exit0" /\ ~InLast(w)

CleanTree(w) ==
  "raise" \notin excuses[w] =>
    /\ Untouched(w) => tree[w] = {} /\ OpenedBy(w) = {}
    /\ pc[w] \in {"push", "open"} => tree[w] = {proposal[w]} /\ OpenedBy(w) = {}
    /\ \A pr \in OpenedBy(w) : pr.changes = {pr.branch}
    /\ \A pr, other \in OpenedBy(w) : pr = other

RunOk(w) ==
  /\ Routed(w)
  /\ Over(w) => Told(w)
  /\ pc[w] = "announce" \/ lastLabel[w] = "fix-ready" => Shown(w)
  /\ lastLabel[w] = "needs-human" => Over(w)
  /\ CleanTree(w)

IInv == TypeOK /\ NoPrForRisky /\ \A w \in Runs : RunOk(w)

-----------------------------------------------------------------------------
(* Routing *)

\* sandbox_repro is never the last script, the others always are; fix_pr is
\* reached by issues without risk only.
LEMMA ScriptFacts ==
  ASSUME Classify # "needs-human"
  PROVE  /\ Len(Scripts) \in 1..2
         /\ \A i \in 1..2 : i <= Len(Scripts) =>
              (Scripts[i] = "sandbox_repro" <=> i < Len(Scripts))
         /\ \A i \in 1..2 : i <= Len(Scripts) /\ Scripts[i] = "fix_pr" =>
              ~issue.risky /\ ~issue.unsupported
<1>1. Classify \in {"sandbox", "trinity", "answer-draft"}
  BY DEF Classify
<1>2. CASE Classify = "sandbox"
  <2>1. Scripts = <<"sandbox_repro", "fix_pr">>
    BY <1>2 DEF Scripts, DECISION_TO_SCRIPT
  <2>2. ~issue.risky /\ ~issue.unsupported
    BY <1>2 DEF Classify
  <2> QED
    BY <2>1, <2>2
<1>3. CASE Classify = "trinity"
  <2>1. Scripts = <<"trinity_dispatch">>
    BY <1>3 DEF Scripts, DECISION_TO_SCRIPT
  <2> QED
    BY <2>1
<1>4. CASE Classify = "answer-draft"
  <2>1. Scripts = <<"answer_draft">>
    BY <1>4 DEF Scripts, DECISION_TO_SCRIPT
  <2> QED
    BY <2>1
<1> QED
  BY <1>1, <1>2, <1>3, <1>4

\* The issue does not change, nor does its route.
LEMMA RouteIsFixed ==
  ASSUME issue' = issue
  PROVE  Classify' = Classify /\ Scripts' = Scripts
  BY DEF Classify, Scripts, DECISION_TO_SCRIPT

LEMMA OpenedSame == ASSUME prs' = prs, NEW w \in Runs PROVE OpenedBy(w)' = OpenedBy(w)
  BY DEF OpenedBy

LEMMA AdviceSame == ASSUME posted' = posted, NEW w \in Runs PROVE AdviceOf(w)' = AdviceOf(w)
  BY DEF AdviceOf

-----------------------------------------------------------------------------
(* A step of one run *)

\* What a step of w leaves to the other runs.
OnlyRun(w) ==
  /\ issue' = issue /\ setup' = setup
  /\ \A v \in Runs \ {w} :
       /\ pc'[v] = pc[v] /\ step'[v] = step[v]
       /\ proposal'[v] = proposal[v] /\ tree'[v] = tree[v]
       /\ lastLabel'[v] = lastLabel[v] /\ excuses'[v] = excuses[v]
       /\ OpenedBy(v)' = OpenedBy(v)
       /\ AdviceOf(v)' = AdviceOf(v)

Kept(w) == TypeOK' /\ OnlyRun(w) /\ NoPrForRisky' /\ RunOk(w)'

LEMMA OthersKept ==
  ASSUME NEW w \in Runs, OnlyRun(w), NEW v \in Runs \ {w}, RunOk(v)
  PROVE  RunOk(v)'
<1>1. Classify' = Classify /\ Scripts' = Scripts /\ issue' = issue
  BY RouteIsFixed DEF OnlyRun
<1>2. Routed(v)'
  BY <1>1 DEF RunOk, Routed, OnlyRun, InLast
<1>3. Over(v)' = Over(v) /\ Told(v)' = Told(v) /\ Untouched(v)' = Untouched(v)
  BY <1>1 DEF OnlyRun, Over, Told, Untouched, InLast
<1>4. Shown(v) => Shown(v)'
  BY DEF OnlyRun, Shown
<1>5. CleanTree(v)'
  BY <1>3 DEF RunOk, CleanTree, OnlyRun
<1> QED
  BY <1>2, <1>3, <1>4, <1>5 DEF RunOk, OnlyRun

\* A step of w that keeps RunOk(w) keeps the invariant.
LEMMA KeptIInv ==
  ASSUME IInv, NEW w \in Runs, Kept(w)
  PROVE  IInv'
  BY OthersKept DEF IInv, Kept

-----------------------------------------------------------------------------
(* One lemma for each action *)

USE DEF At, Go, Note, Fault, TransitionStatus, IsAt, shared, local, history

LEMMA TriggerKept == ASSUME IInv, NEW w \in Runs, Trigger(w) PROVE Kept(w)
<1>r. TypeOK /\ RunOk(w) /\ (Classify # "needs-human" => Len(Scripts) \in 1..2)
  BY ScriptFacts DEF IInv
<1>1. TypeOK'
  BY FaultKindsType DEF IInv, TypeOK, Stages, Statuses, Faults, Trigger
<1>2. OnlyRun(w)
  BY DEF IInv, TypeOK, OnlyRun, OpenedBy, AdviceOf, Trigger
<1>3. Classify' = Classify /\ Scripts' = Scripts /\ issue' = issue
      /\ OpenedBy(w)' = OpenedBy(w) /\ AdviceOf(w)' = AdviceOf(w)
  BY <1>2, RouteIsFixed, OpenedSame, AdviceSame DEF OnlyRun, Trigger
<1>4. NoPrForRisky'
  BY <1>3, ScriptFacts DEF IInv, TypeOK, NoPrForRisky, RunOk, Routed, Running, Trigger
<1>5. RunOk(w)'
  <2> USE ScriptFacts, <1>r DEF TypeOK, RunOk, Routed, Running, InLast, Trigger
  <2>1. Routed(w)'
    BY <1>3
  <2>2. Over(w)' => Told(w)'
    BY <1>3 DEF Over, Told, Excuses
  <2>3. (pc[w] = "announce" \/ lastLabel[w] = "fix-ready" => Shown(w))'
    BY <1>3 DEF Shown
  <2>4. (lastLabel[w] = "needs-human" => Over(w))'
    BY <1>3 DEF Over
  <2>5. CleanTree(w)'
    BY <1>3 DEF CleanTree, Untouched
  <2> QED
    BY <2>1, <2>2, <2>3, <2>4, <2>5 DEF RunOk
<1> QED
  BY <1>1, <1>2, <1>4, <1>5 DEF Kept

LEMMA TriageKept == ASSUME IInv, NEW w \in Runs, Triage(w) PROVE Kept(w)
<1>r. TypeOK /\ RunOk(w) /\ (Classify # "needs-human" => Len(Scripts) \in 1..2)
  BY ScriptFacts DEF IInv
<1>1. TypeOK'
  BY FaultKindsType DEF IInv, TypeOK, Stages, Statuses, Faults, Triage
<1>2. OnlyRun(w)
  BY DEF IInv, TypeOK, OnlyRun, OpenedBy, AdviceOf, Triage
<1>3. Classify' = Classify /\ Scripts' = Scripts /\ issue' = issue
      /\ OpenedBy(w)' = OpenedBy(w) /\ AdviceOf(w)' = AdviceOf(w)
  BY <1>2, RouteIsFixed, OpenedSame, AdviceSame DEF OnlyRun, Triage
<1>4. NoPrForRisky'
  BY <1>3, ScriptFacts DEF IInv, TypeOK, NoPrForRisky, RunOk, Routed, Running, Triage
<1>5. RunOk(w)'
  <2> USE ScriptFacts, <1>r DEF TypeOK, RunOk, Routed, Running, InLast, Triage
  <2>1. Routed(w)'
    BY <1>3
  <2>2. Over(w)' => Told(w)'
    BY <1>3 DEF Over, Told, Excuses
  <2>3. (pc[w] = "announce" \/ lastLabel[w] = "fix-ready" => Shown(w))'
    BY <1>3 DEF Shown
  <2>4. (lastLabel[w] = "needs-human" => Over(w))'
    BY <1>3 DEF Over
  <2>5. CleanTree(w)'
    BY <1>3 DEF CleanTree, Untouched
  <2> QED
    BY <2>1, <2>2, <2>3, <2>4, <2>5 DEF RunOk
<1> QED
  BY <1>1, <1>2, <1>4, <1>5 DEF Kept

LEMMA RouteKept == ASSUME IInv, NEW w \in Runs, Route(w) PROVE Kept(w)
<1>r. TypeOK /\ RunOk(w) /\ (Classify # "needs-human" => Len(Scripts) \in 1..2)
  BY ScriptFacts DEF IInv
<1>0. Classify # "needs-human" => 1 <= Len(Scripts)
  BY ScriptFacts
<1>1. TypeOK'
  BY FaultKindsType DEF IInv, TypeOK, Stages, Statuses, Faults, Route
<1>2. OnlyRun(w)
  BY DEF IInv, TypeOK, OnlyRun, OpenedBy, AdviceOf, Route
<1>3. Classify' = Classify /\ Scripts' = Scripts /\ issue' = issue
      /\ OpenedBy(w)' = OpenedBy(w) /\ AdviceOf(w)' = AdviceOf(w)
  BY <1>2, RouteIsFixed, OpenedSame, AdviceSame DEF OnlyRun, Route
<1>4. NoPrForRisky'
  BY <1>3, ScriptFacts DEF IInv, TypeOK, NoPrForRisky, RunOk, Routed, Running, Route
<1>5. RunOk(w)'
  <2> USE ScriptFacts, <1>r DEF TypeOK, RunOk, Routed, Running, InLast, Route
  <2>1. Routed(w)'
    <3>1. pc[w] = "route" /\ step'[w] = 1 /\ pc'[w] \in {"start", "done"}
      OBVIOUS
    <3>2. pc'[w] = "start" => Classify # "needs-human"
      OBVIOUS
    <3> QED
      BY <1>0, <1>3, <3>1, <3>2 DEF Routed
  <2>2. Over(w)' => Told(w)'
    BY <1>3 DEF Over, Told, Excuses
  <2>3. (pc[w] = "announce" \/ lastLabel[w] = "fix-ready" => Shown(w))'
    BY <1>3 DEF Shown
  <2>4. (lastLabel[w] = "needs-human" => Over(w))'
    BY <1>3 DEF Over
  <2>5. CleanTree(w)'
    BY <1>3 DEF CleanTree, Untouched
  <2> QED
    BY <2>1, <2>2, <2>3, <2>4, <2>5 DEF RunOk
<1> QED
  BY <1>1, <1>2, <1>4, <1>5 DEF Kept

LEMMA FinishKept == ASSUME IInv, NEW w \in Runs, Finish(w) PROVE Kept(w)
<1>r. TypeOK /\ RunOk(w) /\ (Classify # "needs-human" => Len(Scripts) \in 1..2)
  BY ScriptFacts DEF IInv
<1>1. TypeOK'
  BY FaultKindsType DEF IInv, TypeOK, Stages, Statuses, Faults, Finish
<1>2. OnlyRun(w)
  BY DEF IInv, TypeOK, OnlyRun, OpenedBy, AdviceOf, Finish
<1>3. Classify' = Classify /\ Scripts' = Scripts /\ issue' = issue
      /\ OpenedBy(w)' = OpenedBy(w) /\ AdviceOf(w)' = AdviceOf(w)
  BY <1>2, RouteIsFixed, OpenedSame, AdviceSame DEF OnlyRun, Finish
<1>4. NoPrForRisky'
  BY <1>3, ScriptFacts DEF IInv, TypeOK, NoPrForRisky, RunOk, Routed, Running, Finish
<1>5. RunOk(w)'
  <2> USE <1>r, <1>3 DEF TypeOK, RunOk, Routed, Running, InLast, Finish
  <2>1. Routed(w)'
    BY ScriptFacts
  <2>2. Over(w)' => Told(w)'
    BY DEF Over, Told, Excuses
  <2>3. (pc[w] = "announce" \/ lastLabel[w] = "fix-ready" => Shown(w))'
    BY DEF Shown
  <2>4. (lastLabel[w] = "needs-human" => Over(w))'
    BY ScriptFacts DEF Over
  <2>5. CleanTree(w)'
    BY DEF CleanTree, Untouched
  <2> QED
    BY <2>1, <2>2, <2>3, <2>4, <2>5 DEF RunOk
<1> QED
  BY <1>1, <1>2, <1>4, <1>5 DEF Kept

LEMMA NextScriptKept == ASSUME IInv, NEW w \in Runs, NextScript(w) PROVE Kept(w)
<1>r. TypeOK /\ RunOk(w) /\ (Classify # "needs-human" => Len(Scripts) \in 1..2)
  BY ScriptFacts DEF IInv
<1>0. /\ Classify # "needs-human" /\ step[w] \in 1..2 /\ step[w] < Len(Scripts)
      /\ pc'[w] = "start" /\ lastLabel' = lastLabel
  BY DEF IInv, TypeOK, RunOk, Routed, Running, NextScript
<1>1. TypeOK'
  <2>0. Len(Scripts) \in 1..2
    BY <1>0, ScriptFacts
  <2>1. \A i, n \in 1..2 : i < n => i + 1 \in 1..2
    OBVIOUS
  <2>2. step' \in [Runs -> 1..2]
    BY <1>0, <2>0, <2>1 DEF IInv, TypeOK, NextScript
  <2> QED
    BY <2>2 DEF IInv, TypeOK, Stages, MAX_ATTEMPTS, NextScript
<1>2. OnlyRun(w)
  BY DEF IInv, TypeOK, OnlyRun, OpenedBy, AdviceOf, NextScript
<1>3. Classify' = Classify /\ Scripts' = Scripts /\ issue' = issue
      /\ OpenedBy(w)' = OpenedBy(w) /\ AdviceOf(w)' = AdviceOf(w)
  BY <1>2, RouteIsFixed, OpenedSame, AdviceSame DEF OnlyRun, NextScript
<1>4. NoPrForRisky'
  BY <1>3, ScriptFacts DEF IInv, TypeOK, NoPrForRisky, RunOk, Routed, Running, NextScript
<1>5. RunOk(w)'
  <2> USE ScriptFacts, <1>r DEF TypeOK, RunOk, Routed, Running, InLast, NextScript
  <2>1. Routed(w)'
    <3>1. step[w] + 1 <= Len(Scripts) /\ step'[w] = step[w] + 1
      BY <1>0
    <3> QED
      BY <1>0, <1>3, <3>1 DEF Routed
  <2>2. Over(w)' => Told(w)'
    BY <1>3 DEF Over, Told, Excuses
  <2>3. (pc[w] = "announce" \/ lastLabel[w] = "fix-ready" => Shown(w))'
    BY <1>3 DEF Shown
  <2>4. (lastLabel[w] = "needs-human" => Over(w))'
    <3>1. pc[w] = "exit0" /\ ~InLast(w)
      BY <1>0
    <3>2. lastLabel[w] # "needs-human"
      BY <3>1 DEF Over
    <3> QED
      BY <1>0, <3>2
  <2>5. CleanTree(w)'
    BY <1>3 DEF CleanTree, Untouched
  <2> QED
    BY <2>1, <2>2, <2>3, <2>4, <2>5 DEF RunOk
<1> QED
  BY <1>1, <1>2, <1>4, <1>5 DEF Kept

LEMMA RetryKept == ASSUME IInv, NEW w \in Runs, Retry(w) PROVE Kept(w)
<1>r. TypeOK /\ RunOk(w) /\ (Classify # "needs-human" => Len(Scripts) \in 1..2)
  BY ScriptFacts DEF IInv
<1>1. TypeOK'
  BY FaultKindsType DEF IInv, TypeOK, Stages, Statuses, Faults, MAX_ATTEMPTS, Retry
<1>2. OnlyRun(w)
  BY DEF IInv, TypeOK, OnlyRun, OpenedBy, AdviceOf, Retry
<1>3. Classify' = Classify /\ Scripts' = Scripts /\ issue' = issue
      /\ OpenedBy(w)' = OpenedBy(w) /\ AdviceOf(w)' = AdviceOf(w)
  BY <1>2, RouteIsFixed, OpenedSame, AdviceSame DEF OnlyRun, Retry
<1>4. NoPrForRisky'
  BY <1>3, ScriptFacts DEF IInv, TypeOK, NoPrForRisky, RunOk, Routed, Running, Retry
<1>5. RunOk(w)'
  <2> USE ScriptFacts, <1>r DEF TypeOK, RunOk, Routed, Running, InLast, Retry
  <2>1. Routed(w)'
    BY <1>3
  <2>2. Over(w)' => Told(w)'
    BY <1>3 DEF Over, Told, Excuses
  <2>3. (pc[w] = "announce" \/ lastLabel[w] = "fix-ready" => Shown(w))'
    BY <1>3 DEF Shown
  <2>4. (lastLabel[w] = "needs-human" => Over(w))'
    BY <1>3 DEF Over
  <2>5. CleanTree(w)'
    BY <1>3 DEF CleanTree, Untouched
  <2> QED
    BY <2>1, <2>2, <2>3, <2>4, <2>5 DEF RunOk
<1> QED
  BY <1>1, <1>2, <1>4, <1>5 DEF Kept

LEMMA GiveUpKept == ASSUME IInv, NEW w \in Runs, GiveUp(w) PROVE Kept(w)
<1>r. TypeOK /\ RunOk(w) /\ (Classify # "needs-human" => Len(Scripts) \in 1..2)
  BY ScriptFacts DEF IInv
<1>1. TypeOK'
  BY FaultKindsType DEF IInv, TypeOK, Stages, Statuses, Faults, GiveUp
<1>2. OnlyRun(w)
  BY DEF IInv, TypeOK, OnlyRun, OpenedBy, AdviceOf, GiveUp
<1>3. Classify' = Classify /\ Scripts' = Scripts /\ issue' = issue
      /\ OpenedBy(w)' = OpenedBy(w) /\ AdviceOf(w)' = AdviceOf(w)
  BY <1>2, RouteIsFixed, OpenedSame, AdviceSame DEF OnlyRun, GiveUp
<1>4. NoPrForRisky'
  BY <1>3, ScriptFacts DEF IInv, TypeOK, NoPrForRisky, RunOk, Routed, Running, GiveUp
<1>5. RunOk(w)'
  <2> USE <1>r, <1>3 DEF TypeOK, RunOk, Routed, Running, InLast, GiveUp
  <2>1. Routed(w)'
    BY ScriptFacts
  <2>2. Over(w)' => Told(w)'
    BY DEF Over, Told, Excuses
  <2>3. (pc[w] = "announce" \/ lastLabel[w] = "fix-ready" => Shown(w))'
    BY DEF Shown
  <2>4. (lastLabel[w] = "needs-human" => Over(w))'
    BY ScriptFacts DEF Over
  <2>5. CleanTree(w)'
    BY DEF CleanTree, Untouched
  <2> QED
    BY <2>1, <2>2, <2>3, <2>4, <2>5 DEF RunOk
<1> QED
  BY <1>1, <1>2, <1>4, <1>5 DEF Kept

LEMMA SetupFailsKept == ASSUME IInv, NEW w \in Runs, SetupFails(w) PROVE Kept(w)
<1>r. TypeOK /\ RunOk(w) /\ (Classify # "needs-human" => Len(Scripts) \in 1..2)
  BY ScriptFacts DEF IInv
<1>1. TypeOK'
  BY FaultKindsType DEF IInv, TypeOK, Stages, Statuses, Faults, SetupFails
<1>2. OnlyRun(w)
  BY DEF IInv, TypeOK, OnlyRun, OpenedBy, AdviceOf, SetupFails
<1>3. Classify' = Classify /\ Scripts' = Scripts /\ issue' = issue
      /\ OpenedBy(w)' = OpenedBy(w) /\ AdviceOf(w)' = AdviceOf(w)
  BY <1>2, RouteIsFixed, OpenedSame, AdviceSame DEF OnlyRun, SetupFails
<1>4. NoPrForRisky'
  BY <1>3, ScriptFacts DEF IInv, TypeOK, NoPrForRisky, RunOk, Routed, Running, SetupFails
<1>5. RunOk(w)'
  <2> USE <1>r, <1>3 DEF TypeOK, RunOk, Routed, Running, InLast, SetupFails
  <2>1. Routed(w)'
    BY ScriptFacts
  <2>2. Over(w)' => Told(w)'
    BY DEF Over, Told, Excuses
  <2>3. (pc[w] = "announce" \/ lastLabel[w] = "fix-ready" => Shown(w))'
    BY DEF Shown
  <2>4. (lastLabel[w] = "needs-human" => Over(w))'
    BY ScriptFacts DEF Over
  <2>5. CleanTree(w)'
    BY DEF CleanTree, Untouched
  <2> QED
    BY <2>1, <2>2, <2>3, <2>4, <2>5 DEF RunOk
<1> QED
  BY <1>1, <1>2, <1>4, <1>5 DEF Kept

LEMMA StepTimesOutKept == ASSUME IInv, NEW w \in Runs, StepTimesOut(w) PROVE Kept(w)
<1>r. TypeOK /\ RunOk(w) /\ (Classify # "needs-human" => Len(Scripts) \in 1..2)
  BY ScriptFacts DEF IInv
<1>1. TypeOK'
  BY FaultKindsType DEF IInv, TypeOK, Stages, Statuses, Faults, StepTimesOut, InScript
<1>2. OnlyRun(w)
  BY DEF IInv, TypeOK, OnlyRun, OpenedBy, AdviceOf, StepTimesOut, InScript
<1>3. Classify' = Classify /\ Scripts' = Scripts /\ issue' = issue
      /\ OpenedBy(w)' = OpenedBy(w) /\ AdviceOf(w)' = AdviceOf(w)
  BY <1>2, RouteIsFixed, OpenedSame, AdviceSame DEF OnlyRun, StepTimesOut, InScript
<1>4. NoPrForRisky'
  BY <1>3, ScriptFacts DEF IInv, TypeOK, NoPrForRisky, RunOk, Routed, Running, StepTimesOut, InScript
<1>5. RunOk(w)'
  <2> USE <1>r, <1>3 DEF TypeOK, RunOk, Routed, Running, InLast, StepTimesOut, InScript
  <2>1. Routed(w)'
    BY ScriptFacts
  <2>2. Over(w)' => Told(w)'
    BY DEF Over, Told, Excuses
  <2>3. (pc[w] = "announce" \/ lastLabel[w] = "fix-ready" => Shown(w))'
    BY DEF Shown
  <2>4. (lastLabel[w] = "needs-human" => Over(w))'
    BY ScriptFacts DEF Over
  <2>5. CleanTree(w)'
    BY DEF CleanTree, Untouched
  <2> QED
    BY <2>1, <2>2, <2>3, <2>4, <2>5 DEF RunOk
<1> QED
  BY <1>1, <1>2, <1>4, <1>5 DEF Kept

LEMMA JobIsKilledKept == ASSUME IInv, NEW w \in Runs, JobIsKilled(w) PROVE Kept(w)
<1>r. TypeOK /\ RunOk(w) /\ (Classify # "needs-human" => Len(Scripts) \in 1..2)
  BY ScriptFacts DEF IInv
<1>1. TypeOK'
  BY FaultKindsType DEF IInv, TypeOK, Stages, Statuses, Faults, JobIsKilled, InScript
<1>2. OnlyRun(w)
  BY DEF IInv, TypeOK, OnlyRun, OpenedBy, AdviceOf, JobIsKilled, InScript
<1>3. Classify' = Classify /\ Scripts' = Scripts /\ issue' = issue
      /\ OpenedBy(w)' = OpenedBy(w) /\ AdviceOf(w)' = AdviceOf(w)
  BY <1>2, RouteIsFixed, OpenedSame, AdviceSame DEF OnlyRun, JobIsKilled, InScript
<1>4. NoPrForRisky'
  BY <1>3, ScriptFacts DEF IInv, TypeOK, NoPrForRisky, RunOk, Routed, Running, JobIsKilled, InScript
<1>5. RunOk(w)'
  <2> USE <1>r, <1>3 DEF TypeOK, RunOk, Routed, Running, InLast, JobIsKilled, InScript
  <2>1. Routed(w)'
    BY ScriptFacts
  <2>2. Over(w)' => Told(w)'
    BY DEF Over, Told, Excuses
  <2>3. (pc[w] = "announce" \/ lastLabel[w] = "fix-ready" => Shown(w))'
    BY DEF Shown
  <2>4. (lastLabel[w] = "needs-human" => Over(w))'
    BY ScriptFacts DEF Over
  <2>5. CleanTree(w)'
    BY DEF CleanTree, Untouched
  <2> QED
    BY <2>1, <2>2, <2>3, <2>4, <2>5 DEF RunOk
<1> QED
  BY <1>1, <1>2, <1>4, <1>5 DEF Kept

LEMMA SkipIfNoKeyKept == ASSUME IInv, NEW w \in Runs, SkipIfNoKey(w) PROVE Kept(w)
<1>r. TypeOK /\ RunOk(w) /\ (Classify # "needs-human" => Len(Scripts) \in 1..2)
  BY ScriptFacts DEF IInv
<1>1. TypeOK'
  BY FaultKindsType DEF IInv, TypeOK, Stages, Statuses, Faults, SkipIfNoKey
<1>2. OnlyRun(w)
  BY DEF IInv, TypeOK, OnlyRun, OpenedBy, AdviceOf, SkipIfNoKey
<1>3. Classify' = Classify /\ Scripts' = Scripts /\ issue' = issue
      /\ OpenedBy(w)' = OpenedBy(w) /\ AdviceOf(w)' = AdviceOf(w)
  BY <1>2, RouteIsFixed, OpenedSame, AdviceSame DEF OnlyRun, SkipIfNoKey
<1>4. NoPrForRisky'
  BY <1>3, ScriptFacts DEF IInv, TypeOK, NoPrForRisky, RunOk, Routed, Running, SkipIfNoKey
<1>5. RunOk(w)'
  <2> USE ScriptFacts, <1>r DEF TypeOK, RunOk, Routed, Running, InLast, SkipIfNoKey
  <2>1. Routed(w)'
    BY <1>3
  <2>2. Over(w)' => Told(w)'
    BY <1>3 DEF Over, Told, Excuses
  <2>3. (pc[w] = "announce" \/ lastLabel[w] = "fix-ready" => Shown(w))'
    BY <1>3 DEF Shown
  <2>4. (lastLabel[w] = "needs-human" => Over(w))'
    BY <1>3 DEF Over
  <2>5. CleanTree(w)'
    BY <1>3 DEF CleanTree, Untouched
  <2> QED
    BY <2>1, <2>2, <2>3, <2>4, <2>5 DEF RunOk
<1> QED
  BY <1>1, <1>2, <1>4, <1>5 DEF Kept

LEMMA StartModelScriptKept == ASSUME IInv, NEW w \in Runs, StartModelScript(w) PROVE Kept(w)
<1>r. TypeOK /\ RunOk(w) /\ (Classify # "needs-human" => Len(Scripts) \in 1..2)
  BY ScriptFacts DEF IInv
<1>1. TypeOK'
  BY FaultKindsType DEF IInv, TypeOK, Stages, Statuses, Faults, StartModelScript
<1>2. OnlyRun(w)
  BY DEF IInv, TypeOK, OnlyRun, OpenedBy, AdviceOf, StartModelScript
<1>3. Classify' = Classify /\ Scripts' = Scripts /\ issue' = issue
      /\ OpenedBy(w)' = OpenedBy(w) /\ AdviceOf(w)' = AdviceOf(w)
  BY <1>2, RouteIsFixed, OpenedSame, AdviceSame DEF OnlyRun, StartModelScript
<1>4. NoPrForRisky'
  BY <1>3, ScriptFacts DEF IInv, TypeOK, NoPrForRisky, RunOk, Routed, Running, StartModelScript
<1>5. RunOk(w)'
  <2> USE <1>r, <1>3 DEF TypeOK, RunOk, Routed, Running, InLast, StartModelScript
  <2>1. Routed(w)'
    BY ScriptFacts
  <2>2. Over(w)' => Told(w)'
    BY DEF Over, Told, Excuses
  <2>3. (pc[w] = "announce" \/ lastLabel[w] = "fix-ready" => Shown(w))'
    BY DEF Shown
  <2>4. (lastLabel[w] = "needs-human" => Over(w))'
    BY ScriptFacts DEF Over
  <2>5. CleanTree(w)'
    BY DEF CleanTree, Untouched
  <2> QED
    BY <2>1, <2>2, <2>3, <2>4, <2>5 DEF RunOk
<1> QED
  BY <1>1, <1>2, <1>4, <1>5 DEF Kept

LEMMA RefuseIssueKept == ASSUME IInv, NEW w \in Runs, RefuseIssue(w) PROVE Kept(w)
<1>r. TypeOK /\ RunOk(w) /\ (Classify # "needs-human" => Len(Scripts) \in 1..2)
  BY ScriptFacts DEF IInv
<1>1. TypeOK'
  BY FaultKindsType DEF IInv, TypeOK, Stages, Statuses, Faults, RefuseIssue, BailToHuman, InModelScript
<1>2. OnlyRun(w)
  BY DEF IInv, TypeOK, OnlyRun, OpenedBy, AdviceOf, RefuseIssue, BailToHuman, InModelScript
<1>3. Classify' = Classify /\ Scripts' = Scripts /\ issue' = issue
      /\ OpenedBy(w)' = OpenedBy(w) /\ AdviceOf(w)' = AdviceOf(w)
  BY <1>2, RouteIsFixed, OpenedSame, AdviceSame DEF OnlyRun, RefuseIssue, BailToHuman, InModelScript
<1>4. NoPrForRisky'
  BY <1>3, ScriptFacts DEF IInv, TypeOK, NoPrForRisky, RunOk, Routed, Running, RefuseIssue, BailToHuman, InModelScript
<1>5. RunOk(w)'
  <2> USE <1>r, <1>3 DEF TypeOK, RunOk, Routed, Running, InLast, RefuseIssue, BailToHuman, InModelScript
  <2>1. Routed(w)'
    BY ScriptFacts
  <2>2. Over(w)' => Told(w)'
    BY DEF Over, Told, Excuses
  <2>3. (pc[w] = "announce" \/ lastLabel[w] = "fix-ready" => Shown(w))'
    BY DEF Shown
  <2>4. (lastLabel[w] = "needs-human" => Over(w))'
    BY ScriptFacts DEF Over
  <2>5. CleanTree(w)'
    BY DEF CleanTree, Untouched
  <2> QED
    BY <2>1, <2>2, <2>3, <2>4, <2>5 DEF RunOk
<1> QED
  BY <1>1, <1>2, <1>4, <1>5 DEF Kept

LEMMA ModelIsNoHelpKept == ASSUME IInv, NEW w \in Runs, ModelIsNoHelp(w) PROVE Kept(w)
<1>r. TypeOK /\ RunOk(w) /\ (Classify # "needs-human" => Len(Scripts) \in 1..2)
  BY ScriptFacts DEF IInv
<1>1. TypeOK'
  BY FaultKindsType DEF IInv, TypeOK, Stages, Statuses, Faults, ModelIsNoHelp, BailToHuman, InModelScript
<1>2. OnlyRun(w)
  BY DEF IInv, TypeOK, OnlyRun, OpenedBy, AdviceOf, ModelIsNoHelp, BailToHuman, InModelScript
<1>3. Classify' = Classify /\ Scripts' = Scripts /\ issue' = issue
      /\ OpenedBy(w)' = OpenedBy(w) /\ AdviceOf(w)' = AdviceOf(w)
  BY <1>2, RouteIsFixed, OpenedSame, AdviceSame DEF OnlyRun, ModelIsNoHelp, BailToHuman, InModelScript
<1>4. NoPrForRisky'
  BY <1>3, ScriptFacts DEF IInv, TypeOK, NoPrForRisky, RunOk, Routed, Running, ModelIsNoHelp, BailToHuman, InModelScript
<1>5. RunOk(w)'
  <2> USE <1>r, <1>3 DEF TypeOK, RunOk, Routed, Running, InLast, ModelIsNoHelp, BailToHuman, InModelScript
  <2>1. Routed(w)'
    BY ScriptFacts
  <2>2. Over(w)' => Told(w)'
    BY DEF Over, Told, Excuses
  <2>3. (pc[w] = "announce" \/ lastLabel[w] = "fix-ready" => Shown(w))'
    BY DEF Shown
  <2>4. (lastLabel[w] = "needs-human" => Over(w))'
    BY ScriptFacts DEF Over
  <2>5. CleanTree(w)'
    BY DEF CleanTree, Untouched
  <2> QED
    BY <2>1, <2>2, <2>3, <2>4, <2>5 DEF RunOk
<1> QED
  BY <1>1, <1>2, <1>4, <1>5 DEF Kept

LEMMA ScriptRaisesKept == ASSUME IInv, NEW w \in Runs, ScriptRaises(w) PROVE Kept(w)
<1>r. TypeOK /\ RunOk(w) /\ (Classify # "needs-human" => Len(Scripts) \in 1..2)
  BY ScriptFacts DEF IInv
<1>1. TypeOK'
  BY FaultKindsType DEF IInv, TypeOK, Stages, Statuses, Faults, ScriptRaises
<1>2. OnlyRun(w)
  BY DEF IInv, TypeOK, OnlyRun, OpenedBy, AdviceOf, ScriptRaises
<1>3. Classify' = Classify /\ Scripts' = Scripts /\ issue' = issue
      /\ OpenedBy(w)' = OpenedBy(w) /\ AdviceOf(w)' = AdviceOf(w)
  BY <1>2, RouteIsFixed, OpenedSame, AdviceSame DEF OnlyRun, ScriptRaises
<1>4. NoPrForRisky'
  BY <1>3, ScriptFacts DEF IInv, TypeOK, NoPrForRisky, RunOk, Routed, Running, ScriptRaises
<1>5. RunOk(w)'
  <2> USE <1>r, <1>3 DEF TypeOK, RunOk, Routed, Running, InLast, ScriptRaises
  <2>1. Routed(w)'
    BY ScriptFacts
  <2>2. Over(w)' => Told(w)'
    BY DEF Over, Told, Excuses
  <2>3. (pc[w] = "announce" \/ lastLabel[w] = "fix-ready" => Shown(w))'
    BY DEF Shown
  <2>4. (lastLabel[w] = "needs-human" => Over(w))'
    BY ScriptFacts DEF Over
  <2>5. CleanTree(w)'
    BY DEF CleanTree, Untouched
  <2> QED
    BY <2>1, <2>2, <2>3, <2>4, <2>5 DEF RunOk
<1> QED
  BY <1>1, <1>2, <1>4, <1>5 DEF Kept

LEMMA StartSandboxKept == ASSUME IInv, NEW w \in Runs, StartSandbox(w) PROVE Kept(w)
<1>r. TypeOK /\ RunOk(w) /\ (Classify # "needs-human" => Len(Scripts) \in 1..2)
  BY ScriptFacts DEF IInv
<1>1. TypeOK'
  BY FaultKindsType DEF IInv, TypeOK, Stages, Statuses, Faults, StartSandbox
<1>2. OnlyRun(w)
  BY DEF IInv, TypeOK, OnlyRun, OpenedBy, AdviceOf, StartSandbox
<1>3. Classify' = Classify /\ Scripts' = Scripts /\ issue' = issue
      /\ OpenedBy(w)' = OpenedBy(w) /\ AdviceOf(w)' = AdviceOf(w)
  BY <1>2, RouteIsFixed, OpenedSame, AdviceSame DEF OnlyRun, StartSandbox
<1>4. NoPrForRisky'
  BY <1>3, ScriptFacts DEF IInv, TypeOK, NoPrForRisky, RunOk, Routed, Running, StartSandbox
<1>5. RunOk(w)'
  <2> USE ScriptFacts, <1>r DEF TypeOK, RunOk, Routed, Running, InLast, StartSandbox
  <2>1. Routed(w)'
    BY <1>3
  <2>2. Over(w)' => Told(w)'
    BY <1>3 DEF Over, Told, Excuses
  <2>3. (pc[w] = "announce" \/ lastLabel[w] = "fix-ready" => Shown(w))'
    BY <1>3 DEF Shown
  <2>4. (lastLabel[w] = "needs-human" => Over(w))'
    BY <1>3 DEF Over
  <2>5. CleanTree(w)'
    BY <1>3 DEF CleanTree, Untouched
  <2> QED
    BY <2>1, <2>2, <2>3, <2>4, <2>5 DEF RunOk
<1> QED
  BY <1>1, <1>2, <1>4, <1>5 DEF Kept

LEMMA ReproKept == ASSUME IInv, NEW w \in Runs, Repro(w) PROVE Kept(w)
<1>r. TypeOK /\ RunOk(w) /\ (Classify # "needs-human" => Len(Scripts) \in 1..2)
  BY ScriptFacts DEF IInv
<1>1. TypeOK'
  BY FaultKindsType DEF IInv, TypeOK, Stages, Statuses, Faults, Repro
<1>2. OnlyRun(w)
  BY DEF IInv, TypeOK, OnlyRun, OpenedBy, AdviceOf, Repro
<1>3. Classify' = Classify /\ Scripts' = Scripts /\ issue' = issue
      /\ OpenedBy(w)' = OpenedBy(w) /\ AdviceOf(w)' = AdviceOf(w)
  BY <1>2, RouteIsFixed, OpenedSame, AdviceSame DEF OnlyRun, Repro
<1>4. NoPrForRisky'
  BY <1>3, ScriptFacts DEF IInv, TypeOK, NoPrForRisky, RunOk, Routed, Running, Repro
<1>5. RunOk(w)'
  <2> USE ScriptFacts, <1>r DEF TypeOK, RunOk, Routed, Running, InLast, Repro
  <2>1. Routed(w)'
    BY <1>3
  <2>2. Over(w)' => Told(w)'
    BY <1>3 DEF Over, Told, Excuses
  <2>3. (pc[w] = "announce" \/ lastLabel[w] = "fix-ready" => Shown(w))'
    BY <1>3 DEF Shown
  <2>4. (lastLabel[w] = "needs-human" => Over(w))'
    BY <1>3 DEF Over
  <2>5. CleanTree(w)'
    BY <1>3 DEF CleanTree, Untouched
  <2> QED
    BY <2>1, <2>2, <2>3, <2>4, <2>5 DEF RunOk
<1> QED
  BY <1>1, <1>2, <1>4, <1>5 DEF Kept

LEMMA ReproFailsKept == ASSUME IInv, NEW w \in Runs, ReproFails(w) PROVE Kept(w)
<1>r. TypeOK /\ RunOk(w) /\ (Classify # "needs-human" => Len(Scripts) \in 1..2)
  BY ScriptFacts DEF IInv
<1>1. TypeOK'
  BY FaultKindsType DEF IInv, TypeOK, Stages, Statuses, Faults, ReproFails
<1>2. OnlyRun(w)
  BY DEF IInv, TypeOK, OnlyRun, OpenedBy, AdviceOf, ReproFails
<1>3. Classify' = Classify /\ Scripts' = Scripts /\ issue' = issue
      /\ OpenedBy(w)' = OpenedBy(w) /\ AdviceOf(w)' = AdviceOf(w)
  BY <1>2, RouteIsFixed, OpenedSame, AdviceSame DEF OnlyRun, ReproFails
<1>4. NoPrForRisky'
  BY <1>3, ScriptFacts DEF IInv, TypeOK, NoPrForRisky, RunOk, Routed, Running, ReproFails
<1>5. RunOk(w)'
  <2> USE ScriptFacts, <1>r DEF TypeOK, RunOk, Routed, Running, InLast, ReproFails
  <2>1. Routed(w)'
    BY <1>3
  <2>2. Over(w)' => Told(w)'
    BY <1>3 DEF Over, Told, Excuses
  <2>3. (pc[w] = "announce" \/ lastLabel[w] = "fix-ready" => Shown(w))'
    BY <1>3 DEF Shown
  <2>4. (lastLabel[w] = "needs-human" => Over(w))'
    BY <1>3 DEF Over
  <2>5. CleanTree(w)'
    BY <1>3 DEF CleanTree, Untouched
  <2> QED
    BY <2>1, <2>2, <2>3, <2>4, <2>5 DEF RunOk
<1> QED
  BY <1>1, <1>2, <1>4, <1>5 DEF Kept

LEMMA ContainerStaysUpKept == ASSUME IInv, NEW w \in Runs, ContainerStaysUp(w) PROVE Kept(w)
<1>r. TypeOK /\ RunOk(w) /\ (Classify # "needs-human" => Len(Scripts) \in 1..2)
  BY ScriptFacts DEF IInv
<1>1. TypeOK'
  BY FaultKindsType DEF IInv, TypeOK, Stages, Statuses, Faults, ContainerStaysUp
<1>2. OnlyRun(w)
  BY DEF IInv, TypeOK, OnlyRun, OpenedBy, AdviceOf, ContainerStaysUp
<1>3. Classify' = Classify /\ Scripts' = Scripts /\ issue' = issue
      /\ OpenedBy(w)' = OpenedBy(w) /\ AdviceOf(w)' = AdviceOf(w)
  BY <1>2, RouteIsFixed, OpenedSame, AdviceSame DEF OnlyRun, ContainerStaysUp
<1>4. NoPrForRisky'
  BY <1>3, ScriptFacts DEF IInv, TypeOK, NoPrForRisky, RunOk, Routed, Running, ContainerStaysUp
<1>5. RunOk(w)'
  <2> USE ScriptFacts, <1>r DEF TypeOK, RunOk, Routed, Running, InLast, ContainerStaysUp
  <2>1. Routed(w)'
    BY <1>3
  <2>2. Over(w)' => Told(w)'
    BY <1>3 DEF Over, Told, Excuses
  <2>3. (pc[w] = "announce" \/ lastLabel[w] = "fix-ready" => Shown(w))'
    BY <1>3 DEF Shown
  <2>4. (lastLabel[w] = "needs-human" => Over(w))'
    BY <1>3 DEF Over
  <2>5. CleanTree(w)'
    BY <1>3 DEF CleanTree, Untouched
  <2> QED
    BY <2>1, <2>2, <2>3, <2>4, <2>5 DEF RunOk
<1> QED
  BY <1>1, <1>2, <1>4, <1>5 DEF Kept

LEMMA ProposeFixKept == ASSUME IInv, NEW w \in Runs, ProposeFix(w) PROVE Kept(w)
<1>r. TypeOK /\ RunOk(w) /\ (Classify # "needs-human" => Len(Scripts) \in 1..2)
  BY ScriptFacts DEF IInv
<1>1. TypeOK'
  BY FaultKindsType DEF IInv, TypeOK, Stages, Statuses, Faults, ProposeFix, Accepts, ExpectedKind
<1>2. OnlyRun(w)
  BY DEF IInv, TypeOK, OnlyRun, OpenedBy, AdviceOf, ProposeFix, Accepts, ExpectedKind
<1>3. Classify' = Classify /\ Scripts' = Scripts /\ issue' = issue
      /\ OpenedBy(w)' = OpenedBy(w) /\ AdviceOf(w)' = AdviceOf(w)
  BY <1>2, RouteIsFixed, OpenedSame, AdviceSame DEF OnlyRun, ProposeFix, Accepts, ExpectedKind
<1>4. NoPrForRisky'
  BY <1>3, ScriptFacts DEF IInv, TypeOK, NoPrForRisky, RunOk, Routed, Running, ProposeFix, Accepts, ExpectedKind
<1>5. RunOk(w)'
  <2> USE ScriptFacts, <1>r DEF TypeOK, RunOk, Routed, Running, InLast, ProposeFix, Accepts, ExpectedKind
  <2>1. Routed(w)'
    BY <1>3
  <2>2. Over(w)' => Told(w)'
    BY <1>3 DEF Over, Told, Excuses
  <2>3. (pc[w] = "announce" \/ lastLabel[w] = "fix-ready" => Shown(w))'
    BY <1>3 DEF Shown
  <2>4. (lastLabel[w] = "needs-human" => Over(w))'
    BY <1>3 DEF Over
  <2>5. CleanTree(w)'
    BY <1>3 DEF CleanTree, Untouched
  <2> QED
    BY <2>1, <2>2, <2>3, <2>4, <2>5 DEF RunOk
<1> QED
  BY <1>1, <1>2, <1>4, <1>5 DEF Kept

LEMMA ProposeNothingNewKept == ASSUME IInv, NEW w \in Runs, ProposeNothingNew(w) PROVE Kept(w)
<1>r. TypeOK /\ RunOk(w) /\ (Classify # "needs-human" => Len(Scripts) \in 1..2)
  BY ScriptFacts DEF IInv
<1>1. TypeOK'
  BY FaultKindsType DEF IInv, TypeOK, Stages, Statuses, Faults, ProposeNothingNew, BailToHuman
<1>2. OnlyRun(w)
  BY DEF IInv, TypeOK, OnlyRun, OpenedBy, AdviceOf, ProposeNothingNew, BailToHuman
<1>3. Classify' = Classify /\ Scripts' = Scripts /\ issue' = issue
      /\ OpenedBy(w)' = OpenedBy(w) /\ AdviceOf(w)' = AdviceOf(w)
  BY <1>2, RouteIsFixed, OpenedSame, AdviceSame DEF OnlyRun, ProposeNothingNew, BailToHuman
<1>4. NoPrForRisky'
  BY <1>3, ScriptFacts DEF IInv, TypeOK, NoPrForRisky, RunOk, Routed, Running, ProposeNothingNew, BailToHuman
<1>5. RunOk(w)'
  <2> USE <1>r, <1>3 DEF TypeOK, RunOk, Routed, Running, InLast, ProposeNothingNew, BailToHuman
  <2>1. Routed(w)'
    BY ScriptFacts
  <2>2. Over(w)' => Told(w)'
    BY DEF Over, Told, Excuses
  <2>3. (pc[w] = "announce" \/ lastLabel[w] = "fix-ready" => Shown(w))'
    BY DEF Shown
  <2>4. (lastLabel[w] = "needs-human" => Over(w))'
    BY ScriptFacts DEF Over
  <2>5. CleanTree(w)'
    BY DEF CleanTree, Untouched
  <2> QED
    BY <2>1, <2>2, <2>3, <2>4, <2>5 DEF RunOk
<1> QED
  BY <1>1, <1>2, <1>4, <1>5 DEF Kept

LEMMA PushKept == ASSUME IInv, NEW w \in Runs, Push(w) PROVE Kept(w)
<1>r. TypeOK /\ RunOk(w) /\ (Classify # "needs-human" => Len(Scripts) \in 1..2)
  BY ScriptFacts DEF IInv
<1>1. TypeOK'
  BY FaultKindsType DEF IInv, TypeOK, Stages, Statuses, Faults, RunOk, Routed, Push
<1>2. OnlyRun(w)
  BY DEF IInv, TypeOK, OnlyRun, OpenedBy, AdviceOf, Push
<1>3. Classify' = Classify /\ Scripts' = Scripts /\ issue' = issue
      /\ OpenedBy(w)' = OpenedBy(w) /\ AdviceOf(w)' = AdviceOf(w)
  BY <1>2, RouteIsFixed, OpenedSame, AdviceSame DEF OnlyRun, Push
<1>4. NoPrForRisky'
  BY <1>3, ScriptFacts DEF IInv, TypeOK, NoPrForRisky, RunOk, Routed, Running, Push
<1>5. RunOk(w)'
  <2> USE ScriptFacts, <1>r DEF TypeOK, RunOk, Routed, Running, InLast, Push
  <2>1. Routed(w)'
    BY <1>3
  <2>2. Over(w)' => Told(w)'
    BY <1>3 DEF Over, Told, Excuses
  <2>3. (pc[w] = "announce" \/ lastLabel[w] = "fix-ready" => Shown(w))'
    BY <1>3 DEF Shown
  <2>4. (lastLabel[w] = "needs-human" => Over(w))'
    BY <1>3 DEF Over
  <2>5. CleanTree(w)'
    BY <1>3 DEF CleanTree, Untouched
  <2> QED
    BY <2>1, <2>2, <2>3, <2>4, <2>5 DEF RunOk
<1> QED
  BY <1>1, <1>2, <1>4, <1>5 DEF Kept

LEMMA PushIsRejectedKept == ASSUME IInv, NEW w \in Runs, PushIsRejected(w) PROVE Kept(w)
<1>r. TypeOK /\ RunOk(w) /\ (Classify # "needs-human" => Len(Scripts) \in 1..2)
  BY ScriptFacts DEF IInv
<1>1. TypeOK'
  BY FaultKindsType DEF IInv, TypeOK, Stages, Statuses, Faults, PushIsRejected, BailToHuman
<1>2. OnlyRun(w)
  BY DEF IInv, TypeOK, OnlyRun, OpenedBy, AdviceOf, PushIsRejected, BailToHuman
<1>3. Classify' = Classify /\ Scripts' = Scripts /\ issue' = issue
      /\ OpenedBy(w)' = OpenedBy(w) /\ AdviceOf(w)' = AdviceOf(w)
  BY <1>2, RouteIsFixed, OpenedSame, AdviceSame DEF OnlyRun, PushIsRejected, BailToHuman
<1>4. NoPrForRisky'
  BY <1>3, ScriptFacts DEF IInv, TypeOK, NoPrForRisky, RunOk, Routed, Running, PushIsRejected, BailToHuman
<1>5. RunOk(w)'
  <2> USE <1>r, <1>3 DEF TypeOK, RunOk, Routed, Running, InLast, PushIsRejected, BailToHuman
  <2>1. Routed(w)'
    BY ScriptFacts
  <2>2. Over(w)' => Told(w)'
    BY DEF Over, Told, Excuses
  <2>3. (pc[w] = "announce" \/ lastLabel[w] = "fix-ready" => Shown(w))'
    BY DEF Shown
  <2>4. (lastLabel[w] = "needs-human" => Over(w))'
    BY ScriptFacts DEF Over
  <2>5. CleanTree(w)'
    <3>1. InLast(w) /\ step'[w] = Len(Scripts) /\ pc'[w] = "exit0"
      BY ScriptFacts
    <3>2. ~Untouched(w)'
      BY <3>1 DEF Untouched
    <3> QED
      BY <3>1, <3>2 DEF CleanTree
  <2> QED
    BY <2>1, <2>2, <2>3, <2>4, <2>5 DEF RunOk
<1> QED
  BY <1>1, <1>2, <1>4, <1>5 DEF Kept

LEMMA PushRaisesKept == ASSUME IInv, NEW w \in Runs, PushRaises(w) PROVE Kept(w)
<1>r. TypeOK /\ RunOk(w) /\ (Classify # "needs-human" => Len(Scripts) \in 1..2)
  BY ScriptFacts DEF IInv
<1>1. TypeOK'
  BY FaultKindsType DEF IInv, TypeOK, Stages, Statuses, Faults, RunOk, Routed, PushRaises
<1>2. OnlyRun(w)
  BY DEF IInv, TypeOK, OnlyRun, OpenedBy, AdviceOf, PushRaises
<1>3. Classify' = Classify /\ Scripts' = Scripts /\ issue' = issue
      /\ OpenedBy(w)' = OpenedBy(w) /\ AdviceOf(w)' = AdviceOf(w)
  BY <1>2, RouteIsFixed, OpenedSame, AdviceSame DEF OnlyRun, PushRaises
<1>4. NoPrForRisky'
  BY <1>3, ScriptFacts DEF IInv, TypeOK, NoPrForRisky, RunOk, Routed, Running, PushRaises
<1>5. RunOk(w)'
  <2> USE ScriptFacts, <1>r DEF TypeOK, RunOk, Routed, Running, InLast, PushRaises
  <2>1. Routed(w)'
    BY <1>3
  <2>2. Over(w)' => Told(w)'
    BY <1>3 DEF Over, Told, Excuses
  <2>3. (pc[w] = "announce" \/ lastLabel[w] = "fix-ready" => Shown(w))'
    BY <1>3 DEF Shown
  <2>4. (lastLabel[w] = "needs-human" => Over(w))'
    BY <1>3 DEF Over
  <2>5. CleanTree(w)'
    BY <1>3 DEF CleanTree, Untouched
  <2> QED
    BY <2>1, <2>2, <2>3, <2>4, <2>5 DEF RunOk
<1> QED
  BY <1>1, <1>2, <1>4, <1>5 DEF Kept

LEMMA CreatePrKept == ASSUME IInv, NEW w \in Runs, CreatePr(w) PROVE Kept(w)
<1>r. TypeOK /\ RunOk(w) /\ (Classify # "needs-human" => Len(Scripts) \in 1..2)
  BY ScriptFacts DEF IInv
<1>1. TypeOK'
  BY FaultKindsType DEF IInv, TypeOK, Stages, Statuses, Faults, RunOk, Routed, CreatePr, NewPr
<1>2. OnlyRun(w)
  BY DEF IInv, TypeOK, OnlyRun, OpenedBy, AdviceOf, CreatePr, NewPr
<1>3. Classify' = Classify /\ Scripts' = Scripts /\ issue' = issue
      /\ AdviceOf(w)' = AdviceOf(w)
  BY <1>2, RouteIsFixed, AdviceSame DEF OnlyRun, CreatePr
<1>4. NoPrForRisky'
  BY <1>3, ScriptFacts DEF IInv, TypeOK, NoPrForRisky, RunOk, Routed, Running, CreatePr, NewPr
<1>5. RunOk(w)'
  <2> USE ScriptFacts, <1>r DEF TypeOK, RunOk, Routed, Running, InLast, CreatePr, NewPr
  <2>1. Routed(w)'
    BY <1>3
  <2>2. Over(w)' => Told(w)'
    BY <1>3 DEF Over, Told, Excuses
  <2>3. (pc[w] = "announce" \/ lastLabel[w] = "fix-ready" => Shown(w))'
    <3> DEFINE new == [by |-> w, branch |-> proposal[w], changes |-> tree[w]]
    <3>1. new \in prs' /\ new.by = w
      OBVIOUS
    <3> QED
      BY <3>1 DEF Shown, OpenedBy
  <2>4. (lastLabel[w] = "needs-human" => Over(w))'
    BY <1>3 DEF Over
  <2>5. CleanTree(w)'
    BY <1>3 DEF CleanTree, Untouched, OpenedBy
  <2> QED
    BY <2>1, <2>2, <2>3, <2>4, <2>5 DEF RunOk
<1> QED
  BY <1>1, <1>2, <1>4, <1>5 DEF Kept

LEMMA CreatePrFailsKept == ASSUME IInv, NEW w \in Runs, CreatePrFails(w) PROVE Kept(w)
<1>r. TypeOK /\ RunOk(w) /\ (Classify # "needs-human" => Len(Scripts) \in 1..2)
  BY ScriptFacts DEF IInv
<1>1. TypeOK'
  BY FaultKindsType DEF IInv, TypeOK, Stages, Statuses, Faults, CreatePrFails, BailToHuman
<1>2. OnlyRun(w)
  BY DEF IInv, TypeOK, OnlyRun, OpenedBy, AdviceOf, CreatePrFails, BailToHuman
<1>3. Classify' = Classify /\ Scripts' = Scripts /\ issue' = issue
      /\ OpenedBy(w)' = OpenedBy(w) /\ AdviceOf(w)' = AdviceOf(w)
  BY <1>2, RouteIsFixed, OpenedSame, AdviceSame DEF OnlyRun, CreatePrFails, BailToHuman
<1>4. NoPrForRisky'
  BY <1>3, ScriptFacts DEF IInv, TypeOK, NoPrForRisky, RunOk, Routed, Running, CreatePrFails, BailToHuman
<1>5. RunOk(w)'
  <2> USE <1>r, <1>3 DEF TypeOK, RunOk, Routed, Running, InLast, CreatePrFails, BailToHuman
  <2>1. Routed(w)'
    BY ScriptFacts
  <2>2. Over(w)' => Told(w)'
    BY DEF Over, Told, Excuses
  <2>3. (pc[w] = "announce" \/ lastLabel[w] = "fix-ready" => Shown(w))'
    BY DEF Shown
  <2>4. (lastLabel[w] = "needs-human" => Over(w))'
    BY ScriptFacts DEF Over
  <2>5. CleanTree(w)'
    <3>1. InLast(w) /\ step'[w] = Len(Scripts) /\ pc'[w] = "exit0"
      BY ScriptFacts
    <3>2. ~Untouched(w)'
      BY <3>1 DEF Untouched
    <3> QED
      BY <3>1, <3>2 DEF CleanTree
  <2> QED
    BY <2>1, <2>2, <2>3, <2>4, <2>5 DEF RunOk
<1> QED
  BY <1>1, <1>2, <1>4, <1>5 DEF Kept

LEMMA CreatePrRaisesKept == ASSUME IInv, NEW w \in Runs, CreatePrRaises(w) PROVE Kept(w)
<1>r. TypeOK /\ RunOk(w) /\ (Classify # "needs-human" => Len(Scripts) \in 1..2)
  BY ScriptFacts DEF IInv
<1>1. TypeOK'
  BY FaultKindsType DEF IInv, TypeOK, Stages, Statuses, Faults, RunOk, Routed, CreatePrRaises, NewPr
<1>2. OnlyRun(w)
  BY DEF IInv, TypeOK, OnlyRun, OpenedBy, AdviceOf, CreatePrRaises, NewPr
<1>3. Classify' = Classify /\ Scripts' = Scripts /\ issue' = issue
      /\ AdviceOf(w)' = AdviceOf(w)
  BY <1>2, RouteIsFixed, AdviceSame DEF OnlyRun, CreatePrRaises
<1>4. NoPrForRisky'
  BY <1>3, ScriptFacts DEF IInv, TypeOK, NoPrForRisky, RunOk, Routed, Running, CreatePrRaises, NewPr
<1>5. RunOk(w)'
  <2> USE ScriptFacts, <1>r DEF TypeOK, RunOk, Routed, Running, InLast, CreatePrRaises, NewPr
  <2>1. Routed(w)'
    BY <1>3
  <2>2. Over(w)' => Told(w)'
    BY <1>3 DEF Over, Told, Excuses
  <2>3. (pc[w] = "announce" \/ lastLabel[w] = "fix-ready" => Shown(w))'
    BY <1>3 DEF Shown, OpenedBy
  <2>4. (lastLabel[w] = "needs-human" => Over(w))'
    BY <1>3 DEF Over
  <2>5. CleanTree(w)'
    BY <1>3 DEF CleanTree, Untouched, OpenedBy
  <2> QED
    BY <2>1, <2>2, <2>3, <2>4, <2>5 DEF RunOk
<1> QED
  BY <1>1, <1>2, <1>4, <1>5 DEF Kept

LEMMA CritiqueKept == ASSUME IInv, NEW w \in Runs, Critique(w) PROVE Kept(w)
<1>r. TypeOK /\ RunOk(w) /\ (Classify # "needs-human" => Len(Scripts) \in 1..2)
  BY ScriptFacts DEF IInv
<1>1. TypeOK'
  BY FaultKindsType DEF IInv, TypeOK, Stages, Statuses, Faults, Critique
<1>2. OnlyRun(w)
  BY DEF IInv, TypeOK, OnlyRun, OpenedBy, AdviceOf, Critique
<1>3. Classify' = Classify /\ Scripts' = Scripts /\ issue' = issue
      /\ OpenedBy(w)' = OpenedBy(w) /\ AdviceOf(w)' = AdviceOf(w)
  BY <1>2, RouteIsFixed, OpenedSame, AdviceSame DEF OnlyRun, Critique
<1>4. NoPrForRisky'
  BY <1>3, ScriptFacts DEF IInv, TypeOK, NoPrForRisky, RunOk, Routed, Running, Critique
<1>5. RunOk(w)'
  <2> USE <1>r, <1>3 DEF TypeOK, RunOk, Routed, Running, InLast, Critique
  <2>1. Routed(w)'
    BY ScriptFacts
  <2>2. Over(w)' => Told(w)'
    BY DEF Over, Told, Excuses
  <2>3. (pc[w] = "announce" \/ lastLabel[w] = "fix-ready" => Shown(w))'
    BY DEF Shown
  <2>4. (lastLabel[w] = "needs-human" => Over(w))'
    BY ScriptFacts DEF Over
  <2>5. CleanTree(w)'
    BY DEF CleanTree, Untouched
  <2> QED
    BY <2>1, <2>2, <2>3, <2>4, <2>5 DEF RunOk
<1> QED
  BY <1>1, <1>2, <1>4, <1>5 DEF Kept

LEMMA ReconcileKept == ASSUME IInv, NEW w \in Runs, Reconcile(w) PROVE Kept(w)
<1>r. TypeOK /\ RunOk(w) /\ (Classify # "needs-human" => Len(Scripts) \in 1..2)
  BY ScriptFacts DEF IInv
<1>1. TypeOK'
  BY FaultKindsType DEF IInv, TypeOK, Stages, Statuses, Faults, Reconcile
<1>2. OnlyRun(w)
  BY DEF IInv, TypeOK, OnlyRun, OpenedBy, AdviceOf, Reconcile
<1>3. Classify' = Classify /\ Scripts' = Scripts /\ issue' = issue
      /\ OpenedBy(w)' = OpenedBy(w) /\ AdviceOf(w)' = AdviceOf(w)
  BY <1>2, RouteIsFixed, OpenedSame, AdviceSame DEF OnlyRun, Reconcile
<1>4. NoPrForRisky'
  BY <1>3, ScriptFacts DEF IInv, TypeOK, NoPrForRisky, RunOk, Routed, Running, Reconcile
<1>5. RunOk(w)'
  <2> USE <1>r, <1>3 DEF TypeOK, RunOk, Routed, Running, InLast, Reconcile
  <2>1. Routed(w)'
    BY ScriptFacts
  <2>2. Over(w)' => Told(w)'
    BY DEF Over, Told, Excuses
  <2>3. (pc[w] = "announce" \/ lastLabel[w] = "fix-ready" => Shown(w))'
    BY DEF Shown
  <2>4. (lastLabel[w] = "needs-human" => Over(w))'
    BY ScriptFacts DEF Over
  <2>5. CleanTree(w)'
    BY DEF CleanTree, Untouched
  <2> QED
    BY <2>1, <2>2, <2>3, <2>4, <2>5 DEF RunOk
<1> QED
  BY <1>1, <1>2, <1>4, <1>5 DEF Kept

LEMMA NoReconciliationKept == ASSUME IInv, NEW w \in Runs, NoReconciliation(w) PROVE Kept(w)
<1>r. TypeOK /\ RunOk(w) /\ (Classify # "needs-human" => Len(Scripts) \in 1..2)
  BY ScriptFacts DEF IInv
<1>1. TypeOK'
  BY FaultKindsType DEF IInv, TypeOK, Stages, Statuses, Faults, NoReconciliation, BailToHuman
<1>2. OnlyRun(w)
  BY DEF IInv, TypeOK, OnlyRun, OpenedBy, AdviceOf, NoReconciliation, BailToHuman
<1>3. Classify' = Classify /\ Scripts' = Scripts /\ issue' = issue
      /\ OpenedBy(w)' = OpenedBy(w) /\ AdviceOf(w)' = AdviceOf(w)
  BY <1>2, RouteIsFixed, OpenedSame, AdviceSame DEF OnlyRun, NoReconciliation, BailToHuman
<1>4. NoPrForRisky'
  BY <1>3, ScriptFacts DEF IInv, TypeOK, NoPrForRisky, RunOk, Routed, Running, NoReconciliation, BailToHuman
<1>5. RunOk(w)'
  <2> USE <1>r, <1>3 DEF TypeOK, RunOk, Routed, Running, InLast, NoReconciliation, BailToHuman
  <2>1. Routed(w)'
    BY ScriptFacts
  <2>2. Over(w)' => Told(w)'
    BY DEF Over, Told, Excuses
  <2>3. (pc[w] = "announce" \/ lastLabel[w] = "fix-ready" => Shown(w))'
    BY DEF Shown
  <2>4. (lastLabel[w] = "needs-human" => Over(w))'
    BY ScriptFacts DEF Over
  <2>5. CleanTree(w)'
    BY DEF CleanTree, Untouched
  <2> QED
    BY <2>1, <2>2, <2>3, <2>4, <2>5 DEF RunOk
<1> QED
  BY <1>1, <1>2, <1>4, <1>5 DEF Kept

LEMMA DraftAnswerKept == ASSUME IInv, NEW w \in Runs, DraftAnswer(w) PROVE Kept(w)
<1>r. TypeOK /\ RunOk(w) /\ (Classify # "needs-human" => Len(Scripts) \in 1..2)
  BY ScriptFacts DEF IInv
<1>1. TypeOK'
  BY FaultKindsType DEF IInv, TypeOK, Stages, Statuses, Faults, DraftAnswer
<1>2. OnlyRun(w)
  BY DEF IInv, TypeOK, OnlyRun, OpenedBy, AdviceOf, DraftAnswer
<1>3. Classify' = Classify /\ Scripts' = Scripts /\ issue' = issue
      /\ OpenedBy(w)' = OpenedBy(w) /\ AdviceOf(w)' = AdviceOf(w)
  BY <1>2, RouteIsFixed, OpenedSame, AdviceSame DEF OnlyRun, DraftAnswer
<1>4. NoPrForRisky'
  BY <1>3, ScriptFacts DEF IInv, TypeOK, NoPrForRisky, RunOk, Routed, Running, DraftAnswer
<1>5. RunOk(w)'
  <2> USE <1>r, <1>3 DEF TypeOK, RunOk, Routed, Running, InLast, DraftAnswer
  <2>1. Routed(w)'
    BY ScriptFacts
  <2>2. Over(w)' => Told(w)'
    BY DEF Over, Told, Excuses
  <2>3. (pc[w] = "announce" \/ lastLabel[w] = "fix-ready" => Shown(w))'
    BY DEF Shown
  <2>4. (lastLabel[w] = "needs-human" => Over(w))'
    BY ScriptFacts DEF Over
  <2>5. CleanTree(w)'
    BY DEF CleanTree, Untouched
  <2> QED
    BY <2>1, <2>2, <2>3, <2>4, <2>5 DEF RunOk
<1> QED
  BY <1>1, <1>2, <1>4, <1>5 DEF Kept

LEMMA PostAdviceKept == ASSUME IInv, NEW w \in Runs, PostAdvice(w) PROVE Kept(w)
<1>r. TypeOK /\ RunOk(w) /\ (Classify # "needs-human" => Len(Scripts) \in 1..2)
  BY ScriptFacts DEF IInv
<1>1. TypeOK'
  BY FaultKindsType DEF IInv, TypeOK, Stages, Statuses, Faults, PostAdvice, NewComment
<1>2. OnlyRun(w)
  BY DEF IInv, TypeOK, OnlyRun, OpenedBy, AdviceOf, PostAdvice, NewComment
<1>3. Classify' = Classify /\ Scripts' = Scripts /\ issue' = issue
      /\ OpenedBy(w)' = OpenedBy(w)
  BY <1>2, RouteIsFixed, OpenedSame DEF OnlyRun, PostAdvice, NewComment
<1>4. NoPrForRisky'
  BY <1>3, ScriptFacts DEF IInv, TypeOK, NoPrForRisky, RunOk, Routed, Running, PostAdvice, NewComment
<1>5. RunOk(w)'
  <2> USE <1>r, <1>3 DEF TypeOK, RunOk, Routed, Running, InLast, PostAdvice, NewComment
  <2>1. Routed(w)'
    BY ScriptFacts
  <2>2. Over(w)' => Told(w)'
    BY DEF Over, Told, Excuses
  <2>3. (pc[w] = "announce" \/ lastLabel[w] = "fix-ready" => Shown(w))'
    <3>1. [by |-> w, attempt |-> attempt[w]] \in AdviceOf(w)'
      BY DEF AdviceOf
    <3> QED
      BY <3>1 DEF Shown
  <2>4. (lastLabel[w] = "needs-human" => Over(w))'
    BY ScriptFacts DEF Over
  <2>5. CleanTree(w)'
    BY DEF CleanTree, Untouched
  <2> QED
    BY <2>1, <2>2, <2>3, <2>4, <2>5 DEF RunOk
<1> QED
  BY <1>1, <1>2, <1>4, <1>5 DEF Kept

LEMMA PostFailsKept == ASSUME IInv, NEW w \in Runs, PostFails(w) PROVE Kept(w)
<1>r. TypeOK /\ RunOk(w) /\ (Classify # "needs-human" => Len(Scripts) \in 1..2)
  BY ScriptFacts DEF IInv
<1>1. TypeOK'
  BY FaultKindsType DEF IInv, TypeOK, Stages, Statuses, Faults, PostFails, NewComment
<1>2. OnlyRun(w)
  BY DEF IInv, TypeOK, OnlyRun, OpenedBy, AdviceOf, PostFails, NewComment
<1>3. Classify' = Classify /\ Scripts' = Scripts /\ issue' = issue
      /\ OpenedBy(w)' = OpenedBy(w)
  BY <1>2, RouteIsFixed, OpenedSame DEF OnlyRun, PostFails, NewComment
<1>4. NoPrForRisky'
  BY <1>3, ScriptFacts DEF IInv, TypeOK, NoPrForRisky, RunOk, Routed, Running, PostFails, NewComment
<1>5. RunOk(w)'
  <2> USE <1>r, <1>3 DEF TypeOK, RunOk, Routed, Running, InLast, PostFails, NewComment
  <2>1. Routed(w)'
    BY ScriptFacts
  <2>2. Over(w)' => Told(w)'
    BY DEF Over, Told, Excuses
  <2>3. (pc[w] = "announce" \/ lastLabel[w] = "fix-ready" => Shown(w))'
    BY DEF Shown, AdviceOf
  <2>4. (lastLabel[w] = "needs-human" => Over(w))'
    BY ScriptFacts DEF Over
  <2>5. CleanTree(w)'
    BY DEF CleanTree, Untouched
  <2> QED
    BY <2>1, <2>2, <2>3, <2>4, <2>5 DEF RunOk
<1> QED
  BY <1>1, <1>2, <1>4, <1>5 DEF Kept

LEMMA AnnounceKept == ASSUME IInv, NEW w \in Runs, Announce(w) PROVE Kept(w)
<1>r. TypeOK /\ RunOk(w) /\ (Classify # "needs-human" => Len(Scripts) \in 1..2)
  BY ScriptFacts DEF IInv
<1>1. TypeOK'
  BY FaultKindsType DEF IInv, TypeOK, Stages, Statuses, Faults, Announce
<1>2. OnlyRun(w)
  BY DEF IInv, TypeOK, OnlyRun, OpenedBy, AdviceOf, Announce
<1>3. Classify' = Classify /\ Scripts' = Scripts /\ issue' = issue
      /\ OpenedBy(w)' = OpenedBy(w) /\ AdviceOf(w)' = AdviceOf(w)
  BY <1>2, RouteIsFixed, OpenedSame, AdviceSame DEF OnlyRun, Announce
<1>4. NoPrForRisky'
  BY <1>3, ScriptFacts DEF IInv, TypeOK, NoPrForRisky, RunOk, Routed, Running, Announce
<1>5. RunOk(w)'
  <2> USE <1>r, <1>3 DEF TypeOK, RunOk, Routed, Running, InLast, Announce
  <2>1. Routed(w)'
    BY ScriptFacts
  <2>2. Over(w)' => Told(w)'
    BY DEF Over, Told, Excuses
  <2>3. (pc[w] = "announce" \/ lastLabel[w] = "fix-ready" => Shown(w))'
    BY DEF Shown
  <2>4. (lastLabel[w] = "needs-human" => Over(w))'
    BY ScriptFacts DEF Over
  <2>5. CleanTree(w)'
    BY DEF CleanTree, Untouched
  <2> QED
    BY <2>1, <2>2, <2>3, <2>4, <2>5 DEF RunOk
<1> QED
  BY <1>1, <1>2, <1>4, <1>5 DEF Kept

-----------------------------------------------------------------------------
(* The invariant and what follows from it *)

LEMMA InitIInv == Init => IInv
<1> SUFFICES ASSUME Init PROVE IInv
  OBVIOUS
<1>1. TypeOK
  BY FaultKindsType DEF Init, TypeOK, Statuses, Stages, Unset, MAX_ATTEMPTS
<1>2. ASSUME NEW w \in Runs PROVE RunOk(w)
  <2>1. OpenedBy(w) = {}
    BY DEF Init, OpenedBy
  <2> QED
    BY <2>1 DEF Init, RunOk, Routed, Running, Over, Shown, CleanTree, Unset
<1> QED
  BY <1>1, <1>2 DEF Init, IInv, NoPrForRisky

LEMMA StutterIInv == IInv /\ UNCHANGED vars => IInv'
<1> SUFFICES ASSUME IInv, UNCHANGED vars PROVE IInv'
  OBVIOUS
<1>1. TypeOK' /\ NoPrForRisky'
  BY DEF IInv, TypeOK, NoPrForRisky, vars
<1>2. Classify' = Classify /\ Scripts' = Scripts
  BY RouteIsFixed DEF vars
<1>3. ASSUME NEW w \in Runs PROVE RunOk(w)'
  <2>1. OpenedBy(w)' = OpenedBy(w)
    BY OpenedSame DEF vars
  <2> QED
    BY <1>2, <2>1
    DEF IInv, RunOk, Routed, Over, Told, Excuses, Shown, AdviceOf, CleanTree, Untouched, InLast, vars
<1> QED
  BY <1>1, <1>3 DEF IInv

LEMMA StepKept ==
  ASSUME IInv, NEW w \in Runs, Trigger(w) \/ RunStep(w) \/ SetupFails(w) \/ StepTimesOut(w) \/ JobIsKilled(w)
  PROVE  Kept(w)
<1>1. CASE JobStep(w)
  BY <1>1, TriageKept, RouteKept, FinishKept, NextScriptKept, RetryKept, GiveUpKept
  DEF JobStep
<1>2. CASE ScriptStep(w)
  BY <1>2, SkipIfNoKeyKept, StartModelScriptKept, RefuseIssueKept, ModelIsNoHelpKept,
     ScriptRaisesKept, StartSandboxKept, ReproKept, ReproFailsKept, ContainerStaysUpKept,
     ProposeFixKept, ProposeNothingNewKept, PushKept, PushIsRejectedKept, PushRaisesKept,
     CreatePrKept, CreatePrFailsKept, CreatePrRaisesKept, CritiqueKept, ReconcileKept,
     NoReconciliationKept, DraftAnswerKept, PostAdviceKept, PostFailsKept, AnnounceKept
  DEF ScriptStep
<1> QED
  BY <1>1, <1>2, TriggerKept, SetupFailsKept, StepTimesOutKept, JobIsKilledKept DEF RunStep

LEMMA NextIInv == IInv /\ [Next]_vars => IInv'
  BY StepKept, KeptIInv, StutterIInv DEF Next

\* Every behaviour of the workflow satisfies the inductive invariant.
THEOREM Invariance == Spec => []IInv
  BY InitIInv, NextIInv, PTL DEF Spec

(***************************************************************************)
(* Labels, attempts, branches and pull requests keep their types; in       *)
(* particular no script is attempted more often than MAX_ATTEMPTS          *)
(* (dispatch.py, _run_with_ceiling).                                       *)
(***************************************************************************)
THEOREM TypeCorrect == Spec => []TypeOK
<1>1. IInv => TypeOK
  BY DEF IInv
<1> QED
  BY <1>1, Invariance, PTL

(***************************************************************************)
(* However many runs work on the issue, no pull request is drafted for one *)
(* that the classifier must keep from fix_pr.py (triage.py, classify).     *)
(***************************************************************************)
THEOREM RiskyIssuesGetNoPr == Spec => []NoPrForRisky
<1>1. IInv => NoPrForRisky
  BY DEF IInv
<1> QED
  BY <1>1, Invariance, PTL

(***************************************************************************)
(* fix-ready is said only by a run that has posted its advice or opened    *)
(* its pull request (dispatch.py, the end of main).                        *)
(***************************************************************************)
THEOREM FixReadyIsNoCourtesy == Spec => []FixReadyIsTrue
<1>1. IInv => FixReadyIsTrue
  BY DEF IInv, RunOk, Shown, FixReadyIsTrue
<1> QED
  BY <1>1, Invariance, PTL

(***************************************************************************)
(* A run that has ended, killed ones included, has labelled the issue, but *)
(* for the Excuses (dispatch.py, _llm_helpers.py, _skip_helper.py,         *)
(* agent-dispatch.yml).                                                    *)
(***************************************************************************)
THEOREM EveryOutcomeIsVisible == Spec => []OutcomeIsVisible
<1>1. IInv => OutcomeIsVisible
  <2> SUFFICES ASSUME IInv, NEW w \in Runs, pc[w] \in {"done", "failed", "killed"}
               PROVE  \/ lastLabel[w] \in {"fix-ready", "needs-human"}
                      \/ excuses[w] \cap Excuses # {}
    BY DEF OutcomeIsVisible
  <2>1. Told(w)
    BY DEF IInv, RunOk, Over
  <2> QED
    BY <2>1 DEF Told
<1> QED
  BY <1>1, Invariance, PTL

(***************************************************************************)
(* Without an exception in a script a run opens one pull request at most,  *)
(* and of a single file (fix_pr.py, main).                                 *)
(***************************************************************************)
THEOREM CleanRunsOpenOnePr == Spec => []OnePrPerRun
<1>1. IInv => OnePrPerRun
  <2> SUFFICES ASSUME IInv, NEW w \in Runs, "raise" \notin excuses[w]
               PROVE  /\ Cardinality(OpenedBy(w)) <= 1
                      /\ \A pr \in OpenedBy(w) : pr.changes = {pr.branch}
    BY DEF OnePrPerRun
  <2>1. /\ \A pr \in OpenedBy(w) : pr.changes = {pr.branch}
        /\ \A pr, other \in OpenedBy(w) : pr = other
    BY DEF IInv, RunOk, CleanTree
  <2>2. CASE OpenedBy(w) = {}
    BY <2>1, <2>2, FS_EmptySet
  <2>3. CASE OpenedBy(w) # {}
    <3>1. PICK pr \in OpenedBy(w) : OpenedBy(w) = {pr}
      BY <2>1, <2>3
    <3>2. Cardinality(OpenedBy(w)) = 1
      BY <3>1, FS_Singleton
    <3> QED
      BY <2>1, <3>2
  <2> QED
    BY <2>2, <2>3
<1> QED
  BY <1>1, Invariance, PTL

\* What a step does to the verdict of any run.
LEMMA VerdictStep ==
  IInv /\ [Next]_vars =>
    \A w \in Runs : lastLabel[w] = "needs-human" => lastLabel'[w] = "needs-human"
<1> SUFFICES ASSUME IInv, [Next]_vars, NEW w \in Runs, lastLabel[w] = "needs-human"
             PROVE  lastLabel'[w] = "needs-human"
  OBVIOUS
<1>1. Over(w)
  BY DEF IInv, RunOk
<1>2. CASE UNCHANGED vars
  BY <1>2 DEF vars
<1>3. ASSUME NEW v \in Runs \ {w},
             Trigger(v) \/ RunStep(v) \/ SetupFails(v) \/ StepTimesOut(v) \/ JobIsKilled(v)
      PROVE  lastLabel'[w] = lastLabel[w]
  BY <1>3, StepKept DEF Kept, OnlyRun
<1>4. CASE Trigger(w) \/ RunStep(w) \/ SetupFails(w) \/ StepTimesOut(w) \/ JobIsKilled(w)
  <2>1. pc[w] \in {"killed", "done", "failed", "exit0"}
    BY <1>1 DEF Over
  <2>2. lastLabel' = lastLabel
    BY <1>4, <2>1
    DEF Trigger, RunStep, SetupFails, StepTimesOut, JobIsKilled, JobStep, ScriptStep, Triage, Route,
        Finish, NextScript, Retry, GiveUp, SkipIfNoKey, StartModelScript, RefuseIssue,
        ModelIsNoHelp, ScriptRaises, StartSandbox, Repro, ReproFails, ContainerStaysUp,
        ProposeFix, ProposeNothingNew, Push, PushIsRejected, PushRaises, CreatePr,
        CreatePrFails, CreatePrRaises, PostAdvice, PostFails, Announce, InModelScript,
        InScript, Critique, Reconcile, NoReconciliation, DraftAnswer
  <2> QED
    BY <2>2
<1> QED
  BY <1>2, <1>3, <1>4 DEF Next

(***************************************************************************)
(* needs-human is the last word of a run: no later script, retry or end of *)
(* dispatch.py takes it back (dispatch.py:149-153 and the four scripts).   *)
(***************************************************************************)
THEOREM VerdictIsFinal == Spec => VerdictStands
<1>1. IInv /\ [Next]_vars =>
        [\A w \in Runs : lastLabel[w] = "needs-human" => lastLabel'[w] = "needs-human"]_vars
  BY VerdictStep
<1> QED
  BY <1>1, Invariance, PTL DEF Spec, VerdictStands

-----------------------------------------------------------------------------
(* Advice *)

\* Nothing has been said on the issue yet.
Early(w) == \/ pc[w] \in {"idle", "triage", "route", "start", "work", "push", "open",
                          "reconcile", "comment", "exit1"}
            \/ pc[w] = "exit0" /\ ~InLast(w)

(***************************************************************************)
(* A script that works has its keys; one about to comment has accepted the *)
(* issue and comments for the first time, since a script that commented is *)
(* the last one and never comes back to its start.                         *)
(***************************************************************************)
Advised(w) ==
  /\ pc[w] \in {"work", "reconcile", "comment"} => HasKeys(Scripts[step[w]])
  /\ pc[w] \in {"reconcile", "comment"} =>
       Accepts(w) /\ Scripts[step[w]] \in {"trinity_dispatch", "answer_draft"}
  /\ Early(w) => AdviceOf(w) = {}
  /\ \A one, other \in AdviceOf(w) : one = other
  /\ AdviceOf(w) # {} => AdviceFits

AdviceInv == IInv /\ \A w \in Runs : Advised(w)

\* What the steps that do not comment must show to keep Advised.
LEMMA QuietStep ==
  ASSUME NEW w \in Runs, Advised(w), Kept(w), posted' = posted,
         Early(w)' => Early(w),
         pc'[w] \in {"work", "reconcile", "comment"} => HasKeys(Scripts[step[w]])',
         pc'[w] \in {"reconcile", "comment"} =>
           (Accepts(w) /\ Scripts[step[w]] \in {"trinity_dispatch", "answer_draft"})'
  PROVE  Advised(w)'
<1>1. AdviceOf(w)' = AdviceOf(w)
  BY AdviceSame
<1>2. AdviceFits' = AdviceFits
  BY DEF AdviceFits, Kept, OnlyRun
<1> QED
  BY <1>1, <1>2 DEF Advised

\* The job, and what ends it, never comments.
LEMMA AdvisedByJob ==
  ASSUME IInv, NEW w \in Runs, Advised(w), Kept(w),
         Trigger(w) \/ JobStep(w) \/ SetupFails(w) \/ StepTimesOut(w) \/ JobIsKilled(w)
  PROVE  Advised(w)'
<1>1. TypeOK /\ RunOk(w)
  BY DEF IInv
<1>2. Scripts' = Scripts
  BY RouteIsFixed DEF Kept, OnlyRun
<1>3. posted' = posted /\ pc'[w] \notin {"work", "reconcile", "comment"}
  BY <1>1 DEF TypeOK, Trigger, JobStep, SetupFails, StepTimesOut, JobIsKilled, Triage, Route, Finish,
              NextScript, Retry, GiveUp
<1>4. Early(w)' => Early(w)
  BY <1>1, <1>2 DEF TypeOK, Early, InLast, Trigger, JobStep, SetupFails, StepTimesOut, JobIsKilled,
              Triage, Route, Finish, NextScript, Retry, GiveUp
<1> QED
  BY <1>3, <1>4, QuietStep

\* The scripts that do not comment, and the others up to there.
LEMMA AdvisedByWork ==
  ASSUME IInv, NEW w \in Runs, Advised(w), Kept(w), ScriptStep(w),
         ~PostAdvice(w), ~PostFails(w)
  PROVE  Advised(w)'
<1>1. TypeOK /\ RunOk(w)
  BY DEF IInv
<1>2. Scripts' = Scripts /\ issue' = issue /\ setup' = setup /\ Classify' = Classify
  BY RouteIsFixed DEF Kept, OnlyRun
<1>3. posted' = posted /\ step' = step
  BY DEF ScriptStep, SkipIfNoKey, StartModelScript, RefuseIssue, ModelIsNoHelp,
     ScriptRaises, StartSandbox, Repro, ReproFails, ContainerStaysUp, ProposeFix,
     ProposeNothingNew, Push, PushIsRejected, PushRaises, CreatePr, CreatePrFails,
     CreatePrRaises, Critique, Reconcile, NoReconciliation, DraftAnswer, Announce
<1>4. HasKeys(Scripts[step[w]])' = HasKeys(Scripts[step[w]]) /\ Accepts(w)' = Accepts(w)
  BY <1>2, <1>3 DEF HasKeys, Accepts, ExpectedKind
<1>5. Early(w)' => Early(w)
  <2>1. CASE pc[w] = "announce"
    <3>1. InLast(w)'
      BY <1>1, <1>2, <1>3, <2>1 DEF RunOk, Routed, InLast
    <3>2. pc'[w] = "exit0"
      BY <1>1, <2>1 DEF TypeOK, ScriptStep, SkipIfNoKey, StartModelScript, RefuseIssue,
         ModelIsNoHelp, ScriptRaises, StartSandbox, Repro, ReproFails, ContainerStaysUp,
         ProposeFix, ProposeNothingNew, Push, PushIsRejected, PushRaises, CreatePr,
         CreatePrFails, CreatePrRaises, Critique, Reconcile, NoReconciliation,
         DraftAnswer, Announce, InModelScript
    <3> QED
      BY <3>1, <3>2 DEF Early
  <2>2. CASE pc[w] # "announce"
    <3>1. pc[w] \in {"start", "work", "push", "open", "reconcile", "comment"}
      BY <1>1, <2>2 DEF TypeOK, ScriptStep, SkipIfNoKey, StartModelScript, RefuseIssue,
         ModelIsNoHelp, ScriptRaises, StartSandbox, Repro, ReproFails, ContainerStaysUp,
         ProposeFix, ProposeNothingNew, Push, PushIsRejected, PushRaises, CreatePr,
         CreatePrFails, CreatePrRaises, Critique, Reconcile, NoReconciliation,
         DraftAnswer, Announce, InModelScript
    <3> QED
      BY <3>1 DEF Early
  <2> QED
    BY <2>1, <2>2
<1>6. pc'[w] \in {"work", "reconcile", "comment"} => HasKeys(Scripts[step[w]])
  <2>1. CASE StartSandbox(w)
    BY <2>1 DEF StartSandbox, HasKeys
  <2>2. CASE ~StartSandbox(w)
    BY <1>1, <2>2 DEF Advised, TypeOK, ScriptStep, SkipIfNoKey, StartModelScript,
       RefuseIssue, ModelIsNoHelp, ScriptRaises, Repro, ReproFails, ContainerStaysUp,
       ProposeFix, ProposeNothingNew, Push, PushIsRejected, PushRaises, CreatePr,
       CreatePrFails, CreatePrRaises, Critique, Reconcile, NoReconciliation,
       DraftAnswer, Announce, BailToHuman
  <2> QED
    BY <2>1, <2>2
<1>7. pc'[w] \in {"reconcile", "comment"} =>
        Accepts(w) /\ Scripts[step[w]] \in {"trinity_dispatch", "answer_draft"}
  BY <1>1 DEF Advised, TypeOK, ScriptStep, SkipIfNoKey, StartModelScript, RefuseIssue,
     ModelIsNoHelp, ScriptRaises, StartSandbox, Repro, ReproFails, ContainerStaysUp,
     ProposeFix, ProposeNothingNew, Push, PushIsRejected, PushRaises, CreatePr,
     CreatePrFails, CreatePrRaises, Critique, Reconcile, NoReconciliation,
     DraftAnswer, Announce, BailToHuman
<1> QED
  BY <1>2, <1>3, <1>4, <1>5, <1>6, <1>7, QuietStep

\* A comment, seen to arrive or not, is the run's first, of the right kind.
LEMMA AdvisedByComment ==
  ASSUME IInv, NEW w \in Runs, Advised(w), Kept(w), PostAdvice(w) \/ PostFails(w)
  PROVE  Advised(w)'
<1>1. TypeOK /\ RunOk(w) /\ At(w, "comment")
  BY DEF IInv, PostAdvice, PostFails
<1>2. Scripts' = Scripts /\ issue' = issue /\ setup' = setup
  BY RouteIsFixed DEF Kept, OnlyRun
<1>3. AdviceFits'
  <2>1. AdviceFits
    BY <1>1 DEF Advised, HasKeys, Accepts, ExpectedKind, AdviceFits
  <2> QED
    BY <1>2, <2>1 DEF AdviceFits
<1>4. ~Early(w)' /\ pc'[w] \notin {"work", "reconcile", "comment"}
  BY <1>1, <1>2 DEF RunOk, Routed, TypeOK, Early, InLast, PostAdvice, PostFails
<1>5. \A one, other \in AdviceOf(w)' : one = other
  <2>1. AdviceOf(w) = {}
    BY <1>1 DEF Advised, Early
  <2>2. posted' = posted \/ posted' = posted \cup {[by |-> w, attempt |-> attempt[w]]}
    BY DEF PostAdvice, PostFails, NewComment
  <2> QED
    BY <2>1, <2>2 DEF AdviceOf
<1> QED
  BY <1>3, <1>4, <1>5 DEF Advised

LEMMA OthersAdvised ==
  ASSUME NEW w \in Runs, OnlyRun(w), NEW v \in Runs \ {w}, Advised(v)
  PROVE  Advised(v)'
<1>1. Scripts' = Scripts /\ issue' = issue /\ setup' = setup
  BY RouteIsFixed DEF OnlyRun
<1>2. pc'[v] = pc[v] /\ step'[v] = step[v] /\ AdviceOf(v)' = AdviceOf(v)
  BY DEF OnlyRun
<1>3. HasKeys(Scripts[step[v]])' = HasKeys(Scripts[step[v]]) /\ Accepts(v)' = Accepts(v)
  BY <1>1, <1>2 DEF HasKeys, Accepts, ExpectedKind
<1>4. Early(v)' = Early(v) /\ AdviceFits' = AdviceFits
  BY <1>1, <1>2 DEF Early, InLast, AdviceFits
<1> QED
  BY <1>1, <1>2, <1>3, <1>4 DEF Advised

LEMMA NextAdviceInv == AdviceInv /\ [Next]_vars => AdviceInv'
<1> SUFFICES ASSUME AdviceInv, [Next]_vars PROVE AdviceInv'
  OBVIOUS
<1>1. IInv'
  BY NextIInv DEF AdviceInv
<1>2. CASE UNCHANGED vars
  <2>1. Scripts' = Scripts
    BY <1>2, RouteIsFixed DEF vars
  <2>2. ASSUME NEW w \in Runs PROVE Advised(w)'
    <3>1. AdviceOf(w)' = AdviceOf(w)
      BY <1>2, AdviceSame DEF vars
    <3>2. HasKeys(Scripts[step[w]])' = HasKeys(Scripts[step[w]]) /\ Accepts(w)' = Accepts(w)
      BY <1>2, <2>1 DEF HasKeys, Accepts, ExpectedKind, vars
    <3>3. Early(w)' = Early(w) /\ AdviceFits' = AdviceFits
      BY <1>2, <2>1 DEF Early, InLast, AdviceFits, vars
    <3> QED
      BY <1>2, <2>1, <3>1, <3>2, <3>3 DEF AdviceInv, Advised, vars
  <2> QED
    BY <1>1, <2>2 DEF AdviceInv
<1>3. ASSUME NEW w \in Runs,
             Trigger(w) \/ RunStep(w) \/ SetupFails(w) \/ StepTimesOut(w) \/ JobIsKilled(w)
      PROVE  AdviceInv'
  <2>1. IInv /\ Advised(w) /\ Kept(w)
    BY <1>3, StepKept DEF AdviceInv
  <2>2. Advised(w)'
    BY <1>3, <2>1, AdvisedByJob, AdvisedByWork, AdvisedByComment DEF RunStep
  <2> QED
    BY <1>1, <2>1, <2>2, OthersAdvised DEF AdviceInv, Kept
<1> QED
  BY <1>2, <1>3 DEF Next

LEMMA AdviceInvariance == Spec => []AdviceInv
<1>1. Init => AdviceInv
  <2> SUFFICES ASSUME Init PROVE AdviceInv
    OBVIOUS
  <2>1. ASSUME NEW w \in Runs PROVE Advised(w)
    <3>1. AdviceOf(w) = {}
      BY DEF Init, AdviceOf
    <3> QED
      BY <3>1 DEF Init, Advised
  <2> QED
    BY <2>1, InitIInv DEF AdviceInv
<1> QED
  BY <1>1, NextAdviceInv, PTL DEF Spec

(***************************************************************************)
(* Whatever the runs, an issue is given a review only by Codex and Claude  *)
(* together and an answer only by Claude, each to an issue of its kind     *)
(* (trinity_dispatch.py and answer_draft.py, main).                        *)
(***************************************************************************)
THEOREM AdviceIsWhole == Spec => []AdviceHasItsVoices
<1>1. AdviceInv => AdviceHasItsVoices
  <2> SUFFICES ASSUME AdviceInv, NEW comment \in posted PROVE AdviceFits
    BY DEF AdviceHasItsVoices
  <2>1. comment.by \in Runs /\ comment \in AdviceOf(comment.by)
    BY DEF AdviceInv, IInv, TypeOK, AdviceOf
  <2> QED
    BY <2>1 DEF AdviceInv, Advised
<1> QED
  BY <1>1, AdviceInvariance, PTL

(***************************************************************************)
(* No number of attempts makes a run comment twice, although gh may report *)
(* a failure for a comment that is there (comment_on_issue).               *)
(***************************************************************************)
THEOREM AdviceIsGivenOnce == Spec => []AdviceOnce
<1>1. AdviceInv => AdviceOnce
  <2> SUFFICES ASSUME AdviceInv, NEW one \in posted, NEW other \in posted,
                      one.by = other.by
               PROVE  one = other
    BY DEF AdviceOnce
  <2>1. one.by \in Runs /\ one \in AdviceOf(one.by) /\ other \in AdviceOf(one.by)
    BY DEF AdviceInv, IInv, TypeOK, AdviceOf
  <2> QED
    BY <2>1 DEF AdviceInv, Advised
<1> QED
  BY <1>1, AdviceInvariance, PTL
=============================================================================
