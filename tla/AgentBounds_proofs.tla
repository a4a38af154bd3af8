-------------------------- MODULE AgentBounds_proofs --------------------------
(***************************************************************************)
(* How much the agents can do to one issue, for any number of runs, any    *)
(* proposals and any faults: pull requests of distinct branches, three of  *)
(* a run at most, and a run that comes to its end after a bounded number   *)
(* of steps.  These invariants stand on that of AgentDispatch_proofs.      *)
(***************************************************************************)
EXTENDS AgentDispatch_proofs

USE DEF At, Go, Note, Fault, TransitionStatus, IsAt, shared, local, history

-----------------------------------------------------------------------------
(* Branches: what the runs share *)

(***************************************************************************)
(* A run that is about to open a pull request has pushed the branch, and   *)
(* nobody else has: no request is open for it, no other run is about to.   *)
(***************************************************************************)
BranchIsOwn ==
  /\ \A pr \in prs : pr.branch \in remote
  /\ \A w \in Runs : At(w, "open") =>
       proposal[w] \in remote /\ \A pr \in prs : pr.branch # proposal[w]
  /\ \A v, w \in Runs : At(v, "open") /\ At(w, "open") /\ proposal[v] = proposal[w] => v = w

BranchInv == BranchIsOwn /\ OnePrPerBranch

\* Any step of w, and what ends it.
AnyStep(w) == Trigger(w) \/ RunStep(w) \/ SetupFails(w) \/ StepTimesOut(w) \/ JobIsKilled(w)

\* What the steps of w do to branches and pull requests.
Aside(w) == /\ prs' = prs /\ remote \subseteq remote'
            /\ pc'[w] # "open"
Claims(w) == /\ prs' = prs /\ proposal'[w] = proposal[w]
             /\ pc'[w] = "open"
             /\ proposal[w] \notin remote /\ remote' = remote \cup {proposal[w]}
Drafts(w) == /\ pc[w] = "open" /\ NewPr(w)
             /\ pc'[w] # "open"
             /\ remote' = remote

LEMMA BranchCases ==
  ASSUME IInv, NEW w \in Runs, AnyStep(w)
  PROVE  Aside(w) \/ Claims(w) \/ Drafts(w)
<1>1. pc \in [Runs -> Stages] /\ proposal \in [Runs -> Proposals \cup {Unset}]
  BY DEF IInv, TypeOK
<1>2. CASE Trigger(w) \/ JobStep(w) \/ SetupFails(w) \/ StepTimesOut(w) \/ JobIsKilled(w)
  <2>1. Aside(w)
    BY <1>1, <1>2 DEF Aside, Trigger, SetupFails, StepTimesOut, JobIsKilled, JobStep, Triage, Route,
       Finish, NextScript, Retry, GiveUp
  <2> QED
    BY <2>1
<1>3. CASE Push(w)
  <2>1. Claims(w)
    BY <1>1, <1>3 DEF Claims, Push, PushIsTaken
  <2> QED
    BY <2>1
<1>4. CASE CreatePr(w) \/ CreatePrRaises(w)
  <2>1. Drafts(w) \/ Aside(w)
    BY <1>1, <1>4 DEF Drafts, Aside, CreatePr, CreatePrRaises
  <2> QED
    BY <2>1
<1>5. CASE ScriptStep(w) /\ ~Push(w) /\ ~CreatePr(w) /\ ~CreatePrRaises(w)
  <2>1. Aside(w)
    BY <1>1, <1>5
    DEF Aside, ScriptStep, SkipIfNoKey, StartModelScript, RefuseIssue, ModelIsNoHelp,
        ScriptRaises, StartSandbox, Repro, ReproFails, ContainerStaysUp, ProposeFix,
        ProposeNothingNew, PushIsRejected, PushRaises, CreatePrFails, Critique,
        Reconcile, NoReconciliation, DraftAnswer, PostAdvice, PostFails, Announce,
        InModelScript, BailToHuman
  <2> QED
    BY <2>1
<1> QED
  BY <1>2, <1>3, <1>4, <1>5 DEF AnyStep, RunStep

LEMMA StepOfRun ==
  ASSUME IInv, NEW w \in Runs, AnyStep(w)
  PROVE  \A v \in Runs \ {w} : pc'[v] = pc[v] /\ proposal'[v] = proposal[v]
  BY StepKept DEF AnyStep, Kept, OnlyRun

\* Attempts are counted by the run that makes them.
LEMMA AttemptsOfOthers ==
  ASSUME IInv, NEW w \in Runs, AnyStep(w)
  PROVE  \A v \in Runs \ {w} : attempt'[v] = attempt[v]
<1>1. attempt \in [Runs -> 1..MAX_ATTEMPTS]
  BY DEF IInv, TypeOK
<1>2. CASE ScriptStep(w)
  BY <1>2
  DEF ScriptStep, SkipIfNoKey, StartModelScript, RefuseIssue, ModelIsNoHelp, ScriptRaises,
      StartSandbox, Repro, ReproFails, ContainerStaysUp, ProposeFix, ProposeNothingNew,
      Push, PushIsRejected, PushRaises, CreatePr, CreatePrFails, CreatePrRaises, Critique,
      Reconcile, NoReconciliation, DraftAnswer, PostAdvice, PostFails, Announce
<1>3. CASE ~ScriptStep(w)
  BY <1>1, <1>3 DEF AnyStep, RunStep, Trigger, SetupFails, StepTimesOut, JobIsKilled, JobStep, Triage,
     Route, Finish, NextScript, Retry, GiveUp
<1> QED
  BY <1>2, <1>3

(***************************************************************************)
(* A branch is claimed by the push, which only one run can win; until then *)
(* no request is open for it, and afterwards only the winner opens one.    *)
(***************************************************************************)
LEMMA BranchStep ==
  ASSUME IInv, BranchInv, NEW w \in Runs, AnyStep(w)
  PROVE  BranchInv'
<1> USE DEF BranchInv, BranchIsOwn, OnePrPerBranch
<1>1. \A v \in Runs \ {w} : pc'[v] = pc[v] /\ proposal'[v] = proposal[v]
  BY StepOfRun
<1>2. CASE Aside(w)
  <2>1. \A v \in Runs : pc'[v] = "open" =>
          v # w /\ pc[v] = "open" /\ proposal'[v] = proposal[v]
    BY <1>1, <1>2 DEF Aside
  <2>2. BranchIsOwn'
    BY <1>2, <2>1 DEF Aside
  <2> QED
    BY <1>2, <2>2 DEF Aside
<1>3. CASE Claims(w)
  <2>1. \A v \in Runs \ {w} : pc[v] = "open" => proposal[v] # proposal[w]
    BY <1>3 DEF Claims
  <2>2. \A pr \in prs : pr.branch # proposal[w]
    BY <1>3 DEF Claims
  <2>3. BranchIsOwn'
    BY <1>1, <1>3, <2>1, <2>2 DEF Claims
  <2> QED
    BY <1>3, <2>3 DEF Claims
<1>4. CASE Drafts(w)
  <2> DEFINE new == [by |-> w, branch |-> proposal[w], changes |-> tree[w]]
  <2>1. prs' = prs \cup {new} /\ new.branch = proposal[w]
    BY <1>4 DEF Drafts, NewPr
  <2>2. proposal[w] \in remote /\ \A pr \in prs : pr.branch # proposal[w]
    BY <1>4 DEF Drafts
  <2>3. \A v \in Runs : pc'[v] = "open" =>
          /\ v # w /\ pc[v] = "open" /\ proposal'[v] = proposal[v]
          /\ proposal[v] # proposal[w]
    BY <1>1, <1>4 DEF Drafts
  <2> HIDE DEF new
  <2>4. BranchIsOwn'
    <3>1. \A pr \in prs' : pr.branch \in remote'
      BY <1>4, <2>1, <2>2 DEF Drafts
    <3>2. \A v \in Runs : pc'[v] = "open" =>
            proposal'[v] \in remote' /\ \A pr \in prs' : pr.branch # proposal'[v]
      BY <1>4, <2>1, <2>3 DEF Drafts
    <3>3. \A u, v \in Runs :
            pc'[u] = "open" /\ pc'[v] = "open" /\ proposal'[u] = proposal'[v] => u = v
      BY <2>3
    <3> QED
      BY <3>1, <3>2, <3>3
  <2>5. OnePrPerBranch'
    BY <2>1, <2>2
  <2> QED
    BY <2>4, <2>5
<1> QED
  BY <1>2, <1>3, <1>4, BranchCases

LEMMA BranchInvariance == Spec => [](IInv /\ BranchInv)
<1>1. Init => IInv /\ BranchInv
  BY InitIInv DEF Init, BranchInv, BranchIsOwn, OnePrPerBranch
<1>2. IInv /\ BranchInv /\ [Next]_vars => (IInv /\ BranchInv)'
  <2> SUFFICES ASSUME IInv, BranchInv, [Next]_vars PROVE IInv' /\ BranchInv'
    OBVIOUS
  <2>1. CASE UNCHANGED vars
    BY <2>1, NextIInv DEF vars, BranchInv, BranchIsOwn, OnePrPerBranch
  <2>2. CASE Next
    BY <2>2, NextIInv, BranchStep DEF Next, AnyStep
  <2> QED
    BY <2>1, <2>2
<1> QED
  BY <1>1, <1>2, PTL DEF Spec

(***************************************************************************)
(* Whichever runs and attempts propose the same fix, GitHub is asked for   *)
(* one pull request of a branch: a push of a branch that is there fails,   *)
(* and without a push fix_pr.py opens nothing (fix_pr.py, main).           *)
(***************************************************************************)
THEOREM BranchesAreNotShared == Spec => []OnePrPerBranch
  BY BranchInvariance, PTL DEF BranchInv

-----------------------------------------------------------------------------
(* Fixes: what an attempt adds *)

(***************************************************************************)
(* A checkout holds one fix per attempt of fix_pr at most, and none before *)
(* fix_pr; the requests of a run are of fixes in its checkout.             *)
(***************************************************************************)
BeforeFix(w) == \/ pc[w] \in {"idle", "triage", "route"}
                \/ pc[w] \in Running /\ ~InLast(w)

FixPerAttempt(w) ==
  /\ IsFiniteSet(tree[w])
  /\ BeforeFix(w) => tree[w] = {}
  /\ Cardinality(tree[w]) <= attempt[w]
  /\ pc[w] \in {"idle", "triage", "route", "start", "work"} =>
       Cardinality(tree[w]) < attempt[w]
  /\ pc[w] \in {"push", "open"} => proposal[w] \in tree[w]
  /\ \A pr \in OpenedBy(w) : pr.branch \in tree[w] /\ pr.changes \subseteq tree[w]

PrBound ==
  \A w \in Runs : /\ Cardinality(OpenedBy(w)) <= MAX_ATTEMPTS
                  /\ \A pr \in OpenedBy(w) : Cardinality(pr.changes) <= MAX_ATTEMPTS

\* No step of w but fix_pr's own changes what is committed and requested.
FixesStay(w) == /\ tree'[w] = tree[w] /\ proposal'[w] = proposal[w]
                /\ prs' = prs

\* Attempts and stages go on without a fix.
LEMMA FixesStayStep ==
  ASSUME IInv, NEW w \in Runs, FixPerAttempt(w), AnyStep(w), FixesStay(w)
  PROVE  FixPerAttempt(w)'
<1>1. TypeOK /\ RunOk(w) /\ TypeOK'
  BY StepKept DEF IInv, AnyStep, Kept
<1>2. Scripts' = Scripts /\ OpenedBy(w)' = OpenedBy(w)
  BY RouteIsFixed, OpenedSame, StepKept DEF AnyStep, Kept, OnlyRun, FixesStay
<1>3. attempt[w] \in 1..3 /\ attempt'[w] \in 1..3 /\ Cardinality(tree[w]) \in Nat
  BY <1>1, FS_CardinalityType DEF TypeOK, MAX_ATTEMPTS, FixPerAttempt
<1>4. CASE NextScript(w)
  <2>1. pc[w] = "exit0" /\ ~InLast(w)
    BY <1>1, <1>4 DEF TypeOK, NextScript, InLast
  <2>2. tree[w] = {} /\ Cardinality(tree[w]) = 0
    BY <2>1, FS_EmptySet DEF FixPerAttempt, BeforeFix, Running
  <2>3. pc'[w] = "start"
    BY <1>1, <1>4 DEF TypeOK, NextScript
  <2> QED
    BY <1>2, <1>3, <2>2, <2>3 DEF FixPerAttempt, FixesStay
<1>5. CASE Retry(w)
  <2>1. pc[w] = "exit1" /\ pc'[w] = "start" /\ attempt'[w] = attempt[w] + 1 /\ step' = step
    BY <1>1, <1>5 DEF TypeOK, Retry
  <2>2. BeforeFix(w)' => BeforeFix(w)
    BY <1>2, <2>1 DEF BeforeFix, InLast, Running
  <2>3. Cardinality(tree[w]) <= attempt[w]
    BY DEF FixPerAttempt
  <2> QED
    BY <1>2, <1>3, <2>1, <2>2, <2>3 DEF FixPerAttempt, FixesStay
<1>6. CASE ~NextScript(w) /\ ~Retry(w)
  <2>1. step' = step /\ attempt' = attempt
    BY <1>6
    DEF AnyStep, RunStep, Trigger, SetupFails, StepTimesOut, JobIsKilled, JobStep, Triage, Route,
        Finish, GiveUp, ScriptStep, SkipIfNoKey, StartModelScript, RefuseIssue,
        ModelIsNoHelp, ScriptRaises, StartSandbox, Repro, ReproFails, ContainerStaysUp,
        ProposeFix, ProposeNothingNew, Push, PushIsRejected, PushRaises, CreatePr,
        CreatePrFails, CreatePrRaises, Critique, Reconcile, NoReconciliation, DraftAnswer,
        PostAdvice, PostFails, Announce
  <2>2. CASE Trigger(w) \/ JobStep(w) \/ SetupFails(w) \/ StepTimesOut(w) \/ JobIsKilled(w)
    <3>1. \/ pc'[w] \in {"done", "failed", "killed"}
          \/ pc[w] = "idle" /\ pc'[w] = "triage"
          \/ pc[w] = "triage" /\ pc'[w] = "route"
          \/ pc[w] = "route" /\ pc'[w] = "start"
      BY <1>1, <1>6, <2>2 DEF TypeOK, Trigger, SetupFails, StepTimesOut, JobIsKilled, JobStep, Triage,
         Route, Finish, GiveUp
    <3>2. BeforeFix(w)' => BeforeFix(w)
      BY <1>2, <2>1, <3>1 DEF BeforeFix, InLast, Running
    <3> QED
      BY <1>2, <1>3, <2>1, <3>1, <3>2 DEF FixPerAttempt, FixesStay
  <2>3. CASE ScriptStep(w)
    <3>1. /\ pc[w] \in {"start", "work", "push", "open", "reconcile", "comment", "announce"}
          /\ \/ pc'[w] \in {"exit0", "exit1", "reconcile", "comment", "announce"}
             \/ pc[w] = "start" /\ pc'[w] = "work"
             \/ pc[w] = "push" /\ pc'[w] = "open"
             \/ ProposeFix(w)
      BY <1>1, <2>3
      DEF TypeOK, ScriptStep, SkipIfNoKey, StartModelScript, RefuseIssue, ModelIsNoHelp,
          ScriptRaises, StartSandbox, Repro, ReproFails, ContainerStaysUp,
          ProposeNothingNew, Push, PushIsRejected, PushRaises, CreatePr, CreatePrFails,
          CreatePrRaises, Critique, Reconcile, NoReconciliation, DraftAnswer, PostAdvice,
          PostFails, Announce, InModelScript, BailToHuman, ProposeFix
    <3>2. ~ProposeFix(w)
      BY <1>1 DEF TypeOK, ProposeFix, FixesStay
    <3>3. BeforeFix(w)' => BeforeFix(w)
      BY <1>2, <2>1, <3>1, <3>2 DEF BeforeFix, InLast, Running
    <3> QED
      BY <1>2, <1>3, <2>1, <3>1, <3>2, <3>3 DEF FixPerAttempt, FixesStay
  <2> QED
    BY <1>6, <2>2, <2>3 DEF AnyStep, RunStep
<1> QED
  BY <1>4, <1>5, <1>6

\* A fix is the first of its attempt, and in the last script.
LEMMA ProposeFixStep ==
  ASSUME IInv, NEW w \in Runs, FixPerAttempt(w), ProposeFix(w)
  PROVE  FixPerAttempt(w)'
<1>1. TypeOK /\ RunOk(w)
  BY DEF IInv
<1>2. Scripts' = Scripts /\ OpenedBy(w)' = OpenedBy(w)
  BY RouteIsFixed, OpenedSame DEF ProposeFix
<1>3. PICK p \in Proposals \ tree[w] : proposal'[w] = p /\ tree'[w] = tree[w] \cup {p}
  BY <1>1 DEF TypeOK, ProposeFix
<1>4. attempt' = attempt /\ step' = step /\ pc[w] = "work" /\ pc'[w] = "push"
  BY <1>1 DEF TypeOK, ProposeFix
<1>5. /\ IsFiniteSet(tree'[w])
      /\ Cardinality(tree'[w]) = Cardinality(tree[w]) + 1
  <2>1. IsFiniteSet(tree[w]) /\ p \notin tree[w]
    BY <1>3 DEF FixPerAttempt
  <2>2. /\ IsFiniteSet(tree[w] \cup {p})
        /\ Cardinality(tree[w] \cup {p}) = Cardinality(tree[w]) + 1
    BY <2>1, FS_AddElement
  <2> QED
    BY <1>3, <2>2
<1>6. attempt[w] \in 1..3 /\ Cardinality(tree[w]) \in Nat
  BY <1>1, FS_CardinalityType DEF TypeOK, MAX_ATTEMPTS, FixPerAttempt
<1>7. Cardinality(tree[w]) < attempt[w]
  BY <1>4 DEF FixPerAttempt
<1>8. ~BeforeFix(w)'
  <2>1. InLast(w)
    BY <1>1, <1>4, ScriptFacts DEF ProposeFix, InLast, TypeOK, RunOk, Routed, Running
  <2> QED
    BY <1>2, <1>4, <2>1 DEF BeforeFix, InLast
<1> QED
  BY <1>2, <1>3, <1>4, <1>5, <1>6, <1>7, <1>8 DEF FixPerAttempt

\* The request is of the fix that was pushed, on top of those before it.
LEMMA DraftStep ==
  ASSUME IInv, NEW w \in Runs, FixPerAttempt(w), CreatePr(w) \/ CreatePrRaises(w)
  PROVE  FixPerAttempt(w)'
<1>1. TypeOK /\ RunOk(w)
  BY DEF IInv
<1>2. Scripts' = Scripts
  BY RouteIsFixed DEF CreatePr, CreatePrRaises
<1>3. /\ pc[w] = "open" /\ pc'[w] \in {"announce", "exit1"}
      /\ tree' = tree /\ attempt' = attempt /\ step' = step
  BY <1>1 DEF TypeOK, CreatePr, CreatePrRaises
<1>4. prs' = prs \/ NewPr(w)
  BY DEF CreatePr, CreatePrRaises
<1>5. \A pr \in OpenedBy(w)' : pr.branch \in tree[w] /\ pr.changes \subseteq tree[w]
  <2>1. proposal[w] \in tree[w]
    BY <1>3 DEF FixPerAttempt
  <2> QED
    BY <1>4, <2>1 DEF FixPerAttempt, OpenedBy, NewPr
<1>6. BeforeFix(w)' => BeforeFix(w)
  BY <1>2, <1>3 DEF BeforeFix, InLast, Running
<1> QED
  BY <1>3, <1>5, <1>6 DEF FixPerAttempt

LEMMA FixStep ==
  ASSUME IInv, NEW w \in Runs, FixPerAttempt(w), AnyStep(w)
  PROVE  FixPerAttempt(w)'
<1>1. CASE ProposeFix(w)
  BY <1>1, ProposeFixStep
<1>2. CASE CreatePr(w) \/ CreatePrRaises(w)
  BY <1>2, DraftStep
<1>3. CASE ~ProposeFix(w) /\ ~CreatePr(w) /\ ~CreatePrRaises(w)
  <2>1. FixesStay(w)
    BY <1>3
    DEF FixesStay, AnyStep, RunStep, Trigger, SetupFails, StepTimesOut, JobIsKilled, JobStep, Triage,
        Route, Finish, NextScript, Retry, GiveUp, ScriptStep, SkipIfNoKey,
        StartModelScript, RefuseIssue, ModelIsNoHelp, ScriptRaises, StartSandbox, Repro,
        ReproFails, ContainerStaysUp, ProposeNothingNew, Push, PushIsRejected, PushRaises,
        CreatePrFails, Critique, Reconcile, NoReconciliation, DraftAnswer, PostAdvice,
        PostFails, Announce
  <2> QED
    BY <2>1, FixesStayStep
<1> QED
  BY <1>1, <1>2, <1>3

LEMMA FixesOfOthers ==
  ASSUME IInv, NEW w \in Runs, AnyStep(w), NEW v \in Runs \ {w}, FixPerAttempt(v)
  PROVE  FixPerAttempt(v)'
<1>1. /\ pc'[v] = pc[v] /\ step'[v] = step[v] /\ attempt'[v] = attempt[v]
      /\ proposal'[v] = proposal[v] /\ tree'[v] = tree[v]
      /\ OpenedBy(v)' = OpenedBy(v) /\ Scripts' = Scripts
  BY AttemptsOfOthers, StepKept, RouteIsFixed DEF AnyStep, Kept, OnlyRun
<1>2. BeforeFix(v)' = BeforeFix(v)
  BY <1>1 DEF BeforeFix, InLast
<1> QED
  BY <1>1, <1>2 DEF FixPerAttempt

FixInv == \A w \in Runs : FixPerAttempt(w)

LEMMA FixInvariance == Spec => [](IInv /\ BranchInv /\ FixInv)
<1>1. Init => FixInv
  <2> SUFFICES ASSUME Init, NEW w \in Runs PROVE FixPerAttempt(w)
    BY DEF FixInv
  <2>1. OpenedBy(w) = {} /\ Cardinality({}) = 0 /\ IsFiniteSet({})
    BY FS_EmptySet DEF Init, OpenedBy
  <2> QED
    BY <2>1 DEF Init, FixPerAttempt
<1>2. IInv /\ FixInv /\ [Next]_vars => FixInv'
  <2> SUFFICES ASSUME IInv, FixInv, [Next]_vars PROVE FixInv'
    OBVIOUS
  <2>1. CASE UNCHANGED vars
    <3> SUFFICES ASSUME NEW w \in Runs PROVE FixPerAttempt(w)'
      BY DEF FixInv
    <3>1. OpenedBy(w)' = OpenedBy(w) /\ Scripts' = Scripts
      BY <2>1, OpenedSame, RouteIsFixed DEF vars
    <3>2. BeforeFix(w)' = BeforeFix(w)
      BY <2>1, <3>1 DEF vars, BeforeFix, InLast
    <3> QED
      BY <2>1, <3>1, <3>2 DEF vars, FixInv, FixPerAttempt
  <2>2. CASE Next
    BY <2>2, FixStep, FixesOfOthers DEF Next, AnyStep, FixInv
  <2> QED
    BY <2>1, <2>2
<1> QED
  BY <1>1, <1>2, BranchInvariance, PTL DEF Spec

(***************************************************************************)
(* A run opens three pull requests at most, whatever raises: one for each  *)
(* attempt at fix_pr.  A retry commits on top of what the attempts before  *)
(* it left in the checkout, so a request may hold up to three fixes where  *)
(* one was meant (fix_pr.py, main; dispatch.py, _run_with_ceiling).        *)
(***************************************************************************)
THEOREM PullRequestsAreBounded == Spec => []PrBound
<1>1. IInv /\ BranchInv /\ FixInv => PrBound
  <2> SUFFICES ASSUME IInv, BranchInv, FixInv, NEW w \in Runs
               PROVE  /\ Cardinality(OpenedBy(w)) <= MAX_ATTEMPTS
                      /\ \A pr \in OpenedBy(w) : Cardinality(pr.changes) <= MAX_ATTEMPTS
    BY DEF PrBound
  <2>1. /\ IsFiniteSet(tree[w]) /\ Cardinality(tree[w]) <= 3
        /\ Cardinality(tree[w]) \in Nat
    <3>1. attempt[w] \in 1..3 /\ Cardinality(tree[w]) <= attempt[w] /\ IsFiniteSet(tree[w])
      BY DEF IInv, TypeOK, MAX_ATTEMPTS, FixInv, FixPerAttempt
    <3> QED
      BY <3>1, FS_CardinalityType
  <2>2. \A pr \in OpenedBy(w) : pr.branch \in tree[w] /\ pr.changes \subseteq tree[w]
    BY DEF FixInv, FixPerAttempt
  <2>3. Cardinality(OpenedBy(w)) <= 3
    <3> DEFINE f == [pr \in OpenedBy(w) |-> pr.branch]
    <3>1. f \in [OpenedBy(w) -> tree[w]]
      BY <2>2
    <3>2. ASSUME NEW one \in OpenedBy(w), NEW other \in OpenedBy(w), f[one] = f[other]
          PROVE  one = other
      BY <3>2 DEF BranchInv, OnePrPerBranch, OpenedBy
    <3> HIDE DEF f
    <3>3. f \in Injection(OpenedBy(w), tree[w])
      BY <3>1, <3>2 DEF Injection, IsInjective
    <3>4. IsFiniteSet(OpenedBy(w)) /\ Cardinality(OpenedBy(w)) <= Cardinality(tree[w])
      BY <2>1, <3>3, FS_Injection
    <3>5. Cardinality(OpenedBy(w)) \in Nat
      BY <3>4, FS_CardinalityType
    <3> QED
      BY <2>1, <3>4, <3>5
  <2>4. ASSUME NEW pr \in OpenedBy(w) PROVE Cardinality(pr.changes) <= 3
    <3>1. IsFiniteSet(pr.changes) /\ Cardinality(pr.changes) <= Cardinality(tree[w])
      BY <2>1, <2>2, FS_Subset
    <3>2. Cardinality(pr.changes) \in Nat
      BY <3>1, FS_CardinalityType
    <3> QED
      BY <2>1, <3>1, <3>2
  <2> QED
    BY <2>3, <2>4 DEF MAX_ATTEMPTS
<1> QED
  BY <1>1, FixInvariance, PTL

-----------------------------------------------------------------------------
(* Steps: what a run has left *)

StageRank(stage) ==
  CASE stage = "idle" -> 10
    [] stage = "triage" -> 9
    [] stage = "route" -> 8
    [] stage = "start" -> 7
    [] stage = "work" -> 6
    [] stage \in {"push", "reconcile"} -> 5
    [] stage \in {"open", "comment"} -> 4
    [] stage = "announce" -> 3
    [] OTHER -> 1

\* Scripts left, attempts left, stages left: a bound on the steps to come.
Rank(w) ==
  IF pc[w] \in {"done", "failed", "killed"} THEN 0
  ELSE StageRank(pc[w]) + 8 * (MAX_ATTEMPTS - attempt[w]) + 24 * (2 - step[w])

Ended == {"done", "failed", "killed"}

LEMMA StageRanks ==
  /\ StageRank("idle") = 10 /\ StageRank("triage") = 9 /\ StageRank("route") = 8
  /\ StageRank("start") = 7 /\ StageRank("work") = 6
  /\ StageRank("push") = 5 /\ StageRank("reconcile") = 5
  /\ StageRank("open") = 4 /\ StageRank("comment") = 4
  /\ StageRank("announce") = 3 /\ StageRank("exit0") = 1 /\ StageRank("exit1") = 1
  BY DEF StageRank

LEMMA RankIsSmall ==
  ASSUME TypeOK, NEW w \in Runs
  PROVE  /\ Rank(w) \in 0..50
         /\ pc[w] \notin Ended => 1 <= Rank(w)
<1>1. step[w] \in 1..2 /\ attempt[w] \in 1..3 /\ pc[w] \in Stages
  BY DEF TypeOK, MAX_ATTEMPTS
<1>2. pc[w] \notin Ended => StageRank(pc[w]) \in 1..10
  BY <1>1, StageRanks DEF Stages, Ended
<1> HIDE DEF StageRank
<1>3. CASE pc[w] \in Ended
  BY <1>3 DEF Rank, Ended
<1>4. CASE pc[w] \notin Ended
  <2>1. Rank(w) = StageRank(pc[w]) + 8 * (3 - attempt[w]) + 24 * (2 - step[w])
    BY <1>4 DEF Rank, Ended, MAX_ATTEMPTS
  <2>2. 8 * (3 - attempt[w]) \in 0..16 /\ 24 * (2 - step[w]) \in 0..24
    BY <1>1
  <2> QED
    BY <1>2, <1>4, <2>1, <2>2
<1> QED
  BY <1>3, <1>4

\* Within an attempt the stages go down.
LEMMA NextStage ==
  ASSUME TypeOK, TypeOK', NEW w \in Runs, pc[w] \notin Ended,
         step'[w] = step[w], attempt'[w] = attempt[w],
         pc'[w] \in Ended \/ StageRank(pc'[w]) < StageRank(pc[w])
  PROVE  Rank(w)' < Rank(w)
<1>1. step[w] \in 1..2 /\ attempt[w] \in 1..3 /\ pc[w] \in Stages /\ pc'[w] \in Stages
  BY DEF TypeOK, MAX_ATTEMPTS
<1>2. CASE pc'[w] \in Ended
  <2>1. Rank(w)' = 0
    BY <1>2 DEF Rank, Ended
  <2> QED
    BY <2>1, RankIsSmall
<1>3. CASE pc'[w] \notin Ended
  <2>1. StageRank(pc'[w]) \in 1..10 /\ StageRank(pc[w]) \in 1..10
    BY <1>1, <1>3, StageRanks DEF Stages, Ended
  <2>2. Rank(w) = StageRank(pc[w]) + 8 * (3 - attempt[w]) + 24 * (2 - step[w])
    BY DEF Rank, Ended, MAX_ATTEMPTS
  <2>3. Rank(w)' = StageRank(pc'[w]) + 8 * (3 - attempt[w]) + 24 * (2 - step[w])
    BY <1>3 DEF Rank, Ended, MAX_ATTEMPTS
  <2>4. StageRank(pc'[w]) < StageRank(pc[w])
    BY <1>3
  <2>5. 8 * (3 - attempt[w]) \in 0..16 /\ 24 * (2 - step[w]) \in 0..24
    BY <1>1
  <2> HIDE DEF StageRank
  <2> QED
    BY <2>1, <2>2, <2>3, <2>4, <2>5
<1> QED
  BY <1>2, <1>3

\* Another attempt, or another script, costs more than its stages give back.
LEMMA NextAttempt ==
  ASSUME TypeOK, NEW w \in Runs, Retry(w) \/ NextScript(w)
  PROVE  Rank(w)' < Rank(w)
<1>1. step[w] \in 1..2 /\ attempt[w] \in 1..3 /\ pc'[w] = "start"
  BY DEF TypeOK, MAX_ATTEMPTS, Retry, NextScript
<1>2. StageRank(pc[w]) = 1 /\ StageRank(pc'[w]) = 7 /\ pc[w] \notin Ended
  BY <1>1, StageRanks DEF Retry, NextScript, Ended
<1>3. Rank(w) = 1 + 8 * (3 - attempt[w]) + 24 * (2 - step[w])
  BY <1>2 DEF Rank, Ended, MAX_ATTEMPTS
<1>4. Rank(w)' = 7 + 8 * (3 - attempt'[w]) + 24 * (2 - step'[w])
  BY <1>1, <1>2 DEF Rank, MAX_ATTEMPTS
<1>5. CASE Retry(w)
  <2>1. attempt'[w] = attempt[w] + 1 /\ step'[w] = step[w]
    BY <1>5 DEF TypeOK, Retry
  <2> QED
    BY <1>1, <1>3, <1>4, <2>1
<1>6. CASE NextScript(w)
  <2>1. attempt'[w] = 1 /\ step'[w] = step[w] + 1
    BY <1>6 DEF TypeOK, NextScript
  <2> QED
    BY <1>1, <1>3, <1>4, <2>1
<1> QED
  BY <1>5, <1>6

LEMMA RankStep ==
  ASSUME IInv, NEW w \in Runs, AnyStep(w)
  PROVE  Rank(w)' < Rank(w)
<1>1. TypeOK /\ TypeOK' /\ RunOk(w)
  BY StepKept DEF IInv, AnyStep, Kept
<1>2. CASE Retry(w) \/ NextScript(w)
  BY <1>1, <1>2, NextAttempt
<1>3. CASE ~Retry(w) /\ ~NextScript(w)
  <2>1. CASE Trigger(w) \/ JobStep(w) \/ SetupFails(w) \/ StepTimesOut(w) \/ JobIsKilled(w)
    <3>1. step' = step /\ attempt' = attempt
      BY <1>3, <2>1 DEF Trigger, SetupFails, StepTimesOut, JobIsKilled, JobStep, Triage, Route, Finish,
         GiveUp
    <3>2. pc[w] \notin Ended
      BY <1>3, <2>1 DEF Ended, Trigger, SetupFails, StepTimesOut, JobIsKilled, JobStep, Triage, Route,
         Finish, GiveUp, InScript
    <3>3. \/ pc'[w] \in Ended
          \/ pc[w] = "idle" /\ pc'[w] = "triage"
          \/ pc[w] = "triage" /\ pc'[w] = "route"
          \/ pc[w] = "route" /\ pc'[w] = "start"
      BY <1>1, <1>3, <2>1 DEF TypeOK, Ended, Trigger, SetupFails, StepTimesOut, JobIsKilled, JobStep,
         Triage, Route, Finish, GiveUp
    <3>4. pc'[w] \in Ended \/ StageRank(pc'[w]) < StageRank(pc[w])
      BY <3>3, StageRanks
    <3> QED
      BY <1>1, <3>1, <3>2, <3>4, NextStage
  <2>2. CASE ScriptStep(w)
    <3>1. step' = step /\ attempt' = attempt
      BY <2>2
      DEF ScriptStep, SkipIfNoKey, StartModelScript, RefuseIssue, ModelIsNoHelp,
          ScriptRaises, StartSandbox, Repro, ReproFails, ContainerStaysUp, ProposeFix,
          ProposeNothingNew, Push, PushIsRejected, PushRaises, CreatePr, CreatePrFails,
          CreatePrRaises, Critique, Reconcile, NoReconciliation, DraftAnswer, PostAdvice,
          PostFails, Announce
    <3>2. \/ /\ pc[w] \in {"start", "work", "push", "open", "reconcile", "comment",
                            "announce"}
             /\ pc'[w] \in {"exit0", "exit1"}
          \/ pc[w] = "start" /\ pc'[w] = "work"
          \/ pc[w] = "work" /\ pc'[w] \in {"push", "reconcile", "comment"}
          \/ pc[w] = "push" /\ pc'[w] = "open"
          \/ pc[w] = "reconcile" /\ pc'[w] = "comment"
          \/ pc[w] \in {"open", "comment"} /\ pc'[w] = "announce"
      BY <1>1, <2>2
      DEF TypeOK, ScriptStep, SkipIfNoKey, StartModelScript, RefuseIssue, ModelIsNoHelp,
          ScriptRaises, StartSandbox, Repro, ReproFails, ContainerStaysUp, ProposeFix,
          ProposeNothingNew, Push, PushIsRejected, PushRaises, CreatePr, CreatePrFails,
          CreatePrRaises, Critique, Reconcile, NoReconciliation, DraftAnswer, PostAdvice,
          PostFails, Announce, InModelScript, BailToHuman
    <3>3. pc[w] \notin Ended /\ StageRank(pc'[w]) < StageRank(pc[w])
      BY <3>2, StageRanks DEF Ended
    <3> QED
      BY <1>1, <3>1, <3>3, NextStage
  <2> QED
    BY <2>1, <2>2 DEF AnyStep, RunStep
<1> QED
  BY <1>2, <1>3

(***************************************************************************)
(* Every step of a run brings it nearer to its end, and it has fifty steps *)
(* at most, three attempts at each of two scripts included: no run comes   *)
(* back to where it was, whatever fails and whatever the other runs do     *)
(* (dispatch.py, _run_with_ceiling and main).                              *)
(***************************************************************************)
Progress(w) == /\ AnyStep(w) => Rank(w)' < Rank(w)
               /\ ~AnyStep(w) => Rank(w)' = Rank(w)

THEOREM RunsAreShort ==
  Spec => /\ [](\A w \in Runs : Rank(w) \in 0..50)
          /\ [][\A w \in Runs : Progress(w)]_vars
<1>1. IInv => \A w \in Runs : Rank(w) \in 0..50
  BY RankIsSmall DEF IInv
<1>2. IInv /\ [Next]_vars => [\A w \in Runs : Progress(w)]_vars
  <2> SUFFICES ASSUME IInv, NEW v \in Runs, AnyStep(v), NEW w \in Runs
               PROVE  Progress(w)
    BY DEF Next, AnyStep
  <2>1. AnyStep(w) => Rank(w)' < Rank(w)
    BY RankStep
  <2>2. v # w => Rank(w)' = Rank(w)
    BY AttemptsOfOthers, StepKept DEF Rank, AnyStep, Kept, OnlyRun
  <2> QED
    BY <2>1, <2>2 DEF Progress
<1> QED
  BY <1>1, <1>2, Invariance, PTL DEF Spec
=============================================================================
