--------------------------- MODULE MCAgentDispatch ---------------------------
(***************************************************************************)
(* Small instances of AgentDispatch: two runs on one issue, two fixes that *)
(* may be proposed.                                                        *)
(***************************************************************************)
EXTENDS AgentDispatch, TLC

CONSTANTS w1, w2, fixA, fixB

Issue(kind, risky, unsupported, wellFormed, hasBody) ==
  [kind |-> kind, risky |-> risky, unsupported |-> unsupported,
   wellFormed |-> wellFormed, hasBody |-> hasBody]

\* One issue for each way through the classifier and the scripts' own checks.
AllIssues ==
  {Issue("bug", FALSE, FALSE, TRUE, TRUE), Issue("bug", TRUE, FALSE, TRUE, TRUE),
   Issue("bug", FALSE, TRUE, TRUE, TRUE), Issue("bug", FALSE, FALSE, FALSE, TRUE),
   Issue("suggestion", FALSE, FALSE, TRUE, TRUE), Issue("question", TRUE, FALSE, TRUE, TRUE),
   Issue("none", FALSE, FALSE, FALSE, TRUE), Issue("none", FALSE, FALSE, FALSE, FALSE)}

FullSetup == [codex |-> TRUE, anthropic |-> TRUE, sandbox |-> TRUE, mayPush |-> TRUE]

\* Everything granted, the template as it is shipped, one key and no key.
AllSetups ==
  {FullSetup, [FullSetup EXCEPT !.sandbox = FALSE, !.mayPush = FALSE],
   [FullSetup EXCEPT !.codex = FALSE],
   [FullSetup EXCEPT !.codex = FALSE, !.anthropic = FALSE]}

Symmetric == Permutations(Runs)
=============================================================================
