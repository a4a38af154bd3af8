---------------------------- MODULE IssueTracker ----------------------------
(***************************************************************************)
(* The GitHub repository as the dispatcher sees it: issues appear in it    *)
(* through "gh issue create", and a full-text search over issue bodies     *)
(* answers whether a submission id occurs in one.  GitHub is not part of   *)
(* the code base: what is here is only what dispatch.py and idempotency.py *)
(* rely on.                                                                *)
(***************************************************************************)
EXTENDS Naturals

CONSTANTS Submissions,  \* the client-generated submission ids
          Quotes,       \* Quotes[t]: other ids the text of t happens to cite
          IndexLags     \* may the search index trail the issue list?

ASSUME QuotesType == Quotes \in [Submissions -> SUBSET Submissions]
ASSUME IndexLagsType == IndexLags \in BOOLEAN

VARIABLES filed,       \* filed[s]: issues created for submission s
          searchable,  \* submissions with an issue the search index knows
          late         \* late[s]: create requests whose sender gave up waiting

trackerVars == <<filed, searchable, late>>

TrackerTypeOK == /\ filed \in [Submissions -> Nat]
                 /\ searchable \in SUBSET Submissions
                 /\ late \in [Submissions -> Nat]

TrackerInit == /\ filed = [s \in Submissions |-> 0]
               /\ searchable = {}
               /\ late = [s \in Submissions |-> 0]

-----------------------------------------------------------------------------

IsFiled(s) == filed[s] > 0

(***************************************************************************)
(* The rendered body of an issue carries the submission's own id and the   *)
(* operator's text, which may cite other ids.                              *)
(***************************************************************************)
BodyIds(t) == {t} \cup Quotes[t]

\* Mutant: the search is never asked.
NoSearch(s) == {}

(***************************************************************************)
(* The search matches the bare id anywhere in a body.                      *)
(***************************************************************************)
SearchHits(s) == {t \in searchable : s \in BodyIds(t)}

\* Some issue of the repository carries the id s in its body.
Mentioned(s) == \E t \in Submissions : IsFiled(t) /\ s \in BodyIds(t)

(***************************************************************************)
(* An issue for s appears, and is searchable at once unless the index lags.*)
(***************************************************************************)
AddIssue(s) ==
  /\ filed' = [filed EXCEPT ![s] = @ + 1]
  /\ searchable' = IF IndexLags THEN searchable ELSE searchable \cup {s}

\* A request nobody waits for any more reaches the tracker after all.
LateCreateLands(s) ==
  /\ late[s] > 0
  /\ late' = [late EXCEPT ![s] = @ - 1]
  /\ AddIssue(s)

\* The index takes up an issue it did not know.
IndexCatchesUp(s) ==
  /\ IndexLags
  /\ IsFiled(s)
  /\ s \notin searchable
  /\ searchable' = searchable \cup {s}
  /\ UNCHANGED <<filed, late>>

TrackerNext == \E s \in Submissions : LateCreateLands(s) \/ IndexCatchesUp(s)

=============================================================================
