--------------------------- MODULE DeliveryPromise ---------------------------
(***************************************************************************)
(* What the operator of a satellite is promised about a submission: the    *)
(* answer is definite, "filed" is said only of what an issue carries, and  *)
(* a queued submission stays in the inbox until an issue carries it.  The  *)
(* two ways out of the promise are named.  The line of an unusable text is *)
(* stuck: kept, but never filed for what it says.  And a line may become   *)
(* exposed to being overwritten, from which only a later issue brings it   *)
(* back.  When the inbox is read, and by whom, is not a matter of this     *)
(* specification: nothing obliges it to settle what is held.               *)
(*                                                                         *)
(* There are no files, passes or network here: InboxReplay implements this.*)
(***************************************************************************)
CONSTANTS Requests,     \* POSTs of the operators' browsers
          Submissions,  \* the ids they carry
          SidOf,        \* the submission of a request
          Declines,     \* submissions that may be turned down
          Unusable      \* submissions whose line cannot be replayed

VARIABLES tracked,  \* submissions whose id some issue carries
          fate      \* what has become of each request

promiseVars == <<tracked, fate>>

Fates == {"open", "declined", "failed", "held", "stuck", "exposed", "filed"}
Queued == {"held", "stuck", "exposed"}

PromiseInit == /\ tracked = {}
               /\ fate = [r \in Requests |-> "open"]

\* What has been queued is settled by an issue, whoever created it.
Settled(r) == fate[r] \in Queued /\ SidOf[r] \in tracked'

\* New issues appear.
File == /\ tracked' \in SUBSET Submissions
        /\ tracked \subseteq tracked' /\ tracked' # tracked
        /\ fate' = [r \in Requests |-> IF Settled(r) THEN "filed" ELSE fate[r]]

Open == {r \in Requests : fate[r] = "open"}

\* An open request is answered, or is seen to fail.
Answer(r, f) ==
  /\ f = "declined" => SidOf[r] \in Declines
  /\ f = "filed" => SidOf[r] \in tracked
  /\ f \in Queued => SidOf[r] \notin tracked
  /\ f = "held" => SidOf[r] \notin Unusable
  /\ f = "stuck" => SidOf[r] \in Unusable
  /\ fate' = [fate EXCEPT ![r] = f]
  /\ UNCHANGED tracked

Kept == {r \in Requests : fate[r] \in {"held", "stuck"}}

\* Queued lines come to be where they can be destroyed.
Expose(R) ==
  /\ fate' = [r \in Requests |-> IF r \in R THEN "exposed" ELSE fate[r]]
  /\ UNCHANGED tracked

PromiseNext == \/ File
               \/ \E r \in Open, f \in Fates \ {"open"} : Answer(r, f)
               \/ \E R \in (SUBSET Kept) \ {{}} : Expose(R)

PromiseSpec == PromiseInit /\ [][PromiseNext]_promiseVars
=============================================================================
