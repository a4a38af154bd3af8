---------------------------- MODULE MCInboxReplay ----------------------------
(***************************************************************************)
(* Small instances of InboxReplay.  s1 and s2 are ordinary submissions, sc *)
(* holds a credential only the sanitizer sees, sr one the router rejects,  *)
(* sn a NUL character, ss a line separator, so outgrows its limit.         *)
(***************************************************************************)
EXTENDS InboxReplay, TLC

CONSTANTS r1, r2, r3, r4, r5, r6, l1, p1, p2, s1, s2, sc, sr, sn, ss, so

NoQuotes == [s \in Submissions |-> {}]

\* The text of s2 cites the id of s1.
S2QuotesS1 == [s \in Submissions |-> IF s = s2 THEN {s1} ELSE {}]

\* r3 is the browser's retry of r1.
RetrySids == [l \in Requests \cup Legacy |-> (r1 :> s1 @@ r2 :> s2 @@ r3 :> s1)[l]]

\* The two deliveries are of one text, and one pass is like another.
RetrySymmetry == Permutations(Requests) \cup Permutations(Replays)

\* Each line carries its own kind of text.
TextSids == [l \in Requests \cup Legacy |->
               (r1 :> sc @@ r2 :> sr @@ r3 :> sn @@ r4 :> s1 @@ r5 :> ss @@ r6 :> so
                @@ l1 :> sc)[l]]
=============================================================================
