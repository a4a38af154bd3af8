--------------------------- MODULE MCAccessLogStore ---------------------------
(***************************************************************************)
(* A small instance of AccessLogStore: two processes, one of them with two *)
(* threads; entries of three seconds, one at an exact second and two at    *)
(* the same instant; a log of two rows in a file that outgrows its size    *)
(* only when writers overlap or a -wal file is left behind.                *)
(***************************************************************************)
EXTENDS AccessLogStore, TLC

CONSTANTS p1, p2, t1, t2, t3, e1, e2, e3, e4, e5, pilot

MCProcessOf == [t \in Thread |-> IF t = t3 THEN p2 ELSE p1]
MCTsOf == e1 :> 1 @@ e2 :> 2 @@ e3 :> 3 @@ e4 :> 3 @@ e5 :> 5
MCCidOf == e1 :> 1 @@ e2 :> 2 @@ e3 :> 3 @@ e4 :> 4 @@ e5 :> 5
MCTenantOf == [e \in Entry |-> pilot]
=============================================================================
