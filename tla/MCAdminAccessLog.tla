--------------------------- MODULE MCAdminAccessLog ---------------------------
(***************************************************************************)
(* A small instance of AdminAccessLog: the process p2 writes into a log of *)
(* two rows that p1 serves; two entries at the same instant, one at an     *)
(* exact second, one of another tenant; an admin who walks page by page    *)
(* and a user who claims to be one in the development header.              *)
(***************************************************************************)
EXTENDS AdminAccessLog, TLC

CONSTANTS p1, p2, t2, e1, e2, e3, e4, ann, eve, lab, pilot

MCProcessOf == t2 :> p2
MCTsOf == e1 :> 2 @@ e2 :> 3 @@ e3 :> 3 @@ e4 :> 4
MCCidOf == e1 :> 1 @@ e2 :> 2 @@ e3 :> 3 @@ e4 :> 4
MCTenantOf == e1 :> pilot @@ e2 :> pilot @@ e3 :> pilot @@ e4 :> lab
MCGateSays == ann :> "none" @@ eve :> "user"
MCPrincipalOf == ann :> ann @@ eve :> eve
MCScope == ann :> pilot @@ eve :> lab
MCAsks == {[since |-> NoBound, until |-> NoBound], [since |-> 1, until |-> 5]}
=============================================================================
