---------------------------- MODULE MCHttpLogging ----------------------------
(***************************************************************************)
(* A small instance of HttpLogging: a queue of two places, as many         *)
(* requests as fill it and overflow it, and one crash of a drain task.     *)
(***************************************************************************)
EXTENDS HttpLogging, TLC

CONSTANTS q1, q2, q3, q4
=============================================================================
