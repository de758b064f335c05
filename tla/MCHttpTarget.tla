------------------------------ MODULE MCHttpTarget ------------------------------
(***************************************************************************)
(* HttpTarget with two cases, runs that park up to twice, one run of       *)
(* another client and one restart of the server.                           *)
(***************************************************************************)
EXTENDS HttpTarget

MCCosts == {1}
=============================================================================
