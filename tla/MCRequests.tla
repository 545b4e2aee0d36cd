------------------------------ MODULE MCRequests ------------------------------
(* Dispatch for TLC, over all routes. *)
EXTENDS Dispatch, Api

Roles == {"CUSTOMER", "AGENT", "ADMIN"}
=============================================================================
