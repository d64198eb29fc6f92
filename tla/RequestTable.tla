---------------------------- MODULE RequestTable ----------------------------
(***************************************************************************)
(* The requests that a component has in flight.  The server is one Node.js *)
(* process: a route handler runs alone up to its next await, and req keeps *)
(* for each handler where it waits and what it carries on with.            *)
(***************************************************************************)
CONSTANT
    Reqs   \* requests that may be in flight together

VARIABLE
    req    \* the handlers in flight

Idle == [pc |-> "idle"]
Become(r, h) == req' = [req EXCEPT ![r] = h]
=============================================================================
