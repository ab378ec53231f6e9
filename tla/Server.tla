-------------------------------- MODULE Server --------------------------------
(***************************************************************************)
(* The requests a server has in progress.                                  *)
(*                                                                         *)
(* A handler runs as a chain of database calls; between two calls any      *)
(* other request may run.  What a handler has read and not yet used is     *)
(* kept in request, and the process may die between two calls (Abandon):   *)
(* an open transaction is rolled back, an autocommitted statement stays.   *)
(* The modules of the desks (Offboarding, Recruitment, ...) extend this.   *)
(***************************************************************************)
CONSTANT Requests    \* requests in progress at the same time

VARIABLE request     \* each request: idle, or its kind and what it has read

Idle == [kind |-> "idle"]

ServerInit == request = [h \in Requests |-> Idle]

Begin(h, r) == request[h] = Idle /\ request' = [request EXCEPT ![h] = r]
Go(h, r)    == request' = [request EXCEPT ![h] = r]
End(h)      == request' = [request EXCEPT ![h] = Idle]

\* A request of this kind is in progress.
Doing(h, kind) == request[h].kind = kind

Abandon(h) == request[h] # Idle /\ End(h)
============================================================================
