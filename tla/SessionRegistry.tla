-------------------------- MODULE SessionRegistry ---------------------------
(***************************************************************************)
(* What http_service.c promises about sessions, with no threads, no lock   *)
(* and no pointers: a set of registered sessions.  A session is created,   *)
(* then registered; while the service is open it is taken off the registry *)
(* before it is freed.  Closing the service needs every live session to be *)
(* registered, and from then on sessions are freed in place.  A session is *)
(* freed once.                                                             *)
(***************************************************************************)
CONSTANT Sessions

VARIABLES life, members, open

vars == <<life, members, open>>

Init ==
    /\ life = [s \in Sessions |-> "none"]
    /\ members = {}
    /\ open = TRUE

Create(s) ==
    /\ open /\ life[s] = "none"
    /\ life' = [life EXCEPT ![s] = "live"]
    /\ UNCHANGED <<members, open>>

Register(s) ==
    /\ open /\ life[s] = "live" /\ s \notin members
    /\ members' = members \cup {s}
    /\ UNCHANGED <<life, open>>

Unregister(s) ==
    /\ open /\ s \in members
    /\ members' = members \ {s}
    /\ UNCHANGED <<life, open>>

Free(s) ==
    /\ life[s] = "live"
    /\ open => s \notin members
    /\ life' = [life EXCEPT ![s] = "freed"]
    /\ UNCHANGED <<members, open>>

Close ==
    /\ open /\ \A s \in Sessions : life[s] = "live" <=> s \in members
    /\ open' = FALSE
    /\ UNCHANGED <<life, members>>

(* list_free, once no registered session is left alive. *)
Dispose ==
    /\ ~open /\ \A s \in Sessions : life[s] # "live"
    /\ members' = {}
    /\ UNCHANGED <<life, open>>

Next ==
    \/ Close
    \/ Dispose
    \/ \E s \in Sessions : Create(s) \/ Register(s) \/ Unregister(s) \/ Free(s)

Spec == Init /\ [][Next]_vars

=============================================================================
