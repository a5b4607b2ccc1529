------------------------------- MODULE Chains -------------------------------
(***************************************************************************)
(* What a loop over linked nodes visits.  A link is a function from places *)
(* to what each points at; a pointer that leads to no place, NULL, ends    *)
(* the loop.  The nodes are given as a set, without recursion: the least   *)
(* one that has the node the loop begins at and, with a node, the next.    *)
(***************************************************************************)

Closed(link, first, S) ==
    /\ first \in DOMAIN link => first \in S
    /\ \A n \in S : link[n] \in DOMAIN link => link[n] \in S

From(link, first) ==
    {n \in DOMAIN link : \A S \in SUBSET DOMAIN link : Closed(link, first, S) => n \in S}

(* The loop comes to its end: there are no nodes that it could not leave. *)
Ends(link, first) ==
    \A S \in SUBSET From(link, first) : S # {} => \E n \in S : link[n] \notin S

=============================================================================
