-------------------------------- MODULE List --------------------------------
(***************************************************************************)
(* common/list.c: a doubly linked list whose back links point at links.    *)
(* A node's "previous", and the list's "tail", hold the ADDRESS of the     *)
(* pointer that leads to the node (or will lead to the next one).  Such an *)
(* address is either &list->head, written HEAD, or &n->next, written n, so *)
(* link[HEAD] is list->head and link[n] is n->next.                        *)
(*                                                                         *)
(* A node is identified with the datum it carries: no caller puts a datum  *)
(* on a list twice.  The operators are pure; each maps a list to the list  *)
(* the function leaves.  LinkLast, MoveTail, Unlink and FixBack are the    *)
(* single steps of list_push_back and list_remove, for modules in which    *)
(* other threads run between them.                                         *)
(***************************************************************************)
EXTENDS Integers, Sequences, FiniteSets, Chains

CONSTANT Node

HEAD == "HEAD"
NULL == "NULL"

ASSUME NodeAssumption == HEAD \notin Node /\ NULL \notin Node

Location == Node \cup {HEAD}

ListRecord == [link : [Location -> Node \cup {NULL}],
               previous : [Node -> Location \cup {NULL}],
               tail : Location]

list_new == [link |-> [a \in Location |-> NULL],
             previous |-> [n \in Node |-> NULL],
             tail |-> HEAD]

-----------------------------------------------------------------------------
(* Mutants of the operators below, used to validate the properties.        *)

FixBackSkipsSuccessor(l, n) ==
    [l EXCEPT !.link[n] = NULL, !.previous[n] = NULL,
              !.tail = IF @ = n THEN l.previous[n] ELSE @]

FixBackAfterFree(l, n) ==
    [l EXCEPT !.link[n] = NULL, !.previous[n] = NULL,
              !.tail = IF @ = n THEN NULL ELSE @]

PushFrontKeepsTail(l, n) ==
    [link |-> [l.link EXCEPT ![HEAD] = n, ![n] = l.link[HEAD]],
     previous |-> [m \in Node |-> CASE m = n -> HEAD
                                    [] m = l.link[HEAD] -> n
                                    [] OTHER -> l.previous[m]],
     tail |-> l.tail]

-----------------------------------------------------------------------------

(* *list->tail = node; node->previous = list->tail *)
LinkLast(l, n) == [l EXCEPT !.link[l.tail] = n, !.previous[n] = l.tail]

(* list->tail = &node->next *)
MoveTail(l, n) == [l EXCEPT !.tail = n]

list_push_back(l, n) == MoveTail(LinkLast(l, n), n)

list_push_front(l, n) ==
    [link |-> [l.link EXCEPT ![HEAD] = n, ![n] = l.link[HEAD]],
     previous |-> [m \in Node |-> CASE m = n -> HEAD
                                    [] m = l.link[HEAD] -> n
                                    [] OTHER -> l.previous[m]],
     tail |-> IF l.link[HEAD] = NULL THEN n ELSE l.tail]

list_push_before(l, next, n) ==
    IF next = NULL THEN list_push_back(l, n)
    ELSE [l EXCEPT !.link = [@ EXCEPT ![l.previous[next]] = n, ![n] = next],
                   !.previous = [@ EXCEPT ![n] = l.previous[next], ![next] = n]]

(* *node->previous = node->next *)
Unlink(l, n) == [l EXCEPT !.link[l.previous[n]] = l.link[n]]

(* The successor's back link, the tail, and node_free, which clears the node. *)
FixBack(l, n) ==
    [link |-> [l.link EXCEPT ![n] = NULL],
     previous |-> [m \in Node |-> CASE m = n -> NULL
                                    [] m = l.link[n] -> l.previous[n]
                                    [] OTHER -> l.previous[m]],
     tail |-> IF l.tail = n THEN l.previous[n] ELSE l.tail]

list_remove(l, n) == IF n = NULL THEN l ELSE FixBack(Unlink(l, n), n)

list_pop_front(l) == list_remove(l, l.link[HEAD])

-----------------------------------------------------------------------------

(* The node list_foreach visits after k others; NULL past the end. *)
Visit(l) ==
    LET visit[k \in Nat] ==
            IF k = 0 THEN l.link[HEAD]
            ELSE IF visit[k - 1] = NULL THEN NULL ELSE l.link[visit[k - 1]]
    IN visit

(* The places it comes to, as a set, with HEAD and without it. *)
Reached(l) == From(l.link, HEAD)
Members(l) == Reached(l) \ {HEAD}

(* What list_foreach visits, in order. *)
Items(l) == [k \in 1..Cardinality(Members(l)) |-> Visit(l)[k - 1]]

(* The links form one chain from HEAD to the tail, mirrored by the back links. *)
WellLinked(l) ==
    /\ l.link[l.tail] = NULL /\ l.tail \in Reached(l)
    /\ \A a \in Reached(l) : l.link[a] # NULL => l.previous[l.link[a]] = a
    /\ Ends(l.link, HEAD)

(* A list between two calls: WellLinked alone does not keep itself, since  *)
(* list_push_back leaves the next pointer of its node as node_new made it. *)
Good(l) ==
    /\ l \in ListRecord /\ WellLinked(l)
    /\ \A n \in Node \ Members(l) : l.link[n] = NULL

=============================================================================
