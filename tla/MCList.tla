------------------------------- MODULE MCList -------------------------------
(***************************************************************************)
(* A list under every sequence of the operations of common/list.h, each    *)
(* called as its users call it: a node is pushed when it is off the list   *)
(* and removed when it is on it.                                           *)
(***************************************************************************)
EXTENDS List

VARIABLE list

Init == list = list_new

On == Members(list)

PushFront(n) == n \notin On /\ list' = list_push_front(list, n)
PushBack(n) == n \notin On /\ list' = list_push_back(list, n)
PushBefore(n, next) == n \notin On /\ list' = list_push_before(list, next, n)
RemoveNode(n) == n \in On /\ list' = list_remove(list, n)
PopFront == list' = list_pop_front(list)

Next ==
    \/ PopFront
    \/ \E n \in Node : \/ PushFront(n) \/ PushBack(n) \/ RemoveNode(n)
                       \/ \E next \in On \cup {NULL} : PushBefore(n, next)

Spec == Init /\ [][Next]_list

(* list.h:16-19: after any sequence of calls the links, the back links and *)
(* the tail agree, so that the next call finds the node before and the end.*)
ListWellLinked == list \in ListRecord /\ WellLinked(list)

(* list.h:43-62: seen through list_foreach, every operation does what the  *)
(* same operation on a sequence does.                                      *)
Sequence == INSTANCE ListSeq WITH seq <- Items(list)
IsSequence == Sequence!Spec

=============================================================================
