------------------------------ MODULE ListSeq -------------------------------
(***************************************************************************)
(* What common/list.h promises: a list is a sequence, to which an element  *)
(* is added at either end or before another, and from which it is taken.   *)
(***************************************************************************)
EXTENDS Integers, SequencesExt

CONSTANT Node

VARIABLE seq

Init == seq = <<>>

On == ToSet(seq)

PushFront(n) == n \notin On /\ seq' = <<n>> \o seq
PushBack(n) == n \notin On /\ seq' = Append(seq, n)
PushBefore(n, next) ==
    /\ n \notin On
    /\ \E i \in DOMAIN seq : seq[i] = next /\ seq' = InsertAt(seq, i, n)
RemoveNode(n) == \E i \in DOMAIN seq : seq[i] = n /\ seq' = RemoveAt(seq, i)
PopFront == seq # <<>> /\ seq' = Tail(seq)

Next ==
    \/ PopFront
    \/ \E n \in Node : \/ PushFront(n) \/ PushBack(n) \/ RemoveNode(n)
                       \/ \E next \in On : PushBefore(n, next)

Spec == Init /\ [][Next]_seq

=============================================================================
