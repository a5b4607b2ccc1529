----------------------------- MODULE Dictionary -----------------------------
(***************************************************************************)
(* What the hashtable promises the threads that share it: a dictionary in  *)
(* which add and find happen at one instant between call and return, a key *)
(* keeps the first value added, and a value found stays where it is until  *)
(* the table is freed.                                                     *)
(***************************************************************************)
CONSTANTS Threads, Keys, Values, NULL

VARIABLES
    dict,     \* the value of each key, or NULL
    call,     \* the operation each thread has under way, or NULL
    reply,    \* its result once it has taken effect
    open      \* the table has not been freed

vars == <<dict, call, reply, open>>

Operation == [op : {"add"}, key : Keys] \cup [op : {"find"}, key : Keys]

Init ==
    /\ dict = [k \in Keys |-> NULL]
    /\ call = [t \in Threads |-> NULL] /\ reply = [t \in Threads |-> NULL]
    /\ open = TRUE

Call(t) ==
    /\ open /\ call[t] = NULL
    /\ \E o \in Operation : call' = [call EXCEPT ![t] = o]
    /\ UNCHANGED <<dict, reply, open>>

Answers(t, r) == reply[t] = NULL /\ reply' = [reply EXCEPT ![t] = r]
Asks(t, o) == call[t] # NULL /\ call[t].op = o

Add(t) ==
    /\ Asks(t, "add")
    /\ dict[call[t].key] = NULL
    /\ \E v \in Values : /\ \A k \in Keys : dict[k] # v
                         /\ dict' = [dict EXCEPT ![call[t].key] = v]
    /\ Answers(t, "SUCCESS")
    /\ UNCHANGED <<call, open>>

AddFinds(t) ==
    /\ Asks(t, "add")
    /\ dict[call[t].key] # NULL
    /\ Answers(t, "FOUND")
    /\ UNCHANGED <<dict, call, open>>

(* Only for lack of memory, and only for a key that is not there. *)
AddFails(t) ==
    /\ Asks(t, "add")
    /\ dict[call[t].key] = NULL
    /\ Answers(t, "ERROR")
    /\ UNCHANGED <<dict, call, open>>

Find(t) ==
    /\ Asks(t, "find")
    /\ Answers(t, IF dict[call[t].key] = NULL THEN "NOTHING" ELSE dict[call[t].key])
    /\ UNCHANGED <<dict, call, open>>

Return(t) ==
    /\ reply[t] # NULL
    /\ call' = [call EXCEPT ![t] = NULL] /\ reply' = [reply EXCEPT ![t] = NULL]
    /\ UNCHANGED <<dict, open>>

Free ==
    /\ open /\ \A t \in Threads : call[t] = NULL
    /\ open' = FALSE /\ dict' = [k \in Keys |-> NULL]
    /\ UNCHANGED <<call, reply>>

Next ==
    \/ \E t \in Threads : Call(t) \/ Add(t) \/ AddFinds(t) \/ AddFails(t) \/ Find(t) \/ Return(t)
    \/ Free

Spec == Init /\ [][Next]_vars

=============================================================================
