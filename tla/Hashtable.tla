----------------------------- MODULE Hashtable ------------------------------
(***************************************************************************)
(* The chained hashtable (hashtable.c, ../common/slist.c) that threads     *)
(* share under a read-write lock (pthread_rwlock.c), from the first call   *)
(* to hashtable_free.  A step is one access to shared memory, so that      *)
(* readers would meet a half made change if the lock let them.             *)
(*                                                                         *)
(* Nodes are named, and a node stands for the value it holds as well: each *)
(* call of hashtable_add brings a value of its own.                        *)
(***************************************************************************)
EXTENDS Integers, Chains

CONSTANTS
    Threads, Keys, Buckets,
    Hash,        \* the bucket of each key
    Nodes,       \* bound: the nodes that can be allocated
    MaxCount,    \* bound: the highest number of collisions told apart
    NULL

ASSUME HashtableAssumption ==
    /\ Hash \in [Keys -> Buckets]
    /\ MaxCount \in Nat
    /\ NULL \notin Nodes \cup Threads \cup Keys \cup {"SUCCESS", "FOUND", "ERROR", "NOTHING"}
    /\ NULL \notin [op : {"add", "find"}, key : Keys]

VARIABLES
    head,         \* the first node of each bucket
    next,         \* the link of each node
    key,          \* the key of each node's value; NULL if not allocated
    collisions,
    writer,       \* who holds the lock for writing
    readers,      \* who holds it for reading
    at,           \* where each thread is
    arg,          \* the operation it has called, and its key
    cursor,       \* the node its loop is at, or the one it links
    result,       \* what the operation will return
    freed         \* how often value_free has been called on each value

tableVars == <<head, next, key, collisions>>
lockVars == <<writer, readers>>
vars == <<head, next, key, collisions, writer, readers, at, arg, cursor, result, freed>>

(* hashtable_new *)
Init ==
    /\ head = [b \in Buckets |-> NULL]
    /\ next = [n \in Nodes |-> NULL] /\ key = [n \in Nodes |-> NULL]
    /\ collisions = 0
    /\ writer = NULL /\ readers = {}
    /\ at = [t \in Threads |-> "idle"] /\ arg = [t \in Threads |-> NULL]
    /\ cursor = [t \in Threads |-> NULL] /\ result = [t \in Threads |-> NULL]
    /\ freed = [n \in Nodes |-> 0]

(* _hashtable_get_bucket *)
Bucket(t) == Hash[arg[t].key]

Move(t, from, to) == at[t] = from /\ at' = [at EXCEPT ![t] = to]
Open == \A t \in Threads : at[t] # "freeing" /\ at[t] # "over"

Calls(t) ==
    /\ Open /\ Move(t, "idle", "lock")
    /\ \E o \in {"add", "find"}, k \in Keys :
          arg' = [arg EXCEPT ![t] = [op |-> o, key |-> k]]
    /\ UNCHANGED <<tableVars, lockVars, cursor, result, freed>>

(* Mutant: hashtable_add locks for reading. *)
AddLocksShared(t) ==
    /\ arg[t] # NULL /\ arg[t].op = "add"
    /\ writer = NULL
    /\ readers' = readers \cup {t}
    /\ Move(t, "lock", "count")
    /\ UNCHANGED <<tableVars, writer, arg, cursor, result, freed>>

rwlock_wrlock(t) ==
    /\ arg[t] # NULL /\ arg[t].op = "add"
    /\ writer = NULL /\ readers = {}
    /\ writer' = t
    /\ Move(t, "lock", "count")
    /\ UNCHANGED <<tableVars, readers, arg, cursor, result, freed>>

rwlock_rdlock(t) ==
    /\ arg[t] # NULL /\ arg[t].op = "find"
    /\ writer = NULL
    /\ readers' = readers \cup {t}
    /\ Move(t, "lock", "search")
    /\ cursor' = [cursor EXCEPT ![t] = head[Bucket(t)]]
    /\ UNCHANGED <<tableVars, writer, arg, result, freed>>

Count == IF collisions < MaxCount THEN collisions + 1 ELSE collisions

AddCounts(t) ==
    /\ Move(t, "count", "search")
    /\ collisions' = IF head[Bucket(t)] # NULL THEN Count ELSE collisions
    /\ cursor' = [cursor EXCEPT ![t] = head[Bucket(t)]]
    /\ UNCHANGED <<head, next, key, lockVars, arg, result, freed>>

(* _hashtable_find goes to the next node. *)
SearchGoesOn(t) ==
    /\ at[t] = "search" /\ cursor[t] # NULL
    /\ key[cursor[t]] # arg[t].key
    /\ cursor' = [cursor EXCEPT ![t] = next[cursor[t]]]
    /\ UNCHANGED <<tableVars, lockVars, at, arg, result, freed>>

SearchFinds(t) ==
    /\ Move(t, "search", "unlock") /\ cursor[t] # NULL
    /\ key[cursor[t]] = arg[t].key
    /\ result' = [result EXCEPT ![t] = IF arg[t].op = "add" THEN "FOUND" ELSE cursor[t]]
    /\ UNCHANGED <<tableVars, lockVars, arg, cursor, freed>>

FindFindsNothing(t) ==
    /\ Move(t, "search", "unlock") /\ cursor[t] = NULL
    /\ arg[t].op = "find"
    /\ result' = [result EXCEPT ![t] = "NOTHING"]
    /\ UNCHANGED <<tableVars, lockVars, arg, cursor, freed>>

(* slist_push_front: snode_new, the node's fields, the head. *)
PushFails(t) ==
    /\ Move(t, "search", "unlock") /\ cursor[t] = NULL
    /\ arg[t].op = "add"
    /\ result' = [result EXCEPT ![t] = "ERROR"]
    /\ UNCHANGED <<tableVars, lockVars, arg, cursor, freed>>

PushMakesNode(t) ==
    /\ Move(t, "search", "push") /\ cursor[t] = NULL
    /\ arg[t].op = "add"
    /\ \E n \in Nodes :
          /\ key[n] = NULL /\ freed[n] = 0
          /\ key' = [key EXCEPT ![n] = arg[t].key]
          /\ next' = [next EXCEPT ![n] = head[Bucket(t)]]
          /\ cursor' = [cursor EXCEPT ![t] = n]
    /\ UNCHANGED <<head, collisions, lockVars, arg, result, freed>>

(* Mutant: the new node is the only one of its bucket. *)
PushDropsRest(t) ==
    /\ Move(t, "push", "unlock")
    /\ head' = [head EXCEPT ![Bucket(t)] = cursor[t]]
    /\ next' = [next EXCEPT ![cursor[t]] = NULL]
    /\ result' = [result EXCEPT ![t] = "SUCCESS"]
    /\ UNCHANGED <<key, collisions, lockVars, arg, cursor, freed>>

PushMovesHead(t) ==
    /\ Move(t, "push", "unlock")
    /\ head' = [head EXCEPT ![Bucket(t)] = cursor[t]]
    /\ result' = [result EXCEPT ![t] = "SUCCESS"]
    /\ UNCHANGED <<next, key, collisions, lockVars, arg, cursor, freed>>

(* Mutant: an add that finds its key returns with the lock. *)
LockKept(t) ==
    /\ Move(t, "unlock", "idle")
    /\ \/ result[t] = "FOUND" /\ UNCHANGED lockVars
       \/ /\ result[t] # "FOUND" /\ readers' = readers \ {t}
          /\ writer' = IF writer = t THEN NULL ELSE writer
    /\ arg' = [arg EXCEPT ![t] = NULL]
    /\ cursor' = [cursor EXCEPT ![t] = NULL] /\ result' = [result EXCEPT ![t] = NULL]
    /\ UNCHANGED <<tableVars, freed>>

rwlock_unlock(t) ==
    /\ Move(t, "unlock", "idle")
    /\ writer' = IF writer = t THEN NULL ELSE writer
    /\ readers' = readers \ {t}
    /\ arg' = [arg EXCEPT ![t] = NULL]
    /\ cursor' = [cursor EXCEPT ![t] = NULL] /\ result' = [result EXCEPT ![t] = NULL]
    /\ UNCHANGED <<tableVars, freed>>

(* hashtable_free, by one thread when no other uses the table. *)
FreeBegins(t) ==
    /\ Open /\ \A u \in Threads : at[u] = "idle"
    /\ Move(t, "idle", "freeing")
    /\ UNCHANGED <<tableVars, lockVars, arg, cursor, result, freed>>

(* slist_pop_front and value_free; no property tells the order of buckets. *)
slist_pop_front(t) ==
    /\ at[t] = "freeing"
    /\ \E b \in Buckets :
          /\ head[b] # NULL
          /\ head' = [head EXCEPT ![b] = next[head[b]]]
          /\ key' = [key EXCEPT ![head[b]] = NULL]
          /\ freed' = [freed EXCEPT ![head[b]] = @ + 1]
    /\ UNCHANGED <<next, collisions, lockVars, at, arg, cursor, result>>

FreeEnds(t) ==
    /\ Move(t, "freeing", "over")
    /\ \A b \in Buckets : head[b] = NULL
    /\ UNCHANGED <<tableVars, lockVars, arg, cursor, result, freed>>

Works(t) ==
    \/ AddCounts(t) \/ SearchGoesOn(t) \/ SearchFinds(t) \/ FindFindsNothing(t)
    \/ PushFails(t) \/ PushMakesNode(t) \/ PushMovesHead(t) \/ rwlock_unlock(t)

Next ==
    \E t \in Threads :
        \/ Calls(t) \/ rwlock_wrlock(t) \/ rwlock_rdlock(t) \/ Works(t)
        \/ FreeBegins(t) \/ slist_pop_front(t) \/ FreeEnds(t)

Spec == Init /\ [][Next]_vars

(* Threads do not stop inside an operation, and a writer that unlocks lets *)
(* in the readers that wait; a writer may wait for ever while new readers  *)
(* keep coming.                                                            *)
Fairness == \A t \in Threads : WF_vars(Works(t)) /\ SF_vars(rwlock_rdlock(t))

FairSpec == Spec /\ Fairness

-----------------------------------------------------------------------------
(* Properties.                                                             *)

(* What slist_foreach visits in a bucket. *)
Chain(b) == From(next, head[b])
Stored == UNION {Chain(b) : b \in Buckets}
ValueOf(k) == IF \E n \in Chain(Hash[k]) : key[n] = k
              THEN CHOOSE n \in Chain(Hash[k]) : key[n] = k ELSE NULL

TypeOK ==
    /\ head \in [Buckets -> Nodes \cup {NULL}] /\ next \in [Nodes -> Nodes \cup {NULL}]
    /\ key \in [Nodes -> Keys \cup {NULL}] /\ collisions \in 0..MaxCount
    /\ writer \in Threads \cup {NULL} /\ readers \subseteq Threads
    /\ at \in [Threads -> {"idle", "lock", "count", "search", "push", "unlock", "freeing", "over"}]
    /\ arg \in [Threads -> [op : {"add", "find"}, key : Keys] \cup {NULL}]
    /\ cursor \in [Threads -> Nodes \cup {NULL}]
    /\ result \in [Threads -> Nodes \cup {"SUCCESS", "FOUND", "ERROR", "NOTHING", NULL}]
    /\ freed \in [Nodes -> 0..1]

(* pthread_rwlock.c:31-59: an add is alone with the table; whoever is      *)
(* inside an operation holds the lock in the way the operation takes it.   *)
Inside(t) == at[t] \in {"count", "search", "push", "unlock"}
Exclusion ==
    \A t \in Threads : Inside(t) =>
        IF arg[t].op = "add" THEN writer = t /\ \A u \in Threads \ {t} : ~Inside(u)
        ELSE t \in readers

(* hashtable.c:111: a key has one value however adds of it interleave, in  *)
(* the bucket of its hash, and no chain loops or runs into a freed node.   *)
OneValue ==
    /\ TypeOK
    /\ \A b \in Buckets : /\ Ends(next, head[b])
                          /\ \A n \in Chain(b) : key[n] # NULL /\ Hash[key[n]] = b
    /\ \A m, n \in Stored : key[m] = key[n] => m = n

(* hashtable.c:134-137: a reader may use the value it has found after it   *)
(* has unlocked: until hashtable_free no step takes a value from its key.  *)
FoundStays == [][\A n \in Stored : Open' => n \in Stored' /\ key'[n] = key[n]]_vars

(* hashtable.c:60: when the table has been freed each value added has been *)
(* given to value_free once.                                               *)
ValuesFreed ==
    (\E t \in Threads : at[t] = "over") => \A n \in Nodes : key[n] = NULL /\ Stored = {}

(* hashtable.c:125: a find returns, however many adds there are. *)
FindReturns ==
    \A t \in Threads : (arg[t] # NULL /\ arg[t].op = "find") ~> at[t] = "idle"

(* A find takes effect with its result; an add when it finds the key, has  *)
(* no memory or moves the head.                                            *)
Stores == [k \in Keys |-> IF Open THEN ValueOf(k) ELSE NULL]
Dict == INSTANCE Dictionary
        WITH Values <- Nodes, dict <- Stores, call <- arg, reply <- result, open <- Open

ImplementsDictionary == Dict!Spec

=============================================================================
