-------------------------- MODULE HashtableProofs ---------------------------
(***************************************************************************)
(* That an add is alone with the table, that the table holds one value of  *)
(* each key and frees each, and that its operations are those of a         *)
(* dictionary, for every set of threads, keys, buckets and nodes.          *)
(*                                                                         *)
(* Exclusion is not inductive: that an add which takes the lock finds no   *)
(* other thread inside needs to know that whoever is inside is the writer  *)
(* or among the readers, and that a writer and readers exclude each other. *)
(*                                                                         *)
(* Nor is OneValue: an add brings its value when its search has come to    *)
(* the end of a chain, so TableInv says of each thread inside what the     *)
(* chain is from its cursor on and that no node before it has the key, and *)
(* of a node not linked yet that no chain reaches it.  Nothing is counted: *)
(* a chain is the least set closed under the link (Chains).                *)
(***************************************************************************)
EXTENDS Hashtable, TLAPS

-----------------------------------------------------------------------------
(* What ListProofs says of chains.  Its lemmas on them do not speak of the *)
(* nodes of a list, so any set of nodes does.                              *)

Lists == INSTANCE ListProofs WITH Node <- {}, list <- NULL

LEMMA ListChains ==
    ASSUME NEW link, NEW first
    PROVE  /\ Lists!From(link, first) = From(link, first)
           /\ \A S : Lists!Closed(link, first, S) <=> Closed(link, first, S)
           /\ Lists!Ends(link, first) <=> Ends(link, first)
  <1>1. \A a, S : Lists!Closed(link, a, S) <=> Closed(link, a, S)
    BY DEF Closed, Lists!Closed
  <1>2. \A a : Lists!From(link, a) = From(link, a)
    BY <1>1 DEF From, Lists!From
  <1> QED
    BY <1>1, <1>2 DEF Ends, Lists!Ends

LEMMA NoNodes == Lists!HEAD \notin {} /\ Lists!NULL \notin {}
  OBVIOUS

LEMMA FromIsClosed ==
    ASSUME NEW link, NEW first
    PROVE  From(link, first) \in SUBSET DOMAIN link /\ Closed(link, first, From(link, first))
  BY NoNodes, ListChains, Lists!FromIsClosed

LEMMA FromIsLeast ==
    ASSUME NEW link, NEW first, NEW S \in SUBSET DOMAIN link, Closed(link, first, S)
    PROVE  From(link, first) \subseteq S
  BY NoNodes, ListChains, Lists!FromIsLeast

LEMMA FromNull ==
    ASSUME NEW link, NEW first, first \notin DOMAIN link
    PROVE  From(link, first) = {}
  BY NoNodes, ListChains, Lists!FromNull

LEMMA FromStep ==
    ASSUME NEW link, NEW first \in DOMAIN link
    PROVE  From(link, first) = {first} \cup From(link, link[first])
  BY NoNodes, ListChains, Lists!FromStep

LEMMA FromFrame ==
    ASSUME NEW link, NEW new, NEW first, DOMAIN new = DOMAIN link,
           \A n \in From(link, first) : new[n] = link[n]
    PROVE  From(new, first) = From(link, first)
  BY NoNodes, ListChains, Lists!FromFrame

LEMMA EndsFrame ==
    ASSUME NEW link, NEW new, NEW first, DOMAIN new = DOMAIN link,
           \A n \in From(link, first) : new[n] = link[n], Ends(link, first)
    PROVE  Ends(new, first)
  BY FromFrame DEF Ends

-----------------------------------------------------------------------------

Step == {"idle", "lock", "count", "search", "push", "unlock", "freeing", "over"}

(* What the lock's variables say of each thread inside an operation. *)
HoldsAsCalled(t) ==
    Inside(t) => /\ arg[t] # NULL
                 /\ IF arg[t].op = "add" THEN writer = t /\ readers = {}
                    ELSE t \in readers

LockInv ==
    /\ at \in [Threads -> Step] /\ DOMAIN arg = Threads
    /\ writer \in Threads \cup {NULL}
    /\ \A t \in Threads : HoldsAsCalled(t)

(* A step of t that goes from inside to inside, or from outside to outside,*)
(* and leaves the lock and the arguments alone.                            *)
LEMMA StaysWhereItIs ==
    ASSUME LockInv, NEW t \in Threads, NEW to \in Step,
           at' = [at EXCEPT ![t] = to] \/ at' = at,
           to \in {"count", "search", "push", "unlock"} => Inside(t),
           UNCHANGED <<lockVars, arg>>
    PROVE  LockInv'
  BY DEF LockInv, HoldsAsCalled, Inside, Step, lockVars

LEMMA LockInit == Init => LockInv
  BY DEF Init, LockInv, HoldsAsCalled, Inside, Step

LEMMA CallsLock ==
    ASSUME LockInv, NEW t \in Threads, Calls(t)
    PROVE  LockInv'
  <1>1. at[t] = "idle" /\ at' = [at EXCEPT ![t] = "lock"]
    BY DEF Calls, Move
  <1>2. /\ UNCHANGED lockVars
        /\ \E a : arg' = [arg EXCEPT ![t] = a]
    BY DEF Calls
  <1> QED
    BY <1>1, <1>2 DEF LockInv, HoldsAsCalled, Inside, Step, lockVars

(* pthread_rwlock.c: the lock for writing, with nobody inside. *)
LEMMA WriteLock ==
    ASSUME LockInv, NEW t \in Threads, rwlock_wrlock(t)
    PROVE  LockInv'
  <1>1. \A u \in Threads : ~Inside(u)
    BY HashtableAssumption DEF LockInv, HoldsAsCalled, rwlock_wrlock
  <1> QED
    BY <1>1 DEF LockInv, HoldsAsCalled, Inside, Step, rwlock_wrlock, Move

(* The lock for reading, with no writer inside. *)
LEMMA ReadLock ==
    ASSUME LockInv, NEW t \in Threads, rwlock_rdlock(t)
    PROVE  LockInv'
  <1>1. \A u \in Threads : Inside(u) => arg[u].op # "add"
    BY HashtableAssumption DEF LockInv, HoldsAsCalled, rwlock_rdlock
  <1> QED
    BY <1>1 DEF LockInv, HoldsAsCalled, Inside, Step, rwlock_rdlock, Move

(* Whoever unlocks leaves the others' hold on the lock as it is. *)
LEMMA Unlock ==
    ASSUME LockInv, NEW t \in Threads, rwlock_unlock(t)
    PROVE  LockInv'
  <1>1. /\ at[t] = "unlock" /\ at' = [at EXCEPT ![t] = "idle"]
        /\ arg' = [arg EXCEPT ![t] = NULL]
        /\ writer' = IF writer = t THEN NULL ELSE writer
        /\ readers' = readers \ {t}
    BY DEF rwlock_unlock, Move
  <1>2. ASSUME NEW u \in Threads, Inside(u)'
        PROVE  u # t /\ Inside(u) /\ arg'[u] = arg[u]
    BY <1>1, <1>2 DEF LockInv, Inside, Step
  <1>3. \A u \in Threads : HoldsAsCalled(u)'
    BY <1>1, <1>2 DEF LockInv, HoldsAsCalled
  <1> QED
    BY <1>1, <1>3 DEF LockInv, Step

LEMMA LockNext == LockInv /\ [Next]_vars => LockInv'
  <1> SUFFICES ASSUME LockInv, [Next]_vars PROVE LockInv'
    OBVIOUS
  <1>1. CASE UNCHANGED vars
    BY <1>1 DEF LockInv, HoldsAsCalled, Inside, vars
  <1>2. ASSUME NEW t \in Threads, Calls(t) PROVE LockInv'
    BY <1>2, CallsLock
  <1>3. ASSUME NEW t \in Threads, rwlock_wrlock(t) PROVE LockInv'
    BY <1>3, WriteLock
  <1>4. ASSUME NEW t \in Threads, rwlock_rdlock(t) PROVE LockInv'
    BY <1>4, ReadLock
  <1>5. ASSUME NEW t \in Threads, Works(t) PROVE LockInv'
    <2>1. CASE AddCounts(t)
      BY <2>1, StaysWhereItIs, "search" \in Step DEF AddCounts, Move, Inside, Step
    <2>2. CASE SearchGoesOn(t)
      BY <2>2, StaysWhereItIs, "idle" \in Step DEF SearchGoesOn, Step
    <2>3. CASE SearchFinds(t)
      BY <2>3, StaysWhereItIs DEF SearchFinds, Move, Inside, Step
    <2>4. CASE FindFindsNothing(t)
      BY <2>4, StaysWhereItIs DEF FindFindsNothing, Move, Inside, Step
    <2>5. CASE PushFails(t)
      BY <2>5, StaysWhereItIs DEF PushFails, Move, Inside, Step
    <2>6. CASE PushMakesNode(t)
      BY <2>6, StaysWhereItIs DEF PushMakesNode, Move, Inside, Step
    <2>7. CASE PushMovesHead(t)
      BY <2>7, StaysWhereItIs DEF PushMovesHead, Move, Inside, Step
    <2>8. CASE rwlock_unlock(t)
      BY <2>8, Unlock
    <2> QED
      BY <1>5, <2>1, <2>2, <2>3, <2>4, <2>5, <2>6, <2>7, <2>8 DEF Works
  <1>6. ASSUME NEW t \in Threads, FreeBegins(t) \/ slist_pop_front(t) \/ FreeEnds(t)
        PROVE  LockInv'
    <2>1. CASE FreeBegins(t)
      BY <2>1, StaysWhereItIs DEF FreeBegins, Move, Step
    <2>2. CASE slist_pop_front(t)
      BY <2>2, StaysWhereItIs DEF slist_pop_front, Step
    <2>3. CASE FreeEnds(t)
      BY <2>3, StaysWhereItIs DEF FreeEnds, Move, Step
    <2> QED
      BY <1>6, <2>1, <2>2, <2>3
  <1> QED
    BY <1>1, <1>2, <1>3, <1>4, <1>5, <1>6 DEF Next

LEMMA LockExcludes == LockInv => Exclusion
  BY DEF LockInv, HoldsAsCalled, Exclusion

(* pthread_rwlock.c:31-59, hashtable.c:107, 131: an add is alone with the  *)
(* table, and a find shares it with finds only.                            *)
THEOREM AddIsAlone == Spec => []Exclusion
  <1>1. Spec => []LockInv
    BY LockInit, LockNext, PTL DEF Spec
  <1> QED
    BY <1>1, LockExcludes, PTL

-----------------------------------------------------------------------------
(* The chains.                                                             *)

(* A stored node is in the bucket of its key, and every chain ends. *)
Placed ==
    \A b \in Buckets : /\ Ends(next, head[b])
                       /\ \A n \in Chain(b) : key[n] # NULL /\ Hash[key[n]] = b

(* No two links lead to one node. *)
Linked ==
    \A n \in Stored :
        /\ \A b \in Buckets : next[n] = head[b] => head[b] = NULL
        /\ \A m \in Stored : next[m] = next[n] => m = n \/ next[n] = NULL

Distinct == \A m, n \in Stored : key[m] = key[n] => m = n

LEMMA ChainFacts ==
    ASSUME TypeOK, NEW b \in Buckets
    PROVE  /\ Chain(b) \in SUBSET Nodes /\ Chain(b) \subseteq Stored
           /\ head[b] = NULL \/ head[b] \in Chain(b)
           /\ \A n \in Chain(b) : next[n] = NULL \/ next[n] \in Chain(b)
  <1>1. /\ Chain(b) \in SUBSET DOMAIN next
        /\ head[b] \in DOMAIN next => head[b] \in Chain(b)
        /\ \A n \in Chain(b) : next[n] \in DOMAIN next => next[n] \in Chain(b)
    BY FromIsClosed DEF Chain, Closed
  <1>2. /\ DOMAIN next = Nodes /\ head[b] \in Nodes \cup {NULL}
        /\ \A n \in Nodes : next[n] \in Nodes \cup {NULL}
    BY DEF TypeOK
  <1> QED
    BY <1>1, <1>2 DEF Stored

LEMMA StoredFacts ==
    ASSUME TypeOK
    PROVE  /\ Stored \in SUBSET Nodes
           /\ \A n \in Stored : next[n] = NULL \/ next[n] \in Stored
           /\ \A b \in Buckets : head[b] = NULL \/ head[b] \in Stored
  BY ChainFacts DEF Stored

LEMMA SameChains ==
    ASSUME UNCHANGED <<head, next, key>>
    PROVE  /\ \A b \in Buckets : Chain(b)' = Chain(b)
           /\ Stored' = Stored
           /\ Placed /\ Linked /\ Distinct => Placed' /\ Linked' /\ Distinct'
  <1>1. \A b \in Buckets : Chain(b)' = Chain(b)
    BY DEF Chain
  <1>2. Stored' = Stored
    BY <1>1 DEF Stored
  <1> QED
    BY <1>1, <1>2 DEF Placed, Linked, Distinct

(* slist_push_front writes to a node that no chain leads to. *)
LEMMA NewNodeChains ==
    ASSUME TypeOK, NEW c \in Nodes, c \notin Stored, NEW x,
           next' = [next EXCEPT ![c] = x], head' = head
    PROVE  /\ \A b \in Buckets : Chain(b)' = Chain(b) /\ (Ends(next, head[b]) => Ends(next, head[b])')
           /\ Stored' = Stored
  <1>1. DOMAIN next' = DOMAIN next /\ \A n \in Stored : next'[n] = next[n]
    BY StoredFacts DEF TypeOK
  <1>2. ASSUME NEW b \in Buckets
        PROVE  Chain(b)' = Chain(b) /\ (Ends(next, head[b]) => Ends(next, head[b])')
    <2>1. \A n \in From(next, head[b]) : next'[n] = next[n]
      BY <1>1, ChainFacts DEF Chain
    <2>2. From(next', head[b]) = From(next, head[b])
      <3> DEFINE new == next'
                 old == next
                 f == head[b]
      <3>1. DOMAIN new = DOMAIN old /\ \A n \in From(old, f) : new[n] = old[n]
        BY <1>1, <2>1
      <3> HIDE DEF new, old, f
      <3>2. From(new, f) = From(old, f)
        BY <3>1, FromFrame
      <3> QED
        BY <3>2 DEF new, old, f
    <2>3. Ends(next, head[b]) => Ends(next', head[b])
      BY <1>1, <2>1, EndsFrame
    <2> QED
      BY <2>2, <2>3 DEF Chain
  <1> QED
    BY <1>2 DEF Stored

(* Then the node is put at the head of its bucket. *)
LEMMA PushChains ==
    ASSUME TypeOK, NEW b \in Buckets, NEW c \in Nodes, next[c] = head[b],
           head' = [head EXCEPT ![b] = c], next' = next
    PROVE  /\ Chain(b)' = {c} \cup Chain(b)
           /\ \A d \in Buckets \ {b} : Chain(d)' = Chain(d)
           /\ Stored' = {c} \cup Stored
  <1>1. head'[b] = c /\ \A d \in Buckets \ {b} : head'[d] = head[d]
    BY DEF TypeOK
  <1>2. Chain(b)' = {c} \cup Chain(b)
    BY <1>1, FromStep DEF Chain, TypeOK
  <1>3. \A d \in Buckets \ {b} : Chain(d)' = Chain(d)
    BY <1>1 DEF Chain
  <1> QED
    BY <1>2, <1>3 DEF Stored

LEMMA PushKeeps ==
    ASSUME TypeOK, Placed, Linked, Distinct,
           NEW b \in Buckets, NEW c \in Nodes \ Stored, next[c] = head[b],
           key[c] # NULL, Hash[key[c]] = b, \A n \in Chain(b) : key[n] # key[c],
           head' = [head EXCEPT ![b] = c], UNCHANGED <<next, key>>
    PROVE  Placed' /\ Linked' /\ Distinct'
  <1>1. /\ Chain(b)' = {c} \cup Chain(b) /\ Stored' = {c} \cup Stored
        /\ \A d \in Buckets \ {b} : Chain(d)' = Chain(d)
    BY PushChains
  <1>2. head'[b] = c /\ \A d \in Buckets \ {b} : head'[d] = head[d]
    BY DEF TypeOK
  <1>3. /\ Chain(b) \subseteq Stored /\ (head[b] = NULL \/ head[b] \in Chain(b))
        /\ \A n \in Chain(b) : next[n] = NULL \/ next[n] \in Chain(b)
    BY ChainFacts
  <1>4. /\ \A n \in Stored : next[n] = NULL \/ next[n] \in Stored
        /\ c # NULL /\ next[c] # c
    BY <1>3, StoredFacts, HashtableAssumption
  <1>5. Ends(next', c)
    <2>1. From(next', c) = {c} \cup Chain(b)
      BY <1>1, <1>2 DEF Chain
    <2>2. ASSUME NEW S \in SUBSET ({c} \cup Chain(b)), S # {}, \A n \in S : next[n] \in S
          PROVE  FALSE
      <3>1. CASE S \ {c} = {}
        BY <2>2, <3>1, <1>4
      <3>2. CASE S \ {c} # {}
        <4>1. S \ {c} \in SUBSET From(next, head[b])
          BY DEF Chain
        <4>2. PICK n \in S \ {c} : next[n] \notin S \ {c}
          BY <3>2, <4>1 DEF Placed, Ends
        <4> QED
          BY <2>2, <4>2, <1>3, <1>4
      <3> QED
        BY <3>1, <3>2
    <2> QED
      BY <2>1, <2>2 DEF Ends
  <1>6. Placed'
    <2>1. ASSUME NEW d \in Buckets \ {b} PROVE Ends(next', head'[d])
      BY <1>2 DEF Placed
    <2>2. \A d \in Buckets : Ends(next', head'[d])
      BY <1>2, <1>5, <2>1
    <2>3. \A d \in Buckets : \A n \in Chain(d)' : key[n] # NULL /\ Hash[key[n]] = d
      BY <1>1 DEF Placed
    <2> QED
      BY <2>2, <2>3 DEF Placed
  <1>7. \A d \in Buckets \ {b} : head[d] = head[b] => head[b] = NULL
    <2>1. \A d \in Buckets \ {b} : head[d] = NULL \/ head[d] \in Chain(d)
      BY ChainFacts
    <2> QED
      BY <1>3, <2>1 DEF Placed
  <1>8. Linked'
    <2>1. ASSUME NEW n \in Stored', NEW d \in Buckets, next[n] = head'[d] PROVE head'[d] = NULL
      BY <1>1, <1>2, <1>4, <1>7, <2>1 DEF Linked
    <2>2. ASSUME NEW n \in Stored', NEW m \in Stored', next[m] = next[n]
          PROVE  m = n \/ next[n] = NULL
      BY <1>1, <2>2 DEF Linked
    <2> QED
      BY <2>1, <2>2 DEF Linked
  <1>9. Distinct'
    <2>1. \A n \in Stored : key[n] # key[c]
      BY DEF Stored, Placed
    <2> QED
      BY <1>1, <2>1 DEF Distinct
  <1> QED
    BY <1>6, <1>8, <1>9

(* slist_pop_front takes its first node from a chain. *)
LEMMA PopChains ==
    ASSUME TypeOK, Placed, Linked, NEW b \in Buckets, head[b] # NULL,
           head' = [head EXCEPT ![b] = next[head[b]]], next' = next
    PROVE  /\ Chain(b)' = Chain(b) \ {head[b]}
           /\ \A d \in Buckets \ {b} : Chain(d)' = Chain(d) /\ head[b] \notin Chain(d)
           /\ Stored' = Stored \ {head[b]}
  <1> DEFINE h == head[b]
  <1>1. head'[b] = next[h] /\ \A d \in Buckets \ {b} : head'[d] = head[d]
    BY DEF TypeOK
  <1>2. /\ h \in Chain(b) /\ h \in Stored /\ Chain(b) \subseteq Stored
        /\ \A n \in Chain(b) : next[n] = NULL \/ next[n] \in Chain(b)
    BY ChainFacts
  <1>3. /\ Chain(b) \in SUBSET DOMAIN next /\ h \in DOMAIN next
        /\ NULL \notin DOMAIN next
    BY <1>2, ChainFacts, HashtableAssumption DEF TypeOK
  <1>4. Chain(b) = {h} \cup From(next, next[h])
    BY <1>3, FromStep DEF Chain
  <1>5. h \notin From(next, next[h])
    <2>1. \A n \in Chain(b) : next[n] # h
      BY <1>2 DEF Linked
    <2>2. Closed(next, next[h], Chain(b) \ {h})
      BY <1>2, <1>3, <2>1 DEF Closed
    <2>3. From(next, next[h]) \subseteq Chain(b) \ {h}
      BY <1>3, <2>2, FromIsLeast
    <2> QED
      BY <2>3
  <1>6. Chain(b)' = Chain(b) \ {h}
    BY <1>1, <1>4, <1>5 DEF Chain
  <1>7. \A d \in Buckets \ {b} : Chain(d)' = Chain(d) /\ h \notin Chain(d)
    BY <1>1, <1>2 DEF Chain, Placed
  <1> QED
    BY <1>2, <1>6, <1>7 DEF Stored

LEMMA PopKeeps ==
    ASSUME TypeOK, Placed, Linked, Distinct, NEW b \in Buckets, head[b] # NULL,
           head' = [head EXCEPT ![b] = next[head[b]]], next' = next,
           key' = [key EXCEPT ![head[b]] = NULL]
    PROVE  Placed' /\ Linked' /\ Distinct'
  <1>1. /\ Chain(b)' = Chain(b) \ {head[b]} /\ Stored' = Stored \ {head[b]}
        /\ \A d \in Buckets \ {b} : Chain(d)' = Chain(d) /\ head[b] \notin Chain(d)
    BY PopChains
  <1>2. /\ head'[b] = next[head[b]] /\ \A d \in Buckets \ {b} : head'[d] = head[d]
        /\ head[b] \in Stored /\ Stored \in SUBSET Nodes
        /\ \A n \in Nodes \ {head[b]} : key'[n] = key[n]
    BY StoredFacts DEF TypeOK
  <1>3. Placed'
    <2>1. ASSUME NEW d \in Buckets PROVE Ends(next', head'[d])
      <3>1. From(next', head'[d]) \subseteq From(next, head[d])
        BY <1>1 DEF Chain
      <3> QED
        BY <3>1 DEF Placed, Ends
    <2>2. ASSUME NEW d \in Buckets, NEW n \in Chain(d)' PROVE key'[n] # NULL /\ Hash[key'[n]] = d
      <3>1. n \in Chain(d) /\ n # head[b] /\ n \in Nodes
        BY <1>1, <2>2, ChainFacts
      <3> QED
        BY <1>2, <3>1 DEF Placed
    <2> QED
      BY <2>1, <2>2 DEF Placed
  <1>4. Linked'
    <2>1. ASSUME NEW n \in Stored', NEW d \in Buckets, next[n] = head'[d] PROVE head'[d] = NULL
      BY <1>1, <1>2, <2>1 DEF Linked
    <2> QED
      BY <1>1, <2>1 DEF Linked
  <1>5. Distinct'
    BY <1>1, <1>2 DEF Distinct
  <1> QED
    BY <1>3, <1>4, <1>5

-----------------------------------------------------------------------------
(* What the threads know of the chains.                                    *)

(* Whoever has called has not returned; whoever has a result unlocks next. *)
Calling(t) ==
    /\ arg[t] = NULL <=> at[t] \in {"idle", "freeing", "over"}
    /\ result[t] = NULL <=> at[t] # "unlock"
    /\ at[t] \in {"count", "push"} => arg[t].op = "add"

(* A search has passed no node of its key. *)
Searching(t) ==
    at[t] = "search" =>
        /\ cursor[t] \in Chain(Bucket(t)) \cup {NULL}
        /\ \A n \in Chain(Bucket(t)) : key[n] = arg[t].key => n \in From(next, cursor[t])

(* The node about to be stored is the first of its key. *)
Pushing(t) ==
    at[t] = "push" =>
        /\ cursor[t] \in Nodes \ Stored
        /\ key[cursor[t]] = arg[t].key /\ next[cursor[t]] = head[Bucket(t)]
        /\ \A n \in Chain(Bucket(t)) : key[n] # arg[t].key

(* A value is held by a chain, or by the thread that is about to store it. *)
Allocated ==
    \A n \in Nodes : key[n] # NULL =>
        freed[n] = 0 /\ (n \in Stored \/ \E t \in Threads : at[t] = "push" /\ cursor[t] = n)

(* The thread that frees the table is alone with it. *)
FreeingAlone ==
    \A t \in Threads : at[t] \in {"freeing", "over"} =>
        /\ \A u \in Threads \ {t} : at[u] = "idle"
        /\ at[t] = "over" => \A b \in Buckets : head[b] = NULL

Known(t) == Calling(t) /\ Searching(t) /\ Pushing(t)

TableInv ==
    /\ TypeOK /\ LockInv
    /\ Placed /\ Linked /\ Distinct
    /\ Allocated /\ FreeingAlone
    /\ \A t \in Threads : Known(t)

LEMMA TableInit == Init => TableInv
  <1> SUFFICES ASSUME Init PROVE TableInv
    OBVIOUS
  <1>1. TypeOK /\ LockInv
    <2>1. 0 \in 0..MaxCount
      BY HashtableAssumption
    <2> QED
      BY <2>1, LockInit DEF Init, TypeOK
  <1>2. \A b \in Buckets : Chain(b) = {}
    <2>1. \A b \in Buckets : head[b] \notin DOMAIN next
      BY HashtableAssumption DEF Init
    <2> QED
      BY <2>1, FromNull DEF Chain
  <1>3. Stored = {}
    BY <1>2 DEF Stored
  <1>4. Placed /\ Linked /\ Distinct
    BY <1>2, <1>3 DEF Placed, Linked, Distinct, Ends, Chain
  <1>5. Allocated /\ FreeingAlone /\ \A t \in Threads : Known(t)
    BY DEF Init, Allocated, FreeingAlone, Known, Calling, Searching, Pushing
  <1> QED
    BY <1>1, <1>4, <1>5 DEF TableInv

(* An add that is inside is alone there. *)
LEMMA AddAlone ==
    ASSUME TableInv, NEW t \in Threads, at[t] \in {"count", "search", "push"}, arg[t].op = "add"
    PROVE  \A u \in Threads \ {t} : at[u] \notin {"count", "search", "push", "unlock", "freeing", "over"}
  <1>1. \A u \in Threads \ {t} : ~Inside(u)
    BY LockExcludes DEF TableInv, Exclusion, Inside
  <1> QED
    BY <1>1 DEF Inside, TableInv, FreeingAlone

(* A step of t that leaves the nodes as they are, and what the other       *)
(* threads know.                                                           *)
LEMMA SameTable ==
    ASSUME TableInv, UNCHANGED <<head, next, key, freed>>, NEW t \in Threads,
           \A u \in Threads \ {t} : /\ at'[u] = at[u] /\ arg'[u] = arg[u]
                                    /\ cursor'[u] = cursor[u] /\ result'[u] = result[u],
           at[t] # "push", TypeOK', LockInv', FreeingAlone',
           Placed' /\ Linked' /\ Distinct' /\ Stored' = Stored
              /\ (\A b \in Buckets : Chain(b)' = Chain(b)) => Known(t)'
    PROVE  TableInv'
  <1>1. Placed' /\ Linked' /\ Distinct' /\ Stored' = Stored /\ \A b \in Buckets : Chain(b)' = Chain(b)
    BY SameChains DEF TableInv
  <1>2. Allocated'
    BY <1>1 DEF TableInv, Allocated
  <1>3. ASSUME NEW u \in Threads \ {t} PROVE Known(u)'
    <2>1. Calling(u)'
      BY DEF TableInv, Known, Calling
    <2>2. at[u] \in {"search", "push"} => Bucket(u) \in Buckets /\ Bucket(u)' = Bucket(u)
      BY HashtableAssumption DEF TableInv, Known, Calling, TypeOK, Bucket
    <2>3. Searching(u)'
      BY <1>1, <2>2 DEF TableInv, Known, Searching
    <2>4. Pushing(u)'
      BY <1>1, <2>2 DEF TableInv, Known, Pushing
    <2> QED
      BY <2>1, <2>3, <2>4 DEF Known
  <1> QED
    BY <1>1, <1>2, <1>3 DEF TableInv

(* What each step of a thread does outside the table. *)
LEMMA CallsInv ==
    ASSUME TableInv, NEW t \in Threads, Calls(t)
    PROVE  TableInv'
  <1>1. PICK o \in {"add", "find"}, k \in Keys :
          /\ arg' = [arg EXCEPT ![t] = [op |-> o, key |-> k]]
          /\ at[t] = "idle" /\ at' = [at EXCEPT ![t] = "lock"] /\ Open
          /\ UNCHANGED <<tableVars, lockVars, cursor, result, freed>>
    BY DEF Calls, Move
  <1>2. [op |-> o, key |-> k] \in [op : {"add", "find"}, key : Keys]
    OBVIOUS
  <1>3. TypeOK'
    BY <1>1, <1>2 DEF TableInv, TypeOK, tableVars, lockVars
  <1>4. LockInv'
    BY CallsLock DEF TableInv
  <1>5. FreeingAlone'
    BY <1>1 DEF TableInv, TypeOK, FreeingAlone, Open
  <1>6. Known(t)'
    BY <1>1, <1>2, HashtableAssumption DEF TableInv, TypeOK, Known, Calling, Searching, Pushing
  <1> QED
    BY <1>1, <1>3, <1>4, <1>5, <1>6, SameTable DEF tableVars, TableInv, TypeOK

LEMMA LocksInv ==
    ASSUME TableInv, NEW t \in Threads, rwlock_wrlock(t) \/ rwlock_rdlock(t)
    PROVE  TableInv'
  <1>1. /\ UNCHANGED <<tableVars, arg, result, freed>>
        /\ \A u \in Threads \ {t} : at'[u] = at[u] /\ cursor'[u] = cursor[u]
        /\ writer' \in Threads \cup {NULL} /\ readers' \subseteq Threads
    BY DEF rwlock_wrlock, rwlock_rdlock, Move, TableInv, TypeOK
  <1>2. arg[t] # NULL /\ at[t] = "lock" /\ Bucket(t) \in Buckets
    BY HashtableAssumption DEF rwlock_wrlock, rwlock_rdlock, Move, TableInv, TypeOK, Bucket
  <1>3. \/ arg[t].op = "add" /\ at'[t] = "count" /\ cursor' = cursor
        \/ at'[t] = "search" /\ cursor'[t] = head[Bucket(t)]
    BY DEF rwlock_wrlock, rwlock_rdlock, Move, TableInv, TypeOK
  <1>4. TypeOK'
    BY <1>1, <1>2 DEF TableInv, TypeOK, tableVars, rwlock_wrlock, rwlock_rdlock, Move
  <1>5. LockInv'
    BY WriteLock, ReadLock DEF TableInv
  <1>6. FreeingAlone'
    BY <1>1, <1>2, <1>3 DEF TableInv, FreeingAlone, tableVars
  <1>7. Calling(t)'
    BY <1>1, <1>2, <1>3 DEF TableInv, Known, Calling
  <1>8. Pushing(t)'
    BY <1>3 DEF Pushing
  <1>9. Searching(t)'
    <2>1. UNCHANGED <<head, next, key, arg>> /\ Bucket(t)' = Bucket(t) /\ Chain(Bucket(t))' = Chain(Bucket(t))
      BY <1>1, <1>2 DEF tableVars, Bucket, Chain
    <2>2. head[Bucket(t)] = NULL \/ head[Bucket(t)] \in Chain(Bucket(t))
      BY <1>2, ChainFacts DEF TableInv
    <2>3. at'[t] = "search" => cursor'[t] = head[Bucket(t)]
      BY <1>3
    <2> QED
      BY <2>1, <2>2, <2>3 DEF Searching, Chain
  <1> QED
    BY <1>1, <1>2, <1>4, <1>5, <1>6, <1>7, <1>8, <1>9, SameTable DEF tableVars, Known

LEMMA AddCountsInv ==
    ASSUME TableInv, NEW t \in Threads, AddCounts(t)
    PROVE  TableInv'
  <1>1. /\ UNCHANGED <<head, next, key, lockVars, arg, result, freed>>
        /\ at[t] = "count" /\ at' = [at EXCEPT ![t] = "search"]
        /\ cursor' = [cursor EXCEPT ![t] = head[Bucket(t)]]
        /\ collisions' \in 0..MaxCount
    BY HashtableAssumption DEF AddCounts, Move, Count, TableInv, TypeOK
  <1>2. arg[t] # NULL /\ Bucket(t) \in Buckets
    BY <1>1, HashtableAssumption DEF TableInv, Known, Calling, TypeOK, Bucket
  <1>3. TypeOK'
    BY <1>1, <1>2 DEF TableInv, TypeOK, lockVars
  <1>4. LockInv'
    BY <1>1, StaysWhereItIs, "search" \in Step DEF TableInv, Inside, Step
  <1>5. FreeingAlone'
    BY <1>1 DEF TableInv, TypeOK, FreeingAlone
  <1>6. Known(t)'
    <2>1. Bucket(t)' = Bucket(t) /\ Chain(Bucket(t))' = Chain(Bucket(t))
      BY <1>1, <1>2 DEF Bucket, Chain
    <2>2. head[Bucket(t)] = NULL \/ head[Bucket(t)] \in Chain(Bucket(t))
      BY <1>2, ChainFacts DEF TableInv
    <2>3. at'[t] = "search" /\ cursor'[t] = head[Bucket(t)]
      BY <1>1 DEF TableInv, TypeOK
    <2>4. Searching(t)'
      BY <1>1, <2>1, <2>2, <2>3 DEF Searching, Chain
    <2>5. Calling(t)' /\ Pushing(t)'
      BY <1>1, <1>2, <2>3 DEF TableInv, Known, Calling, Pushing
    <2> QED
      BY <2>4, <2>5 DEF Known
  <1> QED
    BY <1>1, <1>3, <1>4, <1>5, <1>6, SameTable DEF TableInv, TypeOK

(* _hashtable_find: the search goes on, keeping what it has not passed. *)
LEMMA SearchGoesOnInv ==
    ASSUME TableInv, NEW t \in Threads, SearchGoesOn(t)
    PROVE  TableInv'
  <1> DEFINE c == cursor[t]
             b == Bucket(t)
  <1>1. /\ UNCHANGED <<head, next, key, collisions, lockVars, at, arg, result, freed>>
        /\ at[t] = "search" /\ c # NULL /\ key[c] # arg[t].key
        /\ cursor' = [cursor EXCEPT ![t] = next[c]]
    BY DEF SearchGoesOn, tableVars
  <1>2. arg[t] # NULL /\ b \in Buckets /\ b' = b
    BY <1>1, HashtableAssumption DEF TableInv, Known, Calling, TypeOK, Bucket
  <1>3. /\ c \in Chain(b) /\ c \in Nodes /\ (next[c] = NULL \/ next[c] \in Chain(b))
        /\ \A n \in Chain(b) : key[n] = arg[t].key => n \in From(next, c)
    BY <1>1, <1>2, ChainFacts DEF TableInv, Known, Searching
  <1>4. TypeOK'
    BY <1>1, <1>3 DEF TableInv, TypeOK, lockVars
  <1>5. LockInv'
    BY <1>1, StaysWhereItIs DEF TableInv, Step
  <1>6. FreeingAlone'
    BY <1>1 DEF TableInv, FreeingAlone
  <1>7. Searching(t)'
    <2>1. From(next, c) = {c} \cup From(next, next[c])
      BY <1>3, FromStep DEF TableInv, TypeOK
    <2>2. cursor'[t] = next[c] /\ Chain(b)' = Chain(b)
      BY <1>1, <1>2 DEF TableInv, TypeOK, Chain
    <2>3. \A n \in Chain(b) : key[n] = arg[t].key => n \in From(next, next[c])
      BY <1>1, <1>3, <2>1
    <2> HIDE DEF b, c
    <2> QED
      BY <1>1, <1>2, <1>3, <2>2, <2>3 DEF Searching, b
  <1>8. Calling(t)' /\ Pushing(t)'
    BY <1>1 DEF TableInv, Known, Calling, Pushing
  <1> QED
    BY <1>1, <1>4, <1>5, <1>6, <1>7, <1>8, SameTable DEF TableInv, TypeOK, Known

(* The steps that give an operation its result but for a push. *)
LEMMA ResultInv ==
    ASSUME TableInv, NEW t \in Threads, SearchFinds(t) \/ FindFindsNothing(t) \/ PushFails(t)
    PROVE  TableInv'
  <1>1. /\ UNCHANGED <<tableVars, lockVars, arg, cursor, freed>>
        /\ at[t] = "search" /\ at' = [at EXCEPT ![t] = "unlock"]
    BY DEF SearchFinds, FindFindsNothing, PushFails, Move
  <1>2. \E r \in Nodes \cup {"FOUND", "NOTHING", "ERROR"} : result' = [result EXCEPT ![t] = r]
    BY DEF SearchFinds, FindFindsNothing, PushFails, TableInv, TypeOK
  <1>3. TypeOK'
    BY <1>1, <1>2 DEF TableInv, TypeOK, tableVars, lockVars
  <1>4. LockInv'
    BY <1>1, StaysWhereItIs, "unlock" \in Step DEF TableInv, Inside, Step
  <1>5. FreeingAlone'
    BY <1>1 DEF TableInv, TypeOK, FreeingAlone
  <1>6. at'[t] = "unlock" /\ result'[t] # NULL
    BY <1>1, <1>2, HashtableAssumption DEF TableInv, TypeOK
  <1>7. Known(t)'
    BY <1>1, <1>6 DEF TableInv, Known, Calling, Searching, Pushing
  <1> QED
    BY <1>1, <1>2, <1>3, <1>4, <1>5, <1>7, SameTable DEF TableInv, TypeOK, tableVars

LEMMA UnlockInv ==
    ASSUME TableInv, NEW t \in Threads, rwlock_unlock(t)
    PROVE  TableInv'
  <1>1. /\ at[t] = "unlock" /\ at' = [at EXCEPT ![t] = "idle"]
        /\ arg' = [arg EXCEPT ![t] = NULL]
        /\ cursor' = [cursor EXCEPT ![t] = NULL] /\ result' = [result EXCEPT ![t] = NULL]
        /\ writer' \in {NULL, writer} /\ readers' = readers \ {t}
        /\ UNCHANGED <<tableVars, freed>>
    BY DEF rwlock_unlock, Move
  <1>2. TypeOK'
    BY <1>1 DEF TableInv, TypeOK, tableVars
  <1>3. LockInv'
    BY Unlock DEF TableInv
  <1>4. FreeingAlone'
    BY <1>1 DEF TableInv, TypeOK, FreeingAlone, tableVars
  <1>5. Known(t)'
    BY <1>1 DEF TableInv, TypeOK, Known, Calling, Searching, Pushing
  <1> QED
    BY <1>1, <1>2, <1>3, <1>4, <1>5, SameTable DEF TableInv, TypeOK, tableVars

LEMMA FreeBeginsEndsInv ==
    ASSUME TableInv, NEW t \in Threads, FreeBegins(t) \/ FreeEnds(t)
    PROVE  TableInv'
  <1>1. PICK to \in {"freeing", "over"} :
          /\ at' = [at EXCEPT ![t] = to] /\ at[t] \in {"idle", "freeing"}
          /\ UNCHANGED <<tableVars, lockVars, arg, cursor, result, freed>>
          /\ \A u \in Threads \ {t} : at[u] = "idle"
          /\ to = "over" => \A b \in Buckets : head[b] = NULL
    BY DEF FreeBegins, FreeEnds, Move, TableInv, FreeingAlone
  <1>2. TypeOK'
    BY <1>1 DEF TableInv, TypeOK, tableVars, lockVars
  <1>3. LockInv'
    BY <1>1, StaysWhereItIs DEF TableInv, Step
  <1>4. FreeingAlone'
    BY <1>1 DEF TableInv, TypeOK, FreeingAlone, tableVars
  <1>5. Known(t)'
    BY <1>1 DEF TableInv, TypeOK, Known, Calling, Searching, Pushing
  <1> QED
    BY <1>1, <1>2, <1>3, <1>4, <1>5, SameTable DEF TableInv, TypeOK, tableVars

(* slist_push_front makes its node. *)
LEMMA PushMakesNodeInv ==
    ASSUME TableInv, NEW t \in Threads, PushMakesNode(t)
    PROVE  TableInv'
  <1> DEFINE b == Bucket(t)
  <1>1. PICK c \in Nodes :
          /\ key[c] = NULL /\ freed[c] = 0
          /\ key' = [key EXCEPT ![c] = arg[t].key] /\ next' = [next EXCEPT ![c] = head[b]]
          /\ cursor' = [cursor EXCEPT ![t] = c]
          /\ at[t] = "search" /\ at' = [at EXCEPT ![t] = "push"]
          /\ cursor[t] = NULL /\ arg[t].op = "add"
          /\ UNCHANGED <<head, collisions, lockVars, arg, result, freed>>
    BY DEF PushMakesNode, Move
  <1>2. /\ arg[t] # NULL /\ b \in Buckets /\ b' = b /\ arg[t].key \in Keys
        /\ arg[t].key # NULL /\ head[b] \in Nodes \cup {NULL}
    BY <1>1, HashtableAssumption DEF TableInv, Known, Calling, TypeOK, Bucket
  <1>3. \A u \in Threads \ {t} : at[u] \in {"idle", "lock"} /\ at'[u] = at[u]
    BY <1>1, AddAlone DEF TableInv, TypeOK
  <1>4. c \notin Stored
    BY <1>1 DEF TableInv, Placed, Stored
  <1>5. /\ \A d \in Buckets : Chain(d)' = Chain(d) /\ (Ends(next, head[d]) => Ends(next, head[d])')
        /\ Stored' = Stored
    BY <1>1, <1>4, NewNodeChains DEF TableInv
  <1>6. /\ \A n \in Nodes \ {c} : key'[n] = key[n] /\ next'[n] = next[n]
        /\ key'[c] = arg[t].key /\ next'[c] = head[b] /\ Stored \subseteq Nodes \ {c}
    BY <1>1, <1>4, StoredFacts DEF TableInv, TypeOK
  <1>7. TypeOK'
    BY <1>1, <1>2 DEF TableInv, TypeOK, lockVars
  <1>8. LockInv'
    BY <1>1, StaysWhereItIs, "push" \in Step DEF TableInv, Inside, Step
  <1>9. Placed'
    <2>1. \A d \in Buckets : Chain(d) \subseteq Stored
      BY DEF Stored
    <2> QED
      BY <1>5, <1>6, <2>1 DEF TableInv, Placed
  <1>10. Linked' /\ Distinct'
    BY <1>1, <1>5, <1>6 DEF TableInv, Linked, Distinct
  <1>11. Allocated'
    <2>1. at'[t] = "push" /\ cursor'[t] = c
      BY <1>1 DEF TableInv, TypeOK
    <2> QED
      BY <1>1, <1>3, <1>5, <1>6, <2>1 DEF TableInv, Allocated
  <1>12. FreeingAlone'
    BY <1>1, <1>3 DEF TableInv, TypeOK, FreeingAlone
  <1>13. ASSUME NEW u \in Threads \ {t} PROVE Known(u)'
    BY <1>1, <1>3 DEF TableInv, TypeOK, Known, Calling, Searching, Pushing
  <1>14. Known(t)'
    <2>1. at'[t] = "push" /\ cursor'[t] = c
      BY <1>1 DEF TableInv, TypeOK
    <2>2. \A n \in Chain(b) : key[n] # arg[t].key /\ n \in Stored
      <3>1. From(next, NULL) = {}
        BY FromNull, HashtableAssumption DEF TableInv, TypeOK
      <3> QED
        BY <1>1, <1>2, <3>1 DEF TableInv, Known, Searching, Stored
    <2>3. Pushing(t)'
      BY <1>1, <1>2, <1>4, <1>5, <1>6, <2>1, <2>2 DEF Pushing
    <2>4. Calling(t)' /\ Searching(t)'
      BY <1>1, <1>2, <2>1 DEF TableInv, Known, Calling, Searching
    <2> QED
      BY <2>3, <2>4 DEF Known
  <1> QED
    BY <1>7, <1>8, <1>9, <1>10, <1>11, <1>12, <1>13, <1>14 DEF TableInv

(* slist_push_front moves the head. *)
LEMMA PushMovesHeadInv ==
    ASSUME TableInv, NEW t \in Threads, PushMovesHead(t)
    PROVE  TableInv'
  <1> DEFINE b == Bucket(t)
             c == cursor[t]
  <1>1. /\ head' = [head EXCEPT ![b] = c]
        /\ at[t] = "push" /\ at' = [at EXCEPT ![t] = "unlock"]
        /\ result' = [result EXCEPT ![t] = "SUCCESS"]
        /\ UNCHANGED <<next, key, collisions, lockVars, arg, cursor, freed>>
    BY DEF PushMovesHead, Move
  <1>2. arg[t] # NULL /\ b \in Buckets /\ arg[t].key \in Keys /\ b = Hash[arg[t].key] /\ arg[t].op = "add"
    BY <1>1, HashtableAssumption DEF TableInv, Known, Calling, TypeOK, Bucket
  <1>3. \A u \in Threads \ {t} : at[u] \in {"idle", "lock"} /\ at'[u] = at[u]
    BY <1>1, <1>2, AddAlone DEF TableInv, TypeOK
  <1>4. /\ c \in Nodes \ Stored /\ key[c] = arg[t].key /\ next[c] = head[b]
        /\ \A n \in Chain(b) : key[n] # arg[t].key
    BY <1>1 DEF TableInv, Known, Pushing
  <1>5. Placed' /\ Linked' /\ Distinct'
    <2>1. key[c] # NULL /\ Hash[key[c]] = b
      BY <1>2, <1>4, HashtableAssumption
    <2> HIDE DEF b, c
    <2> QED
      BY <1>1, <1>2, <1>4, <2>1, PushKeeps DEF TableInv
  <1>6. Stored' = {c} \cup Stored
    <2> HIDE DEF b, c
    <2> QED
      BY <1>1, <1>2, <1>4, PushChains DEF TableInv
  <1>7. TypeOK'
    BY <1>1, <1>2, <1>4 DEF TableInv, TypeOK, lockVars
  <1>8. LockInv'
    BY <1>1, StaysWhereItIs, "unlock" \in Step DEF TableInv, Inside, Step
  <1>9. Allocated'
    BY <1>1, <1>3, <1>6 DEF TableInv, Allocated
  <1>10. FreeingAlone'
    BY <1>1, <1>3 DEF TableInv, TypeOK, FreeingAlone
  <1>11. ASSUME NEW u \in Threads \ {t} PROVE Known(u)'
    BY <1>1, <1>3 DEF TableInv, TypeOK, Known, Calling, Searching, Pushing
  <1>12. Known(t)'
    BY <1>1, <1>2, HashtableAssumption DEF TableInv, TypeOK, Known, Calling, Searching, Pushing
  <1> QED
    BY <1>5, <1>7, <1>8, <1>9, <1>10, <1>11, <1>12 DEF TableInv

(* hashtable_free: a node leaves its chain and its value is freed. *)
LEMMA slist_pop_frontInv ==
    ASSUME TableInv, NEW t \in Threads, slist_pop_front(t)
    PROVE  TableInv'
  <1>1. PICK b \in Buckets :
          /\ head[b] # NULL /\ head' = [head EXCEPT ![b] = next[head[b]]]
          /\ key' = [key EXCEPT ![head[b]] = NULL]
          /\ freed' = [freed EXCEPT ![head[b]] = @ + 1]
          /\ at[t] = "freeing" /\ UNCHANGED <<next, collisions, lockVars, at, arg, cursor, result>>
    BY DEF slist_pop_front
  <1>2. \A u \in Threads : at[u] \in {"idle", "freeing"}
    BY <1>1 DEF TableInv, FreeingAlone
  <1>3. Placed' /\ Linked' /\ Distinct' /\ Stored' = Stored \ {head[b]}
    BY <1>1, PopKeeps, PopChains DEF TableInv
  <1>4. head[b] \in Stored /\ Stored \in SUBSET Nodes /\ key[head[b]] # NULL
    BY <1>1, StoredFacts DEF TableInv, Stored, Placed
  <1>5. freed[head[b]] = 0
    BY <1>4 DEF TableInv, Allocated
  <1>6. TypeOK'
    BY <1>1, <1>4, <1>5 DEF TableInv, TypeOK, lockVars
  <1>7. LockInv'
    BY <1>1, StaysWhereItIs DEF TableInv, Step
  <1>8. Allocated'
    BY <1>1, <1>2, <1>3, <1>4 DEF TableInv, TypeOK, Allocated
  <1>9. FreeingAlone'
    BY <1>1, <1>2 DEF TableInv, FreeingAlone
  <1>10. \A u \in Threads : Known(u)'
    BY <1>1, <1>2 DEF TableInv, Known, Calling, Searching, Pushing
  <1> QED
    BY <1>3, <1>6, <1>7, <1>8, <1>9, <1>10 DEF TableInv

LEMMA TableNext == TableInv /\ [Next]_vars => TableInv'
  <1> SUFFICES ASSUME TableInv, [Next]_vars PROVE TableInv'
    OBVIOUS
  <1>1. CASE UNCHANGED vars
    <2>1. TypeOK' /\ LockInv' /\ Allocated' /\ FreeingAlone'
      BY <1>1, LockNext, SameChains DEF vars, TableInv, TypeOK, Allocated, FreeingAlone
    <2>2. Placed' /\ Linked' /\ Distinct'
      BY <1>1, SameChains DEF vars, TableInv
    <2>3. \A t \in Threads : Known(t)'
      BY <1>1, SameChains DEF vars, TableInv, Known, Calling, Searching, Pushing, Bucket, Chain, Stored
    <2> QED
      BY <2>1, <2>2, <2>3 DEF TableInv
  <1>2. ASSUME NEW t \in Threads, Works(t) PROVE TableInv'
    BY <1>2, AddCountsInv, SearchGoesOnInv, ResultInv, PushMakesNodeInv, PushMovesHeadInv, UnlockInv
    DEF Works
  <1>3. ASSUME NEW t \in Threads, Calls(t) \/ rwlock_wrlock(t) \/ rwlock_rdlock(t) PROVE TableInv'
    BY <1>3, CallsInv, LocksInv
  <1>4. ASSUME NEW t \in Threads, FreeBegins(t) \/ slist_pop_front(t) \/ FreeEnds(t) PROVE TableInv'
    BY <1>4, FreeBeginsEndsInv, slist_pop_frontInv
  <1> QED
    BY <1>1, <1>2, <1>3, <1>4 DEF Next

LEMMA TableInvariance == Spec => []TableInv
  BY TableInit, TableNext, PTL DEF Spec

(* hashtable.c:111: a key has one value, in the bucket of its hash, however *)
(* adds of it interleave, and a search always comes to an end.              *)
THEOREM KeysHaveOneValue == Spec => []OneValue
  <1>1. TableInv => OneValue
    BY DEF TableInv, Placed, Distinct, OneValue
  <1> QED
    BY <1>1, TableInvariance, PTL

(* hashtable.c:60: what is left when hashtable_free has returned: nothing. *)
THEOREM ValuesAreFreed == Spec => []ValuesFreed
  <1>1. ASSUME TableInv, NEW t \in Threads, at[t] = "over"
        PROVE  Stored = {} /\ \A n \in Nodes : key[n] = NULL
    <2>1. \A b \in Buckets : head[b] \notin DOMAIN next
      BY <1>1, HashtableAssumption DEF TableInv, FreeingAlone, TypeOK
    <2>2. Stored = {}
      BY <2>1, FromNull DEF Stored, Chain
    <2>3. \A u \in Threads : at[u] # "push"
      BY <1>1 DEF TableInv, FreeingAlone
    <2> QED
      BY <1>1, <2>2, <2>3 DEF TableInv, Allocated
  <1>2. TableInv => ValuesFreed
    BY <1>1 DEF ValuesFreed
  <1> QED
    BY <1>2, TableInvariance, PTL

-----------------------------------------------------------------------------
(* What each step does to the values stored.                               *)

LEMMA MakesNodeFacts ==
    ASSUME TableInv, NEW t \in Threads, PushMakesNode(t)
    PROVE  Stored' = Stored /\ \A n \in Stored : key'[n] = key[n]
  <1>1. PICK c \in Nodes : /\ key[c] = NULL /\ head' = head
                           /\ key' = [key EXCEPT ![c] = arg[t].key]
                           /\ next' = [next EXCEPT ![c] = head[Bucket(t)]]
    BY DEF PushMakesNode
  <1>2. c \notin Stored
    BY <1>1 DEF TableInv, Placed, Stored
  <1>3. Stored' = Stored
    BY <1>1, <1>2, NewNodeChains DEF TableInv
  <1> QED
    BY <1>1, <1>2, <1>3, StoredFacts DEF TableInv, TypeOK

LEMMA MovesHeadFacts ==
    ASSUME TableInv, NEW t \in Threads, PushMovesHead(t)
    PROVE  /\ Stored' = {cursor[t]} \cup Stored /\ key' = key
           /\ cursor[t] \in Nodes \ Stored /\ key[cursor[t]] = arg[t].key
           /\ arg[t] # NULL /\ arg[t].op = "add" /\ arg[t].key \in Keys
           /\ \A n \in Stored : key[n] # arg[t].key
  <1>1. /\ at[t] = "push" /\ head' = [head EXCEPT ![Bucket(t)] = cursor[t]]
        /\ UNCHANGED <<next, key>>
    BY DEF PushMovesHead, Move
  <1>2. /\ arg[t] # NULL /\ arg[t].op = "add" /\ arg[t].key \in Keys
        /\ Bucket(t) \in Buckets /\ Bucket(t) = Hash[arg[t].key]
    BY <1>1, HashtableAssumption DEF TableInv, Known, Calling, TypeOK, Bucket
  <1>3. /\ cursor[t] \in Nodes \ Stored /\ next[cursor[t]] = head[Bucket(t)]
        /\ key[cursor[t]] = arg[t].key /\ \A n \in Chain(Bucket(t)) : key[n] # arg[t].key
    BY <1>1 DEF TableInv, Known, Pushing
  <1>4. Stored' = {cursor[t]} \cup Stored
    BY <1>1, <1>2, <1>3, PushChains DEF TableInv
  <1>5. \A n \in Stored : key[n] # arg[t].key
    BY <1>2, <1>3 DEF TableInv, Placed, Stored
  <1> QED
    BY <1>1, <1>2, <1>3, <1>4, <1>5

(* The other steps but that which frees a value leave the chains alone. *)
LEMMA OtherSteps ==
    ASSUME [Next]_vars
    PROVE  \/ UNCHANGED <<head, next, key>>
           \/ \E t \in Threads : PushMakesNode(t) \/ PushMovesHead(t) \/ slist_pop_front(t)
  BY DEF Next, Works, vars, Calls, rwlock_wrlock, rwlock_rdlock, AddCounts, SearchGoesOn,
     SearchFinds, FindFindsNothing, PushFails, rwlock_unlock, FreeBegins, FreeEnds, tableVars

(* hashtable.c:134-137: until hashtable_free, a value found is not taken    *)
(* from its key by any step of any thread.                                  *)
THEOREM ValuesFoundStay == Spec => FoundStays
  <1>1. ASSUME TableInv, [Next]_vars, NEW n \in Stored, Open'
        PROVE  n \in Stored' /\ key'[n] = key[n]
    <2>1. CASE UNCHANGED <<head, next, key>>
      BY <2>1, SameChains
    <2>2. ASSUME NEW t \in Threads, PushMakesNode(t) PROVE n \in Stored' /\ key'[n] = key[n]
      BY <1>1, <2>2, MakesNodeFacts
    <2>3. ASSUME NEW t \in Threads, PushMovesHead(t) PROVE n \in Stored' /\ key'[n] = key[n]
      BY <1>1, <2>3, MovesHeadFacts
    <2>4. ASSUME NEW t \in Threads, slist_pop_front(t) PROVE FALSE
      BY <1>1, <2>4 DEF slist_pop_front, Open
    <2> QED
      BY <1>1, <2>1, <2>2, <2>3, <2>4, OtherSteps
  <1>2. TableInv /\ [Next]_vars => [\A n \in Stored : Open' => n \in Stored' /\ key'[n] = key[n]]_vars
    BY <1>1
  <1> QED
    BY <1>2, TableInvariance, PTL DEF Spec, FoundStays

-----------------------------------------------------------------------------
(* The table is a dictionary.                                              *)

(* What the dictionary says of a key. *)
StoresFacts ==
    \A k \in Keys : \/ ValueOf(k) = NULL /\ \A n \in Stored : key[n] # k
                    \/ ValueOf(k) \in Stored /\ key[ValueOf(k)] = k

LEMMA ValueOfFacts == TableInv => StoresFacts
  <1> SUFFICES ASSUME TableInv, NEW k \in Keys
               PROVE  \/ ValueOf(k) = NULL /\ \A n \in Stored : key[n] # k
                      \/ ValueOf(k) \in Stored /\ key[ValueOf(k)] = k
    BY DEF StoresFacts
  <1>1. Hash[k] \in Buckets
    BY HashtableAssumption
  <1>2. CASE \E n \in Chain(Hash[k]) : key[n] = k
    <2>1. ValueOf(k) \in Chain(Hash[k]) /\ key[ValueOf(k)] = k
      BY <1>2 DEF ValueOf
    <2> QED
      BY <1>1, <2>1 DEF Stored
  <1>3. CASE ~\E n \in Chain(Hash[k]) : key[n] = k
    <2>1. \A n \in Stored : key[n] # k
      BY <1>3 DEF TableInv, Placed, Stored
    <2> QED
      BY <1>3, <2>1 DEF ValueOf
  <1> QED
    BY <1>2, <1>3

LEMMA SameValues ==
    ASSUME TableInv, TableInv', Stored' = Stored, \A n \in Stored : key'[n] = key[n]
    PROVE  \A k \in Keys : ValueOf(k)' = ValueOf(k)
  <1>1. StoresFacts /\ StoresFacts'
    BY ValueOfFacts, PTL
  <1> QED
    BY <1>1 DEF StoresFacts, TableInv, Distinct

LEMMA SameStores ==
    ASSUME TableInv, TableInv', Stored' = Stored, \A n \in Stored : key'[n] = key[n], Open' = Open
    PROVE  Stores' = Stores
  BY SameValues DEF Stores

(* A thread inside an operation is in a table that is open. *)
LEMMA InsideOpen ==
    ASSUME TableInv, NEW t \in Threads, at[t] \in {"lock", "count", "search", "push", "unlock"}
    PROVE  Open
  BY DEF TableInv, FreeingAlone, Open

LEMMA InitDict == Init => Dict!Init
  <1> SUFFICES ASSUME Init PROVE Dict!Init
    OBVIOUS
  <1>1. Open
    BY DEF Init, Open
  <1>2. \A k \in Keys : ValueOf(k) = NULL
    <2>1. \A b \in Buckets : Chain(b) = {}
      BY FromNull, HashtableAssumption DEF Init, Chain
    <2> QED
      BY <2>1, HashtableAssumption DEF ValueOf
  <1> QED
    BY <1>1, <1>2 DEF Init, Dict!Init, Stores

(* A step that neither calls, nor answers, nor returns is no step of the   *)
(* dictionary.                                                             *)
LEMMA SilentSteps ==
    ASSUME TableInv, TableInv', NEW t \in Threads,
           \/ rwlock_wrlock(t) \/ rwlock_rdlock(t) \/ AddCounts(t) \/ SearchGoesOn(t)
           \/ PushMakesNode(t)
    PROVE  UNCHANGED Dict!vars
  <1>1. UNCHANGED <<arg, result>>
    BY DEF rwlock_wrlock, rwlock_rdlock, AddCounts, SearchGoesOn, PushMakesNode
  <1>2. /\ at[t] \in {"lock", "count", "search"} /\ at'[t] \in {"count", "search", "push"}
    BY DEF rwlock_wrlock, rwlock_rdlock, AddCounts, SearchGoesOn, PushMakesNode, Move, TableInv, TypeOK
  <1>3. Open /\ Open'
    BY <1>2, InsideOpen DEF TableInv, FreeingAlone, Open
  <1>4. Stored' = Stored /\ \A n \in Stored : key'[n] = key[n]
    <2>1. CASE PushMakesNode(t)
      BY <2>1, MakesNodeFacts
    <2>2. CASE ~PushMakesNode(t)
      BY <2>2, SameChains DEF rwlock_wrlock, rwlock_rdlock, AddCounts, SearchGoesOn, tableVars
    <2> QED
      BY <2>1, <2>2
  <1> QED
    BY <1>1, <1>3, <1>4, SameStores DEF Dict!vars

(* An operation that finds, or fails, answers by what the dictionary has. *)
LEMMA AnswerSteps ==
    ASSUME TableInv, TableInv', NEW t \in Threads,
           SearchFinds(t) \/ FindFindsNothing(t) \/ PushFails(t)
    PROVE  Dict!AddFinds(t) \/ Dict!AddFails(t) \/ Dict!Find(t)
  <1> DEFINE k == arg[t].key
             c == cursor[t]
  <1>1. /\ at[t] = "search" /\ at' = [at EXCEPT ![t] = "unlock"]
        /\ UNCHANGED <<tableVars, arg>>
    BY DEF SearchFinds, FindFindsNothing, PushFails, Move
  <1>2. /\ arg[t] # NULL /\ arg[t].op \in {"add", "find"} /\ k \in Keys /\ Bucket(t) \in Buckets
        /\ Bucket(t) = Hash[k] /\ result[t] = NULL
    BY <1>1, HashtableAssumption DEF TableInv, Known, Calling, TypeOK, Bucket
  <1>3. Open /\ Open'
    <2>1. \A u \in Threads : at'[u] \in {"freeing", "over"} => at'[u] = at[u]
      BY <1>1 DEF TableInv, TypeOK
    <2> QED
      BY <1>1, <2>1, InsideOpen DEF Open
  <1>4. Stores' = Stores
    BY <1>1, <1>3, SameStores, SameChains DEF tableVars
  <1>5. Stores[k] = ValueOf(k)
    BY <1>2, <1>3 DEF Stores
  <1>6. StoresFacts
    BY ValueOfFacts
  <1>7. c = NULL => ValueOf(k) = NULL
    <2>1. From(next, NULL) = {}
      BY FromNull, HashtableAssumption DEF TableInv, TypeOK
    <2>2. c = NULL => \A n \in Chain(Hash[k]) : key[n] # k
      BY <1>1, <1>2, <2>1 DEF TableInv, Known, Searching
    <2> QED
      BY <2>2 DEF ValueOf
  <1>8. c # NULL /\ key[c] = k => ValueOf(k) = c
    <2>1. c # NULL => c \in Stored
      BY <1>1, <1>2 DEF TableInv, Known, Searching, Stored
    <2> QED
      BY <1>2, <1>6, <2>1 DEF StoresFacts, TableInv, Distinct
  <1>9. Open' = Open
    BY <1>3
  <1>10. CASE SearchFinds(t) /\ arg[t].op = "add"
    <2>1. result' = [result EXCEPT ![t] = "FOUND"] /\ c # NULL /\ key[c] = k
      BY <1>10 DEF SearchFinds
    <2>2. Dict!AddFinds(t)
      BY <1>1, <1>2, <1>4, <1>5, <1>8, <1>9, <1>10, <2>1
      DEF Dict!AddFinds, Dict!Asks, Dict!Answers
    <2> QED
      BY <2>2
  <1>11. CASE PushFails(t)
    <2>1. result' = [result EXCEPT ![t] = "ERROR"] /\ c = NULL /\ arg[t].op = "add"
      BY <1>11 DEF PushFails
    <2>2. Dict!AddFails(t)
      BY <1>1, <1>2, <1>4, <1>5, <1>7, <1>9, <2>1
      DEF Dict!AddFails, Dict!Asks, Dict!Answers
    <2> QED
      BY <2>2
  <1>12. CASE SearchFinds(t) /\ arg[t].op = "find"
    <2>1. result' = [result EXCEPT ![t] = c] /\ c # NULL /\ key[c] = k
      BY <1>12 DEF SearchFinds
    <2>2. Dict!Find(t)
      BY <1>1, <1>2, <1>4, <1>5, <1>8, <1>9, <1>12, <2>1
      DEF Dict!Find, Dict!Asks, Dict!Answers
    <2> QED
      BY <2>2
  <1>13. CASE FindFindsNothing(t)
    <2>1. result' = [result EXCEPT ![t] = "NOTHING"] /\ c = NULL /\ arg[t].op = "find"
      BY <1>13 DEF FindFindsNothing
    <2>2. Dict!Find(t)
      BY <1>1, <1>2, <1>4, <1>5, <1>7, <1>9, <2>1
      DEF Dict!Find, Dict!Asks, Dict!Answers
    <2> QED
      BY <2>2
  <1> QED
    BY <1>2, <1>10, <1>11, <1>12, <1>13

(* An add that stores its value takes effect when it moves the head. *)
LEMMA AddSteps ==
    ASSUME TableInv, TableInv', NEW t \in Threads, PushMovesHead(t)
    PROVE  Dict!Add(t)
  <1>0. PICK k \in Keys, c \in Nodes : k = arg[t].key /\ c = cursor[t]
    BY MovesHeadFacts
  <1>1. /\ at[t] = "push" /\ at' = [at EXCEPT ![t] = "unlock"] /\ arg' = arg
        /\ result' = [result EXCEPT ![t] = "SUCCESS"]
    BY DEF PushMovesHead, Move
  <1>2. /\ Stored' = {c} \cup Stored /\ key' = key /\ c \in Nodes \ Stored /\ key[c] = k
        /\ arg[t] # NULL /\ arg[t].op = "add" /\ k \in Keys /\ \A n \in Stored : key[n] # k
    BY <1>0, MovesHeadFacts
  <1>3. Open /\ Open'
    <2>1. \A u \in Threads : at'[u] \in {"freeing", "over"} => at'[u] = at[u]
      BY <1>1 DEF TableInv, TypeOK
    <2> QED
      BY <1>1, <2>1, InsideOpen DEF Open
  <1>4. StoresFacts /\ StoresFacts'
    BY ValueOfFacts, PTL
  <1>5. ValueOf(k) = NULL /\ ValueOf(k)' = c
    <2>1. ValueOf(k) = NULL
      BY <1>2, <1>4 DEF StoresFacts
    <2>2. c \in Stored' /\ key'[c] = k
      BY <1>2
    <2>3. \/ ValueOf(k)' = NULL /\ \A n \in Stored' : key'[n] # k
          \/ ValueOf(k)' \in Stored' /\ key'[ValueOf(k)'] = k
      BY <1>2, <1>4 DEF StoresFacts
    <2>4. ValueOf(k)' \in Stored' /\ key'[ValueOf(k)'] = k
      BY <2>2, <2>3
    <2> QED
      BY <1>2, <2>1, <2>4
  <1>6. \A j \in Keys \ {k} : ValueOf(j)' = ValueOf(j)
    BY <1>2, <1>4 DEF StoresFacts, TableInv, Distinct
  <1>7. \A j \in Keys : ValueOf(j) # c
    BY <1>2, <1>4, HashtableAssumption DEF StoresFacts
  <1>8. /\ Stores[k] = NULL /\ \A j \in Keys : Stores[j] # c
        /\ Stores' = [Stores EXCEPT ![k] = c]
    <2>1. Stores = [j \in Keys |-> ValueOf(j)] /\ Stores' = [j \in Keys |-> ValueOf(j)']
      BY <1>3 DEF Stores
    <2>2. ASSUME NEW j \in Keys PROVE Stores'[j] = [Stores EXCEPT ![k] = c][j]
      <3>1. CASE j = k
        BY <1>2, <1>5, <2>1, <3>1
      <3>2. CASE j # k
        BY <1>2, <1>6, <2>1, <3>2
      <3> QED
        BY <3>1, <3>2
    <2>3. DOMAIN Stores = Keys /\ DOMAIN Stores' = Keys
      BY <2>1
    <2>4. Stores' = [Stores EXCEPT ![k] = c]
      BY <2>1, <2>2, <2>3
    <2> QED
      BY <1>2, <1>5, <1>7, <2>1, <2>4
  <1>9. result[t] = NULL
    BY <1>1 DEF TableInv, Known, Calling
  <1>10. Open' = Open
    BY <1>3
  <1>11. /\ arg[t] # NULL /\ arg[t].op = "add" /\ arg[t].key = k /\ c \in Nodes
    BY <1>0, <1>2
  <1> QED
    BY <1>0, <1>1, <1>8, <1>9, <1>10, <1>11 DEF Dict!Add, Dict!Asks, Dict!Answers

(* A call, a return, and the freeing of the table, which is one step of    *)
(* the dictionary.                                                         *)
LEMMA CallSteps ==
    ASSUME TableInv, TableInv', NEW t \in Threads, Calls(t)
    PROVE  Dict!Call(t)
  <1>1. PICK o \in {"add", "find"}, k \in Keys :
          /\ arg' = [arg EXCEPT ![t] = [op |-> o, key |-> k]]
          /\ at[t] = "idle" /\ at' = [at EXCEPT ![t] = "lock"] /\ Open
          /\ UNCHANGED <<tableVars, result>>
    BY DEF Calls, Move
  <1>2. [op |-> o, key |-> k] \in Dict!Operation
    BY DEF Dict!Operation
  <1>3. Open' = Open
    BY <1>1 DEF TableInv, TypeOK, Open
  <1>4. Stores' = Stores
    BY <1>1, <1>3, SameStores, SameChains DEF tableVars
  <1>5. arg[t] = NULL
    BY <1>1 DEF TableInv, Known, Calling
  <1> QED
    BY <1>1, <1>2, <1>3, <1>4, <1>5 DEF Dict!Call

LEMMA ReturnSteps ==
    ASSUME TableInv, TableInv', NEW t \in Threads, rwlock_unlock(t)
    PROVE  Dict!Return(t)
  <1>1. /\ at[t] = "unlock" /\ at' = [at EXCEPT ![t] = "idle"]
        /\ arg' = [arg EXCEPT ![t] = NULL] /\ result' = [result EXCEPT ![t] = NULL]
        /\ UNCHANGED tableVars
    BY DEF rwlock_unlock, Move
  <1>2. Open' = Open
    BY <1>1 DEF TableInv, TypeOK, Open
  <1>3. Stores' = Stores
    BY <1>1, <1>2, SameStores, SameChains DEF tableVars
  <1>4. result[t] # NULL
    BY <1>1 DEF TableInv, Known, Calling
  <1> QED
    BY <1>1, <1>2, <1>3, <1>4 DEF Dict!Return

LEMMA FreeSteps ==
    ASSUME TableInv, TableInv', NEW t \in Threads, FreeBegins(t) \/ slist_pop_front(t) \/ FreeEnds(t)
    PROVE  Dict!Free \/ UNCHANGED Dict!vars
  <1>1. UNCHANGED <<arg, result>>
    BY DEF FreeBegins, slist_pop_front, FreeEnds
  <1>2. ~Open' /\ Stores' = [k \in Keys |-> NULL]
    <2>1. at'[t] \in {"freeing", "over"}
      BY DEF FreeBegins, slist_pop_front, FreeEnds, Move, TableInv, TypeOK
    <2> QED
      BY <2>1 DEF Open, Stores
  <1>3. CASE FreeBegins(t)
    <2>1. Open /\ \A u \in Threads : arg[u] = NULL
      BY <1>3 DEF FreeBegins, TableInv, Known, Calling
    <2> QED
      BY <1>1, <1>2, <2>1 DEF Dict!Free
  <1>4. CASE slist_pop_front(t) \/ FreeEnds(t)
    <2>1. ~Open /\ Stores = [k \in Keys |-> NULL]
      BY <1>4 DEF slist_pop_front, FreeEnds, Move, Open, Stores
    <2>2. Stores' = Stores
      BY <1>2, <2>1
    <2>3. Open' = Open
      BY <1>2, <2>1 DEF Open
    <2> QED
      BY <1>1, <2>2, <2>3 DEF Dict!vars
  <1> QED
    BY <1>3, <1>4

(* hashtable.c:100-141: under the read-write lock the operations of any     *)
(* number of threads, one access to memory at a time, are those of a        *)
(* dictionary, each at one instant between its call and its return.         *)
THEOREM IsDictionary == Spec => ImplementsDictionary
  <1>1. ASSUME TableInv, TableInv', [Next]_vars PROVE [Dict!Next]_Dict!vars
    <2>1. CASE UNCHANGED vars
      <3>1. UNCHANGED <<arg, result>> /\ Open' = Open
        BY <2>1 DEF vars, Open
      <3>2. Stores' = Stores
        BY <1>1, <2>1, <3>1, SameStores, SameChains DEF vars
      <3> QED
        BY <3>1, <3>2 DEF Dict!vars
    <2>2. ASSUME NEW t \in Threads, Works(t) PROVE Dict!Next \/ UNCHANGED Dict!vars
      BY <1>1, <2>2, SilentSteps, AnswerSteps, AddSteps, ReturnSteps DEF Works, Dict!Next
    <2>3. ASSUME NEW t \in Threads, Calls(t) \/ rwlock_wrlock(t) \/ rwlock_rdlock(t)
          PROVE  Dict!Next \/ UNCHANGED Dict!vars
      BY <1>1, <2>3, CallSteps, SilentSteps DEF Dict!Next
    <2>4. ASSUME NEW t \in Threads, FreeBegins(t) \/ slist_pop_front(t) \/ FreeEnds(t)
          PROVE  Dict!Next \/ UNCHANGED Dict!vars
      BY <1>1, <2>4, FreeSteps DEF Dict!Next
    <2> QED
      BY <1>1, <2>1, <2>2, <2>3, <2>4 DEF Next
  <1> QED
    BY <1>1, InitDict, TableInvariance, PTL DEF Spec, ImplementsDictionary, Dict!Spec

=============================================================================
