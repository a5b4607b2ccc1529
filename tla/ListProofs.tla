----------------------------- MODULE ListProofs -----------------------------
(***************************************************************************)
(* What a loop over links visits, for every link; what each operation of   *)
(* List makes of a well linked list and of the sequence that list_foreach  *)
(* visits; and that MCList keeps its list well linked and implements a     *)
(* sequence, for every set of nodes.                                       *)
(***************************************************************************)
EXTENDS MCList, FiniteSetTheorems, SequenceTheorems, WellFoundedInduction, TLAPS

-----------------------------------------------------------------------------
(* Chains: the set From is closed, is the least closed set, and changes    *)
(* with the link as the loop does.  To show that all that is reached has a *)
(* property, show that what has it is closed: this is what stands for      *)
(* induction over the loop.                                                *)

LEMMA FromIsClosed ==
    ASSUME NEW link, NEW first
    PROVE  From(link, first) \in SUBSET DOMAIN link /\ Closed(link, first, From(link, first))
  BY DEF From, Closed

LEMMA FromIsLeast ==
    ASSUME NEW link, NEW first, NEW S \in SUBSET DOMAIN link, Closed(link, first, S)
    PROVE  From(link, first) \subseteq S
  BY DEF From

(* A loop that begins at NULL visits nothing. *)
LEMMA FromNull ==
    ASSUME NEW link, NEW first, first \notin DOMAIN link
    PROVE  From(link, first) = {}
  <1>1. Closed(link, first, {})
    BY DEF Closed
  <1> QED
    BY <1>1, FromIsLeast

(* The loop visits its node, then what a loop from the next node visits. *)
LEMMA FromStep ==
    ASSUME NEW link, NEW first \in DOMAIN link
    PROVE  From(link, first) = {first} \cup From(link, link[first])
  <1> DEFINE R == From(link, first)
             T == From(link, link[first])
  <1>1. R \in SUBSET DOMAIN link /\ Closed(link, first, R)
    BY FromIsClosed
  <1>2. T \in SUBSET DOMAIN link /\ Closed(link, link[first], T)
    BY FromIsClosed
  <1>3. R \subseteq {first} \cup T
    <2>1. {first} \cup T \in SUBSET DOMAIN link
      BY <1>2
    <2>2. Closed(link, first, {first} \cup T)
      BY <1>2 DEF Closed
    <2> HIDE DEF T
    <2> QED
      BY <2>1, <2>2, FromIsLeast
  <1>4. T \subseteq R
    <2>1. Closed(link, link[first], R)
      BY <1>1 DEF Closed
    <2> HIDE DEF R
    <2> QED
      BY <1>1, <2>1, FromIsLeast
  <1>5. first \in R
    BY <1>1 DEF Closed
  <1> QED
    BY <1>3, <1>4, <1>5

(* A loop from a node that another loop visits visits no more than it. *)
LEMMA FromWithin ==
    ASSUME NEW link, NEW first, NEW n \in From(link, first)
    PROVE  From(link, n) \subseteq From(link, first)
  <1> DEFINE R == From(link, first)
  <1>1. R \in SUBSET DOMAIN link /\ Closed(link, first, R)
    BY FromIsClosed
  <1>2. Closed(link, n, R)
    BY <1>1 DEF Closed
  <1>3. From(link, n) \subseteq R
    <2> HIDE DEF R
    <2> QED
      BY <1>1, <1>2, FromIsLeast
  <1> QED
    BY <1>3

(* What is visited depends on the links of what is visited only. *)
LEMMA FromFrame ==
    ASSUME NEW link, NEW new, NEW first, DOMAIN new = DOMAIN link,
           \A n \in From(link, first) : new[n] = link[n]
    PROVE  From(new, first) = From(link, first)
  <1> DEFINE R == From(link, first)
             T == From(new, first)
  <1>1. R \in SUBSET DOMAIN link /\ Closed(link, first, R)
    BY FromIsClosed
  <1>2. T \in SUBSET DOMAIN link /\ Closed(new, first, T)
    BY FromIsClosed
  <1>3. T \subseteq R
    <2>1. Closed(new, first, R)
      BY <1>1 DEF Closed
    <2> HIDE DEF R
    <2> QED
      BY <1>1, <2>1, FromIsLeast
  <1>4. R \subseteq T
    <2>1. \A n \in T : new[n] = link[n]
      BY <1>3
    <2>2. Closed(link, first, T)
      BY <1>2, <2>1 DEF Closed
    <2> HIDE DEF T
    <2> QED
      BY <1>2, <2>2, FromIsLeast
  <1> QED
    BY <1>3, <1>4

LEMMA EndsFrame ==
    ASSUME NEW link, NEW new, NEW first, DOMAIN new = DOMAIN link,
           \A n \in From(link, first) : new[n] = link[n], Ends(link, first)
    PROVE  Ends(new, first)
  BY FromFrame DEF Ends

(* Every node visited but the first is the next of a node visited. *)
LEMMA FromHasPredecessor ==
    ASSUME NEW link, NEW first, NEW n \in From(link, first), n # first
    PROVE  \E m \in From(link, first) : link[m] = n
  <1> DEFINE R == From(link, first)
  <1> SUFFICES ASSUME \A m \in R : link[m] # n PROVE FALSE
    OBVIOUS
  <1>1. R \in SUBSET DOMAIN link /\ Closed(link, first, R)
    BY FromIsClosed
  <1>2. R \ {n} \in SUBSET DOMAIN link /\ Closed(link, first, R \ {n})
    BY <1>1 DEF Closed
  <1>3. R \subseteq R \ {n}
    BY <1>2, FromIsLeast
  <1> QED
    BY <1>3

(* A loop that ends does not come back to a node it has visited. *)
LEMMA NoReturn ==
    ASSUME NEW link, NEW first, Ends(link, first), NEW n \in From(link, first)
    PROVE  n \notin From(link, link[n])
  <1> DEFINE T == {m \in From(link, n) : n \in From(link, m)}
  <1> SUFFICES ASSUME n \in From(link, link[n]) PROVE FALSE
    OBVIOUS
  <1>1. n \in DOMAIN link /\ From(link, n) \subseteq From(link, first)
    BY FromIsClosed, FromWithin
  <1>2. From(link, n) \in SUBSET DOMAIN link /\ Closed(link, n, From(link, n))
    BY FromIsClosed
  <1>3. ASSUME NEW m \in T PROVE link[m] \in T
    <2>1. n \in From(link, link[m])
      <3>1. CASE m = n
        BY <3>1
      <3>2. CASE m # n
        BY <1>2, <1>3, <3>2, FromStep
      <3> QED
        BY <3>1, <3>2
    <2>2. link[m] \in DOMAIN link
      BY <2>1, FromNull
    <2> QED
      BY <1>2, <1>3, <2>1, <2>2 DEF Closed
  <1>4. n \in T
    BY <1>1, <1>2, FromStep DEF Closed
  <1> QED
    BY <1>1, <1>3, <1>4 DEF Ends

-----------------------------------------------------------------------------
(* Lists.  The three pushes are one insertion, behind HEAD, behind the tail *)
(* or behind what leads to a node; list_remove is its inverse.             *)

LEMMA ListFacts ==
    ASSUME NEW l \in ListRecord
    PROVE  /\ DOMAIN l.link = Location /\ DOMAIN l.previous = Node
           /\ \A a \in Location : l.link[a] \in Node \cup {NULL}
           /\ l.tail \in Location
           /\ HEAD \in Location /\ NULL \notin Location /\ HEAD \notin Node
           /\ Reached(l) \in SUBSET Location /\ HEAD \in Reached(l)
           /\ \A a \in Reached(l) : l.link[a] # NULL => l.link[a] \in Reached(l)
           /\ Members(l) \in SUBSET Node /\ Reached(l) = Members(l) \cup {HEAD}
  <1>1. /\ DOMAIN l.link = Location /\ DOMAIN l.previous = Node /\ l.tail \in Location
        /\ \A a \in Location : l.link[a] \in Node \cup {NULL}
        /\ HEAD \in Location /\ NULL \notin Location /\ HEAD \notin Node
    BY NodeAssumption DEF ListRecord, Location, HEAD, NULL
  <1>2. Reached(l) \in SUBSET Location /\ Closed(l.link, HEAD, Reached(l))
    BY <1>1, FromIsClosed DEF Reached
  <1>3. HEAD \in Reached(l) /\ \A a \in Reached(l) : l.link[a] # NULL => l.link[a] \in Reached(l)
    BY <1>1, <1>2 DEF Closed, Location
  <1> QED
    BY <1>1, <1>2, <1>3 DEF Members, Location

(* A node of the list is behind the place its back link names. *)
LEMMA BackLink ==
    ASSUME NEW l \in ListRecord, WellLinked(l), NEW n \in Members(l)
    PROVE  /\ l.previous[n] \in Reached(l) /\ l.link[l.previous[n]] = n
           /\ l.previous[n] # n /\ l.link[n] # n
           /\ \A a \in Reached(l) : l.link[a] = n => a = l.previous[n]
  <1>1. PICK a \in Reached(l) : l.link[a] = n
    BY FromHasPredecessor DEF Members, Reached
  <1>2. n # NULL /\ n \in Node /\ n \in Reached(l)
    BY ListFacts
  <1>3. \A b \in Reached(l) : l.link[b] = n => b = l.previous[n]
    BY <1>2 DEF WellLinked
  <1>4. l.link[n] # n
    <2>1. {n} \in SUBSET From(l.link, HEAD) /\ {n} # {}
      BY <1>2 DEF Reached
    <2>2. \E m \in {n} : l.link[m] \notin {n}
      BY <2>1 DEF WellLinked, Ends
    <2> QED
      BY <2>2
  <1> QED
    BY <1>1, <1>2, <1>3, <1>4

LEMMA NewIsGood == Good(list_new) /\ Members(list_new) = {}
  <1> DEFINE l == list_new
  <1>1. l \in ListRecord /\ \A a \in Location : l.link[a] = NULL
    BY DEF list_new, ListRecord, Location
  <1>2. l.tail = HEAD
    BY DEF list_new
  <1> HIDE DEF l
  <1>3. /\ HEAD \in Location /\ NULL \notin Location /\ HEAD \in Reached(l)
        /\ Reached(l) \in SUBSET Location /\ DOMAIN l.link = Location
    BY <1>1, ListFacts
  <1>4. Reached(l) = {HEAD}
    <2>1. Closed(l.link, HEAD, {HEAD}) /\ {HEAD} \in SUBSET DOMAIN l.link
      BY <1>1, <1>3 DEF Closed
    <2> QED
      BY <1>3, <2>1, FromIsLeast DEF Reached
  <1>5. WellLinked(l)
    BY <1>1, <1>2, <1>3, <1>4 DEF WellLinked, Ends, Reached
  <1>6. Members(l) = {}
    BY <1>4 DEF Members
  <1> QED
    BY <1>1, <1>5, <1>6 DEF Good, l, Location

(* What a loop over the list visits, and how far it has still to go.         *)
LEMMA MembersAhead ==
    ASSUME NEW l, Good(l)
    PROVE  /\ Members(l) = From(l.link, l.link[HEAD]) /\ From(l.link, NULL) = {}
           /\ \A n \in Members(l) :
                 /\ From(l.link, n) = {n} \cup From(l.link, l.link[n])
                 /\ n \notin From(l.link, l.link[n])
                 /\ l.link[n] \in Members(l) \cup {NULL}
  <1>1. /\ l \in ListRecord /\ DOMAIN l.link = Location /\ HEAD \in Location /\ HEAD \in Reached(l)
        /\ NULL \notin Location /\ HEAD \notin Node /\ Ends(l.link, HEAD)
        /\ \A a \in Location : l.link[a] \in Node \cup {NULL}
        /\ \A a \in Reached(l) : l.link[a] # NULL => l.link[a] \in Reached(l)
        /\ Reached(l) \in SUBSET Location
    BY ListFacts DEF Good, WellLinked
  <1>2. From(l.link, NULL) = {}
    BY <1>1, FromNull
  <1>3. HEAD \notin From(l.link, l.link[HEAD])
    BY <1>1, NoReturn DEF Reached
  <1>4. Reached(l) = {HEAD} \cup From(l.link, l.link[HEAD])
    BY <1>1, FromStep DEF Reached
  <1>5. Members(l) = From(l.link, l.link[HEAD])
    BY <1>3, <1>4 DEF Members
  <1>6. ASSUME NEW n \in Members(l)
        PROVE  /\ From(l.link, n) = {n} \cup From(l.link, l.link[n])
               /\ n \notin From(l.link, l.link[n])
               /\ l.link[n] \in Members(l) \cup {NULL}
    <2>1. n \in Reached(l) /\ n \in Location
      BY <1>1 DEF Members
    <2>2. From(l.link, n) = {n} \cup From(l.link, l.link[n])
      BY <1>1, <2>1, FromStep
    <2>3. n \notin From(l.link, l.link[n])
      BY <1>1, <2>1, NoReturn DEF Reached
    <2> QED
      BY <1>1, <2>1, <2>2, <2>3 DEF Members
  <1> QED
    BY <1>2, <1>5, <1>6

(* A chain in which the tail leads nowhere has an end. *)
LEMMA TailEnds ==
    ASSUME NEW l \in ListRecord, l.link[l.tail] = NULL, l.tail \in Reached(l)
    PROVE  Ends(l.link, HEAD)
  <1> DEFINE link == l.link
             T == {n \in Reached(l) : l.tail \in From(link, n)}
  <1>1. /\ DOMAIN link = Location /\ NULL \notin Location /\ Reached(l) \in SUBSET Location
        /\ HEAD \in Location /\ HEAD \in Reached(l)
        /\ \A a \in Reached(l) : link[a] # NULL => link[a] \in Reached(l)
        /\ \A a \in Location : link[a] \in Location \cup {NULL}
    BY ListFacts DEF Location
  <1>2. ASSUME NEW n \in T, link[n] \in Location PROVE link[n] \in T
    <2>1. n # l.tail /\ From(link, n) = {n} \cup From(link, link[n])
      BY <1>1, <1>2, FromStep
    <2>2. link[n] \in Reached(l)
      BY <1>1, <1>2
    <2> QED
      BY <1>2, <2>1, <2>2
  <1>3. Reached(l) \subseteq T
    <2>1. HEAD \in T
      BY <1>1 DEF Reached
    <2>2. Closed(link, HEAD, T) /\ T \in SUBSET DOMAIN link
      BY <1>1, <1>2, <2>1 DEF Closed
    <2> HIDE DEF T
    <2> QED
      BY <2>2, FromIsLeast DEF Reached
  <1>4. ASSUME NEW S \in SUBSET Reached(l), NEW n \in S, \A m \in S : link[m] \in S
        PROVE  FALSE
    <2>1. S \in SUBSET DOMAIN link /\ Closed(link, n, S)
      BY <1>1, <1>4 DEF Closed
    <2>2. From(link, n) \subseteq S
      BY <2>1, FromIsLeast
    <2>3. l.tail \in S
      BY <1>3, <1>4, <2>2
    <2> QED
      BY <1>1, <1>4, <2>3
  <1> QED
    BY <1>4 DEF Ends, Reached

-----------------------------------------------------------------------------
(* Insertion.                                                              *)

(* A node off the list, put behind a place of the list. *)
Inserted(l, new, p, n) ==
    /\ new.link = [l.link EXCEPT ![p] = n, ![n] = l.link[p]]
    /\ \A m \in Node : new.previous[m] = IF m = n THEN p
                                        ELSE IF m = l.link[p] THEN n ELSE l.previous[m]
    /\ new.tail = IF l.link[p] = NULL THEN n ELSE l.tail

LEMMA InsertReaches ==
    ASSUME NEW l, Good(l), NEW p \in Reached(l), NEW n \in Node \ Members(l),
           NEW new \in ListRecord, new.link = [l.link EXCEPT ![p] = n, ![n] = l.link[p]]
    PROVE  Reached(new) = Reached(l) \cup {n}
  <1>1. /\ l \in ListRecord /\ l.link[n] = NULL /\ DOMAIN l.link = Location
        /\ n \in Location /\ n # NULL /\ n # HEAD /\ n # p /\ p \in Location
        /\ NULL \notin Location /\ HEAD \in Location /\ HEAD \in Reached(l)
        /\ Reached(l) \in SUBSET Location
        /\ \A a \in Reached(l) : l.link[a] # NULL => l.link[a] \in Reached(l)
        /\ \A a \in Location : l.link[a] \in Location \cup {NULL}
    BY ListFacts DEF Good, Location
  <1>2. /\ DOMAIN new.link = Location /\ new.link[p] = n /\ new.link[n] = l.link[p]
        /\ \A a \in Location \ {p, n} : new.link[a] = l.link[a]
    BY <1>1
  <1>3. /\ Reached(new) \in SUBSET Location /\ HEAD \in Reached(new)
        /\ \A a \in Reached(new) : new.link[a] # NULL => new.link[a] \in Reached(new)
    BY ListFacts
  <1>4. Reached(new) \subseteq Reached(l) \cup {n}
    <2>1. /\ Closed(new.link, HEAD, Reached(l) \cup {n})
          /\ Reached(l) \cup {n} \in SUBSET DOMAIN new.link
      BY <1>1, <1>2 DEF Closed
    <2> QED
      BY <2>1, FromIsLeast DEF Reached
  <1>5. Reached(l) \subseteq Reached(new)
    <2>1. ASSUME NEW a \in Reached(new), l.link[a] \in Location PROVE l.link[a] \in Reached(new)
      <3>1. CASE a = p
        BY <1>1, <1>2, <1>3, <2>1, <3>1
      <3>2. CASE a # p
        BY <1>1, <1>2, <1>3, <2>1, <3>2
      <3> QED
        BY <3>1, <3>2
    <2>2. Closed(l.link, HEAD, Reached(new)) /\ Reached(new) \in SUBSET DOMAIN l.link
      BY <1>1, <1>3, <2>1 DEF Closed
    <2> QED
      BY <2>2, FromIsLeast DEF Reached
  <1>6. n \in Reached(new)
    BY <1>1, <1>2, <1>3, <1>5
  <1> QED
    BY <1>4, <1>5, <1>6

LEMMA InsertGood ==
    ASSUME NEW l, Good(l), NEW p \in Reached(l), NEW n \in Node \ Members(l),
           NEW new \in ListRecord, Inserted(l, new, p, n)
    PROVE  Good(new) /\ Members(new) = Members(l) \cup {n}
  <1>1. Reached(new) = Reached(l) \cup {n}
    BY InsertReaches DEF Inserted
  <1>2. /\ l \in ListRecord /\ l.link[n] = NULL /\ n # NULL /\ n # HEAD /\ n # p /\ n \notin Reached(l)
        /\ n \in Location /\ p \in Location /\ DOMAIN l.link = Location
        /\ Reached(l) \in SUBSET Location /\ HEAD \notin Node
        /\ \A a \in Reached(l) : l.link[a] # NULL => l.link[a] \in Reached(l)
        /\ \A a \in Location : l.link[a] \in Node \cup {NULL}
    BY ListFacts DEF Good, Location
  <1>3. /\ new.link[p] = n /\ new.link[n] = l.link[p]
        /\ \A a \in Location \ {p, n} : new.link[a] = l.link[a]
    BY <1>2 DEF Inserted
  <1>4. Members(new) = Members(l) \cup {n}
    BY <1>1, <1>2 DEF Members
  <1>5. new.link[new.tail] = NULL /\ new.tail \in Reached(new)
    <2>1. l.link[l.tail] = NULL /\ l.tail \in Reached(l)
      BY DEF Good, WellLinked
    <2>2. CASE l.link[p] = NULL
      BY <1>1, <1>3, <2>2 DEF Inserted
    <2>3. CASE l.link[p] # NULL
      BY <1>1, <1>2, <1>3, <2>1, <2>3 DEF Inserted
    <2> QED
      BY <2>2, <2>3
  <1>6. ASSUME NEW a \in Reached(new), new.link[a] # NULL
        PROVE  new.previous[new.link[a]] = a
    <2>1. \A b \in Reached(l) : l.link[b] # NULL => l.previous[l.link[b]] = b
      BY DEF Good, WellLinked
    <2>2. CASE a = p
      BY <1>3, <2>2 DEF Inserted
    <2>3. CASE a = n
      BY <1>2, <1>3, <1>6, <2>3 DEF Inserted
    <2>4. CASE a \in Reached(l) \ {p}
      <3>1. new.link[a] = l.link[a] /\ l.link[a] \in Reached(l) /\ l.link[a] \in Node
        BY <1>2, <1>3, <1>6, <2>4
      <3>2. l.link[a] # n /\ l.link[a] # l.link[p]
        BY <1>2, <1>6, <2>1, <2>4, <3>1
      <3> QED
        BY <1>6, <2>1, <2>4, <3>1, <3>2 DEF Inserted
    <2> QED
      BY <1>1, <1>6, <2>2, <2>3, <2>4
  <1>7. \A m \in Node \ Members(new) : new.link[m] = NULL
    BY <1>2, <1>3, <1>4 DEF Good, Members, Location
  <1> QED
    BY <1>4, <1>5, <1>6, <1>7, TailEnds DEF Good, WellLinked

LEMMA PushBackGood ==
    ASSUME NEW l, Good(l), NEW n \in Node \ Members(l)
    PROVE  Good(list_push_back(l, n)) /\ Members(list_push_back(l, n)) = Members(l) \cup {n}
  <1> DEFINE new == list_push_back(l, n)
  <1>1. /\ l \in ListRecord /\ l.tail \in Location /\ l.tail \in Reached(l) /\ n # l.tail
        /\ l.link[n] = NULL /\ l.link[l.tail] = NULL /\ n \in Location
    BY ListFacts DEF Good, WellLinked, Location
  <1>2. /\ new = [link |-> [l.link EXCEPT ![l.tail] = n],
                  previous |-> [l.previous EXCEPT ![n] = l.tail], tail |-> n]
        /\ new \in ListRecord
    <2> DEFINE linked == LinkLast(l, n)
    <2>1. linked = [link |-> [l.link EXCEPT ![l.tail] = n],
                    previous |-> [l.previous EXCEPT ![n] = l.tail], tail |-> l.tail]
      <3>1. /\ linked.link = [l.link EXCEPT ![l.tail] = n]
            /\ linked.previous = [l.previous EXCEPT ![n] = l.tail]
            /\ linked.tail = l.tail /\ DOMAIN linked = {"link", "previous", "tail"}
        BY <1>1 DEF LinkLast, ListRecord
      <3>2. linked = [f \in {"link", "previous", "tail"} |-> linked[f]]
        BY <1>1 DEF LinkLast, ListRecord
      <3> HIDE DEF linked
      <3> QED
        BY <3>1, <3>2
    <2>2. new = [linked EXCEPT !.tail = n]
      BY DEF list_push_back, MoveTail
    <2> HIDE DEF linked, new
    <2>3. new = [link |-> [l.link EXCEPT ![l.tail] = n],
                 previous |-> [l.previous EXCEPT ![n] = l.tail], tail |-> n]
      BY <2>1, <2>2
    <2>4. /\ [l.link EXCEPT ![l.tail] = n] \in [Location -> Node \cup {NULL}]
          /\ [l.previous EXCEPT ![n] = l.tail] \in [Node -> Location \cup {NULL}]
      BY <1>1 DEF ListRecord
    <2> QED
      BY <1>1, <2>3, <2>4 DEF ListRecord
  <1> HIDE DEF new
  <1>3. Inserted(l, new, l.tail, n)
    <2>1. new.link = [l.link EXCEPT ![l.tail] = n, ![n] = l.link[l.tail]]
      BY <1>1, <1>2 DEF ListRecord
    <2>2. \A m \in Node : m # NULL
      BY NodeAssumption DEF NULL
    <2> QED
      BY <1>1, <1>2, <2>1, <2>2 DEF Inserted, ListRecord
  <1>4. Good(new) /\ Members(new) = Members(l) \cup {n}
    BY <1>1, <1>2, <1>3, InsertGood
  <1> QED
    BY <1>4 DEF new

(* Its first step has the node on the list, its second only moves the tail.  *)
LEMMA LinkLastGood ==
    ASSUME NEW l, Good(l), NEW n \in Node \ Members(l)
    PROVE  /\ LinkLast(l, n) \in ListRecord /\ Good(MoveTail(LinkLast(l, n), n))
           /\ Members(LinkLast(l, n)) = Members(l) \cup {n}
  <1> DEFINE linked == LinkLast(l, n)
             new == MoveTail(linked, n)
  <1>1. linked \in ListRecord
    <2>1. l \in ListRecord /\ l.tail \in Location /\ n \in Location
      BY ListFacts DEF Good, Location
    <2> QED
      BY <2>1 DEF LinkLast, ListRecord
  <1>2. Good(new) /\ Members(new) = Members(l) \cup {n}
    BY PushBackGood DEF list_push_back
  <1> HIDE DEF linked
  <1>3. new.link = linked.link
    BY <1>1 DEF MoveTail, ListRecord
  <1> HIDE DEF new
  <1>4. Members(new) = Members(linked)
    BY <1>3 DEF Members, Reached
  <1>5. linked \in ListRecord /\ Good(new) /\ Members(linked) = Members(l) \cup {n}
    BY <1>1, <1>2, <1>4
  <1> QED
    BY <1>5 DEF linked, new

LEMMA PushFrontGood ==
    ASSUME NEW l, Good(l), NEW n \in Node \ Members(l)
    PROVE  Good(list_push_front(l, n)) /\ Members(list_push_front(l, n)) = Members(l) \cup {n}
  <1> DEFINE new == list_push_front(l, n)
  <1>1. /\ l \in ListRecord /\ n # HEAD /\ HEAD \in Reached(l) /\ HEAD \in Location
        /\ n \in Location
    BY ListFacts DEF Good, Location
  <1>2. /\ new.link = [l.link EXCEPT ![HEAD] = n, ![n] = l.link[HEAD]]
        /\ new.previous = [m \in Node |-> CASE m = n -> HEAD [] m = l.link[HEAD] -> n
                                           [] OTHER -> l.previous[m]]
        /\ new.tail = IF l.link[HEAD] = NULL THEN n ELSE l.tail
        /\ DOMAIN new = {"link", "previous", "tail"}
        /\ new = [link |-> new.link, previous |-> new.previous, tail |-> new.tail]
    BY DEF list_push_front
  <1> HIDE DEF new
  <1>3. n # l.link[HEAD]
    BY <1>1, ListFacts DEF Members
  <1>4. \A m \in Node : new.previous[m] = IF m = n THEN HEAD
                                    ELSE IF m = l.link[HEAD] THEN n ELSE l.previous[m]
    BY <1>2, <1>3
  <1>5. new \in ListRecord
    <2>1. new.link \in [Location -> Node \cup {NULL}]
      BY <1>1, <1>2 DEF ListRecord
    <2>2. new.previous \in [Node -> Location \cup {NULL}]
      BY <1>1, <1>2, <1>4 DEF ListRecord
    <2>3. new.tail \in Location
      BY <1>1, <1>2 DEF ListRecord
    <2> QED
      BY <1>2, <2>1, <2>2, <2>3 DEF ListRecord
  <1>6. Good(new) /\ Members(new) = Members(l) \cup {n}
    BY <1>1, <1>2, <1>4, <1>5, InsertGood DEF Inserted
  <1> QED
    BY <1>6 DEF new

(* The place before a node of the list is the one its back link names. *)
LEMMA PushBeforeGood ==
    ASSUME NEW l, Good(l), NEW n \in Node \ Members(l), NEW next \in Members(l) \cup {NULL}
    PROVE  /\ Good(list_push_before(l, next, n))
           /\ Members(list_push_before(l, next, n)) = Members(l) \cup {n}
  <1>1. CASE next = NULL
    BY <1>1, PushBackGood DEF list_push_before
  <1>2. CASE next # NULL
    <2> DEFINE new == list_push_before(l, next, n)
               p == l.previous[next]
    <2>1. /\ l \in ListRecord /\ next \in Members(l) /\ next \in Node /\ n # next
          /\ p \in Reached(l) /\ l.link[p] = next /\ p # n /\ p \in Location /\ n \in Location
      BY <1>2, ListFacts, BackLink DEF Good, Location
    <2>2. new = [l EXCEPT !.link = [l.link EXCEPT ![p] = n, ![n] = next],
                          !.previous = [l.previous EXCEPT ![n] = p, ![next] = n]]
      BY <1>2 DEF list_push_before
    <2> HIDE DEF new, p
    <2>3. /\ new.link = [l.link EXCEPT ![p] = n, ![n] = next] /\ new.tail = l.tail
          /\ new.previous = [l.previous EXCEPT ![n] = p, ![next] = n]
          /\ new \in ListRecord
      BY <2>1, <2>2 DEF ListRecord
    <2>4. Inserted(l, new, p, n)
      BY <1>2, <2>1, <2>3 DEF Inserted, ListRecord
    <2>5. Good(new) /\ Members(new) = Members(l) \cup {n}
      BY <2>1, <2>3, <2>4, InsertGood
    <2> QED
      BY <2>5 DEF new
  <1> QED
    BY <1>1, <1>2

-----------------------------------------------------------------------------
(* Removal.                                                                *)

(* *node->previous = node->next takes the node out of the loop ...           *)
LEMMA UnlinkReaches ==
    ASSUME NEW l, Good(l), NEW n \in Members(l)
    PROVE  /\ Unlink(l, n) \in ListRecord
           /\ Unlink(l, n).link = [l.link EXCEPT ![l.previous[n]] = l.link[n]]
           /\ Unlink(l, n).previous = l.previous /\ Unlink(l, n).tail = l.tail
           /\ Reached(Unlink(l, n)) = Reached(l) \ {n}
  <1> DEFINE new == Unlink(l, n)
             p == l.previous[n]
  <1>1. /\ l \in ListRecord /\ n \in Node /\ n \in Location /\ n \in Reached(l) /\ n # HEAD
        /\ p \in Reached(l) /\ p \in Location /\ l.link[p] = n /\ p # n /\ l.link[n] # n
        /\ \A a \in Reached(l) : l.link[a] = n => a = p
    BY ListFacts, BackLink DEF Good, Location, Members
  <1>2. /\ DOMAIN l.link = Location /\ NULL \notin Location /\ HEAD \in Location
        /\ Reached(l) \in SUBSET Location /\ HEAD \in Reached(l)
        /\ \A a \in Reached(l) : l.link[a] # NULL => l.link[a] \in Reached(l)
        /\ \A a \in Location : l.link[a] \in Node \cup {NULL}
    BY <1>1, ListFacts
  <1>3. /\ new = [l EXCEPT !.link = [l.link EXCEPT ![p] = l.link[n]]]
        /\ new.link = [l.link EXCEPT ![p] = l.link[n]]
        /\ new.previous = l.previous /\ new.tail = l.tail /\ new \in ListRecord
    BY <1>1, <1>2 DEF Unlink, ListRecord
  <1> HIDE DEF new, p
  <1>4. /\ DOMAIN new.link = Location /\ new.link[p] = l.link[n]
        /\ \A a \in Location \ {p} : new.link[a] = l.link[a]
    BY <1>1, <1>2, <1>3
  <1>5. Reached(new) \subseteq Reached(l) \ {n}
    <2>1. ASSUME NEW a \in Reached(l) \ {n}, new.link[a] \in Location
          PROVE  new.link[a] \in Reached(l) \ {n}
      <3>1. CASE a = p
        BY <1>1, <1>2, <1>4, <2>1, <3>1
      <3>2. CASE a # p
        BY <1>1, <1>2, <1>4, <2>1, <3>2
      <3> QED
        BY <3>1, <3>2
    <2>2. /\ Closed(new.link, HEAD, Reached(l) \ {n})
          /\ Reached(l) \ {n} \in SUBSET DOMAIN new.link
      BY <1>1, <1>2, <1>4, <2>1 DEF Closed
    <2> QED
      BY <2>2, FromIsLeast DEF Reached
  <1>6. /\ Reached(new) \in SUBSET Location /\ HEAD \in Reached(new)
        /\ \A a \in Reached(new) : new.link[a] # NULL => new.link[a] \in Reached(new)
    BY <1>3, ListFacts
  <1>7. p \in Reached(new)
    <2> SUFFICES ASSUME p \notin Reached(new) PROVE FALSE
      OBVIOUS
    <2>1. Closed(l.link, HEAD, Reached(new)) /\ Reached(new) \in SUBSET DOMAIN l.link
      BY <1>2, <1>4, <1>6 DEF Closed
    <2>2. Reached(l) \subseteq Reached(new)
      BY <2>1, FromIsLeast DEF Reached
    <2> QED
      BY <1>1, <2>2
  <1>8. Reached(l) \subseteq Reached(new) \cup {n}
    <2>1. ASSUME NEW a \in Reached(new) \cup {n}, l.link[a] \in Location
          PROVE  l.link[a] \in Reached(new) \cup {n}
      <3>1. CASE a = p
        BY <1>1, <3>1
      <3>2. CASE a = n
        BY <1>2, <1>4, <1>6, <1>7, <2>1, <3>2
      <3>3. CASE a # p /\ a # n
        BY <1>2, <1>4, <1>6, <2>1, <3>3
      <3> QED
        BY <3>1, <3>2, <3>3
    <2>2. /\ Closed(l.link, HEAD, Reached(new) \cup {n})
          /\ Reached(new) \cup {n} \in SUBSET DOMAIN l.link
      BY <1>1, <1>2, <1>6, <2>1 DEF Closed
    <2> QED
      BY <2>2, FromIsLeast DEF Reached
  <1>9. Reached(new) = Reached(l) \ {n}
    BY <1>5, <1>8
  <1> QED
    BY <1>3, <1>9 DEF new, p

(* ... and the rest of list_remove makes the list well linked again.         *)
LEMMA RemoveGood ==
    ASSUME NEW l, Good(l), NEW n \in Members(l)
    PROVE  /\ Good(FixBack(Unlink(l, n), n))
           /\ Members(FixBack(Unlink(l, n), n)) = Members(l) \ {n}
  <1> DEFINE un == Unlink(l, n)
             new == FixBack(un, n)
             p == l.previous[n]
  <1>1. /\ l \in ListRecord /\ n \in Node /\ n \in Location /\ n \in Reached(l) /\ n # HEAD
        /\ p \in Reached(l) /\ p \in Location /\ l.link[p] = n /\ p # n /\ l.link[n] # n
        /\ n # NULL /\ \A a \in Reached(l) : l.link[a] = n => a = p
    BY ListFacts, BackLink DEF Good, Location, Members
  <1>2. /\ DOMAIN l.link = Location /\ NULL \notin Location /\ HEAD \in Location
        /\ Reached(l) \in SUBSET Location /\ HEAD \in Reached(l)
        /\ \A a \in Reached(l) : l.link[a] # NULL => l.link[a] \in Reached(l)
        /\ \A a \in Location : l.link[a] \in Node \cup {NULL}
    BY <1>1, ListFacts
  <1>3. /\ un \in ListRecord /\ un.link = [l.link EXCEPT ![p] = l.link[n]]
        /\ un.previous = l.previous /\ un.tail = l.tail
        /\ Reached(un) = Reached(l) \ {n}
    BY UnlinkReaches
  <1>4. un.link[n] = l.link[n] /\ un.link[p] = l.link[n]
    BY <1>1, <1>2, <1>3
  <1>5. /\ new.link = [un.link EXCEPT ![n] = NULL]
        /\ new.previous = [m \in Node |-> CASE m = n -> NULL [] m = l.link[n] -> p
                                           [] OTHER -> l.previous[m]]
        /\ new.tail = IF l.tail = n THEN p ELSE l.tail
        /\ new = [link |-> new.link, previous |-> new.previous, tail |-> new.tail]
    BY <1>3, <1>4 DEF FixBack
  <1> HIDE DEF un, new, p
  <1>6. \A m \in Node : new.previous[m] = IF m = n THEN NULL
                                      ELSE IF m = l.link[n] THEN p ELSE l.previous[m]
    BY <1>1, <1>5
  <1>7. /\ DOMAIN new.link = Location /\ new.link[n] = NULL /\ new.link[p] = l.link[n]
        /\ \A a \in Location \ {n, p} : new.link[a] = l.link[a]
    BY <1>1, <1>2, <1>3, <1>4, <1>5
  <1>8. new \in ListRecord
    <2>1. new.link \in [Location -> Node \cup {NULL}]
      BY <1>3, <1>5 DEF ListRecord
    <2>2. new.previous \in [Node -> Location \cup {NULL}]
      BY <1>1, <1>5, <1>6 DEF ListRecord
    <2>3. new.tail \in Location
      BY <1>1, <1>5 DEF ListRecord
    <2> QED
      BY <1>5, <2>1, <2>2, <2>3 DEF ListRecord
  <1>9. Reached(new) = Reached(l) \ {n}
    <2>1. DOMAIN un.link = DOMAIN new.link /\ \A a \in Reached(un) : new.link[a] = un.link[a]
      BY <1>1, <1>2, <1>3, <1>5
    <2>2. From(new.link, HEAD) = From(un.link, HEAD)
      BY <2>1, FromFrame DEF Reached
    <2> QED
      BY <1>3, <2>2 DEF Reached
  <1>10. Members(new) = Members(l) \ {n}
    BY <1>9 DEF Members
  <1>11. new.link[new.tail] = NULL /\ new.tail \in Reached(new)
    <2>1. l.link[l.tail] = NULL /\ l.tail \in Reached(l)
      BY DEF Good, WellLinked
    <2>2. CASE l.tail = n
      BY <1>1, <1>5, <1>7, <1>9, <2>1, <2>2
    <2>3. CASE l.tail # n
      BY <1>1, <1>2, <1>5, <1>7, <1>9, <2>1, <2>3
    <2> QED
      BY <2>2, <2>3
  <1>12. ASSUME NEW a \in Reached(new), new.link[a] # NULL
         PROVE  new.previous[new.link[a]] = a
    <2>1. \A b \in Reached(l) : l.link[b] # NULL => l.previous[l.link[b]] = b
      BY DEF Good, WellLinked
    <2>2. a \in Reached(l) /\ a # n /\ a \in Location
      BY <1>2, <1>9
    <2>3. CASE a = p
      <3>1. new.link[a] = l.link[n] /\ l.link[n] \in Node
        BY <1>2, <1>1, <1>7, <1>12, <2>3
      <3> QED
        BY <1>1, <1>6, <2>3, <3>1
    <2>4. CASE a # p
      <3>1. new.link[a] = l.link[a] /\ l.link[a] \in Node
        BY <1>2, <1>7, <1>12, <2>2, <2>4
      <3>2. l.link[a] # n /\ l.link[a] # l.link[n]
        BY <1>1, <1>12, <2>1, <2>2, <2>4, <3>1
      <3> QED
        BY <1>6, <1>12, <2>1, <2>2, <3>1, <3>2
    <2> QED
      BY <2>3, <2>4
  <1>13. \A m \in Node \ Members(new) : new.link[m] = NULL
    BY <1>1, <1>7, <1>10 DEF Good, Members, Location
  <1>14. Good(new) /\ Members(new) = Members(l) \ {n}
    BY <1>8, <1>10, <1>11, <1>12, <1>13, TailEnds DEF Good, WellLinked
  <1> QED
    BY <1>14 DEF new, un

LEMMA ListRemoveGood ==
    ASSUME NEW l, Good(l), NEW n \in Members(l) \cup {NULL}
    PROVE  Good(list_remove(l, n)) /\ Members(list_remove(l, n)) = Members(l) \ {n}
  <1>1. NULL \notin Members(l)
    BY ListFacts DEF Good, Location, Members
  <1>2. CASE n = NULL
    BY <1>1, <1>2 DEF list_remove
  <1>3. CASE n # NULL
    BY <1>3, RemoveGood DEF list_remove
  <1> QED
    BY <1>2, <1>3

LEMMA PopFrontGood ==
    ASSUME NEW l, Good(l)
    PROVE  Good(list_pop_front(l)) /\ Members(list_pop_front(l)) = Members(l) \ {l.link[HEAD]}
  <1>1. l.link[HEAD] \in Members(l) \cup {NULL}
    BY ListFacts DEF Good, Members
  <1> QED
    BY <1>1, ListRemoveGood DEF list_pop_front

-----------------------------------------------------------------------------
(* The order.  A sequence spells a list when it has the nodes of the list,   *)
(* each once, and the links lead from one of its elements to the next; it    *)
(* is then what list_foreach visits.                                         *)

(* The place before which the loop finds the element i + 1, and the element. *)
Place(s, i) == IF i = 0 THEN HEAD ELSE s[i]
Nth(s, i) == IF i \in 1..Len(s) THEN s[i] ELSE NULL

Spells(l, s) ==
    /\ s \in Seq(Node)
    /\ \A i, j \in 1..Len(s) : s[i] = s[j] => i = j
    /\ Members(l) = {s[i] : i \in 1..Len(s)}
    /\ \A i \in 0..Len(s) : l.link[Place(s, i)] = Nth(s, i + 1)

LEMMA SpellsFacts ==
    ASSUME NEW l, NEW s, Spells(l, s)
    PROVE  /\ s \in Seq(Node) /\ Len(s) \in Nat /\ \A i \in 1..Len(s) : s[i] \in Node /\ s[i] # NULL
           /\ l.link[HEAD] = Nth(s, 1) /\ \A i \in 1..Len(s) : l.link[s[i]] = Nth(s, i + 1)
           /\ \A n \in Members(l) : \E i \in 1..Len(s) : s[i] = n
           /\ \A i \in 1..Len(s) : s[i] \in Members(l)
  <1>1. s \in Seq(Node) /\ Len(s) \in Nat /\ \A i \in 1..Len(s) : s[i] \in Node /\ s[i] # NULL
    BY NodeAssumption, LenProperties, ElementOfSeq DEF Spells
  <1>2. l.link[HEAD] = Nth(s, 1) /\ \A i \in 1..Len(s) : l.link[s[i]] = Nth(s, i + 1)
    <2>1. 0 \in 0..Len(s) /\ Place(s, 0) = HEAD /\ 0 + 1 = 1
      BY <1>1 DEF Place
    <2>2. \A i \in 1..Len(s) : i \in 0..Len(s) /\ Place(s, i) = s[i]
      BY <1>1 DEF Place
    <2>3. \A i \in 0..Len(s) : l.link[Place(s, i)] = Nth(s, i + 1)
      BY DEF Spells
    <2> QED
      BY <2>1, <2>2, <2>3
  <1> QED
    BY <1>1, <1>2 DEF Spells

(* Induction without an operator: a set of numbers has a least one.          *)
LEMMA Least ==
    ASSUME NEW S \in SUBSET Nat, S # {}
    PROVE  \E m \in S : \A k \in S : m <= k
  <1> DEFINE R == {ss \in Nat \X Nat : ss[1] < ss[2]}
  <1>1. IsWellFoundedOn(R, Nat)
    BY NatLessThanWellFounded DEF OpToRel
  <1>2. PICK m \in S : \A k \in S : ~(<<k, m>> \in R)
    BY <1>1, WFMin
  <1>3. ASSUME NEW k \in S PROVE m <= k
    <2>1. <<k, m>> \notin R /\ k \in Nat /\ m \in Nat /\ <<k, m>> \in Nat \X Nat
      BY <1>2
    <2>2. ~(<<k, m>>[1] < <<k, m>>[2])
      BY <2>1
    <2> QED
      BY <2>1, <2>2
  <1> QED
    BY <1>3

(* The recursion that Visit solves. *)
Visits(l, v) ==
    v = [k \in Nat |-> IF k = 0 THEN l.link[HEAD]
                       ELSE IF v[k - 1] = NULL THEN NULL ELSE l.link[v[k - 1]]]

LEMMA VisitIs ==
    ASSUME NEW l, NEW s, Spells(l, s)
    PROVE  \A k \in 1..Len(s) : Visit(l)[k - 1] = s[k]
  <1>0. /\ Len(s) \in Nat /\ \A i \in 1..Len(s) : s[i] \in Node /\ s[i] # NULL
        /\ l.link[HEAD] = Nth(s, 1) /\ \A i \in 1..Len(s) : l.link[s[i]] = Nth(s, i + 1)
    <2>1. Len(s) \in Nat /\ \A i \in 1..Len(s) : s[i] \in Node /\ s[i] # NULL
      BY SpellsFacts
    <2>2. l.link[HEAD] = Nth(s, 1)
      BY SpellsFacts
    <2>3. \A i \in 1..Len(s) : l.link[s[i]] = Nth(s, i + 1)
      BY SpellsFacts
    <2> QED
      BY <2>1, <2>2, <2>3
  <1> DEFINE L == Len(s)
             f == [k \in Nat |-> Nth(s, k + 1)]
             v == CHOOSE v : Visits(l, v)
             Wrong == {k \in 1..L : v[k - 1] # s[k]}
  <1>1. /\ L \in Nat /\ \A i \in 1..L : s[i] \in Node /\ s[i] # NULL
        /\ l.link[HEAD] = Nth(s, 1) /\ \A i \in 1..L : l.link[s[i]] = Nth(s, i + 1)
    BY <1>0
  <1>2. Visits(l, f)
    <2> SUFFICES ASSUME NEW k \in Nat
                 PROVE  f[k] = IF k = 0 THEN l.link[HEAD]
                               ELSE IF f[k - 1] = NULL THEN NULL ELSE l.link[f[k - 1]]
      BY DEF Visits
    <2>1. CASE k = 0
      BY <1>1, <2>1
    <2>2. CASE k # 0
      <3>1. k - 1 \in Nat /\ f[k] = Nth(s, k + 1) /\ f[k - 1] = Nth(s, k)
        BY <2>2
      <3> HIDE DEF f
      <3>2. CASE k \in 1..L
        BY <1>1, <2>2, <3>1, <3>2 DEF Nth
      <3>3. CASE k \notin 1..L
        <4>1. k + 1 \notin 1..L
          BY <1>1, <2>2, <3>3
        <4> QED
          BY <2>2, <3>1, <3>3, <4>1 DEF Nth
      <3> QED
        BY <3>2, <3>3
    <2> QED
      BY <2>1, <2>2
  <1>3. Visits(l, v)
    BY <1>2
  <1>4. Visit(l) = v
    BY DEF Visit, Visits
  <1> HIDE DEF v
  <1>5. /\ v[0] = l.link[HEAD]
        /\ \A k \in Nat \ {0} : v[k] = IF v[k - 1] = NULL THEN NULL ELSE l.link[v[k - 1]]
    BY <1>3 DEF Visits
  <1>6. Wrong = {}
    <2> SUFFICES ASSUME Wrong # {} PROVE FALSE
      OBVIOUS
    <2>1. PICK k \in Wrong : \A j \in Wrong : k <= j
      <3>1. Wrong \in SUBSET Nat
        BY <1>1
      <3> HIDE DEF Wrong
      <3> QED
        BY <3>1, Least
    <2>2. k \in 1..L /\ v[k - 1] # s[k]
      BY <2>1
    <2>3. k # 1
      BY <1>1, <1>5, <2>2 DEF Nth
    <2>4. /\ k - 1 \in 1..L /\ k - 1 \in Nat \ {0} /\ ~(k <= k - 1) /\ (k - 1) + 1 = k
      BY <1>1, <2>2, <2>3
    <2>5. v[(k - 1) - 1] = s[k - 1]
      BY <2>1, <2>4
    <2>6. v[k - 1] = Nth(s, (k - 1) + 1)
      BY <1>1, <1>5, <2>4, <2>5
    <2> QED
      BY <2>2, <2>4, <2>6 DEF Nth
  <1>7. \A k \in 1..L : v[k - 1] = s[k]
    BY <1>6
  <1> QED
    BY <1>4, <1>7

LEMMA ItemsAre ==
    ASSUME NEW l, NEW s, Spells(l, s)
    PROVE  Items(l) = s
  <1> DEFINE L == Len(s)
             M == Members(l)
  <1>1. L \in Nat /\ s \in [1..L -> Node] /\ DOMAIN s = 1..L
    BY SpellsFacts, LenProperties
  <1>2. s \in Bijection(1..L, M)
    <2>1. M = {s[i] : i \in 1..L} /\ \A i, j \in 1..L : s[i] = s[j] => i = j
      BY DEF Spells
    <2> HIDE DEF M
    <2> QED
      BY <1>1, <2>1 DEF Bijection, Injection, IsInjective, Surjection
  <1>3. Cardinality(M) = L
    BY <1>1, <1>2, FS_CountingElements DEF ExistsBijection
  <1>4. Items(l) = [k \in 1..L |-> s[k]]
    BY <1>3, VisitIs DEF Items
  <1> QED
    BY <1>1, <1>4

(* One more element, behind the first i; and the sequence without its k-th.  *)
IsPut(s, i, n, t) ==
    /\ t \in Seq(Node) /\ Len(t) = Len(s) + 1
    /\ \A j \in 1..Len(s) + 1 :
          t[j] = IF j <= i THEN s[j] ELSE IF j = i + 1 THEN n ELSE s[j - 1]

IsDrop(s, k, t) ==
    /\ t \in Seq(Node) /\ Len(t) = Len(s) - 1
    /\ \A j \in 1..Len(s) - 1 : t[j] = IF j < k THEN s[j] ELSE s[j + 1]

LEMMA FrontIsPut ==
    ASSUME NEW s \in Seq(Node), NEW n \in Node
    PROVE  IsPut(s, 0, n, <<n>> \o s)
  <1> DEFINE one == <<n>>
  <1>1. one \in Seq(Node) /\ Len(one) = 1 /\ one[1] = n /\ Len(s) \in Nat
    BY LenProperties
  <1> HIDE DEF one
  <1>2. /\ one \o s \in Seq(Node) /\ Len(one \o s) = Len(one) + Len(s)
        /\ \A j \in 1..Len(one) + Len(s) :
              (one \o s)[j] = IF j <= Len(one) THEN one[j] ELSE s[j - Len(one)]
    BY <1>1, ConcatProperties
  <1>3. IsPut(s, 0, n, one \o s)
    BY <1>1, <1>2 DEF IsPut
  <1> QED
    BY <1>3 DEF one

LEMMA BackIsPut ==
    ASSUME NEW s \in Seq(Node), NEW n \in Node
    PROVE  IsPut(s, Len(s), n, Append(s, n))
  <1>1. /\ Append(s, n) \in Seq(Node) /\ Len(Append(s, n)) = Len(s) + 1 /\ Len(s) \in Nat
        /\ \A i \in 1..Len(s) : Append(s, n)[i] = s[i]
        /\ Append(s, n)[Len(s) + 1] = n
    BY AppendProperties, LenProperties
  <1> QED
    BY <1>1 DEF IsPut

LEMMA Parts ==
    ASSUME NEW s \in Seq(Node), NEW a \in 1..Len(s) + 1, NEW b \in 0..Len(s), a <= b + 1
    PROVE  /\ SubSeq(s, a, b) \in Seq(Node) /\ Len(SubSeq(s, a, b)) = b + 1 - a
           /\ \A j \in 1..b + 1 - a : SubSeq(s, a, b)[j] = s[a + j - 1]
  <1>1. Len(s) \in Nat /\ a \in Int /\ b \in Int /\ \A j \in a..b : s[j] \in Node
    BY LenProperties, ElementOfSeq
  <1>2. /\ SubSeq(s, a, b) \in Seq(Node)
        /\ Len(SubSeq(s, a, b)) = IF a <= b THEN b - a + 1 ELSE 0
        /\ \A j \in 1..b - a + 1 : SubSeq(s, a, b)[j] = s[a + j - 1]
    BY <1>1, SubSeqProperties
  <1>3. (IF a <= b THEN b - a + 1 ELSE 0) = b + 1 - a /\ b - a + 1 = b + 1 - a
    BY <1>1
  <1> QED
    BY <1>2, <1>3

LEMMA BeforeIsPut ==
    ASSUME NEW s \in Seq(Node), NEW n \in Node, NEW k \in 1..Len(s)
    PROVE  IsPut(s, k - 1, n, SubSeq(s, 1, k - 1) \o <<n>> \o SubSeq(s, k, Len(s)))
  <1> DEFINE a == SubSeq(s, 1, k - 1)
             b == SubSeq(s, k, Len(s))
             one == <<n>>
             L == Len(s)
  <1>1. L \in Nat /\ one \in Seq(Node) /\ Len(one) = 1 /\ one[1] = n
    BY LenProperties
  <1>2. /\ a \in Seq(Node) /\ Len(a) = k - 1 /\ \A j \in 1..k - 1 : a[j] = s[j]
        /\ b \in Seq(Node) /\ Len(b) = L + 1 - k /\ \A j \in 1..L + 1 - k : b[j] = s[k + j - 1]
    <2>1. /\ 1 \in 1..Len(s) + 1 /\ k - 1 \in 0..Len(s) /\ 1 <= (k - 1) + 1
          /\ k \in 1..Len(s) + 1 /\ Len(s) \in 0..Len(s) /\ k <= Len(s) + 1
          /\ (k - 1) + 1 - 1 = k - 1 /\ \A j \in 1..k - 1 : 1 + j - 1 = j
      BY <1>1
    <2>2. /\ a \in Seq(Node) /\ Len(a) = (k - 1) + 1 - 1
          /\ \A j \in 1..(k - 1) + 1 - 1 : a[j] = s[1 + j - 1]
      BY <2>1, Parts
    <2>3. /\ b \in Seq(Node) /\ Len(b) = Len(s) + 1 - k
          /\ \A j \in 1..Len(s) + 1 - k : b[j] = s[k + j - 1]
      BY <2>1, Parts
    <2> QED
      BY <2>1, <2>2, <2>3
  <1> HIDE DEF a, b, one
  <1>3. /\ a \o one \in Seq(Node) /\ Len(a \o one) = k
        /\ \A j \in 1..k : (a \o one)[j] = IF j <= k - 1 THEN s[j] ELSE n
    <2>1. /\ a \o one \in Seq(Node) /\ Len(a \o one) = Len(a) + Len(one)
          /\ \A j \in 1..Len(a) + Len(one) :
                (a \o one)[j] = IF j <= Len(a) THEN a[j] ELSE one[j - Len(a)]
      BY <1>1, <1>2, ConcatProperties
    <2>2. Len(a) + Len(one) = k /\ \A j \in 1..k : ~(j <= k - 1) => j - (k - 1) = 1
      BY <1>1, <1>2
    <2> QED
      BY <1>1, <1>2, <2>1, <2>2
  <1>4. /\ a \o one \o b \in Seq(Node) /\ Len(a \o one \o b) = L + 1
        /\ \A j \in 1..L + 1 : (a \o one \o b)[j] = IF j <= k THEN (a \o one)[j] ELSE b[j - k]
    <2> DEFINE c == a \o one
    <2>1. c \in Seq(Node) /\ Len(c) = k /\ Len(b) = L + 1 - k /\ k + (L + 1 - k) = L + 1
      BY <1>1, <1>2, <1>3
    <2> HIDE DEF c
    <2>2. /\ c \o b \in Seq(Node) /\ Len(c \o b) = Len(c) + Len(b)
          /\ \A j \in 1..Len(c) + Len(b) : (c \o b)[j] = IF j <= Len(c) THEN c[j] ELSE b[j - Len(c)]
      BY <1>2, <2>1, ConcatProperties
    <2>3. /\ c \o b \in Seq(Node) /\ Len(c \o b) = L + 1
          /\ \A j \in 1..L + 1 : (c \o b)[j] = IF j <= k THEN c[j] ELSE b[j - k]
      BY <2>1, <2>2
    <2> QED
      BY <2>3 DEF c
  <1>5. ASSUME NEW j \in 1..L + 1
        PROVE  (a \o one \o b)[j] = IF j <= k - 1 THEN s[j] ELSE IF j = (k - 1) + 1 THEN n ELSE s[j - 1]
    <2>1. CASE j <= k
      BY <1>1, <1>3, <1>4, <2>1
    <2>2. CASE ~(j <= k)
      <3>1. j - k \in 1..L + 1 - k /\ k + (j - k) - 1 = j - 1
        BY <1>1, <2>2
      <3> QED
        BY <1>1, <1>2, <1>4, <2>2, <3>1
    <2> QED
      BY <2>1, <2>2
  <1>6. IsPut(s, k - 1, n, a \o one \o b)
    BY <1>4, <1>5 DEF IsPut
  <1> QED
    BY <1>6 DEF a, b, one

LEMMA AtIsDrop ==
    ASSUME NEW s \in Seq(Node), NEW k \in 1..Len(s)
    PROVE  IsDrop(s, k, SubSeq(s, 1, k - 1) \o SubSeq(s, k + 1, Len(s)))
  <1> DEFINE a == SubSeq(s, 1, k - 1)
             b == SubSeq(s, k + 1, Len(s))
             L == Len(s)
  <1>1. L \in Nat
    BY LenProperties
  <1>2. /\ a \in Seq(Node) /\ Len(a) = k - 1 /\ \A j \in 1..k - 1 : a[j] = s[j]
        /\ b \in Seq(Node) /\ Len(b) = L - k /\ \A j \in 1..L - k : b[j] = s[k + j]
    <2>1. /\ 1 \in 1..Len(s) + 1 /\ k - 1 \in 0..Len(s) /\ 1 <= (k - 1) + 1
          /\ k + 1 \in 1..Len(s) + 1 /\ Len(s) \in 0..Len(s) /\ k + 1 <= Len(s) + 1
          /\ (k - 1) + 1 - 1 = k - 1 /\ \A j \in 1..k - 1 : 1 + j - 1 = j
          /\ L + 1 - (k + 1) = L - k /\ \A j \in 1..L - k : (k + 1) + j - 1 = k + j
      BY <1>1
    <2>2. /\ a \in Seq(Node) /\ Len(a) = (k - 1) + 1 - 1
          /\ \A j \in 1..(k - 1) + 1 - 1 : a[j] = s[1 + j - 1]
      BY <2>1, Parts
    <2>3. /\ b \in Seq(Node) /\ Len(b) = Len(s) + 1 - (k + 1)
          /\ \A j \in 1..Len(s) + 1 - (k + 1) : b[j] = s[(k + 1) + j - 1]
      BY <2>1, Parts
    <2> QED
      BY <2>1, <2>2, <2>3
  <1> HIDE DEF a, b
  <1>3. /\ a \o b \in Seq(Node) /\ Len(a \o b) = L - 1
        /\ \A j \in 1..L - 1 : (a \o b)[j] = IF j <= k - 1 THEN a[j] ELSE b[j - (k - 1)]
    <2>1. (k - 1) + (L - k) = L - 1
      BY <1>1
    <2>2. /\ a \o b \in Seq(Node) /\ Len(a \o b) = Len(a) + Len(b)
          /\ \A j \in 1..Len(a) + Len(b) : (a \o b)[j] = IF j <= Len(a) THEN a[j] ELSE b[j - Len(a)]
      BY <1>2, ConcatProperties
    <2> QED
      BY <1>2, <2>1, <2>2
  <1>4. ASSUME NEW j \in 1..L - 1
        PROVE  (a \o b)[j] = IF j < k THEN s[j] ELSE s[j + 1]
    <2>1. CASE j < k
      BY <1>1, <1>2, <1>3, <2>1
    <2>2. CASE ~(j < k)
      <3>1. j - (k - 1) \in 1..L - k /\ k + (j - (k - 1)) = j + 1 /\ ~(j <= k - 1)
        BY <1>1, <2>2
      <3> QED
        BY <1>1, <1>2, <1>3, <2>2, <3>1
    <2> QED
      BY <2>1, <2>2
  <1>5. IsDrop(s, k, a \o b)
    BY <1>3, <1>4 DEF IsDrop
  <1> QED
    BY <1>5 DEF a, b

LEMMA TailIsDrop ==
    ASSUME NEW s \in Seq(Node), s # <<>>
    PROVE  IsDrop(s, 1, Tail(s))
  <1>1. /\ Tail(s) \in Seq(Node) /\ Len(Tail(s)) = Len(s) - 1 /\ Len(s) \in Nat
        /\ \A i \in 1..Len(Tail(s)) : Tail(s)[i] = s[i + 1]
    BY HeadTailProperties, LenProperties
  <1> QED
    BY <1>1 DEF IsDrop

(* A node put into the chain behind a place comes behind it in the sequence. *)
LEMMA InsertSpells ==
    ASSUME NEW l, Good(l), NEW s, Spells(l, s), NEW i \in 0..Len(s),
           NEW n \in Node \ Members(l), NEW new, Members(new) = Members(l) \cup {n},
           new.link = [l.link EXCEPT ![Place(s, i)] = n, ![n] = l.link[Place(s, i)]],
           NEW t, IsPut(s, i, n, t)
    PROVE  Spells(new, t)
  <1> DEFINE L == Len(s)
             p == Place(s, i)
  <1>1. /\ L \in Nat /\ \A j \in 1..L : s[j] \in Node /\ s[j] # NULL /\ s[j] # n
        /\ \A j, k \in 1..L : s[j] = s[k] => j = k
        /\ Members(l) = {s[j] : j \in 1..L}
        /\ \A j \in 0..L : l.link[Place(s, j)] = Nth(s, j + 1)
    <2>1. L \in Nat /\ \A j \in 1..L : s[j] \in Node /\ s[j] # NULL /\ s[j] \in Members(l)
      BY SpellsFacts
    <2>2. \A j \in 1..L : s[j] # n
      BY <2>1
    <2> QED
      BY <2>1, <2>2 DEF Spells
  <1>2. /\ DOMAIN l.link = Location /\ HEAD \notin Node /\ n # HEAD /\ n \in Location
        /\ HEAD \in Location
    BY ListFacts DEF Good, Location
  <1>3. \A j \in 0..L : Place(s, j) \in Location /\ Place(s, j) # n
    BY <1>1, <1>2 DEF Place, Location
  <1>4. \A j, k \in 0..L : Place(s, j) = Place(s, k) => j = k
    BY <1>1, <1>2 DEF Place
  <1>5. /\ new.link[p] = n /\ new.link[n] = l.link[p]
        /\ \A a \in Location \ {p, n} : new.link[a] = l.link[a]
    BY <1>2, <1>3
  <1>6. /\ t \in Seq(Node) /\ Len(t) = L + 1
        /\ \A j \in 1..L + 1 : t[j] = IF j <= i THEN s[j] ELSE IF j = i + 1 THEN n ELSE s[j - 1]
    BY DEF IsPut
  <1>7. /\ \A j \in 1..i : j \in 1..L + 1 /\ j \in 1..L /\ t[j] = s[j]
        /\ i + 1 \in 1..L + 1 /\ t[i + 1] = n
        /\ \A j \in i + 2..L + 1 : j \in 1..L + 1 /\ j - 1 \in 1..L /\ t[j] = s[j - 1]
    BY <1>1, <1>6
  <1> HIDE DEF p, L
  <1>8. ASSUME NEW j \in 1..L + 1, NEW k \in 1..L + 1, t[j] = t[k] PROVE j = k
    <2>1. i \in Nat /\ i <= L
      BY <1>1 DEF L
    <2>2. CASE j <= i
      BY <1>1, <1>7, <1>8, <2>1, <2>2
    <2>3. CASE j = i + 1
      BY <1>1, <1>7, <1>8, <2>1, <2>3
    <2>4. CASE j > i + 1
      BY <1>1, <1>7, <1>8, <2>1, <2>4
    <2> QED
      BY <2>1, <2>2, <2>3, <2>4
  <1>9. Members(new) = {t[j] : j \in 1..L + 1}
    <2>1. \A j \in 1..L : \E k \in 1..L + 1 : t[k] = s[j]
      <3> SUFFICES ASSUME NEW j \in 1..L PROVE \E k \in 1..L + 1 : t[k] = s[j]
        OBVIOUS
      <3>1. CASE j <= i
        <4>1. j \in 1..i /\ j \in 1..L + 1
          BY <1>1, <3>1
        <4> QED
          BY <1>7, <4>1
      <3>2. CASE j > i
        <4>1. j + 1 \in i + 2..L + 1 /\ (j + 1) - 1 = j
          BY <1>1, <3>2
        <4> QED
          BY <1>7, <4>1
      <3> QED
        BY <3>1, <3>2
    <2>2. \A k \in 1..L + 1 : t[k] = n \/ \E j \in 1..L : t[k] = s[j]
      <3> SUFFICES ASSUME NEW k \in 1..L + 1 PROVE t[k] = n \/ \E j \in 1..L : t[k] = s[j]
        OBVIOUS
      <3>1. k \in 1..i \/ k = i + 1 \/ k \in i + 2..L + 1
        BY <1>1
      <3> QED
        BY <1>7, <3>1
    <2>3. Members(new) = {s[j] : j \in 1..L} \cup {n}
      BY <1>1
    <2>4. ASSUME NEW m \in Members(new) PROVE m \in {t[j] : j \in 1..L + 1}
      <3>1. m = n \/ \E j \in 1..L : m = s[j]
        BY <2>3
      <3>2. \E k \in 1..L + 1 : t[k] = m
        BY <1>7, <2>1, <3>1
      <3> QED
        BY <3>2
    <2>5. ASSUME NEW k \in 1..L + 1 PROVE t[k] \in Members(new)
      BY <2>2, <2>3
    <2> QED
      BY <2>4, <2>5
  <1>10. ASSUME NEW j \in 0..L + 1
         PROVE  new.link[Place(t, j)] = Nth(t, j + 1)
    <2>1. i \in 0..L /\ i \in Nat
      BY <1>1 DEF L
    <2>2. CASE j < i
      <3>1. j \in 0..L /\ j # i /\ j + 1 \in 1..i /\ j + 1 \in 1..L /\ j + 1 \in 1..L + 1
        BY <1>1, <2>1, <2>2
      <3>2. Place(t, j) = Place(s, j)
        BY <1>1, <1>7, <2>1, <2>2 DEF Place
      <3>3. new.link[Place(s, j)] = l.link[Place(s, j)]
        BY <1>3, <1>4, <1>5, <2>1, <3>1 DEF p
      <3> QED
        BY <1>1, <1>6, <1>7, <3>1, <3>2, <3>3 DEF Nth, L
    <2>3. CASE j = i
      <3>1. Place(t, j) = p
        BY <1>7, <2>1, <2>3 DEF Place, p
      <3> QED
        BY <1>5, <1>6, <1>7, <2>3, <3>1 DEF Nth
    <2>4. CASE j = i + 1
      <3>1. Place(t, j) = n
        BY <1>7, <2>1, <2>4 DEF Place
      <3>2. l.link[p] = Nth(s, i + 1)
        BY <1>1, <2>1 DEF p
      <3>3. CASE i + 1 \in 1..L
        <4>1. j + 1 \in i + 2..L + 1 /\ (j + 1) - 1 = i + 1 /\ j + 1 \in 1..L + 1
          BY <1>1, <2>1, <2>4, <3>3
        <4>2. Nth(t, j + 1) = s[i + 1]
          BY <1>6, <1>7, <4>1 DEF Nth
        <4> QED
          BY <1>5, <3>1, <3>2, <3>3, <4>2 DEF Nth, L
      <3>4. CASE i + 1 \notin 1..L
        <4>1. j + 1 \notin 1..L + 1
          BY <1>1, <2>1, <2>4, <3>4
        <4> QED
          BY <1>5, <1>6, <3>1, <3>2, <3>4, <4>1 DEF Nth, L
      <3> QED
        BY <3>3, <3>4
    <2>5. CASE j > i + 1
      <3>1. j \in i + 2..L + 1 /\ j - 1 \in 1..L /\ j - 1 \in 0..L /\ j - 1 # i /\ j # 0 /\ j - 1 # 0
        BY <1>1, <2>1, <2>5
      <3>2. Place(t, j) = s[j - 1] /\ Place(s, j - 1) = s[j - 1]
        BY <1>7, <3>1 DEF Place
      <3>3. new.link[Place(s, j - 1)] = l.link[Place(s, j - 1)]
        BY <1>3, <1>4, <1>5, <2>1, <3>1 DEF p
      <3>4. l.link[Place(s, j - 1)] = Nth(s, j)
        <4>1. (j - 1) + 1 = j
          BY <3>1
        <4> QED
          BY <1>1, <3>1, <4>1
      <3>5. Nth(s, j) = Nth(t, j + 1)
        <4>1. CASE j \in 1..L
          <5>1. j + 1 \in i + 2..L + 1 /\ (j + 1) - 1 = j /\ j + 1 \in 1..L + 1
            BY <1>1, <2>1, <2>5, <4>1
          <5> QED
            BY <1>6, <1>7, <4>1, <5>1 DEF Nth, L
        <4>2. CASE j \notin 1..L
          <5>1. j + 1 \notin 1..L + 1
            BY <1>1, <2>1, <2>5, <4>2
          <5> QED
            BY <1>6, <4>2, <5>1 DEF Nth, L
        <4> QED
          BY <4>1, <4>2
      <3> QED
        BY <3>2, <3>3, <3>4, <3>5
    <2> QED
      BY <2>1, <2>2, <2>3, <2>4, <2>5
  <1> QED
    BY <1>6, <1>8, <1>9, <1>10 DEF Spells

(* And what is taken out of the chain is taken out of the sequence.          *)
LEMMA RemoveSpells ==
    ASSUME NEW l, Good(l), NEW s, Spells(l, s), NEW k \in 1..Len(s),
           NEW new, Members(new) = Members(l) \ {s[k]}, DOMAIN new.link = Location,
           new.link[Place(s, k - 1)] = l.link[s[k]],
           \A a \in Location \ {Place(s, k - 1), s[k]} : new.link[a] = l.link[a],
           NEW t, IsDrop(s, k, t)
    PROVE  Spells(new, t)
  <1> DEFINE L == Len(s)
             n == s[k]
             p == Place(s, k - 1)
  <1>1. /\ L \in Nat /\ \A j \in 1..L : s[j] \in Node /\ s[j] # NULL
        /\ \A i, j \in 1..L : s[i] = s[j] => i = j
        /\ Members(l) = {s[j] : j \in 1..L}
        /\ \A j \in 0..L : l.link[Place(s, j)] = Nth(s, j + 1)
    <2>1. L \in Nat /\ \A j \in 1..L : s[j] \in Node /\ s[j] # NULL
      BY SpellsFacts
    <2> QED
      BY <2>1 DEF Spells
  <1>2. HEAD \notin Node /\ HEAD \in Location /\ n # HEAD /\ n = Place(s, k)
    <2>1. n \in Node /\ k # 0
      BY <1>1
    <2> QED
      BY <2>1, ListFacts DEF Good, Place
  <1>3. \A j \in 0..L : Place(s, j) \in Location
    BY <1>1, <1>2 DEF Place, Location
  <1>4. \A i, j \in 0..L : Place(s, i) = Place(s, j) => i = j
    BY <1>1, <1>2 DEF Place
  <1>5. /\ new.link[p] = l.link[n] /\ Members(new) = Members(l) \ {n}
        /\ \A j \in 0..L : j # k - 1 /\ j # k => new.link[Place(s, j)] = l.link[Place(s, j)]
    <2>1. k - 1 \in 0..L /\ k \in 0..L
      BY <1>1
    <2> QED
      BY <1>2, <1>3, <1>4, <2>1
  <1>6. /\ t \in Seq(Node) /\ Len(t) = L - 1
        /\ \A j \in 1..L - 1 : t[j] = IF j < k THEN s[j] ELSE s[j + 1]
    BY DEF IsDrop
  <1>7. /\ \A j \in 1..k - 1 : j \in 1..L - 1 /\ j \in 1..L /\ j # k /\ t[j] = s[j]
        /\ \A j \in k..L - 1 : j \in 1..L - 1 /\ j + 1 \in 1..L /\ j + 1 # k /\ t[j] = s[j + 1]
        /\ \A j \in 1..L - 1 : j \in 1..k - 1 \/ j \in k..L - 1
    BY <1>1, <1>6
  <1> HIDE DEF p, L, n
  <1>8. ASSUME NEW i \in 1..L - 1, NEW j \in 1..L - 1, t[i] = t[j] PROVE i = j
    <2>1. k \in Nat /\ k <= L
      BY <1>1 DEF L
    <2>2. CASE i \in 1..k - 1
      BY <1>1, <1>7, <1>8, <2>1, <2>2
    <2>3. CASE i \in k..L - 1
      BY <1>1, <1>7, <1>8, <2>1, <2>3
    <2> QED
      BY <1>7, <2>2, <2>3
  <1>9. Members(new) = {t[j] : j \in 1..L - 1}
    <2>0. k \in 1..L /\ n = s[k]
      BY DEF L, n
    <2>1. ASSUME NEW m \in Members(new) PROVE m \in {t[j] : j \in 1..L - 1}
      <3>1. PICK j \in 1..L : m = s[j]
        BY <1>1, <1>5
      <3>2. j # k
        BY <1>5, <2>0, <3>1
      <3>3. CASE j < k
        <4>1. j \in 1..k - 1
          BY <1>1, <3>1, <3>3, <2>0
        <4> QED
          BY <1>7, <3>1, <4>1
      <3>4. CASE j > k
        <4>1. j - 1 \in k..L - 1 /\ (j - 1) + 1 = j
          BY <1>1, <3>1, <3>4, <2>0
        <4> QED
          BY <1>7, <3>1, <4>1
      <3> QED
        BY <1>1, <2>0, <3>2, <3>3, <3>4
    <2>2. ASSUME NEW j \in 1..L - 1 PROVE t[j] \in Members(new)
      <3>1. \E i \in 1..L : i # k /\ t[j] = s[i]
        BY <1>7
      <3>2. \A i \in 1..L : i # k => s[i] # n /\ s[i] \in Members(l)
        BY <1>1, <2>0
      <3> QED
        BY <1>5, <3>1, <3>2
    <2> QED
      BY <2>1, <2>2
  <1>10. ASSUME NEW j \in 0..L - 1
         PROVE  new.link[Place(t, j)] = Nth(t, j + 1)
    <2>1. k \in 1..L /\ k \in Nat /\ n = s[k] /\ p = Place(s, k - 1)
      BY <1>1 DEF L, n, p
    <2>2. CASE j < k - 1
      <3>1. j \in 0..L /\ j # k - 1 /\ j # k /\ j + 1 \in 1..k - 1 /\ (j = 0 \/ j \in 1..k - 1)
        BY <1>1, <2>1, <2>2
      <3>2. Place(t, j) = Place(s, j)
        BY <1>7, <3>1 DEF Place
      <3>3. j + 1 \in 1..L - 1 /\ j + 1 \in 1..L /\ t[j + 1] = s[j + 1]
        BY <1>7, <3>1
      <3>4. Nth(t, j + 1) = Nth(s, j + 1)
        BY <1>6, <3>3 DEF Nth, L
      <3> QED
        BY <1>1, <1>5, <3>1, <3>2, <3>4
    <2>3. CASE j = k - 1
      <3>1. Place(t, j) = p
        BY <1>1, <1>7, <2>1, <2>3 DEF Place
      <3>2. l.link[n] = Nth(s, k + 1)
        <4>1. k \in 0..L
          BY <2>1
        <4> QED
          BY <1>1, <1>2, <4>1
      <3>3. Nth(s, k + 1) = Nth(t, j + 1)
        <4>1. j + 1 = k
          BY <2>1, <2>3
        <4>2. CASE k \in 1..L - 1
          <5>1. k \in k..L - 1 /\ k + 1 \in 1..L
            BY <1>1, <2>1, <4>2
          <5> QED
            BY <1>6, <1>7, <4>1, <4>2, <5>1 DEF Nth, L
        <4>3. CASE k \notin 1..L - 1
          <5>1. k + 1 \notin 1..L
            BY <1>1, <2>1, <4>3
          <5> QED
            BY <1>6, <4>1, <4>3, <5>1 DEF Nth, L
        <4> QED
          BY <4>2, <4>3
      <3> QED
        BY <1>5, <3>1, <3>2, <3>3
    <2>4. CASE j > k - 1
      <3>1. j \in k..L - 1 /\ j # 0 /\ j + 1 # 0 /\ j + 1 \in 0..L /\ j + 1 # k - 1 /\ j + 1 # k
        BY <1>1, <2>1, <2>4
      <3>2. Place(t, j) = Place(s, j + 1)
        BY <1>7, <3>1 DEF Place
      <3>3. new.link[Place(s, j + 1)] = Nth(s, (j + 1) + 1)
        BY <1>1, <1>5, <3>1
      <3>4. Nth(s, (j + 1) + 1) = Nth(t, j + 1)
        <4>1. CASE j + 1 \in 1..L - 1
          <5>1. j + 1 \in k..L - 1 /\ (j + 1) + 1 \in 1..L
            BY <1>1, <2>1, <2>4, <4>1
          <5> QED
            BY <1>6, <1>7, <4>1, <5>1 DEF Nth, L
        <4>2. CASE j + 1 \notin 1..L - 1
          <5>1. (j + 1) + 1 \notin 1..L
            BY <1>1, <2>1, <2>4, <4>2
          <5> QED
            BY <1>6, <4>2, <5>1 DEF Nth, L
        <4> QED
          BY <4>1, <4>2
      <3> QED
        BY <3>2, <3>3, <3>4
    <2> QED
      BY <2>1, <2>2, <2>3, <2>4
  <1> QED
    BY <1>6, <1>8, <1>9, <1>10 DEF Spells

(* The tail is the place of the last element, and what leads to an element   *)
(* the place before it.                                                      *)
LEMMA PlaceOfTail ==
    ASSUME NEW l, Good(l), NEW s, Spells(l, s)
    PROVE  l.tail = Place(s, Len(s))
  <1>1. /\ l.link[l.tail] = NULL /\ l.tail \in Reached(l) /\ Reached(l) = Members(l) \cup {HEAD}
    BY ListFacts DEF Good, WellLinked
  <1>2. /\ Len(s) \in Nat /\ \A i \in 1..Len(s) : s[i] # NULL
        /\ l.link[HEAD] = Nth(s, 1) /\ \A i \in 1..Len(s) : l.link[s[i]] = Nth(s, i + 1)
        /\ \A n \in Members(l) : \E i \in 1..Len(s) : s[i] = n
    BY SpellsFacts
  <1>3. CASE l.tail = HEAD
    <2>1. 1 \notin 1..Len(s)
      BY <1>1, <1>2, <1>3 DEF Nth
    <2>2. Len(s) = 0
      BY <1>2, <2>1
    <2> QED
      BY <1>3, <2>2 DEF Place
  <1>4. CASE l.tail # HEAD
    <2>1. PICK i \in 1..Len(s) : s[i] = l.tail
      BY <1>1, <1>2, <1>4
    <2>2. i + 1 \notin 1..Len(s)
      BY <1>1, <1>2, <2>1 DEF Nth
    <2>3. i = Len(s) /\ Len(s) # 0
      BY <1>2, <2>2
    <2> QED
      BY <2>1, <2>3 DEF Place
  <1> QED
    BY <1>3, <1>4

LEMMA PlaceBefore ==
    ASSUME NEW l, Good(l), NEW s, Spells(l, s), NEW k \in 1..Len(s)
    PROVE  l.previous[s[k]] = Place(s, k - 1)
  <1>1. /\ Len(s) \in Nat /\ \A i \in 1..Len(s) : s[i] \in Members(l)
        /\ l \in ListRecord /\ WellLinked(l)
    BY SpellsFacts DEF Good
  <1>2. \A a \in Reached(l) : l.link[a] = s[k] => a = l.previous[s[k]]
    BY <1>1, BackLink
  <1>3. Place(s, k - 1) \in Reached(l)
    <2>1. Reached(l) = Members(l) \cup {HEAD}
      BY <1>1, ListFacts
    <2>2. k - 1 = 0 \/ k - 1 \in 1..Len(s)
      BY <1>1
    <2> QED
      BY <1>1, <2>1, <2>2 DEF Place
  <1>4. l.link[Place(s, k - 1)] = s[k]
    <2>1. k - 1 \in 0..Len(s) /\ (k - 1) + 1 = k
      BY <1>1
    <2>2. l.link[Place(s, k - 1)] = Nth(s, (k - 1) + 1)
      BY <2>1 DEF Spells
    <2> QED
      BY <2>1, <2>2 DEF Nth
  <1> QED
    BY <1>2, <1>3, <1>4

(* Each operation of List does to what list_foreach visits what the same     *)
(* operation does to a sequence.                                             *)
LEMMA NewSpells == Spells(list_new, <<>>)
  <1>1. <<>> \in Seq(Node) /\ Len(<<>>) = 0
    BY EmptySeq
  <1>2. Members(list_new) = {<<>>[i] : i \in 1..Len(<<>>)}
    BY <1>1, NewIsGood
  <1>3. list_new.link[HEAD] = NULL
    BY DEF list_new, Location
  <1>4. ASSUME NEW i \in 0..Len(<<>>) PROVE list_new.link[Place(<<>>, i)] = Nth(<<>>, i + 1)
    <2>1. i = 0 /\ i + 1 \notin 1..Len(<<>>)
      BY <1>1
    <2> QED
      BY <1>3, <2>1 DEF Place, Nth
  <1> QED
    BY <1>1, <1>2, <1>4 DEF Spells

LEMMA PushFrontSpells ==
    ASSUME NEW l, Good(l), NEW s, Spells(l, s), NEW n \in Node \ Members(l)
    PROVE  Spells(list_push_front(l, n), <<n>> \o s)
  <1> DEFINE new == list_push_front(l, n)
  <1>1. Members(new) = Members(l) \cup {n}
    BY PushFrontGood
  <1>2. 0 \in 0..Len(s) /\ Place(s, 0) = HEAD /\ s \in Seq(Node)
    BY SpellsFacts DEF Place
  <1>3. new.link = [l.link EXCEPT ![Place(s, 0)] = n, ![n] = l.link[Place(s, 0)]]
    BY <1>2 DEF list_push_front
  <1>4. IsPut(s, 0, n, <<n>> \o s)
    BY <1>2, FrontIsPut
  <1> HIDE DEF new
  <1>5. Spells(new, <<n>> \o s)
    BY <1>1, <1>2, <1>3, <1>4, InsertSpells
  <1> QED
    BY <1>5 DEF new

LEMMA PushBackSpells ==
    ASSUME NEW l, Good(l), NEW s, Spells(l, s), NEW n \in Node \ Members(l)
    PROVE  Spells(list_push_back(l, n), Append(s, n))
  <1> DEFINE new == list_push_back(l, n)
             i == Len(s)
  <1>1. Members(new) = Members(l) \cup {n}
    BY PushBackGood
  <1>2. i \in 0..Len(s) /\ l.tail = Place(s, i) /\ s \in Seq(Node)
    BY SpellsFacts, PlaceOfTail
  <1>3. new.link = [l.link EXCEPT ![Place(s, i)] = n, ![n] = l.link[Place(s, i)]]
    <2>1. /\ l \in ListRecord /\ DOMAIN l.link = Location /\ n \in Location /\ l.tail \in Location
          /\ l.link[n] = NULL /\ l.link[l.tail] = NULL
      BY ListFacts DEF Good, WellLinked, Location
    <2>2. new.link = [l.link EXCEPT ![l.tail] = n]
      BY <2>1 DEF list_push_back, MoveTail, LinkLast, ListRecord
    <2>3. l.tail # n
      BY ListFacts DEF Good, WellLinked, Members
    <2>4. [l.link EXCEPT ![l.tail] = n] = [l.link EXCEPT ![l.tail] = n, ![n] = NULL]
      BY <2>1, <2>3
    <2> QED
      BY <1>2, <2>1, <2>2, <2>4
  <1>4. IsPut(s, i, n, Append(s, n))
    BY <1>2, BackIsPut
  <1> HIDE DEF new, i
  <1>5. Spells(new, Append(s, n))
    BY <1>1, <1>2, <1>3, <1>4, InsertSpells
  <1> QED
    BY <1>5 DEF new

LEMMA PushBeforeSpells ==
    ASSUME NEW l, Good(l), NEW s, Spells(l, s), NEW n \in Node \ Members(l), NEW k \in 1..Len(s)
    PROVE  Spells(list_push_before(l, s[k], n), SubSeq(s, 1, k - 1) \o <<n>> \o SubSeq(s, k, Len(s)))
  <1> DEFINE next == s[k]
             new == list_push_before(l, next, n)
             t == SubSeq(s, 1, k - 1) \o <<n>> \o SubSeq(s, k, Len(s))
             i == k - 1
             p == l.previous[next]
  <1>1. /\ s \in Seq(Node) /\ Len(s) \in Nat /\ next \in Members(l) /\ next # NULL
    BY SpellsFacts
  <1>2. i \in 0..Len(s) /\ i + 1 = k /\ p = Place(s, i)
    BY <1>1, PlaceBefore
  <1>3. Members(new) = Members(l) \cup {n}
    BY <1>1, PushBeforeGood
  <1>4. IsPut(s, i, n, t)
    BY <1>1, BeforeIsPut
  <1> HIDE DEF t, i
  <1>5. l.link[p] = next
    <2>1. l.link[Place(s, i)] = Nth(s, i + 1)
      BY <1>2 DEF Spells
    <2> QED
      BY <1>2, <2>1 DEF Nth
  <1>6. new.link = [l.link EXCEPT ![p] = n, ![n] = next]
    <2> HIDE DEF next, p
    <2>1. new = [l EXCEPT !.link = [l.link EXCEPT ![p] = n, ![n] = next],
                          !.previous = [l.previous EXCEPT ![n] = p, ![next] = n]]
      BY <1>1 DEF list_push_before, p
    <2> QED
      BY <2>1 DEF Good, ListRecord
  <1>7. new.link = [l.link EXCEPT ![Place(s, i)] = n, ![n] = l.link[Place(s, i)]]
    BY <1>2, <1>5, <1>6
  <1> HIDE DEF new, next, p
  <1>8. Spells(new, t)
    BY <1>2, <1>3, <1>4, <1>7, InsertSpells
  <1> QED
    BY <1>8 DEF new, next, t

LEMMA ListRemoveSpells ==
    ASSUME NEW l, Good(l), NEW s, Spells(l, s), NEW k \in 1..Len(s), NEW t, IsDrop(s, k, t)
    PROVE  Spells(list_remove(l, s[k]), t)
  <1> DEFINE n == s[k]
             p == l.previous[n]
             un == Unlink(l, n)
             new == list_remove(l, n)
  <1>1. n \in Members(l) /\ n # NULL /\ Len(s) \in Nat
    BY SpellsFacts
  <1>2. p = Place(s, k - 1)
    BY PlaceBefore
  <1>3. Members(new) = Members(l) \ {n}
    BY <1>1, ListRemoveGood
  <1>4. /\ l \in ListRecord /\ WellLinked(l) /\ DOMAIN l.link = Location /\ n \in Location /\ p \in Location
        /\ p # n
    <2>1. l \in ListRecord /\ WellLinked(l)
      BY DEF Good
    <2>2. p \in Reached(l) /\ p # n
      BY <1>1, <2>1, BackLink
    <2> QED
      BY <1>1, <2>1, <2>2, ListFacts DEF Location
  <1>5. un.link = [l.link EXCEPT ![p] = l.link[n]]
    BY <1>1, UnlinkReaches
  <1>6. new.link = [un.link EXCEPT ![n] = NULL]
    BY <1>1 DEF list_remove, FixBack
  <1> HIDE DEF new, un, p
  <1>7. /\ DOMAIN new.link = Location /\ new.link[p] = l.link[n]
        /\ \A a \in Location \ {p, n} : new.link[a] = l.link[a]
    BY <1>4, <1>5, <1>6
  <1>8. Spells(new, t)
    BY <1>2, <1>3, <1>7, RemoveSpells
  <1> QED
    BY <1>8 DEF new

-----------------------------------------------------------------------------
(* Any sequence of calls.                                                  *)

LEMMA GoodStays == Good(list) /\ [Next]_list => Good(list')
  <1> SUFFICES ASSUME Good(list), [Next]_list PROVE Good(list')
    OBVIOUS
  <1>1. CASE UNCHANGED list
    BY <1>1
  <1>2. CASE PopFront
    BY <1>2, PopFrontGood DEF PopFront
  <1>3. ASSUME NEW n \in Node, PushFront(n) PROVE Good(list')
    BY <1>3, PushFrontGood DEF PushFront, On
  <1>4. ASSUME NEW n \in Node, PushBack(n) PROVE Good(list')
    BY <1>4, PushBackGood DEF PushBack, On
  <1>5. ASSUME NEW n \in Node, RemoveNode(n) PROVE Good(list')
    BY <1>5, ListRemoveGood DEF RemoveNode, On
  <1>6. ASSUME NEW n \in Node, NEW next \in On \cup {NULL}, PushBefore(n, next)
        PROVE  Good(list')
    BY <1>6, PushBeforeGood DEF PushBefore, On
  <1> QED
    BY <1>1, <1>2, <1>3, <1>4, <1>5, <1>6 DEF Next

(* list.h:16-19: after any sequence of calls the links, the back links and  *)
(* the tail agree.                                                          *)
THEOREM StaysWellLinked == Spec => []ListWellLinked
  <1>1. Init => Good(list)
    BY NewIsGood DEF Init
  <1>2. Good(list) /\ [Next]_list => Good(list)'
    BY GoodStays
  <1>3. Good(list) => ListWellLinked
    BY DEF Good, ListWellLinked
  <1> QED
    BY <1>1, <1>2, <1>3, PTL DEF Spec

(* The list is well linked and some sequence spells it. *)
InOrder(l) == Good(l) /\ \E s : Spells(l, s)

LEMMA PopFrontIsTail ==
    ASSUME InOrder(list), PopFront
    PROVE  InOrder(list') /\ (Sequence!PopFront \/ Items(list') = Items(list))
  <1>1. PICK s : Spells(list, s)
    BY DEF InOrder
  <1>2. /\ Good(list) /\ Items(list) = s /\ s \in Seq(Node) /\ Len(s) \in Nat
        /\ list.link[HEAD] = Nth(s, 1) /\ list' = list_remove(list, list.link[HEAD])
    BY <1>1, ItemsAre, SpellsFacts DEF InOrder, PopFront, list_pop_front
  <1>3. CASE s = <<>>
    <2>1. 1 \notin 1..Len(s)
      BY <1>3, EmptySeq
    <2>2. list' = list
      BY <1>2, <2>1 DEF Nth, list_remove
    <2> QED
      BY <2>2 DEF InOrder
  <1>4. CASE s # <<>>
    <2>1. 1 \in 1..Len(s)
      BY <1>2, <1>4, EmptySeq
    <2>2. list' = list_remove(list, s[1])
      BY <1>2, <2>1 DEF Nth
    <2>3. Spells(list_remove(list, s[1]), Tail(s))
      BY <1>1, <1>2, <1>4, <2>1, TailIsDrop, ListRemoveSpells
    <2>4. Spells(list', Tail(s)) /\ Good(list')
      BY <1>2, <2>2, <2>3, PopFrontGood DEF list_pop_front
    <2>5. Items(list') = Tail(s)
      BY <2>4, ItemsAre
    <2> QED
      BY <1>2, <1>4, <2>4, <2>5 DEF InOrder, Sequence!PopFront
  <1> QED
    BY <1>3, <1>4

(* What is on the list is what is on the sequence. *)
LEMMA SameOn ==
    ASSUME InOrder(list)
    PROVE  Sequence!On = On
  <1>1. PICK s : Spells(list, s)
    BY DEF InOrder
  <1>2. Items(list) = s /\ DOMAIN s = 1..Len(s)
    BY <1>1, ItemsAre, SpellsFacts, LenProperties
  <1>3. Members(list) = {s[i] : i \in 1..Len(s)}
    BY <1>1 DEF Spells
  <1> QED
    BY <1>2, <1>3 DEF On, Sequence!On, Sequence!ToSet

LEMMA PushFrontIs ==
    ASSUME InOrder(list), NEW n \in Node, PushFront(n)
    PROVE  InOrder(list') /\ Sequence!PushFront(n)
  <1>1. PICK s : Spells(list, s)
    BY DEF InOrder
  <1>2. Good(list) /\ n \in Node \ Members(list) /\ list' = list_push_front(list, n)
    BY DEF InOrder, PushFront, On
  <1>3. Spells(list', <<n>> \o s) /\ Good(list')
    BY <1>1, <1>2, PushFrontSpells, PushFrontGood
  <1>4. Items(list) = s /\ Items(list') = <<n>> \o s
    BY <1>1, <1>3, ItemsAre
  <1>5. n \notin Sequence!On
    BY <1>2, SameOn DEF On
  <1> QED
    BY <1>3, <1>4, <1>5 DEF InOrder, Sequence!PushFront

LEMMA PushBackIs ==
    ASSUME InOrder(list), NEW n \in Node \ On, list' = list_push_back(list, n)
    PROVE  InOrder(list') /\ Sequence!PushBack(n)
  <1>1. PICK s : Spells(list, s)
    BY DEF InOrder
  <1>2. Good(list) /\ n \in Node \ Members(list)
    BY DEF InOrder, On
  <1>3. Spells(list', Append(s, n)) /\ Good(list')
    BY <1>1, <1>2, PushBackSpells, PushBackGood
  <1>4. Items(list) = s /\ Items(list') = Append(s, n)
    BY <1>1, <1>3, ItemsAre
  <1>5. n \notin Sequence!On
    BY <1>2, SameOn DEF On
  <1> QED
    BY <1>3, <1>4, <1>5 DEF InOrder, Sequence!PushBack

LEMMA PushBeforeIs ==
    ASSUME InOrder(list), NEW n \in Node, NEW next \in On, PushBefore(n, next)
    PROVE  InOrder(list') /\ Sequence!PushBefore(n, next)
  <1>1. PICK s : Spells(list, s)
    BY DEF InOrder
  <1>2. Good(list) /\ n \in Node \ Members(list) /\ list' = list_push_before(list, next, n)
    BY DEF InOrder, PushBefore, On
  <1>3. PICK k \in 1..Len(s) : s[k] = next
    BY <1>1, SpellsFacts DEF On
  <1> DEFINE t == SubSeq(s, 1, k - 1) \o <<n>> \o SubSeq(s, k, Len(s))
  <1>4. Spells(list', t) /\ Good(list')
    BY <1>1, <1>2, <1>3, PushBeforeSpells, PushBeforeGood DEF On
  <1>5. Items(list) = s /\ Items(list') = t /\ DOMAIN s = 1..Len(s)
    BY <1>1, <1>4, ItemsAre, SpellsFacts, LenProperties
  <1>6. n \notin Sequence!On
    BY <1>2, SameOn DEF On
  <1>7. t = Sequence!InsertAt(s, k, n)
    BY DEF Sequence!InsertAt
  <1> HIDE DEF t
  <1>8. \E i \in DOMAIN Items(list) : Items(list)[i] = next /\ Items(list') = Sequence!InsertAt(Items(list), i, n)
    BY <1>3, <1>5, <1>7
  <1> QED
    BY <1>4, <1>6, <1>8 DEF InOrder, Sequence!PushBefore

LEMMA RemoveNodeIs ==
    ASSUME InOrder(list), NEW n \in Node, RemoveNode(n)
    PROVE  InOrder(list') /\ Sequence!RemoveNode(n)
  <1>1. PICK s : Spells(list, s)
    BY DEF InOrder
  <1>2. Good(list) /\ n \in Members(list) /\ list' = list_remove(list, n)
    BY DEF InOrder, RemoveNode, On
  <1>3. PICK k \in 1..Len(s) : s[k] = n
    BY <1>1, <1>2, SpellsFacts
  <1> DEFINE t == SubSeq(s, 1, k - 1) \o SubSeq(s, k + 1, Len(s))
  <1>4. IsDrop(s, k, t)
    BY <1>1, SpellsFacts, AtIsDrop
  <1>5. Spells(list', t) /\ Good(list')
    <2> HIDE DEF t
    <2> QED
      BY <1>1, <1>2, <1>3, <1>4, ListRemoveSpells, ListRemoveGood
  <1>6. Items(list) = s /\ Items(list') = t /\ DOMAIN s = 1..Len(s)
    BY <1>1, <1>5, ItemsAre, SpellsFacts, LenProperties
  <1>7. t = Sequence!RemoveAt(s, k)
    BY DEF Sequence!RemoveAt
  <1> HIDE DEF t
  <1>8. \E i \in DOMAIN Items(list) : Items(list)[i] = n /\ Items(list') = Sequence!RemoveAt(Items(list), i)
    BY <1>3, <1>6, <1>7
  <1> QED
    BY <1>5, <1>8 DEF InOrder, Sequence!RemoveNode

LEMMA StepIsStep ==
    ASSUME InOrder(list), [Next]_list
    PROVE  InOrder(list') /\ (Sequence!Next \/ Items(list') = Items(list))
  <1>1. CASE UNCHANGED list
    BY <1>1
  <1>2. CASE PopFront
    BY <1>2, PopFrontIsTail DEF Sequence!Next
  <1>3. ASSUME NEW n \in Node, PushFront(n) PROVE InOrder(list') /\ Sequence!Next
    BY <1>3, PushFrontIs DEF Sequence!Next
  <1>4. ASSUME NEW n \in Node, PushBack(n) PROVE InOrder(list') /\ Sequence!Next
    BY <1>4, PushBackIs DEF Sequence!Next, PushBack
  <1>5. ASSUME NEW n \in Node, RemoveNode(n) PROVE InOrder(list') /\ Sequence!Next
    BY <1>5, RemoveNodeIs DEF Sequence!Next
  <1>6. ASSUME NEW n \in Node, NEW next \in On \cup {NULL}, PushBefore(n, next)
        PROVE  InOrder(list') /\ Sequence!Next
    <2>1. CASE next \in On
      BY <1>6, <2>1, PushBeforeIs, SameOn DEF Sequence!Next
    <2>2. CASE next = NULL
      BY <1>6, <2>2, PushBackIs DEF Sequence!Next, PushBefore, list_push_before
    <2> QED
      BY <2>1, <2>2
  <1> QED
    BY <1>1, <1>2, <1>3, <1>4, <1>5, <1>6 DEF Next

(* list.h:43-62: seen through list_foreach, every operation does what the   *)
(* same operation on a sequence does.                                       *)
THEOREM ImplementsSequence == Spec => IsSequence
  <1>1. Init => InOrder(list) /\ Sequence!Init
    <2> SUFFICES ASSUME Init PROVE InOrder(list) /\ Sequence!Init
      OBVIOUS
    <2>1. Items(list_new) = <<>>
      BY NewSpells, ItemsAre
    <2> QED
      BY <2>1, NewIsGood, NewSpells DEF Init, InOrder, Sequence!Init
  <1>2. InOrder(list) /\ [Next]_list => InOrder(list)' /\ [Sequence!Next]_(Items(list))
    BY StepIsStep
  <1> QED
    BY <1>1, <1>2, PTL DEF Spec, IsSequence, Sequence!Spec

=============================================================================
