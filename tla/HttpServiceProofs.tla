------------------------- MODULE HttpServiceProofs --------------------------
(***************************************************************************)
(* Proofs about HttpService, for any number of workers and any set of      *)
(* sessions, finite or not: the mutual exclusion that the list of sessions *)
(* rests on; the order in which the service stops; the list in step with   *)
(* the sessions alive; and, out of these, that the threads, the mutex and  *)
(* the pointers implement the set of sessions of SessionRegistry.          *)
(***************************************************************************)
EXTENDS HttpServiceInv, TLAPS

-----------------------------------------------------------------------------
(* What a step of a worker does to the state both invariants are about.    *)

(* Worker w goes to the step l; the main thread and the other workers stay.  *)
Moves(w, l) ==
    /\ worker' = [worker EXCEPT ![w] = l]
    /\ worker[w] \notin {"new", "exited"} /\ l # "new"
    /\ UNCHANGED <<main, failed, at, armed, joins>>

(* It stays inside or outside the critical section, or takes the mutex, or   *)
(* gives it back.                                                            *)
MutexStep(w, l) ==
    \/ lock' = lock /\ (l \in Critical <=> worker[w] \in Critical)
    \/ lock = Nobody /\ lock' = w /\ worker[w] \notin Critical /\ l \in Critical
    \/ lock' = Nobody /\ worker[w] \in Critical /\ l \notin Critical

LEMMA WorkerMoves ==
    ASSUME ControlType, NEW w \in Workers, WorkerStep(w)
    PROVE  \E l \in WorkerState : Moves(w, l) /\ MutexStep(w, l)
<1> USE DEF Moves, MutexStep, WorkerState, Critical, Goto, mainVars
<1>t. worker \in [Workers -> WorkerState]
    BY DEF ControlType
<1>1. CASE Listen(w)
    <2> WITNESS "loop" \in WorkerState
    <2> QED BY <1>1 DEF Listen
<1>2. CASE ListenFails(w)
    <2> WITNESS "failing" \in WorkerState
    <2> QED BY <1>2 DEF ListenFails
<1>3. CASE worker_failure(w)
    <2> WITNESS "exited" \in WorkerState
    <2> QED BY <1>3 DEF worker_failure
<1>4. CASE LeaveDispatch(w)
    <2> WITNESS "exited" \in WorkerState
    <2> QED BY <1>4 DEF LeaveDispatch
<1>5. CASE \E s \in Sessions : Accept(w, s)
    <2> WITNESS "add" \in WorkerState
    <2> QED BY <1>5 DEF Accept
<1>6. CASE \E s \in Sessions : Remove(w, s)
    <2> WITNESS "remove" \in WorkerState
    <2> QED BY <1>6 DEF Remove
<1>7. CASE AddLocks(w)
    <2> WITNESS "link" \in WorkerState
    <2> QED BY <1>7 DEF AddLocks, mutex_lock
<1>8. CASE PushLinks(w)
    <2> WITNESS "move_tail" \in WorkerState
    <2> QED BY <1>8 DEF PushLinks
<1>9. CASE PushMovesTail(w)
    <2> WITNESS "loop" \in WorkerState
    <2> QED BY <1>9 DEF PushMovesTail, mutex_unlock
<1>10. CASE RemoveLocks(w)
    <2> WITNESS "search" \in WorkerState
    <2> QED BY <1>10 DEF RemoveLocks, mutex_lock
<1>11. CASE Search(w)
    <2>1. CASE cursor[w] = NULL
        <3> WITNESS "loop" \in WorkerState
        <3> QED BY <1>11, <2>1 DEF Search, mutex_unlock
    <2>2. CASE cursor[w] # NULL /\ cursor[w] = job[w]
        <3> WITNESS "unlink" \in WorkerState
        <3> QED BY <1>11, <2>2 DEF Search
    <2>3. CASE cursor[w] # NULL /\ cursor[w] # job[w]
        <3> WITNESS "search" \in WorkerState
        <3>1. worker' = worker /\ worker[w] = "search"
            BY <1>11, <2>3 DEF Search
        <3>2. worker' = [worker EXCEPT ![w] = "search"]
            BY <3>1, <1>t
        <3> QED BY <1>11, <2>3, <3>1, <3>2 DEF Search
    <2> QED BY <2>1, <2>2, <2>3
<1>12. CASE RemoveUnlinks(w)
    <2> WITNESS "fix_back" \in WorkerState
    <2> QED BY <1>12 DEF RemoveUnlinks
<1>13. CASE RemoveFixesBack(w)
    <2> WITNESS "free" \in WorkerState
    <2> QED BY <1>13 DEF RemoveFixesBack
<1>14. CASE RemoveFrees(w)
    <2> WITNESS "loop" \in WorkerState
    <2> QED BY <1>14 DEF RemoveFrees, mutex_unlock
<1>15. CASE UsesFreedList(w)
    <2>1. /\ worker[w] \in {"link", "move_tail", "unlink", "fix_back", "remove", "search"}
          /\ worker[w] \in WorkerState
          /\ UNCHANGED <<main, failed, at, armed, joins, worker, lock>>
        BY <1>15 DEF UsesFreedList, workVars
    <2>2. worker' = [worker EXCEPT ![w] = worker[w]]
        BY <2>1, <1>t
    <2>3. Moves(w, worker[w]) /\ MutexStep(w, worker[w])
        BY <2>1, <2>2
    <2> QED BY <2>1, <2>3
<1> QED
    BY <1>1, <1>2, <1>3, <1>4, <1>5, <1>6, <1>7, <1>8, <1>9, <1>10, <1>11,
       <1>12, <1>13, <1>14, <1>15
    DEF WorkerStep, ThreadStep, CallbackStep

(* A step is a worker's, the main thread's, or leaves all of that alone. *)
LEMMA StepCases ==
    ASSUME [Next]_vars
    PROVE  \/ \E w \in Workers : WorkerStep(w)
           \/ MainStep
           \/ UNCHANGED <<main, failed, at, armed, worker, joins, lock>>
BY DEF Next, Ended, SignalArrives, vars, workVars, sessVars

-----------------------------------------------------------------------------
(* Mutual exclusion.                                                       *)

LEMMA ThreadInit ==
    ASSUME Init
    PROVE  ThreadInv
<1>1. ControlType
    <2>1. worker \in [Workers -> WorkerState] /\ joins \in [Workers -> 0..2]
        BY DEF Init, WorkerState
    <2>2. failed \in BOOLEAN
        BY DEF Init
    <2>3. main \in MainState /\ at \in 1..NWorkers + 1
        BY ServiceAssumption DEF Init, MainState
    <2>4. armed \subseteq Signals /\ lock \in Workers \cup {Nobody}
        BY DEF Init
    <2> QED BY <2>1, <2>2, <2>3, <2>4 DEF ControlType
<1>2. StartInv
    BY DEF Init, StartInv
<1>3. MutexInv
    BY DEF Init, MutexInv, Critical, Nobody, Workers
<1> QED BY <1>1, <1>2, <1>3 DEF ThreadInv

LEMMA ThreadWorker ==
    ASSUME ThreadInv, NEW w \in Workers, WorkerStep(w)
    PROVE  ThreadInv'
<1>1. PICK l \in WorkerState : Moves(w, l) /\ MutexStep(w, l)
    BY WorkerMoves DEF ThreadInv
<1>2. worker' \in [Workers -> WorkerState]
    BY <1>1 DEF Moves, ThreadInv, ControlType
<1>3. /\ worker'[w] = l
      /\ \A v \in Workers : v # w => worker'[v] = worker[v]
    BY <1>1 DEF Moves, ThreadInv, ControlType
<1>4. ControlType'
    BY <1>1, <1>2 DEF Moves, MutexStep, ThreadInv, ControlType
<1>5. StartInv'
    <2>1. main' = main /\ at' = at /\ worker[w] # "new"
        BY <1>1 DEF Moves
    <2> QED BY <1>3, <2>1 DEF ThreadInv, StartInv
<1>6. MutexInv'
    <2> SUFFICES ASSUME NEW v \in Workers
                 PROVE  worker'[v] \in Critical <=> lock' = v
        BY DEF MutexInv
    <2>1. Nobody \notin Workers
        BY DEF Nobody, Workers
    <2> QED BY <1>1, <1>3, <2>1 DEF MutexStep, ThreadInv, MutexInv
<1> QED BY <1>4, <1>5, <1>6 DEF ThreadInv

(* The main thread goes on, past the start of the workers. *)
MainMoves ==
    /\ UNCHANGED <<worker, lock>>
    /\ main' # "starting"
    /\ main' = "joining" => at' <= NWorkers
    /\ main' \in MainState /\ at' \in 1..NWorkers + 1
    /\ armed' \subseteq Signals /\ joins' \in [Workers -> 0..2]
    /\ failed' \in BOOLEAN

LEMMA ThreadMain ==
    ASSUME ThreadInv, MainStep
    PROVE  ThreadInv'
<1> USE ServiceAssumption DEF ThreadInv, ControlType
<1>1. CASE StartWorker
    <2>1. at \in Workers /\ worker[at] = "new"
        BY <1>1 DEF StartWorker, StartInv, Workers
    <2>2. /\ worker' \in [Workers -> WorkerState]
          /\ worker'[at] = "prologue"
          /\ \A v \in Workers : v # at => worker'[v] = worker[v]
        BY <1>1, <2>1 DEF StartWorker, Goto, WorkerState
    <2>3. ControlType'
        BY <1>1, <2>2 DEF StartWorker
    <2>4. StartInv'
        BY <1>1, <2>2 DEF StartWorker, StartInv, Workers
    <2>5. MutexInv'
        BY <1>1, <2>1, <2>2 DEF StartWorker, MutexInv, Critical
    <2> QED BY <2>3, <2>4, <2>5
<1>2. CASE ~StartWorker
    <2> USE DEF MainState, workVars, mainVars
    <2> SUFFICES MainMoves
        BY DEF MainMoves, StartInv, MutexInv
    <2>1. CASE StartFails
        BY <2>1, <1>2 DEF StartFails, MainMoves
    <2>2. CASE EnterLoop
        BY <2>2, <1>2 DEF EnterLoop, MainMoves
    <2>3. CASE \E sig \in Signals : HandleSignal(sig)
        BY <2>3, <1>2 DEF HandleSignal, Signals, MainMoves
    <2>4. CASE RequestExit
        BY <2>4, <1>2 DEF RequestExit, MainMoves
    <2>5. CASE RequestFails
        BY <2>5, <1>2 DEF RequestFails, MainMoves
    <2>6. CASE Join
        BY <2>6, <1>2 DEF Join, StartInv, Workers, MainMoves
    <2>7. CASE DeleteEvent
        BY <2>7, <1>2 DEF DeleteEvent, Signals, MainMoves
    <2>8. CASE LeaveLoop
        BY <2>8, <1>2 DEF LeaveLoop, MainMoves
    <2>9. CASE FreeListed
        BY <2>9, <1>2 DEF FreeListed, MainMoves
    <2>10. CASE FreeList
        BY <2>10, <1>2 DEF FreeList, MainMoves
    <2>11. CASE FreeWorkers
        BY <2>11, <1>2 DEF FreeWorkers, MainMoves
    <2>12. CASE UsesFreedNode
        BY <2>12, <1>2 DEF UsesFreedNode, MainMoves
    <2> QED BY <1>2, <2>1, <2>2, <2>3, <2>4, <2>5, <2>6, <2>7, <2>8, <2>9, <2>10,
           <2>11, <2>12
        DEF MainStep
<1> QED BY <1>1, <1>2

LEMMA ThreadNext ==
    ASSUME ThreadInv, [Next]_vars
    PROVE  ThreadInv'
<1>1. CASE UNCHANGED <<main, failed, at, armed, worker, joins, lock>>
    BY <1>1 DEF ThreadInv, ControlType, StartInv, MutexInv
<1> QED BY <1>1, StepCases, ThreadWorker, ThreadMain

(* http_service.c:33-56: at most one worker is between mutex_lock and        *)
(* mutex_unlock, and it holds the mutex, whatever fails at start or stop.    *)
THEOREM MutualExclusion == Spec => []MutexInv
<1>1. Init => ThreadInv
    BY ThreadInit
<1>2. ThreadInv /\ [Next]_vars => ThreadInv'
    BY ThreadNext
<1>3. ThreadInv => MutexInv
    BY DEF ThreadInv
<1> QED BY <1>1, <1>2, <1>3, PTL DEF Spec

-----------------------------------------------------------------------------
(* The order of start, stop and finalisation.                              *)

LEMMA StopInit ==
    ASSUME Init
    PROVE  StopInv
<1>1. ThreadInv
    BY ThreadInit
<1>2. ArmedInv
    BY DEF Init, ArmedInv, Finalising, Signals
<1>3. JoinInv
    BY DEF Init, JoinInv, JoinOnce
<1>4. QuietInv
    BY DEF Init, QuietInv
<1> QED BY <1>1, <1>2, <1>3, <1>4 DEF StopInv

LEMMA StopWorker ==
    ASSUME StopInv, NEW w \in Workers, WorkerStep(w)
    PROVE  StopInv'
<1>1. PICK l \in WorkerState : Moves(w, l)
    BY WorkerMoves DEF StopInv, ThreadInv
<1>2. \A v \in Workers : worker[v] = "exited" => worker'[v] = "exited"
    BY <1>1 DEF Moves, StopInv, ThreadInv, ControlType
<1>3. UNCHANGED <<main, failed, at, armed, joins>>
    BY <1>1 DEF Moves
<1>4. ThreadInv'
    BY ThreadWorker DEF StopInv
<1>5. ArmedInv'
    BY <1>3 DEF StopInv, ArmedInv, Finalising
<1>6. JoinInv'
    BY <1>2, <1>3 DEF StopInv, JoinInv, JoinOnce
<1>7. QuietInv'
    BY <1>2, <1>3 DEF StopInv, QuietInv, AllExited
<1> QED BY <1>4, <1>5, <1>6, <1>7 DEF StopInv

LEMMA StopMain ==
    ASSUME StopInv, MainStep
    PROVE  StopInv'
<1> USE ServiceAssumption DEF workVars, mainVars
<1>t. ThreadInv' /\ ControlType
    BY ThreadMain DEF StopInv, ThreadInv
<1> SUFFICES ArmedInv' /\ JoinInv' /\ QuietInv'
    BY <1>t DEF StopInv
<1>1. CASE StartWorker
    BY <1>1 DEF StartWorker, StopInv, ArmedInv, JoinInv, JoinOnce, QuietInv, Finalising
<1>2. CASE EnterLoop
    BY <1>2 DEF EnterLoop, StopInv, ArmedInv, JoinInv, JoinOnce, QuietInv, Finalising,
       Signals
<1>3. CASE \E sig \in Signals : HandleSignal(sig)
    <2>1. armed = Signals
        BY <1>3 DEF HandleSignal, StopInv, ArmedInv, Signals
    <2> QED BY <1>3, <2>1 DEF HandleSignal, StopInv, ArmedInv, JoinInv, JoinOnce,
        QuietInv, Finalising, Signals, Workers
<1>4. CASE RequestExit
    BY <1>4 DEF RequestExit, StopInv, ArmedInv, JoinInv, JoinOnce, QuietInv, Finalising
<1>5. CASE Join
    <2>1. /\ at \in Workers /\ joins[at] = 0 /\ worker[at] = "exited"
          /\ main' = "stopping" /\ at' = at + 1
          /\ UNCHANGED <<armed, worker, failed>>
        BY <1>5, <1>t DEF Join, StopInv, ThreadInv, StartInv, JoinInv, ControlType, Workers
    <2>2. /\ joins'[at] = 1
          /\ \A w \in Workers : w # at => joins'[w] = joins[w]
        BY <1>5, <1>t, <2>1 DEF Join, ControlType
    <2>3. armed = Signals /\ main = "joining"
        BY <1>5 DEF Join, StopInv, ArmedInv
    <2>4. \A w \in Workers : /\ w < at + 1 /\ ~failed => worker[w] = "exited"
                             /\ at + 1 <= w => joins'[w] = 0
        BY <2>1, <2>2, <2>3 DEF StopInv, JoinInv, Workers
    <2>5. ArmedInv'
        BY <2>1, <2>3 DEF ArmedInv, Finalising, Signals
    <2>6. JoinInv'
        BY <2>1, <2>2, <2>4 DEF StopInv, JoinInv, JoinOnce
    <2> QED BY <2>1, <2>3, <2>5, <2>6 DEF QuietInv
<1>6. CASE DeleteEvent
    <2>1. ~failed => AllExited
        BY <1>6, <1>t DEF DeleteEvent, StopInv, JoinInv, AllExited, Workers, ControlType
    <2> QED BY <1>6, <2>1 DEF DeleteEvent, StopInv, ArmedInv, JoinInv, JoinOnce,
        QuietInv, AllExited, Finalising, Signals
<1>7. CASE LeaveLoop
    BY <1>7 DEF LeaveLoop, StopInv, ArmedInv, JoinInv, JoinOnce, QuietInv, AllExited,
       Finalising, Signals
<1>8. CASE FreeListed
    BY <1>8 DEF FreeListed, StopInv, ArmedInv, JoinInv, JoinOnce, QuietInv, AllExited,
       Finalising
<1>9. CASE FreeList \/ FreeWorkers
    BY <1>9 DEF FreeList, FreeWorkers, StopInv, ArmedInv, JoinInv, JoinOnce, QuietInv,
       AllExited, Finalising, Signals
<1>12. CASE UsesFreedNode
    BY <1>12 DEF UsesFreedNode, StopInv, ArmedInv, JoinInv, JoinOnce, QuietInv, AllExited,
       Finalising
<1>10. CASE StartFails
    BY <1>10 DEF StartFails, StopInv, ArmedInv, JoinInv, JoinOnce, QuietInv, Finalising
<1>11. CASE RequestFails
    <2>1. /\ main = "stopping" /\ main' = "stopping" /\ at \in Workers /\ at' = at + 1
          /\ armed = Signals /\ failed' = TRUE /\ UNCHANGED <<armed, joins, worker>>
        BY <1>11, <1>t DEF RequestFails, StopInv, ArmedInv, ControlType, Workers
    <2>2. ArmedInv' /\ QuietInv'
        BY <2>1 DEF ArmedInv, QuietInv, Finalising, Signals
    <2>3. JoinInv'
        BY <2>1 DEF StopInv, JoinInv, JoinOnce, Workers
    <2> QED BY <2>2, <2>3
<1> QED
    BY <1>1, <1>2, <1>3, <1>4, <1>5, <1>6, <1>7, <1>8, <1>9, <1>10, <1>11,
       <1>12
    DEF MainStep

LEMMA StopNext ==
    ASSUME StopInv, [Next]_vars
    PROVE  StopInv'
<1>1. CASE UNCHANGED <<main, failed, at, armed, worker, joins, lock>>
    <2>1. ThreadInv'
        BY ThreadNext DEF StopInv
    <2> QED BY <1>1, <2>1 DEF StopInv, ArmedInv, JoinInv, JoinOnce, QuietInv, AllExited,
        Finalising
<1> QED BY <1>1, StepCases, StopWorker, StopMain

LEMMA StopInvAlways == Spec => []StopInv
<1>1. Init => StopInv
    BY StopInit
<1>2. StopInv /\ [Next]_vars => StopInv'
    BY StopNext
<1> QED BY <1>1, <1>2, PTL DEF Spec

(* http_service.c:203-236: when the sessions and the workers are freed       *)
(* without the mutex, every worker's thread has ended or never began, unless *)
(* a worker could not be started or stopped.                                 *)
THEOREM FinalisesAlone == Spec => []FiniAlone
<1>1. StopInv => FiniAlone
    BY DEF StopInv, ArmedInv, QuietInv, AllExited, FiniAlone, Signals
<1> QED BY <1>1, StopInvAlways, PTL

(* http_service.c:189-194: signals that arrive during the stop, or at once,  *)
(* never make the main thread join a worker again, whatever fails.           *)
THEOREM JoinsOnce == Spec => []JoinOnce
<1>1. StopInv => JoinOnce
    BY DEF StopInv, JoinInv
<1> QED BY <1>1, StopInvAlways, PTL

(* worker.c:24: the SIGTERM by which a worker reports that it cannot listen  *)
(* is caught, whenever the worker sends it, if all workers could be stopped. *)
THEOREM FailuresAreCaught == Spec => []FailureIsCaught
<1>1. StopInv => FailureIsCaught
    BY DEF StopInv, ArmedInv, QuietInv, AllExited, FailureIsCaught, Signals
<1> QED BY <1>1, StopInvAlways, PTL

(* http_service.h:19-21: when every worker could be started and stopped, the *)
(* main thread does not go on to finalise before it has processed a signal,  *)
(* whether or not a worker runs.                                             *)
THEOREM WaitsForSignal == Spec => [](~failed /\ Finalising => armed = {})
<1>1. StopInv => (~failed /\ Finalising => armed = {})
    BY DEF StopInv, ArmedInv
<1> QED BY <1>1, StopInvAlways, PTL


-----------------------------------------------------------------------------
(* What ListProofs says of the list of sessions.                           *)

Lists == INSTANCE ListProofs

(* Its operators are those of the module List that HttpService extends.      *)
LEMMA SameOperators ==
    ASSUME NEW l, NEW n
    PROVE  /\ Lists!list_new = list_new /\ Lists!NULL = NULL
           /\ Lists!LinkLast(l, n) = LinkLast(l, n) /\ Lists!MoveTail(l, n) = MoveTail(l, n)
           /\ Lists!Unlink(l, n) = Unlink(l, n) /\ Lists!FixBack(l, n) = FixBack(l, n)
           /\ Lists!From(l.link, n) = From(l.link, n)
           /\ Lists!Members(l) = Members(l) /\ Lists!Good(l) = Good(l)
           /\ Lists!ListRecord = ListRecord /\ Lists!HEAD = HEAD
<1> USE DEF HEAD, NULL, Location, Lists!HEAD, Lists!NULL, Lists!Location
<1>1. Lists!list_new = list_new /\ Lists!ListRecord = ListRecord
    BY DEF list_new, Lists!list_new, ListRecord, Lists!ListRecord
<1>2. Lists!LinkLast(l, n) = LinkLast(l, n) /\ Lists!MoveTail(l, n) = MoveTail(l, n)
    BY DEF LinkLast, Lists!LinkLast, MoveTail, Lists!MoveTail
<1>3. Lists!Unlink(l, n) = Unlink(l, n)
    BY DEF Unlink, Lists!Unlink
<1>4. Lists!FixBack(l, n) = FixBack(l, n)
    BY DEF FixBack, Lists!FixBack
<1>5. \A a : Lists!From(l.link, a) = From(l.link, a)
    BY DEF From, Lists!From, Closed, Lists!Closed
<1>6. Lists!Reached(l) = Reached(l) /\ Lists!Members(l) = Members(l)
    BY <1>5 DEF Reached, Lists!Reached, Members, Lists!Members
<1>7. Lists!Ends(l.link, HEAD) = Ends(l.link, HEAD)
    BY <1>5 DEF Ends, Lists!Ends
<1>8. Lists!WellLinked(l) = WellLinked(l)
    BY <1>6, <1>7 DEF WellLinked, Lists!WellLinked
<1>9. Lists!Good(l) = Good(l)
    BY <1>1, <1>6, <1>8 DEF Good, Lists!Good
<1> QED BY <1>1, <1>2, <1>3, <1>4, <1>5, <1>6, <1>9

LEMMA ListNodes == Lists!NULL \notin Node /\ Lists!HEAD \notin Node
BY NodeAssumption DEF HEAD, NULL, Lists!HEAD, Lists!NULL

LEMMA NewList == Good(list_new) /\ Members(list_new) = {}
BY SameOperators, ListNodes, Lists!NewIsGood

LEMMA Pushing ==
    ASSUME NEW l, Good(l), NEW n \in Node \ Members(l)
    PROVE  /\ LinkLast(l, n) \in ListRecord /\ Good(MoveTail(LinkLast(l, n), n))
           /\ Members(LinkLast(l, n)) = Members(l) \cup {n}
<1>1. Lists!Good(l) /\ n \in Node \ Lists!Members(l)
    BY SameOperators
<1>2. /\ Lists!LinkLast(l, n) \in Lists!ListRecord
      /\ Lists!Good(Lists!MoveTail(Lists!LinkLast(l, n), n))
      /\ Lists!Members(Lists!LinkLast(l, n)) = Lists!Members(l) \cup {n}
    BY <1>1, ListNodes, Lists!LinkLastGood
<1> QED BY <1>2, SameOperators

LEMMA Unlinking ==
    ASSUME NEW l, Good(l), NEW n \in Members(l)
    PROVE  /\ Unlink(l, n) \in ListRecord /\ Members(Unlink(l, n)) = Members(l) \ {n}
           /\ Good(FixBack(Unlink(l, n), n))
           /\ Members(FixBack(Unlink(l, n), n)) = Members(l) \ {n}
<1>1. Lists!Good(l) /\ n \in Lists!Members(l)
    BY SameOperators
<1>2. /\ Lists!Unlink(l, n) \in Lists!ListRecord
      /\ Lists!Reached(Lists!Unlink(l, n)) = Lists!Reached(l) \ {n}
    BY <1>1, ListNodes, Lists!UnlinkReaches
<1>3. Lists!Members(Lists!Unlink(l, n)) = Lists!Members(l) \ {n}
    BY <1>2 DEF Lists!Members
<1>4. /\ Lists!Good(Lists!FixBack(Lists!Unlink(l, n), n))
      /\ Lists!Members(Lists!FixBack(Lists!Unlink(l, n), n)) = Lists!Members(l) \ {n}
    BY <1>1, ListNodes, Lists!RemoveGood
<1> QED BY <1>2, <1>3, <1>4, SameOperators

LEMMA Ahead ==
    ASSUME NEW l, Good(l)
    PROVE  /\ Members(l) = From(l.link, l.link[HEAD]) /\ From(l.link, NULL) = {}
           /\ Members(l) \in SUBSET Node /\ l.link[HEAD] \in Members(l) \cup {NULL}
           /\ \A n \in Members(l) :
                 /\ From(l.link, n) = {n} \cup From(l.link, l.link[n])
                 /\ n \notin From(l.link, l.link[n])
                 /\ l.link[n] \in Members(l) \cup {NULL}
<1>1. Lists!Good(l)
    BY SameOperators
<1>2. /\ Lists!Members(l) = Lists!From(l.link, l.link[Lists!HEAD])
      /\ Lists!From(l.link, Lists!NULL) = {}
      /\ \A n \in Lists!Members(l) :
            /\ Lists!From(l.link, n) = {n} \cup Lists!From(l.link, l.link[n])
            /\ n \notin Lists!From(l.link, l.link[n])
            /\ l.link[n] \in Lists!Members(l) \cup {Lists!NULL}
    BY <1>1, ListNodes, Lists!MembersAhead
<1>3. /\ Lists!Members(l) \in SUBSET Node
      /\ l.link[Lists!HEAD] \in Lists!Members(l) \cup {Lists!NULL}
    <2>1. l \in Lists!ListRecord
        BY <1>1 DEF Lists!Good
    <2> QED BY <2>1, ListNodes, Lists!ListFacts DEF Lists!Members
<1>4. /\ Lists!Members(l) = Members(l) /\ Lists!HEAD = HEAD /\ Lists!NULL = NULL
      /\ \A a : Lists!From(l.link, a) = From(l.link, a)
    BY SameOperators
<1>5. /\ Members(l) = From(l.link, l.link[HEAD]) /\ From(l.link, NULL) = {}
      /\ Members(l) \in SUBSET Node /\ l.link[HEAD] \in Members(l) \cup {NULL}
    BY <1>2, <1>3, <1>4
<1>6. \A n \in Members(l) :
         /\ From(l.link, n) = {n} \cup From(l.link, l.link[n])
         /\ n \notin From(l.link, l.link[n])
         /\ l.link[n] \in Members(l) \cup {NULL}
    BY <1>2, <1>4
<1> QED BY <1>5, <1>6

LEMMA MembersAreSessions ==
    ASSUME NEW l \in ListRecord
    PROVE  Members(l) \in SUBSET Sessions
<1>1. Lists!Members(l) \in SUBSET Node
    BY SameOperators, ListNodes, Lists!ListFacts
<1> QED BY <1>1, SameOperators DEF Sessions

(* The single steps, whatever the list.                                      *)
LEMMA StepTypes ==
    ASSUME NEW l \in ListRecord, NEW n \in Node
    PROVE  /\ LinkLast(l, n) \in ListRecord /\ MoveTail(l, n) \in ListRecord
           /\ Unlink(l, n) \in ListRecord
           /\ MoveTail(l, n).link = l.link /\ Members(MoveTail(l, n)) = Members(l)
<1>1. l.tail \in Location /\ n \in Location /\ l.link[n] \in Node \cup {NULL}
    BY DEF ListRecord, Location
<1>2. /\ LinkLast(l, n) \in ListRecord /\ MoveTail(l, n) \in ListRecord
      /\ MoveTail(l, n).link = l.link
    BY <1>1 DEF LinkLast, MoveTail, ListRecord
<1>3. Unlink(l, n) \in ListRecord
    BY <1>1 DEF Unlink, ListRecord
<1> QED BY <1>2, <1>3 DEF Members, Reached

-----------------------------------------------------------------------------
(* What each step of a worker makes of the list and of the sessions.         *)

LEMMA Alone ==
    ASSUME StopInv, NEW w \in Workers, worker[w] \in Critical
    PROVE  lock = w /\ \A v \in Workers \ {w} : worker[v] \notin Critical
BY DEF StopInv, ThreadInv, MutexInv

(* Who may take the mutex is alone as well.                                  *)
LEMMA NobodyInside ==
    ASSUME StopInv, lock = Nobody
    PROVE  \A v \in Workers : worker[v] \notin Critical
BY DEF StopInv, ThreadInv, MutexInv, Nobody, Workers

WorkersKeep == TypeOK /\ ListState /\ (~Finalising => Agreed)

(* A worker goes to l, with the session j at hand; the others stay.          *)
Goes(w, l, j) ==
    /\ worker' = [worker EXCEPT ![w] = l] /\ l \in WorkerState
    /\ job' = [job EXCEPT ![w] = j] /\ (j = NULL <=> l \notin Busy)
    /\ \A v \in Threads \ {w} : cursor'[v] = cursor[v]
    /\ main' = main

LEMMA JobStep ==
    ASSUME TypeOK, JobInv, NEW w \in Workers, NEW l, NEW j \in Sessions \cup {NULL}, Goes(w, l, j),
           \A s \in Sessions : life[s] # "none" => owner'[s] = owner[s] /\ life'[s] # "none",
           j # NULL => owner'[j] = w /\ life'[j] # "none"
    PROVE  JobInv'
<1>1. /\ worker'[w] = l /\ job'[w] = j
      /\ \A v \in Workers \ {w} : worker'[v] = worker[v] /\ job'[v] = job[v]
    BY DEF TypeOK, Goes
<1>2. \A v \in Workers : job[v] \in Sessions \cup {NULL}
    BY DEF TypeOK
<1> QED BY <1>1, <1>2 DEF JobInv, Goes

(* The steps that leave the list and the sessions alone and begin or end no  *)
(* search.                                                                   *)
LEMMA QuietSteps ==
    ASSUME ListInv, StopInv, NEW w \in Workers,
           Listen(w) \/ ListenFails(w) \/ worker_failure(w) \/ LeaveDispatch(w) \/ AddLocks(w)
    PROVE  WorkersKeep'
<1>1. PICK l \in {"loop", "failing", "exited", "link"} :
         /\ worker' = [worker EXCEPT ![w] = l] /\ worker[w] \notin Critical
         /\ l = "link" => worker[w] = "add"
         /\ l # "link" => worker[w] \in {"prologue", "failing", "loop"}
         /\ UNCHANGED <<main, failed, fault, at, armed, exitreq, joins, job, cursor, list, life, owner>>
    BY DEF Listen, ListenFails, worker_failure, LeaveDispatch, AddLocks, Goto, mainVars, sessVars,
           Critical
<1>2. lock' \in Workers \cup {Nobody} /\ killed' \in BOOLEAN /\ pending' \subseteq Signals
    <2>1. worker_failure(w) => killed' \in BOOLEAN /\ pending' \subseteq Signals /\ lock' = lock
        BY DEF worker_failure, Raise, Signals, ListInv, TypeOK
    <2> QED BY <2>1 DEF Listen, ListenFails, LeaveDispatch, AddLocks, mutex_lock,
                        mainVars, ListInv, TypeOK
<1>3. worker' \in [Workers -> WorkerState]
    BY <1>1 DEF ListInv, TypeOK, WorkerState, Critical
<1>4. TypeOK'
    BY <1>1, <1>2, <1>3 DEF ListInv, TypeOK
<1>5. /\ worker'[w] = l /\ \A v \in Workers \ {w} : worker'[v] = worker[v]
      /\ job[w] = NULL <=> worker[w] # "add"
    BY <1>1 DEF ListInv, ListState, JobInv, TypeOK, Busy, Critical
<1>6. JobInv' /\ Accepted'
    BY <1>1, <1>5 DEF ListInv, ListState, JobInv, Accepted, Busy, Critical
<1>7. /\ Tidy => Tidy'
      /\ Finalising' = Finalising
    <2>1. Shaped => Shaped'
        BY <1>1, <1>5 DEF Shaped, Critical
    <2>2. Placed => Placed'
        BY <1>1, <1>5 DEF Placed
    <2> QED BY <1>1, <1>5, <2>1, <2>2 DEF Tidy, Finalising
<1>8. ListState'
    BY <1>6, <1>7 DEF ListInv, ListState
<1>9. Agreed => Agreed'
    <2>1. \A v \in Workers : job[v] # NULL /\ worker[v] = "add" => worker'[v] \in {"add", "link"}
        BY <1>1, <1>5
    <2> QED BY <1>1, <1>5, <2>1 DEF Agreed
<1> QED BY <1>4, <1>7, <1>8, <1>9 DEF WorkersKeep, ListInv

LEMMA AcceptStep ==
    ASSUME ListInv, StopInv, NEW w \in Workers, NEW s \in Sessions, Accept(w, s)
    PROVE  WorkersKeep'
<1>1. /\ worker[w] = "loop" /\ worker' = [worker EXCEPT ![w] = "add"] /\ life[s] = "none"
      /\ life' = [life EXCEPT ![s] = "live"] /\ owner' = [owner EXCEPT ![s] = w]
      /\ job' = [job EXCEPT ![w] = s]
      /\ UNCHANGED <<main, failed, killed, fault, at, armed, pending, joins, exitreq, lock, cursor, list>>
    BY DEF Accept, Goto, mainVars
<1>2. w \in Threads /\ s # NULL
    BY NodeAssumption DEF Workers, Threads, Sessions
<1>3. TypeOK'
    BY <1>1, <1>2 DEF ListInv, TypeOK, WorkerState
<1>4. /\ worker'[w] = "add" /\ job'[w] = s /\ life'[s] = "live" /\ job[w] = NULL
      /\ \A v \in Workers \ {w} : worker'[v] = worker[v] /\ job'[v] = job[v]
      /\ \A r \in Sessions \ {s} : life'[r] = life[r] /\ owner'[r] = owner[r]
      /\ owner'[s] = w
    BY <1>1 DEF ListInv, ListState, JobInv, TypeOK, Busy, Critical
<1>5. s \notin Members(list)
    BY <1>1 DEF ListInv, ListState, Accepted
<1>6. JobInv'
    <2>1. Goes(w, "add", s)
        BY <1>1, <1>2 DEF Goes, WorkerState, Busy
    <2> QED BY <1>1, <1>4, <2>1, JobStep DEF ListInv, ListState
<1>7. Accepted'
    BY <1>1, <1>4 DEF ListInv, ListState, Accepted, TypeOK
<1>8. \A v \in Workers \ {w} : job[v] # s
    BY <1>1, <1>2 DEF ListInv, ListState, JobInv
<1>9. /\ Tidy => Tidy'
      /\ Finalising' = Finalising
    <2>1. Shaped => Shaped'
        BY <1>1, <1>4 DEF Shaped
    <2>2. Placed => Placed'
        BY <1>1, <1>4, <1>5 DEF Placed
    <2> QED BY <1>1, <1>4, <2>1, <2>2 DEF Tidy, Finalising
<1>10. ListState'
    BY <1>6, <1>7, <1>9 DEF ListInv, ListState
<1>11. Agreed => Agreed'
    <2>1. Agreed => \A v \in Workers :
             /\ worker'[v] \in {"remove", "search", "unlink"} => job'[v] \in Members(list)
             /\ worker'[v] = "search" => job'[v] \in From(list.link, cursor[v])
             /\ worker'[v] \in {"fix_back", "free"} => job'[v] \notin Members(list)
             /\ job'[v] # NULL => life'[job'[v]] = "live"
        BY <1>1, <1>4, <1>8 DEF Agreed, ListInv, TypeOK
    <2>2. Agreed => \A r \in Members(list) : life'[r] = "live"
        BY <1>1, <1>4, <1>5 DEF Agreed, ListInv, TypeOK
    <2>3. Agreed => \A r \in Sessions : life'[r] = "live" =>
             \/ r \in Members(list)
             \/ \E v \in Workers : job'[v] = r /\ worker'[v] \in {"add", "link", "fix_back", "free"}
        BY <1>1, <1>4 DEF Agreed
    <2> QED BY <1>1, <2>1, <2>2, <2>3 DEF Agreed
<1> QED BY <1>3, <1>9, <1>10, <1>11 DEF WorkersKeep, ListInv

LEMMA RemoveStep ==
    ASSUME ListInv, StopInv, NEW w \in Workers, NEW s \in Sessions, Remove(w, s)
    PROVE  WorkersKeep'
<1>1. /\ worker[w] = "loop" /\ worker' = [worker EXCEPT ![w] = "remove"]
      /\ life[s] = "live" /\ owner[s] = w /\ job' = [job EXCEPT ![w] = s]
      /\ UNCHANGED <<main, failed, killed, fault, at, armed, pending, joins, exitreq, lock, cursor,
                     list, life, owner>>
    BY DEF Remove, Goto, mainVars, sessVars
<1>2. s # NULL
    BY NodeAssumption DEF Sessions
<1>3. TypeOK'
    BY <1>1 DEF ListInv, TypeOK, WorkerState
<1>4. /\ worker'[w] = "remove" /\ job'[w] = s /\ job[w] = NULL
      /\ \A v \in Workers \ {w} : worker'[v] = worker[v] /\ job'[v] = job[v]
    BY <1>1 DEF ListInv, ListState, JobInv, TypeOK, Busy, Critical
<1>5. JobInv'
    <2>1. Goes(w, "remove", s)
        BY <1>1, <1>2 DEF Goes, WorkerState, Busy
    <2> QED BY <1>1, <1>4, <2>1, JobStep DEF ListInv, ListState
<1>6. /\ (Tidy => Tidy') /\ Accepted'
      /\ Finalising' = Finalising
    <2>1. Shaped => Shaped'
        BY <1>1, <1>4 DEF Shaped
    <2>2. Placed => Placed'
        BY <1>1, <1>4 DEF Placed
    <2> QED BY <1>1, <1>4, <2>1, <2>2
            DEF Tidy, Finalising, Accepted, ListInv, ListState
<1>7. ListState'
    BY <1>5, <1>6 DEF ListInv, ListState
<1>8. Agreed => Agreed'
    <2>1. Agreed => s \in Members(list)
        BY <1>1, <1>2 DEF Agreed, ListInv, ListState, JobInv
    <2> QED BY <1>1, <1>4, <2>1 DEF Agreed
<1> QED BY <1>3, <1>6, <1>7, <1>8 DEF WorkersKeep, ListInv

(* Nobody but w has begun to change the list.                                *)
LEMMA InOrder ==
    ASSUME StopInv, Shaped, NEW w \in Workers, worker[w] \in Critical \ {"move_tail", "fix_back"}
    PROVE  Good(list)
<1>1. \A v \in Workers : worker[v] \notin {"move_tail", "fix_back"}
    BY Alone DEF Critical
<1> QED BY <1>1 DEF Shaped

LEMMA StaysOpen ==
    ASSUME ListInv, ~Finalising
    PROVE  Tidy /\ Agreed
BY DEF ListInv, ListState, Finalising

LEMMA PushLinksStep ==
    ASSUME ListInv, StopInv, NEW w \in Workers, PushLinks(w)
    PROVE  WorkersKeep' /\ (Tidy => Members(list') = Members(list) \cup {job[w]})
<1> DEFINE j == job[w]
<1>1. /\ worker[w] = "link" /\ worker' = [worker EXCEPT ![w] = "move_tail"]
      /\ list' = LinkLast(list, job[w])
      /\ UNCHANGED <<main, failed, killed, fault, at, armed, pending, joins, exitreq, lock, cursor, job,
                     life, owner>>
    BY DEF PushLinks, Goto, mainVars
<1>2. /\ job[w] \in Node /\ job[w] # NULL /\ worker[w] \in Critical
      /\ \A v \in Workers \ {w} : job[v] # job[w]
    BY <1>1 DEF ListInv, ListState, JobInv, TypeOK, Busy, Critical, Sessions
<1>3. /\ worker'[w] = "move_tail" /\ \A v \in Workers \ {w} : worker'[v] = worker[v]
      /\ \A v \in Workers \ {w} : worker[v] \notin Critical
    BY <1>1, <1>2, Alone DEF ListInv, TypeOK
<1>4. TypeOK'
    <2>1. list' \in ListRecord
        BY <1>1, <1>2, StepTypes DEF ListInv, TypeOK
    <2>2. worker' \in [Workers -> WorkerState]
        BY <1>1 DEF ListInv, TypeOK, WorkerState, Critical
    <2> QED BY <1>1, <2>1, <2>2 DEF ListInv, TypeOK
<1>5. JobInv'
    BY <1>1, <1>3 DEF ListInv, ListState, JobInv, Busy, Critical
<1>6. ASSUME Good(list), job[w] \notin Members(list),
             \A v \in Workers : worker[v] = "add" => job[v] \notin Members(list)
      PROVE  Tidy' /\ Members(list') = Members(list) \cup {job[w]}
    <2>1. /\ Members(list') = Members(list) \cup {job[w]}
          /\ Good(MoveTail(list', job[w]))
        BY <1>1, <1>2, <1>6, Pushing
    <2>2. Shaped'
        BY <1>1, <1>3, <2>1 DEF Shaped, Critical
    <2>3. Placed'
        BY <1>1, <1>2, <1>3, <1>6, <2>1 DEF Placed, Critical
    <2> QED BY <2>1, <2>2, <2>3 DEF Tidy
<1>7. Tidy => Tidy' /\ Members(list') = Members(list) \cup {job[w]}
    <2>1. Tidy => /\ Good(list) /\ job[w] \notin Members(list)
                  /\ \A v \in Workers : worker[v] = "add" => job[v] \notin Members(list)
        BY <1>1, <1>2, InOrder DEF Tidy, Placed
    <2> QED BY <1>6, <2>1
<1>10. Accepted'
    <2>1. Members(list') \subseteq Members(list) \cup {job[w]}
        BY <1>7 DEF ListInv, ListState
    <2> QED BY <1>1, <1>2, <2>1 DEF ListInv, ListState, JobInv, Accepted
<1>11. ListState'
    BY <1>5, <1>7, <1>10 DEF ListInv, ListState
<1>12. ~Finalising' => Agreed'
    <2> SUFFICES ASSUME ~Finalising PROVE Agreed'
        BY <1>1 DEF Finalising
    <2>1. Agreed /\ Members(list') = Members(list) \cup {job[w]}
        BY <1>7, StaysOpen
    <2>2. \A v \in Workers :
             /\ worker'[v] \in {"remove", "search", "unlink"} => job[v] \in Members(list')
             /\ worker'[v] \notin {"search", "fix_back", "free"}
             /\ job[v] # NULL => life[job[v]] = "live"
        BY <1>3, <2>1 DEF Agreed, Critical
    <2>3. \A s \in Members(list') : life[s] = "live"
        BY <1>2, <2>1 DEF Agreed
    <2>4. \A s \in Sessions : life[s] = "live" =>
             \/ s \in Members(list')
             \/ \E v \in Workers : job[v] = s /\ worker'[v] \in {"add", "link", "fix_back", "free"}
        BY <1>3, <2>1 DEF Agreed
    <2> QED BY <1>1, <2>2, <2>3, <2>4 DEF Agreed
<1> QED BY <1>4, <1>7, <1>11, <1>12 DEF WorkersKeep

LEMMA PushMovesTailStep ==
    ASSUME ListInv, StopInv, NEW w \in Workers, PushMovesTail(w)
    PROVE  WorkersKeep' /\ Members(list') = Members(list)
<1>1. /\ worker[w] = "move_tail" /\ worker' = [worker EXCEPT ![w] = "loop"]
      /\ list' = MoveTail(list, job[w]) /\ lock' = Nobody /\ job' = [job EXCEPT ![w] = NULL]
      /\ UNCHANGED <<main, failed, killed, fault, at, armed, pending, joins, exitreq, cursor, life, owner>>
    BY DEF PushMovesTail, Goto, mainVars, mutex_unlock
<1>2. job[w] \in Node /\ worker[w] \in Critical
    BY <1>1 DEF ListInv, ListState, JobInv, TypeOK, Busy, Critical, Sessions
<1>3. /\ worker'[w] = "loop" /\ job'[w] = NULL
      /\ \A v \in Workers \ {w} : worker'[v] = worker[v] /\ job'[v] = job[v]
      /\ \A v \in Workers \ {w} : worker[v] \notin Critical
    BY <1>1, <1>2, Alone DEF ListInv, TypeOK
<1>4. list' \in ListRecord /\ list'.link = list.link /\ Members(list') = Members(list)
    BY <1>1, <1>2, StepTypes DEF ListInv, TypeOK
<1>5. TypeOK'
    BY <1>1, <1>4 DEF ListInv, TypeOK, WorkerState
<1>6. JobInv'
    <2>1. Goes(w, "loop", NULL)
        BY <1>1 DEF Goes, WorkerState, Busy, Critical
    <2> QED BY <1>1, <2>1, JobStep DEF ListInv, ListState
<1>7. Accepted'
    BY <1>1, <1>4 DEF ListInv, ListState, Accepted
<1>8. Tidy => Tidy'
    <2>1. Tidy => Shaped'
        BY <1>1, <1>3 DEF Tidy, Shaped, Critical
    <2>2. Tidy => Placed'
        BY <1>1, <1>3, <1>4 DEF Tidy, Placed, Critical
    <2> QED BY <2>1, <2>2 DEF Tidy
<1>11. ListState'
    BY <1>6, <1>7, <1>8 DEF ListInv, ListState
<1>12. ~Finalising' => Agreed'
    <2> SUFFICES ASSUME ~Finalising PROVE Agreed'
        BY <1>1 DEF Finalising
    <2>1. Agreed
        BY StaysOpen
    <2> QED BY <1>1, <1>3, <1>4, <2>1 DEF Agreed, Critical
<1> QED BY <1>4, <1>5, <1>11, <1>12 DEF WorkersKeep

LEMMA RemoveLocksStep ==
    ASSUME ListInv, StopInv, NEW w \in Workers, RemoveLocks(w)
    PROVE  WorkersKeep'
<1>1. /\ worker[w] = "remove" /\ worker' = [worker EXCEPT ![w] = "search"]
      /\ lock = Nobody /\ lock' = w /\ cursor' = [cursor EXCEPT ![w] = list.link[HEAD]]
      /\ UNCHANGED <<main, failed, killed, fault, at, armed, pending, joins, exitreq, job, list, life, owner>>
    BY DEF RemoveLocks, Goto, mainVars, sessVars, mutex_lock
<1>2. \A v \in Workers : worker[v] \notin Critical
    BY <1>1, NobodyInside
<1>3. w \in Threads /\ list.link[HEAD] \in Sessions \cup {NULL}
    BY DEF ListInv, TypeOK, ListRecord, Location, Workers, Threads, Sessions
<1>4. /\ worker'[w] = "search" /\ cursor'[w] = list.link[HEAD]
      /\ \A v \in Workers \ {w} : worker'[v] = worker[v] /\ cursor'[v] = cursor[v]
    BY <1>1, <1>3 DEF ListInv, TypeOK, Workers, Threads
<1>5. TypeOK'
    BY <1>1, <1>3 DEF ListInv, TypeOK, WorkerState, Critical
<1>6. JobInv' /\ Accepted'
    BY <1>1, <1>4 DEF ListInv, ListState, JobInv, Accepted, Busy, Critical
<1>7. Tidy => Good(list)
    BY <1>2 DEF Tidy, Shaped, Critical
<1>8. Tidy => Tidy'
    <2>1. Tidy => Shaped'
        BY <1>1, <1>2, <1>4 DEF Tidy, Shaped, Critical
    <2>2. Tidy => Placed'
        BY <1>1, <1>2, <1>4, <1>7, Ahead DEF Tidy, Placed, Critical
    <2> QED BY <2>1, <2>2 DEF Tidy
<1>10. ListState'
    BY <1>6, <1>8 DEF ListInv, ListState
<1>11. ~Finalising' => Agreed'
    <2> SUFFICES ASSUME ~Finalising PROVE Agreed'
        BY <1>1 DEF Finalising
    <2>1. Agreed /\ job[w] \in Members(list) /\ job[w] \in From(list.link, list.link[HEAD])
        BY <1>1, <1>7, StaysOpen, Ahead DEF Agreed
    <2> QED BY <1>1, <1>2, <1>4, <2>1 DEF Agreed, Critical
<1> QED BY <1>5, <1>10, <1>11 DEF WorkersKeep

LEMMA SearchStep ==
    ASSUME ListInv, StopInv, NEW w \in Workers, Search(w)
    PROVE  WorkersKeep' /\ (~Finalising => life' = life)
<1>1. /\ worker[w] = "search" /\ worker[w] \in Critical
      /\ UNCHANGED <<main, failed, killed, fault, at, armed, pending, joins, exitreq, list, owner>>
    BY DEF Search, mainVars, Critical
<1>2. /\ job[w] \in Sessions /\ job[w] # NULL /\ life[job[w]] # "none" /\ owner[job[w]] = w
      /\ \A v \in Workers \ {w} : job[v] # job[w]
    BY <1>1 DEF ListInv, ListState, JobInv, TypeOK, Busy
<1>3. \A v \in Workers \ {w} : worker[v] \notin Critical
    BY <1>1, Alone
<1>4. w \in Threads /\ cursor[w] \in Sessions \cup {NULL}
    BY DEF ListInv, TypeOK, Workers, Threads
<1>5. Tidy => Good(list) /\ cursor[w] \in Members(list) \cup {NULL}
    BY <1>1, InOrder DEF Tidy, Placed
<1>6. CASE cursor[w] = NULL
    <2>1. /\ worker' = [worker EXCEPT ![w] = "loop"] /\ lock' = Nobody
          /\ job' = [job EXCEPT ![w] = NULL] /\ cursor' = cursor
          /\ life' = [life EXCEPT ![job[w]] = IF @ = "live" THEN "freed" ELSE "freed_twice"]
        BY <1>6 DEF Search, session_free, mutex_unlock, Goto
    <2>2. /\ worker'[w] = "loop" /\ job'[w] = NULL
          /\ \A v \in Workers \ {w} : worker'[v] = worker[v] /\ job'[v] = job[v]
          /\ \A s \in Sessions : life[s] # "none" => life'[s] # "none"
        BY <2>1 DEF ListInv, TypeOK
    <2>3. TypeOK'
        BY <1>1, <1>2, <2>1 DEF ListInv, TypeOK, WorkerState
    <2>4. JobInv'
        <3>1. Goes(w, "loop", NULL)
            BY <1>1, <2>1 DEF Goes, WorkerState, Busy, Critical
        <3> QED BY <1>1, <2>2, <3>1, JobStep DEF ListInv, ListState
    <2>5. Accepted'
        BY <1>1, <2>2, MembersAreSessions DEF ListInv, ListState, Accepted, TypeOK
    <2>6. Tidy => Tidy'
        <3>1. Tidy => Shaped'
            BY <1>1, <1>3, <1>5, <2>2 DEF Tidy, Shaped, Critical
        <3>2. Tidy => Placed'
            BY <1>1, <1>3, <2>1, <2>2 DEF Tidy, Placed, Critical
        <3> QED BY <1>1, <2>1, <2>2, <3>1, <3>2 DEF Tidy
    <2>7. ListState'
        BY <2>4, <2>5, <2>6 DEF ListInv, ListState
    <2>8. Finalising'
        <3>1. ~Finalising => job[w] \in From(list.link, NULL) /\ Good(list)
            BY <1>1, <1>5, <1>6, StaysOpen DEF Agreed
        <3>2. Finalising
            BY <3>1, Ahead
        <3> QED BY <1>1, <3>2 DEF Finalising
    <2> QED BY <1>1, <2>3, <2>7, <2>8 DEF WorkersKeep, Finalising
<1>7. CASE cursor[w] # NULL /\ cursor[w] = job[w]
    <2>1. /\ worker' = [worker EXCEPT ![w] = "unlink"]
          /\ UNCHANGED <<job, lock, life, cursor>>
        BY <1>7 DEF Search, Goto
    <2>2. /\ worker'[w] = "unlink" /\ \A v \in Workers \ {w} : worker'[v] = worker[v]
        BY <2>1 DEF ListInv, TypeOK
    <2>3. TypeOK'
        BY <1>1, <2>1 DEF ListInv, TypeOK, WorkerState, Critical
    <2>4. JobInv' /\ Accepted'
        BY <1>1, <2>1, <2>2 DEF ListInv, ListState, JobInv, Accepted, Busy, Critical
    <2>5. Tidy => Tidy'
        <3>1. Tidy => Shaped'
            BY <1>1, <1>3, <1>5, <2>2 DEF Tidy, Shaped, Critical
        <3>2. Tidy => Placed'
            BY <1>1, <1>3, <1>5, <1>7, <2>1, <2>2 DEF Tidy, Placed, Critical
        <3> QED BY <1>1, <3>1, <3>2 DEF Tidy
    <2>6. ListState'
        BY <2>4, <2>5 DEF ListInv, ListState
    <2>7. ~Finalising' => Agreed'
        <3>1. ~Finalising => Agreed
            BY StaysOpen
        <3> QED BY <1>1, <1>3, <2>1, <2>2, <3>1 DEF Agreed, Critical, Finalising
    <2> QED BY <2>1, <2>3, <2>6, <2>7 DEF WorkersKeep
<1>8. CASE cursor[w] # NULL /\ cursor[w] # job[w]
    <2>1. /\ cursor' = [cursor EXCEPT ![w] = list.link[cursor[w]]]
          /\ UNCHANGED <<worker, job, lock, life>>
        BY <1>8 DEF Search
    <2>2. /\ list.link[cursor[w]] \in Sessions \cup {NULL} /\ cursor'[w] = list.link[cursor[w]]
          /\ \A v \in Workers \ {w} : cursor'[v] = cursor[v]
        BY <1>4, <1>8, <2>1 DEF ListInv, TypeOK, ListRecord, Location, Sessions, Workers, Threads
    <2>3. TypeOK'
        BY <1>1, <2>1, <2>2 DEF ListInv, TypeOK
    <2>4. JobInv' /\ Accepted'
        BY <1>1, <2>1 DEF ListInv, ListState, JobInv, Accepted
    <2>5. Tidy => Tidy'
        <3>1. Tidy => Shaped'
            BY <1>1, <2>1 DEF Tidy, Shaped
        <3>2. Tidy => cursor'[w] \in Members(list) \cup {NULL}
            BY <1>5, <1>8, <2>2, Ahead
        <3>3. Tidy => Placed'
            BY <1>1, <2>1, <2>2, <3>2 DEF Tidy, Placed
        <3> QED BY <1>1, <3>1, <3>3 DEF Tidy
    <2>6. ListState'
        BY <2>4, <2>5 DEF ListInv, ListState
    <2>7. ~Finalising' => Agreed'
        <3> SUFFICES ASSUME ~Finalising PROVE Agreed'
            BY <1>1 DEF Finalising
        <3>1. Agreed /\ Good(list) /\ cursor[w] \in Members(list)
            BY <1>5, <1>8, StaysOpen
        <3>2. job[w] \in From(list.link, list.link[cursor[w]])
            BY <1>1, <1>8, <3>1, Ahead DEF Agreed
        <3> QED BY <1>1, <1>3, <2>1, <2>2, <3>1, <3>2 DEF Agreed, Critical
    <2> QED BY <2>1, <2>3, <2>6, <2>7 DEF WorkersKeep
<1> QED BY <1>6, <1>7, <1>8

LEMMA RemoveUnlinksStep ==
    ASSUME ListInv, StopInv, NEW w \in Workers, RemoveUnlinks(w)
    PROVE  WorkersKeep' /\ (Tidy => Members(list') = Members(list) \ {job[w]})
<1>1. /\ worker[w] = "unlink" /\ worker' = [worker EXCEPT ![w] = "fix_back"]
      /\ list' = Unlink(list, job[w])
      /\ UNCHANGED <<main, failed, killed, fault, at, armed, pending, joins, exitreq, lock, cursor, job,
                     life, owner>>
    BY DEF RemoveUnlinks, Goto, mainVars
<1>2. /\ job[w] \in Node /\ job[w] # NULL /\ worker[w] \in Critical
      /\ \A v \in Workers \ {w} : job[v] # job[w]
    BY <1>1 DEF ListInv, ListState, JobInv, TypeOK, Busy, Critical, Sessions
<1>3. /\ worker'[w] = "fix_back" /\ \A v \in Workers \ {w} : worker'[v] = worker[v]
      /\ \A v \in Workers \ {w} : worker[v] \notin Critical
    BY <1>1, <1>2, Alone DEF ListInv, TypeOK
<1>4. TypeOK'
    <2>1. list' \in ListRecord
        BY <1>1, <1>2, StepTypes DEF ListInv, TypeOK
    <2>2. worker' \in [Workers -> WorkerState]
        BY <1>1 DEF ListInv, TypeOK, WorkerState, Critical
    <2> QED BY <1>1, <2>1, <2>2 DEF ListInv, TypeOK
<1>5. JobInv'
    BY <1>1, <1>3 DEF ListInv, ListState, JobInv, Busy, Critical
<1>6. Tidy => /\ Members(list') = Members(list) \ {job[w]}
              /\ Good(FixBack(list', job[w]))
              /\ Members(FixBack(list', job[w])) = Members(list')
    <2>1. Tidy => Good(list) /\ job[w] \in Members(list)
        BY <1>1, <1>2, InOrder DEF Tidy, Placed
    <2>2. Tidy => /\ Members(Unlink(list, job[w])) = Members(list) \ {job[w]}
                  /\ Good(FixBack(Unlink(list, job[w]), job[w]))
                  /\ Members(FixBack(Unlink(list, job[w]), job[w])) = Members(list) \ {job[w]}
        BY <2>1, Unlinking
    <2> QED BY <1>1, <2>2
<1>7. Tidy => Tidy'
    <2>1. Tidy => Shaped'
        BY <1>1, <1>3, <1>6 DEF Shaped, Critical
    <2>2. Tidy => Placed'
        BY <1>1, <1>3, <1>6 DEF Tidy, Placed, Critical
    <2> QED BY <2>1, <2>2 DEF Tidy
<1>10. Accepted'
    <2>1. Members(list') \subseteq Members(list)
        BY <1>6 DEF ListInv, ListState
    <2> QED BY <1>1, <2>1 DEF ListInv, ListState, Accepted
<1>11. ListState'
    BY <1>5, <1>7, <1>10 DEF ListInv, ListState
<1>12. ~Finalising' => Agreed'
    <2> SUFFICES ASSUME ~Finalising PROVE Agreed'
        BY <1>1 DEF Finalising
    <2>1. Agreed /\ Members(list') = Members(list) \ {job[w]}
        BY <1>6, StaysOpen
    <2>2. \A v \in Workers :
             /\ worker'[v] \in {"remove", "search", "unlink"} => job[v] \in Members(list')
             /\ worker'[v] # "search"
             /\ worker'[v] \in {"fix_back", "free"} => job[v] \notin Members(list')
             /\ job[v] # NULL => life[job[v]] = "live"
        BY <1>2, <1>3, <2>1 DEF Agreed, Critical
    <2>3. \A s \in Members(list') : life[s] = "live"
        BY <2>1 DEF Agreed
    <2>4. \A s \in Sessions : life[s] = "live" =>
             \/ s \in Members(list')
             \/ \E v \in Workers : job[v] = s /\ worker'[v] \in {"add", "link", "fix_back", "free"}
        BY <1>3, <2>1 DEF Agreed, Critical
    <2> QED BY <1>1, <2>2, <2>3, <2>4 DEF Agreed
<1> QED BY <1>4, <1>6, <1>11, <1>12 DEF WorkersKeep

LEMMA RemoveFixesBackStep ==
    ASSUME ListInv, StopInv, NEW w \in Workers, RemoveFixesBack(w)
    PROVE  WorkersKeep' /\ (Tidy => Members(list') = Members(list))
<1>1. /\ worker[w] = "fix_back" /\ worker' = [worker EXCEPT ![w] = "free"]
      /\ list' = FixBack(list, job[w])
      /\ UNCHANGED <<main, failed, killed, fault, at, armed, pending, joins, exitreq, lock, cursor, job,
                     life, owner>>
    BY DEF RemoveFixesBack, Goto, mainVars
<1>2. job[w] \in Node /\ worker[w] \in Critical
    BY <1>1 DEF ListInv, ListState, JobInv, TypeOK, Busy, Critical, Sessions
<1>3. /\ worker'[w] = "free" /\ \A v \in Workers \ {w} : worker'[v] = worker[v]
      /\ \A v \in Workers \ {w} : worker[v] \notin Critical
    BY <1>1, <1>2, Alone DEF ListInv, TypeOK
<1>4. Tidy => Good(list') /\ Members(list') = Members(list)
    BY <1>1, <1>2 DEF Tidy, Shaped
<1>5. TypeOK'
    <2>1. list' \in ListRecord
        BY <1>4 DEF ListInv, ListState, TypeOK, Good
    <2>2. worker' \in [Workers -> WorkerState]
        BY <1>1 DEF ListInv, TypeOK, WorkerState, Critical
    <2> QED BY <1>1, <2>1, <2>2 DEF ListInv, TypeOK
<1>6. JobInv'
    BY <1>1, <1>3 DEF ListInv, ListState, JobInv, Busy, Critical
<1>7. Accepted' /\ (Tidy => Tidy')
    <2>1. Tidy => Shaped'
        BY <1>1, <1>3, <1>4 DEF Shaped, Critical
    <2>2. Tidy => Placed'
        BY <1>1, <1>3, <1>4 DEF Tidy, Placed, Critical
    <2>3. Members(list') = Members(list)
        BY <1>4 DEF ListInv, ListState
    <2> QED BY <1>1, <1>4, <2>1, <2>2, <2>3 DEF Tidy, Accepted, ListInv, ListState
<1>8. ListState'
    BY <1>6, <1>7 DEF ListInv, ListState
<1>9. ~Finalising' => Agreed'
    <2> SUFFICES ASSUME ~Finalising PROVE Agreed'
        BY <1>1 DEF Finalising
    <2>1. Agreed /\ Members(list') = Members(list)
        BY <1>4, StaysOpen
    <2> QED BY <1>1, <1>3, <2>1 DEF Agreed, Critical
<1> QED BY <1>4, <1>5, <1>8, <1>9 DEF WorkersKeep

LEMMA RemoveFreesStep ==
    ASSUME ListInv, StopInv, NEW w \in Workers, RemoveFrees(w)
    PROVE  WorkersKeep'
<1>1. /\ worker[w] = "free" /\ worker' = [worker EXCEPT ![w] = "loop"]
      /\ life' = [life EXCEPT ![job[w]] = IF @ = "live" THEN "freed" ELSE "freed_twice"]
      /\ lock' = Nobody /\ job' = [job EXCEPT ![w] = NULL] /\ cursor' = [cursor EXCEPT ![w] = NULL]
      /\ UNCHANGED <<main, failed, killed, fault, at, armed, pending, joins, exitreq, list, owner>>
    BY DEF RemoveFrees, session_free, mutex_unlock, Goto, mainVars
<1>2. /\ job[w] \in Sessions /\ job[w] # NULL /\ worker[w] \in Critical
      /\ \A v \in Workers \ {w} : job[v] # job[w]
    BY <1>1 DEF ListInv, ListState, JobInv, TypeOK, Busy, Critical
<1>3. /\ worker'[w] = "loop" /\ job'[w] = NULL
      /\ \A v \in Workers \ {w} : /\ worker'[v] = worker[v] /\ job'[v] = job[v]
                                  /\ cursor'[v] = cursor[v]
      /\ \A v \in Workers \ {w} : worker[v] \notin Critical
      /\ \A s \in Sessions : life[s] # "none" => life'[s] # "none"
      /\ \A s \in Sessions \ {job[w]} : life'[s] = life[s]
      /\ life'[job[w]] # "live"
    BY <1>1, <1>2, Alone DEF ListInv, TypeOK, Workers, Threads
<1>4. TypeOK'
    BY <1>1, <1>2 DEF ListInv, TypeOK, WorkerState
<1>5. Members(list) \in SUBSET Sessions
    BY MembersAreSessions DEF ListInv, TypeOK
<1>6. JobInv'
    <2>1. Goes(w, "loop", NULL)
        BY <1>1 DEF Goes, WorkerState, Busy, Critical, ListInv, TypeOK, Workers, Threads
    <2> QED BY <1>1, <1>3, <2>1, JobStep DEF ListInv, ListState
<1>7. Accepted'
    BY <1>1, <1>3, <1>5 DEF ListInv, ListState, Accepted
<1>8. Tidy => Tidy'
    <2>1. Tidy => Shaped'
        BY <1>1, <1>3 DEF Tidy, Shaped, Critical
    <2>2. Tidy => Placed'
        BY <1>1, <1>3 DEF Tidy, Placed, Critical
    <2> QED BY <1>1, <1>3, <2>1, <2>2 DEF Tidy
<1>9. ListState'
    BY <1>6, <1>7, <1>8 DEF ListInv, ListState
<1>10. ~Finalising' => Agreed'
    <2> SUFFICES ASSUME ~Finalising PROVE Agreed'
        BY <1>1 DEF Finalising
    <2>1. Agreed /\ job[w] \notin Members(list)
        BY <1>1, StaysOpen DEF Agreed
    <2>2. \A v \in Workers :
             /\ worker'[v] \in {"remove", "search", "unlink"} => job'[v] \in Members(list)
             /\ worker'[v] \notin {"search", "fix_back", "free"}
             /\ job'[v] # NULL => life'[job'[v]] = "live"
        BY <1>2, <1>3, <2>1 DEF Agreed, Critical, ListInv, TypeOK
    <2>3. \A s \in Members(list) : life'[s] = "live"
        BY <1>3, <1>5, <2>1 DEF Agreed
    <2>4. \A s \in Sessions : life'[s] = "live" =>
             \/ s \in Members(list)
             \/ \E v \in Workers : job'[v] = s /\ worker'[v] \in {"add", "link", "fix_back", "free"}
        BY <1>3, <2>1 DEF Agreed
    <2> QED BY <1>1, <2>2, <2>3, <2>4 DEF Agreed
<1> QED BY <1>4, <1>9, <1>10 DEF WorkersKeep

(* Of the freed list only the fault is new.                                  *)
LEMMA UsesFreedListStep ==
    ASSUME ListInv, StopInv, NEW w \in Workers, UsesFreedList(w)
    PROVE  WorkersKeep'
<1>1. /\ fault' = TRUE
      /\ UNCHANGED <<main, failed, killed, at, armed, pending, exitreq, joins, worker, job, lock,
                     cursor, list, life, owner>>
    BY DEF UsesFreedList, workVars, sessVars
<1>2. TypeOK'
    BY <1>1 DEF ListInv, TypeOK
<1>3. JobInv' /\ Accepted' /\ Tidy'
    BY <1>1 DEF ListInv, ListState, JobInv, Accepted, Tidy, Shaped, Placed
<1>4. ~Finalising' => Agreed'
    BY <1>1 DEF ListInv, Finalising, Agreed
<1> QED BY <1>2, <1>3, <1>4 DEF WorkersKeep, ListState

(* A worker that runs beside no finalisation frees its session once.         *)
LEMMA WorkerHarmless ==
    ASSUME ListInv, StopInv, NEW w \in Workers, WorkerStep(w), ~Finalising
    PROVE  Unharmed'
<1>1. Unharmed /\ Agreed /\ TypeOK /\ JobInv
    BY DEF ListInv, ListState
<1>2. CASE RemoveFrees(w)
    <2>1. /\ worker[w] = "free" /\ failed' = failed /\ fault' = fault
          /\ life' = [life EXCEPT ![job[w]] = IF @ = "live" THEN "freed" ELSE "freed_twice"]
        BY <1>2 DEF RemoveFrees, session_free, mainVars
    <2>2. job[w] \in Sessions /\ life[job[w]] = "live"
        BY <1>1, <2>1 DEF JobInv, Agreed, TypeOK, Busy, Critical
    <2> QED BY <1>1, <2>1, <2>2 DEF Unharmed, TypeOK
<1>3. CASE \E s \in Sessions : Accept(w, s)
    BY <1>1, <1>3 DEF Accept, Unharmed, mainVars, TypeOK
<1>4. CASE ~RemoveFrees(w) /\ ~(\E s \in Sessions : Accept(w, s))
    <2>1. ~UsesFreedList(w)
        BY DEF UsesFreedList, ListFreed, Finalising
    <2>2. Search(w) => life' = life
        BY SearchStep
    <2>3. failed' = failed /\ fault' = fault /\ life' = life
        BY <1>4, <2>1, <2>2 DEF WorkerStep, ThreadStep, CallbackStep, Listen, ListenFails,
           worker_failure, LeaveDispatch, AddLocks, PushLinks, PushMovesTail, Remove, RemoveLocks,
           Search, RemoveUnlinks, RemoveFixesBack, mainVars, sessVars
    <2> QED BY <1>1, <2>3 DEF Unharmed
<1> QED BY <1>2, <1>3, <1>4

LEMMA ListWorker ==
    ASSUME ListInv, StopInv, NEW w \in Workers, WorkerStep(w)
    PROVE  ListInv'
<1>1. WorkersKeep'
    BY UsesFreedListStep, QuietSteps, AcceptStep, RemoveStep, PushLinksStep, PushMovesTailStep, RemoveLocksStep,
       SearchStep, RemoveUnlinksStep, RemoveFixesBackStep, RemoveFreesStep
    DEF WorkerStep, ThreadStep, CallbackStep
<1>2. PICK l \in WorkerState : Moves(w, l)
    BY WorkerMoves DEF StopInv, ThreadInv
<1>3. Finalising => failed
    BY <1>2 DEF Moves, StopInv, ArmedInv, QuietInv, AllExited, Signals
<1>4. Finalising' => failed'
    BY <1>2, <1>3 DEF Moves, Finalising
<1>5. Unharmed'
    <2>1. Finalising => Finalising'
        BY <1>2 DEF Moves, Finalising
    <2> QED BY <1>4, <2>1, WorkerHarmless DEF Unharmed
<1> QED BY <1>1, <1>4, <1>5 DEF WorkersKeep, ListInv

-----------------------------------------------------------------------------
(* What each step of the main thread makes of them.                          *)

LEMMA ListInit ==
    ASSUME Init
    PROVE  ListInv
<1>1. list = list_new /\ Good(list) /\ Members(list) = {}
    BY NewList DEF Init
<1>2. TypeOK
    <2>1. ControlType
        BY ThreadInit DEF ThreadInv
    <2>2. Main \in Threads
        BY ServiceAssumption DEF Main, Threads
    <2>3. list \in ListRecord
        BY <1>1 DEF Good
    <2> QED BY <2>1, <2>2, <2>3 DEF Init, ControlType, TypeOK, Signals
<1>3. ListState
    BY <1>1 DEF Init, ListState, JobInv, Accepted, Tidy, Shaped, Placed, Busy, Critical
<1>4. Agreed /\ Unharmed
    BY <1>1 DEF Init, Agreed, Unharmed
<1> QED BY <1>2, <1>3, <1>4 DEF ListInv, Finalising, Init

(* The types of what ControlType does not name.                              *)
LEMMA TypesAgree ==
    TypeOK <=> /\ ControlType
               /\ killed \in BOOLEAN /\ fault \in BOOLEAN
               /\ pending \subseteq Signals /\ exitreq \subseteq Workers
               /\ job \in [Workers -> Sessions \cup {NULL}]
               /\ cursor \in [Threads -> Sessions \cup {NULL}]
               /\ list \in ListRecord
               /\ life \in [Sessions -> {"none", "live", "freed", "freed_twice"}]
               /\ owner \in [Sessions -> Threads]
BY DEF TypeOK, ControlType

(* The main thread before it finalises, or a signal: the list, the sessions  *)
(* and what the workers do with them stay.                                   *)
LEMMA ListStays ==
    ASSUME ListInv, StopInv, StopInv',
           UNCHANGED <<job, cursor, list, life, owner>>,
           \A w \in Workers : worker'[w] = worker[w] \/ (worker[w] = "new" /\ worker'[w] = "prologue"),
           killed' \in BOOLEAN, fault' \in BOOLEAN, pending' \subseteq Signals,
           exitreq' \subseteq Workers, ~failed' => ~failed /\ fault' = fault,
           \/ ~Finalising /\ ~Finalising'
           \/ main' = main /\ failed' = failed
           \/ main = "freeing" /\ main' = "done" /\ failed' = failed
    PROVE  ListInv'
<1>1. TypeOK'
    BY TypesAgree DEF TypesAgree, ListInv, TypeOK, StopInv, ThreadInv, ControlType
<1>2. JobInv' /\ Accepted'
    BY DEF ListInv, ListState, JobInv, Accepted, Busy, Critical
<1>3. (Tidy => Tidy') /\ (Agreed => Agreed')
    <2>1. Shaped => Shaped'
        BY DEF Shaped
    <2>2. Placed => Placed'
        BY DEF Placed
    <2>3. Agreed => Agreed'
        BY DEF Agreed
    <2> QED BY <2>1, <2>2, <2>3 DEF Tidy
<1>4. ListState'
    BY <1>2, <1>3 DEF ListInv, ListState
<1>5. ~Finalising' => Agreed'
    BY <1>3 DEF ListInv, Finalising
<1>6. Finalising' /\ ~failed' => Freeing'
    BY DEF ListInv, Finalising, Freeing
<1>7. Unharmed'
    BY DEF ListInv, Unharmed
<1> QED BY <1>1, <1>4, <1>5, <1>6, <1>7 DEF ListInv

(* http_service_fini begins.                                                 *)
LEMMA FiniBegins ==
    ASSUME ListInv, StopInv, StopInv', StartFails \/ LeaveLoop
    PROVE  ListInv'
<1>1. /\ ~Finalising /\ main' = "finalising"
      /\ cursor' = [cursor EXCEPT ![Main] = list.link[HEAD]]
      /\ UNCHANGED <<killed, fault, pending, exitreq, worker, job, list, life, owner>>
      /\ failed' = failed \/ failed' = TRUE
      /\ LeaveLoop => armed = {} /\ failed' = failed
      /\ StartFails => failed' = TRUE
    BY DEF StartFails, LeaveLoop, Finalising, workVars, sessVars
<1>2. Main \in Threads /\ Main \notin Workers /\ Workers \subseteq Threads
    BY ServiceAssumption DEF Main, Threads, Workers
<1>3. /\ cursor'[Main] = list.link[HEAD] /\ \A w \in Workers : cursor'[w] = cursor[w]
      /\ list.link[HEAD] \in Sessions \cup {NULL}
    BY <1>1, <1>2 DEF ListInv, TypeOK, ListRecord, Location, Sessions
<1>4. TypeOK'
    BY <1>1, <1>3, TypesAgree DEF ListInv, StopInv, ThreadInv, TypeOK, ControlType
<1>5. Tidy /\ Agreed
    BY <1>1, StaysOpen
<1>6. ListState'
    <2>1. JobInv' /\ Accepted'
        BY <1>1 DEF ListInv, ListState, JobInv, Accepted
    <2>2. Shaped' /\ Placed'
        BY <1>1, <1>3, <1>5 DEF Tidy, Shaped, Placed
    <2> QED BY <2>1, <2>2 DEF ListState, Tidy
<1>7. Finalising' /\ (~failed' => Freeing')
    <2>1. Finalising'
        BY <1>1 DEF Finalising
    <2> SUFFICES ASSUME ~failed' PROVE Freeing'
        BY <2>1
    <2>2. AllExited
        BY <1>1 DEF StopInv, QuietInv, Signals
    <2>3. Good(list)
        BY <1>5, <2>2 DEF Tidy, Shaped, AllExited
    <2>4. Members(list) = From(list.link, list.link[HEAD])
        BY <2>3, Ahead
    <2>5. \A s \in Sessions : life[s] = "live" <=> s \in Members(list)
        BY <1>5, <2>2 DEF Agreed, AllExited
    <2>6. list.link[HEAD] \in Members(list) \cup {NULL}
        BY <2>3, Ahead
    <2> QED BY <1>1, <1>3, <2>4, <2>5, <2>6 DEF Freeing
<1>8. Unharmed'
    BY <1>1 DEF ListInv, Unharmed
<1> QED BY <1>4, <1>6, <1>7, <1>8 DEF ListInv

(* One turn of its loop.  With no failure the loop comes to each session     *)
(* alive, and to each once.                                                  *)
LEMMA FreeListedStep ==
    ASSUME ListInv, StopInv, StopInv', FreeListed
    PROVE  ListInv' /\ (~failed => life[cursor[Main]] = "live")
<1> DEFINE c == cursor[Main]
<1>1. /\ main = "finalising" /\ c # NULL /\ main' = main /\ failed' = failed
      /\ life' = [life EXCEPT ![c] = IF @ = "live" THEN "freed" ELSE "freed_twice"]
      /\ cursor' = [cursor EXCEPT ![Main] = list.link[c]]
      /\ UNCHANGED <<killed, fault, pending, exitreq, worker, job, list, owner>>
    <2>1. NULL \notin Nodes
        BY MembersAreSessions, NodeAssumption DEF Nodes, Sessions, ListInv, TypeOK, ListState, JobInv,
           Busy, Critical
    <2> QED BY <2>1 DEF FreeListed, session_free, mainVars, workVars
<1>2. Main \in Threads /\ Main \notin Workers /\ Workers \subseteq Threads
    BY ServiceAssumption DEF Main, Threads, Workers
<1>3. /\ c \in Sessions /\ list.link[c] \in Sessions \cup {NULL}
      /\ cursor'[Main] = list.link[c] /\ \A w \in Workers : cursor'[w] = cursor[w]
    BY <1>1, <1>2 DEF ListInv, TypeOK, ListRecord, Location, Sessions
<1>4. /\ \A s \in Sessions \ {c} : life'[s] = life[s]
      /\ life'[c] \in {"freed", "freed_twice"}
    BY <1>1, <1>3 DEF ListInv, TypeOK
<1>5. TypeOK'
    BY <1>1, <1>3, TypesAgree DEF ListInv, StopInv, ThreadInv, TypeOK, ControlType
<1>6. Tidy
    BY <1>1 DEF ListInv, ListState
<1>7. ListState'
    <2>1. JobInv'
        BY <1>1, <1>4 DEF ListInv, ListState, JobInv, TypeOK
    <2>2. Accepted'
        BY <1>1, <1>4, MembersAreSessions DEF ListInv, ListState, Accepted, TypeOK
    <2>3. Shaped' /\ Placed'
        BY <1>1, <1>3, <1>6 DEF Tidy, Shaped, Placed
    <2> QED BY <2>1, <2>2, <2>3 DEF ListState, Tidy
<1>8. ASSUME ~failed PROVE Freeing' /\ life[c] = "live"
    <2>1. \A w \in Workers : worker[w] \in {"new", "exited"}
        BY <1>1, <1>8 DEF StopInv, ArmedInv, QuietInv, AllExited, Finalising, Signals
    <2>2. Good(list)
        BY <1>6, <2>1 DEF Tidy, Shaped
    <2>3. c \in Members(list) /\ Freeing
        BY <1>1, <1>8 DEF ListInv, Finalising, Freeing
    <2>4. /\ From(list.link, c) = {c} \cup From(list.link, list.link[c])
          /\ c \notin From(list.link, list.link[c])
          /\ list.link[c] \in Members(list) \cup {NULL}
        BY <2>2, <2>3, Ahead
    <2>5. \A s \in Sessions : life[s] = "live" <=> s \in From(list.link, c)
        BY <1>1, <2>3 DEF Freeing
    <2>6. life[c] = "live"
        BY <1>3, <2>4, <2>5
    <2>7. \A s \in Sessions : life'[s] = "live" <=> s \in From(list.link, list.link[c])
        BY <1>3, <1>4, <2>4, <2>5
    <2>8. Freeing'
        BY <1>1, <1>3, <2>4, <2>7 DEF Freeing
    <2> QED BY <2>6, <2>8
<1>9. Finalising'
    BY <1>1 DEF Finalising
<1>10. Unharmed'
    BY <1>1, <1>3, <1>4, <1>8 DEF ListInv, Unharmed, TypeOK
<1> QED BY <1>1, <1>5, <1>7, <1>8, <1>9, <1>10 DEF ListInv

(* No worker that runs has freed the node it comes to next.                  *)
LEMMA UsesFreedNodeStep ==
    ASSUME ListInv, StopInv, StopInv', UsesFreedNode
    PROVE  ListInv'
<1>1. /\ main' = main /\ failed' = failed /\ fault' = TRUE
      /\ UNCHANGED <<killed, pending, exitreq, worker, job, cursor, list, life, owner>>
    BY DEF UsesFreedNode, workVars, sessVars
<1>2. failed
    BY DEF UsesFreedNode, Nodes, ListInv, Freeing, Finalising
<1> QED BY <1>1, <1>2, ListStays DEF ListInv, TypeOK

LEMMA FreeListStep ==
    ASSUME ListInv, StopInv, StopInv', FreeList
    PROVE  ListInv' /\ (~failed => \A s \in Sessions : life[s] # "live")
<1>1. /\ main = "finalising" /\ cursor[Main] = NULL /\ main' = "freeing" /\ failed' = failed
      /\ UNCHANGED <<killed, fault, pending, exitreq, worker, job, cursor, list, life, owner>>
    BY DEF FreeList, workVars, sessVars
<1>3. TypeOK'
    BY <1>1, TypesAgree DEF ListInv, StopInv, ThreadInv, TypeOK, ControlType
<1>4. ListState'
    <2>1. JobInv' /\ Accepted'
        BY <1>1 DEF ListInv, ListState, JobInv, Accepted
    <2>2. Shaped' /\ Placed'
        BY <1>1 DEF ListInv, ListState, Tidy, Shaped, Placed
    <2> QED BY <2>1, <2>2 DEF ListState, Tidy
<1>5. ASSUME ~failed PROVE \A s \in Sessions : life[s] # "live"
    <2>1. \A w \in Workers : worker[w] \in {"new", "exited"}
        BY <1>1, <1>5 DEF StopInv, ArmedInv, QuietInv, AllExited, Finalising, Signals
    <2>2. Good(list)
        BY <1>1, <2>1 DEF ListInv, ListState, Tidy, Shaped
    <2>3. From(list.link, NULL) = {}
        BY <2>2, Ahead
    <2>4. Freeing
        BY <1>1, <1>5 DEF ListInv, Finalising
    <2> QED BY <1>1, <2>3, <2>4 DEF Freeing
<1>6. Finalising' /\ (~failed' => Freeing')
    BY <1>1, <1>5 DEF Finalising, Freeing
<1>7. Unharmed'
    BY <1>1 DEF ListInv, Unharmed
<1> QED BY <1>3, <1>4, <1>5, <1>6, <1>7 DEF ListInv

LEMMA ListMain ==
    ASSUME ListInv, StopInv, StopInv', MainStep
    PROVE  ListInv'
<1>1. CASE StartWorker
    <2>1. at \in Workers /\ worker[at] = "new" /\ main = "starting" /\ main' = main /\ failed' = failed
        BY <1>1 DEF StartWorker, StopInv, ThreadInv, StartInv, ControlType, Workers
    <2>2. /\ worker' = [worker EXCEPT ![at] = "prologue"]
          /\ UNCHANGED <<killed, fault, pending, exitreq, job, cursor, list, life, owner>>
        BY <1>1 DEF StartWorker, Goto, sessVars
    <2>3. \A w \in Workers : worker'[w] = worker[w] \/ (worker[w] = "new" /\ worker'[w] = "prologue")
        BY <2>1, <2>2 DEF ListInv, TypeOK
    <2> QED BY <2>1, <2>2, <2>3, ListStays DEF ListInv, TypeOK
<1>2. CASE EnterLoop \/ RequestExit \/ RequestFails \/ Join
    <2>1. /\ ~Finalising /\ ~Finalising' /\ UNCHANGED <<killed, fault, pending>>
          /\ UNCHANGED <<worker, job, cursor, list, life, owner>> /\ (~failed' => ~failed)
        BY <1>2 DEF EnterLoop, RequestExit, RequestFails, Join, workVars, sessVars, Finalising
    <2>2. exitreq' \subseteq Workers
        <3>1. at \in 1..NWorkers + 1
            BY DEF ListInv, TypeOK
        <3>2. at <= NWorkers => at \in Workers
            BY <3>1, ServiceAssumption DEF Workers
        <3> QED BY <1>2, <3>2 DEF EnterLoop, RequestExit, RequestFails, Join, ListInv, TypeOK
    <2> QED BY <2>1, <2>2, ListStays DEF ListInv, TypeOK
<1>3. CASE DeleteEvent \/ \E sig \in Signals : HandleSignal(sig)
    <2>1. /\ ~Finalising /\ ~Finalising' /\ UNCHANGED <<killed, fault, exitreq>>
          /\ UNCHANGED <<worker, job, cursor, list, life, owner>> /\ pending' \subseteq pending
          /\ failed' = failed
        BY <1>3 DEF DeleteEvent, HandleSignal, workVars, sessVars, Finalising
    <2> QED BY <2>1, ListStays DEF ListInv, TypeOK
<1>7. CASE FreeWorkers
    <2>1. /\ main = "freeing" /\ main' = "done" /\ failed' = failed
          /\ fault' = \E w \in Workers : worker[w] \notin {"new", "exited"}
          /\ UNCHANGED <<killed, pending, exitreq, worker, job, cursor, list, life, owner>>
        BY <1>7 DEF FreeWorkers, workVars, sessVars
    <2>2. fault' \in BOOLEAN
        BY <2>1
    <2>3. ~failed => fault' = fault
        <3>1. ~failed => fault = FALSE
            BY DEF ListInv, Unharmed, TypeOK
        <3>2. ~failed => ~(\E w \in Workers : worker[w] \notin {"new", "exited"})
            BY <2>1 DEF StopInv, ArmedInv, QuietInv, AllExited, Finalising, Signals
        <3> QED BY <2>1, <3>1, <3>2
    <2> QED BY <2>1, <2>2, <2>3, ListStays DEF ListInv, TypeOK
<1>4. CASE StartFails \/ LeaveLoop
    BY <1>4, FiniBegins
<1>5. CASE FreeListed
    BY <1>5, FreeListedStep
<1>6. CASE FreeList
    BY <1>6, FreeListStep
<1>8. CASE UsesFreedNode
    BY <1>8, UsesFreedNodeStep
<1> QED BY <1>1, <1>2, <1>3, <1>4, <1>5, <1>6, <1>7, <1>8 DEF MainStep

LEMMA ListNext ==
    ASSUME ListInv, StopInv, [Next]_vars
    PROVE  ListInv'
<1>1. StopInv'
    BY StopNext
<1>2. CASE UNCHANGED vars
    <2>1. /\ main' = main /\ failed' = failed
          /\ UNCHANGED <<killed, fault, pending, exitreq, worker, job, cursor, list, life, owner>>
        BY <1>2 DEF vars
    <2> QED BY <1>1, <2>1, ListStays DEF ListInv, TypeOK
<1>3. CASE \E sig \in Signals : SignalArrives(sig)
    <2>1. /\ main' = main /\ failed' = failed /\ fault' = fault
          /\ UNCHANGED <<exitreq, worker, job, cursor, list, life, owner>>
        BY <1>3 DEF SignalArrives, workVars, sessVars
    <2>2. killed' \in BOOLEAN /\ pending' \subseteq Signals
        BY <1>3 DEF SignalArrives, Raise, ListInv, TypeOK
    <2> QED BY <1>1, <2>1, <2>2, ListStays DEF ListInv, TypeOK
<1> QED BY <1>1, <1>2, <1>3, ListWorker, ListMain DEF Next, Ended

LEMMA ListInvAlways == Spec => [](StopInv /\ ListInv)
<1>1. Init => StopInv /\ ListInv
    BY StopInit, ListInit
<1>2. StopInv /\ ListInv /\ [Next]_vars => StopInv' /\ ListInv'
    BY StopNext, ListNext
<1> QED BY <1>1, <1>2, PTL DEF Spec

(* http_service.c, list.c: whatever fails, and up to the step that reaches   *)
(* for the freed list, the variables keep their types: what a thread follows *)
(* is a link of a node or NULL.                                              *)
THEOREM TypeCorrect == Spec => []TypeOK
<1>1. ListInv => TypeOK
    BY DEF ListInv
<1> QED BY <1>1, ListInvAlways, PTL

(* http_service.c:203-236: nothing freed is used and no session is freed     *)
(* twice, however threads and signals interleave, unless a worker could not  *)
(* be started or stopped.                                                    *)
THEOREM HarmedOnlyIfFailed == Spec => []NothingFreedUsed
<1>1. ListInv => NothingFreedUsed
    BY DEF ListInv, Unharmed, NothingFreedUsed
<1> QED BY <1>1, ListInvAlways, PTL

(* http_service.c:33-56: until http_service_fini, whenever nobody holds the  *)
(* mutex the list is well linked and holds the sessions that are alive.      *)
THEOREM ListIsRight == Spec => []ListAgrees
<1>1. ASSUME StopInv, ListInv PROVE ListAgrees
    <2> SUFFICES ASSUME lock = Nobody, ~Finalising
                 PROVE  WellLinked(list) /\ Members(list) = {s \in Sessions : life[s] = "live"} \ Adding
        BY DEF ListAgrees
    <2>1. \A v \in Workers : worker[v] \notin Critical
        BY <1>1, NobodyInside
    <2>2. Tidy /\ Agreed
        BY <1>1, StaysOpen
    <2>3. WellLinked(list)
        BY <2>1, <2>2 DEF Tidy, Shaped, Good, Critical
    <2>4. Members(list) \in SUBSET Sessions
        BY <1>1, MembersAreSessions DEF ListInv, TypeOK
    <2>5. \A s \in Members(list) : life[s] = "live" /\ s \notin Adding
        BY <2>2 DEF Tidy, Placed, Agreed, Adding
    <2>6. \A s \in Sessions : life[s] = "live" /\ s \notin Adding => s \in Members(list)
        BY <2>1, <2>2 DEF Agreed, Adding, Critical
    <2> QED BY <2>3, <2>4, <2>5, <2>6
<1> QED BY <1>1, ListInvAlways, PTL

-----------------------------------------------------------------------------
(* The service implements SessionRegistry.                                   *)

LEMMA RegistryInit ==
    ASSUME Init
    PROVE  Registry!Init
BY NewList DEF Init, Registry!Init, Finalising

(* While the service is open, each step of a worker is one of the registry   *)
(* or changes nothing there; closed, no worker takes a step without failure. *)
LEMMA RegistryWorker ==
    ASSUME ListInv, StopInv, NEW w \in Workers, WorkerStep(w), ~failed'
    PROVE  Registry!Next \/ UNCHANGED Registry!vars
<1> USE DEF Registry!vars, Registry!Next
<1>1. ~Finalising /\ ~Finalising' /\ ~ListFreed /\ ~ListFreed'
    <2>1. PICK l \in WorkerState : Moves(w, l)
        BY WorkerMoves DEF StopInv, ThreadInv
    <2>2. failed' = failed /\ main' = main /\ ~AllExited
        BY <2>1 DEF Moves, AllExited
    <2> QED BY <2>2 DEF StopInv, ArmedInv, QuietInv, Signals, Finalising, ListFreed
<1>2. Tidy /\ Agreed
    BY <1>1, StaysOpen
<1>3. worker[w] \in Busy => /\ job[w] \in Sessions /\ life[job[w]] = "live"
    BY <1>2 DEF Agreed, ListInv, ListState, JobInv, TypeOK
<1>4. CASE \/ Listen(w) \/ ListenFails(w) \/ worker_failure(w) \/ LeaveDispatch(w)
           \/ AddLocks(w) \/ RemoveLocks(w) \/ \E s \in Sessions : Remove(w, s)
    <2>1. list' = list /\ life' = life
        BY <1>4 DEF Listen, ListenFails, worker_failure, LeaveDispatch, AddLocks, RemoveLocks,
                    Remove, sessVars
    <2> QED BY <1>1, <2>1
<1>5. ASSUME NEW s \in Sessions, Accept(w, s) PROVE Registry!Create(s)
    BY <1>1, <1>5 DEF Accept, Registry!Create
<1>6. CASE PushLinks(w)
    <2>1. worker[w] = "link" /\ life' = life
        BY <1>6 DEF PushLinks
    <2>2. job[w] \notin Members(list) /\ Members(list') = Members(list) \cup {job[w]}
        BY <1>2, <1>6, <2>1, PushLinksStep DEF Tidy, Placed
    <2>3. Registry!Register(job[w])
        BY <1>1, <1>3, <2>1, <2>2 DEF Registry!Register, Busy, Critical
    <2> QED BY <1>3, <2>1, <2>3 DEF Busy, Critical
<1>7. CASE PushMovesTail(w) \/ Search(w) \/ RemoveFixesBack(w)
    <2>1. life' = life
        BY <1>1, <1>7, SearchStep DEF PushMovesTail, RemoveFixesBack
    <2>2. Members(list') = Members(list)
        <3>1. Search(w) => list' = list
            BY DEF Search
        <3> QED BY <1>2, <1>7, <3>1, PushMovesTailStep, RemoveFixesBackStep
    <2> QED BY <1>1, <2>1, <2>2
<1>8. CASE RemoveUnlinks(w)
    <2>1. worker[w] = "unlink" /\ life' = life
        BY <1>8 DEF RemoveUnlinks
    <2>2. job[w] \in Members(list) /\ Members(list') = Members(list) \ {job[w]}
        BY <1>2, <1>8, <2>1, RemoveUnlinksStep DEF Tidy, Placed
    <2>3. Registry!Unregister(job[w])
        BY <1>1, <2>1, <2>2 DEF Registry!Unregister
    <2> QED BY <1>3, <2>1, <2>3 DEF Busy, Critical
<1>9. CASE RemoveFrees(w)
    <2>1. /\ worker[w] = "free" /\ list' = list
          /\ life' = [life EXCEPT ![job[w]] = IF @ = "live" THEN "freed" ELSE "freed_twice"]
        BY <1>9 DEF RemoveFrees, session_free
    <2>2. job[w] \in Sessions /\ life[job[w]] = "live"
        BY <1>3, <2>1 DEF Busy, Critical
    <2>3. life' = [life EXCEPT ![job[w]] = "freed"] /\ job[w] \notin Members(list)
        BY <1>2, <2>1, <2>2 DEF Agreed
    <2>4. Registry!Free(job[w])
        BY <1>1, <2>1, <2>2, <2>3 DEF Registry!Free
    <2> QED BY <2>2, <2>4
<1>10. ~UsesFreedList(w)
    BY <1>1 DEF UsesFreedList, ListFreed, Finalising
<1> QED BY <1>4, <1>5, <1>6, <1>7, <1>8, <1>9, <1>10 DEF WorkerStep, ThreadStep, CallbackStep

(* The main thread closes the registry, frees what it still holds, and       *)
(* disposes of it.                                                           *)
LEMMA RegistryMain ==
    ASSUME ListInv, StopInv, StopInv', MainStep, ~failed'
    PROVE  Registry!Next \/ UNCHANGED Registry!vars
<1> USE DEF Registry!vars, Registry!Next
<1>1. CASE StartWorker \/ EnterLoop \/ RequestExit \/ Join \/ DeleteEvent
           \/ \E sig \in Signals : HandleSignal(sig)
    <2>1. ~Finalising /\ ~Finalising' /\ ~ListFreed /\ ~ListFreed' /\ list' = list /\ life' = life
        BY <1>1 DEF StartWorker, EnterLoop, RequestExit, Join, DeleteEvent, HandleSignal, sessVars,
                    Finalising, ListFreed
    <2> QED BY <2>1
<1>2. CASE LeaveLoop
    <2>1. /\ main = "dispatching" /\ armed = {} /\ main' = "finalising"
          /\ list' = list /\ life' = life /\ failed' = failed
        BY <1>2 DEF LeaveLoop, sessVars
    <2>2. AllExited
        BY <2>1 DEF StopInv, QuietInv, Signals
    <2>3. Tidy /\ Agreed
        BY <2>1, StaysOpen DEF Finalising
    <2>4. \A s \in Sessions : life[s] = "live" <=> s \in Members(list)
        BY <2>2, <2>3 DEF Agreed, AllExited
    <2>5. Registry!Close
        BY <2>1, <2>4 DEF Registry!Close, Finalising, ListFreed
    <2> QED BY <2>5
<1>3. CASE FreeListed
    <2>1. /\ main = "finalising" /\ main' = main /\ list' = list /\ failed' = failed
          /\ cursor[Main] \in Sessions
          /\ life' = [life EXCEPT ![cursor[Main]] = IF @ = "live" THEN "freed" ELSE "freed_twice"]
        <3>1. Nodes \subseteq Sessions
            BY MembersAreSessions DEF Nodes, Sessions, ListInv, TypeOK, ListState, JobInv, Busy, Critical
        <3> QED BY <1>3, <3>1 DEF FreeListed, session_free, mainVars
    <2>2. life[cursor[Main]] = "live"
        BY <1>3, <2>1, FreeListedStep
    <2>3. Registry!Free(cursor[Main])
        BY <2>1, <2>2 DEF Registry!Free, Finalising, ListFreed
    <2> QED BY <2>1, <2>3
<1>4. CASE FreeList
    <2>1. /\ main = "finalising" /\ main' = "freeing" /\ failed' = failed /\ life' = life
        BY <1>4 DEF FreeList, sessVars
    <2>2. \A s \in Sessions : life[s] # "live"
        BY <1>4, <2>1, FreeListStep
    <2>3. Registry!Dispose
        BY <2>1, <2>2 DEF Registry!Dispose, Finalising, ListFreed
    <2> QED BY <2>3
<1>5. CASE FreeWorkers
    <2>1. main = "freeing" /\ main' = "done" /\ list' = list /\ life' = life
        BY <1>5 DEF FreeWorkers, sessVars
    <2> QED BY <2>1 DEF Finalising, ListFreed
<1>6. ~StartFails /\ ~RequestFails
    BY DEF StartFails, RequestFails
<1>7. ~UsesFreedNode
    <2>1. UsesFreedNode => ListInv' /\ fault'
        BY UsesFreedNodeStep DEF UsesFreedNode
    <2> QED BY <2>1 DEF ListInv, Unharmed
<1> QED BY <1>1, <1>2, <1>3, <1>4, <1>5, <1>6, <1>7 DEF MainStep

(* http_service.c:33-56, 203-236: with any number of workers and of          *)
(* sessions, and until a worker cannot be started or stopped, the threads,   *)
(* the mutex and the pointers implement a set of sessions of which each is   *)
(* freed once.                                                               *)
THEOREM IsRegistry == Spec => ImplementsRegistry
<1>1. Init => Registry!Init
    BY RegistryInit
<1>2. ASSUME StopInv, ListInv, [Next]_vars PROVE [failed' \/ Registry!Next]_Registry!vars
    <2> SUFFICES ASSUME ~failed' PROVE Registry!Next \/ UNCHANGED Registry!vars
        OBVIOUS
    <2>1. StopInv'
        BY <1>2, StopNext
    <2>2. CASE UNCHANGED vars \/ \E sig \in Signals : SignalArrives(sig)
        <3>1. main' = main /\ list' = list /\ life' = life
            BY <2>2 DEF vars, SignalArrives, sessVars
        <3> QED BY <3>1 DEF Registry!vars, Finalising, ListFreed
    <2> QED BY <1>2, <2>1, <2>2, RegistryWorker, RegistryMain DEF Next, Ended
<1> QED BY <1>1, <1>2, ListInvAlways, PTL DEF Spec, ImplementsRegistry

=============================================================================
