---------------------------- MODULE HttpService -----------------------------
(***************************************************************************)
(* The service (http_service.c), its worker threads (worker.c, pthread.c)  *)
(* and the list of sessions they share under one mutex.                    *)
(*                                                                         *)
(* The main thread starts the workers, waits in its event loop for SIGTERM *)
(* or SIGINT, then stops and joins the workers one by one, removes its     *)
(* signal events and, when its loop returns, frees everything without the  *)
(* mutex; the model stops where a thread reaches for what has been freed.  *)
(* Each worker listens, and runs callbacks that accept a session or remove *)
(* one; what else a session does is module Session.  A step is what runs   *)
(* between two accesses to memory that threads share.                      *)
(*                                                                         *)
(* Threads are numbered: 0 is the main thread, 1..NWorkers are workers.    *)
(* The model begins when http_service_init has succeeded.                  *)
(***************************************************************************)
EXTENDS List

CONSTANT NWorkers   \* how many workers (option -n)

ASSUME ServiceAssumption == NWorkers \in Nat

Sessions == Node            \* a session is on the list at most once
Workers == 1..NWorkers
Main == 0
Threads == 0..NWorkers
Nobody == 0
Signals == {"SIGTERM", "SIGINT"}

VARIABLES
    main,      \* where the main thread is
    failed,    \* history: thread_start or event_base_loopexit has failed
    killed,    \* whether a signal's default action has ended the process
    fault,     \* whether a thread has used what http_service_fini, or a list_remove, freed
    at,        \* its loop counter in http_service_start and _stop
    armed,     \* signals whose event is added: others have their default action
    pending,   \* signals caught, whose event has not run yet
    worker,    \* worker[w]: where the worker's thread is
    exitreq,   \* workers whose event base has a loopexit timer
    joins,     \* joins[w]: pthread_join calls made on the worker
    job,       \* job[w]: the session the worker's callback is about, or NULL
    cursor,    \* cursor[t]: the thread's "node" in a list_foreach
    lock,      \* the holder of session_mutex, or Nobody
    list,      \* http_service.sessions
    life,      \* life[s]: whether the session exists, and how it ended
    owner      \* owner[s]: the worker that accepted it

mainVars == <<main, failed, killed, fault, at, armed, pending, joins, exitreq>>
workVars == <<worker, job, lock>>
sessVars == <<list, life, owner>>
vars == <<main, failed, killed, fault, at, armed, pending, joins, exitreq, worker, job,
          lock, list, life, owner, cursor>>

MainState == {"starting", "dispatching", "stopping", "joining",
              "finalising", "freeing", "done"}

(* The steps of a callback that holds the mutex. *)
Critical == {"link", "move_tail", "search", "unlink", "fix_back", "free"}

WorkerState == {"new", "prologue", "failing", "loop", "add", "remove", "exited"}
                  \cup Critical

TypeOK ==
    /\ main \in MainState /\ at \in 1..NWorkers + 1
    /\ failed \in BOOLEAN /\ killed \in BOOLEAN /\ fault \in BOOLEAN
    /\ armed \subseteq Signals /\ pending \subseteq Signals
    /\ worker \in [Workers -> WorkerState]
    /\ exitreq \subseteq Workers /\ joins \in [Workers -> 0..2]
    /\ job \in [Workers -> Sessions \cup {NULL}]
    /\ cursor \in [Threads -> Sessions \cup {NULL}]
    /\ lock \in Workers \cup {Nobody}
    /\ list \in ListRecord
    /\ life \in [Sessions -> {"none", "live", "freed", "freed_twice"}]
    /\ owner \in [Sessions -> Threads]

Init ==
    /\ main = "starting" /\ at = 1 /\ failed = FALSE /\ killed = FALSE /\ fault = FALSE
    /\ armed = Signals /\ pending = {}
    /\ worker = [w \in Workers |-> "new"]
    /\ exitreq = {} /\ joins = [w \in Workers |-> 0]
    /\ job = [w \in Workers |-> NULL]
    /\ cursor = [t \in Threads |-> NULL]
    /\ lock = Nobody
    /\ list = list_new
    /\ life = [s \in Sessions |-> "none"]
    /\ owner = [s \in Sessions |-> Main]

(* The process has neither returned from main nor been killed by a signal, *)
(* and its behaviour is still defined.                                     *)
Running == ~killed /\ ~fault /\ main # "done"

(* http_service_fini has freed the list and set its pointer to NULL. *)
ListFreed == main \in {"freeing", "done"}

(* The nodes allocated: those on the list and one that list_remove is about. *)
Nodes == Members(list) \cup {job[w] : w \in {v \in Workers : worker[v] = "fix_back"}}

-----------------------------------------------------------------------------
(* Helpers, each with the mutants that validate the properties.            *)

(* session_free: of a session already freed it frees freed memory. *)
session_free(s) ==
    life' = [life EXCEPT ![s] = IF @ = "live" THEN "freed" ELSE "freed_twice"]

(* A signal is caught while its event is added, and kills the process after. *)
Raise(sig) ==
    IF sig \in armed THEN pending' = pending \cup {sig} /\ UNCHANGED killed
    ELSE killed' = TRUE /\ UNCHANGED pending

Goto(w, l) == worker' = [worker EXCEPT ![w] = l]

MutexIgnored(w) == lock' = w
mutex_lock(w) == lock = Nobody /\ lock' = w

MutexKept(w) == UNCHANGED lock
mutex_unlock(w) == lock' = Nobody

-----------------------------------------------------------------------------
(* The main thread.                                                        *)

(* http_service_start, worker_start: one turn of the loop. *)
StartWorker ==
    /\ main = "starting" /\ at <= NWorkers
    /\ Goto(at, "prologue")
    /\ at' = at + 1
    /\ UNCHANGED <<main, failed, killed, fault, armed, pending, exitreq, joins,
                   job, cursor, lock, sessVars>>

(* thread_start fails: http_service_start returns, and main goes on to finalise. *)
StartFails ==
    /\ main = "starting" /\ at <= NWorkers
    /\ main' = "finalising" /\ failed' = TRUE
    /\ cursor' = [cursor EXCEPT ![Main] = list.link[HEAD]]
    /\ UNCHANGED <<killed, fault, at, armed, pending, exitreq, joins, workVars, sessVars>>

EnterLoop ==
    /\ main = "starting" /\ at = NWorkers + 1
    /\ main' = "dispatching"
    /\ UNCHANGED <<failed, killed, fault, at, armed, pending, exitreq, joins,
                   workVars, cursor, sessVars>>

(* The loop runs http_service_stop_request. *)
HandleSignal(sig) ==
    /\ main = "dispatching" /\ sig \in armed \cap pending
    /\ main' = "stopping" /\ at' = 1
    /\ pending' = pending \ {sig}
    /\ UNCHANGED <<failed, killed, fault, armed, exitreq, joins, workVars, cursor, sessVars>>

ExitWithoutJoin ==
    /\ main = "stopping" /\ at <= NWorkers
    /\ exitreq' = exitreq \cup {at}
    /\ at' = at + 1
    /\ UNCHANGED <<main, failed, killed, fault, armed, pending, joins, workVars, cursor, sessVars>>

(* worker_stop: event_base_loopexit, which adds a timer to the worker's base *)
(* and so is not lost on a worker that has yet to enter its loop.            *)
RequestExit ==
    /\ main = "stopping" /\ at <= NWorkers
    /\ exitreq' = exitreq \cup {at}
    /\ main' = "joining"
    /\ UNCHANGED <<failed, killed, fault, at, armed, pending, joins, workVars, cursor, sessVars>>

(* event_base_loopexit fails: worker_stop returns without joining. *)
RequestFails ==
    /\ main = "stopping" /\ at <= NWorkers
    /\ at' = at + 1 /\ failed' = TRUE
    /\ UNCHANGED <<main, killed, fault, armed, pending, exitreq, joins, workVars, cursor, sessVars>>

JoinDoesNotWait ==
    /\ main = "joining"
    /\ joins' = [joins EXCEPT ![at] = IF @ = 2 THEN 2 ELSE @ + 1]
    /\ main' = "stopping" /\ at' = at + 1
    /\ UNCHANGED <<failed, killed, fault, armed, pending, exitreq, workVars, cursor, sessVars>>

(* worker_stop: thread_join returns when the worker's thread has ended. *)
Join ==
    /\ main = "joining" /\ worker[at] = "exited"
    /\ joins' = [joins EXCEPT ![at] = IF @ = 2 THEN 2 ELSE @ + 1]
    /\ main' = "stopping" /\ at' = at + 1
    /\ UNCHANGED <<failed, killed, fault, armed, pending, exitreq, workVars, cursor, sessVars>>

SignalEventsKept ==
    /\ main = "stopping" /\ at = NWorkers + 1
    /\ main' = "dispatching"
    /\ UNCHANGED <<failed, killed, fault, at, armed, pending, exitreq, joins,
                   workVars, cursor, sessVars>>

(* http_service_stop: event_del of ev_sigterm, then of ev_sigint.  event_del *)
(* also takes an activation of the event that has not run yet off the loop.  *)
DeleteEvent ==
    /\ main = "stopping" /\ at = NWorkers + 1
    /\ LET sig == IF "SIGTERM" \in armed THEN "SIGTERM" ELSE "SIGINT"
       IN  /\ armed' = armed \ {sig}
           /\ pending' = pending \ {sig}
           /\ main' = IF sig = "SIGINT" THEN "dispatching" ELSE main
    /\ UNCHANGED <<failed, killed, fault, at, exitreq, joins, workVars, cursor, sessVars>>

(* With no event left event_base_dispatch returns, and http_service_fini begins. *)
LeaveLoop ==
    /\ main = "dispatching" /\ armed = {}
    /\ main' = "finalising"
    /\ cursor' = [cursor EXCEPT ![Main] = list.link[HEAD]]
    /\ UNCHANGED <<failed, killed, fault, at, armed, pending, exitreq, joins, workVars, sessVars>>

ListedSessionKept ==
    /\ main = "finalising" /\ cursor[Main] \in Nodes
    /\ cursor' = [cursor EXCEPT ![Main] = list.link[@]]
    /\ UNCHANGED <<mainVars, workVars, sessVars>>

(* http_service_fini: one turn of the loop over the listed sessions. *)
FreeListed ==
    /\ main = "finalising" /\ cursor[Main] \in Nodes
    /\ session_free(cursor[Main])
    /\ cursor' = [cursor EXCEPT ![Main] = list.link[@]]
    /\ UNCHANGED <<mainVars, workVars, list, owner>>

(* Its "next" was taken off the list and freed by a worker that still runs. *)
UsesFreedNode ==
    /\ main = "finalising" /\ cursor[Main] \notin Nodes \cup {NULL}
    /\ fault' = TRUE
    /\ UNCHANGED <<main, failed, killed, at, armed, pending, exitreq, joins,
                   workVars, cursor, sessVars>>

(* list_free, and the list's pointer set to NULL: what it led to is gone.   *)
FreeList ==
    /\ main = "finalising" /\ cursor[Main] = NULL
    /\ main' = "freeing"
    /\ UNCHANGED <<failed, killed, fault, at, armed, pending, exitreq, joins,
                   workVars, cursor, sessVars>>

(* The listeners, the workers with their event bases, the events; main returns. *)
(* A worker whose thread runs has its event base freed under it.                *)
FreeWorkers ==
    /\ main = "freeing"
    /\ main' = "done"
    /\ fault' = \E w \in Workers : worker[w] \notin {"new", "exited"}
    /\ UNCHANGED <<failed, killed, at, armed, pending, exitreq, joins, workVars, cursor, sessVars>>

MainStep ==
    \/ StartWorker \/ StartFails \/ EnterLoop
    \/ \E sig \in Signals : HandleSignal(sig)
    \/ RequestExit \/ RequestFails \/ Join \/ DeleteEvent \/ LeaveLoop
    \/ FreeListed \/ UsesFreedNode \/ FreeList \/ FreeWorkers

-----------------------------------------------------------------------------
(* A worker.                                                               *)

(* worker_loop: http_service_listener_start succeeds. *)
Listen(w) ==
    /\ worker[w] = "prologue"
    /\ Goto(w, "loop")
    /\ UNCHANGED <<mainVars, job, lock, cursor, sessVars>>

ListenFails(w) ==
    /\ worker[w] = "prologue"
    /\ Goto(w, "failing")
    /\ UNCHANGED <<mainVars, job, lock, cursor, sessVars>>

(* worker_failure: a SIGTERM to the main thread; the worker's thread ends. *)
worker_failure(w) ==
    /\ worker[w] = "failing"
    /\ Raise("SIGTERM")
    /\ Goto(w, "exited")
    /\ UNCHANGED <<main, failed, fault, at, armed, exitreq, joins, job, lock, cursor, sessVars>>

(* event_base_dispatch returns, between two callbacks, once loopexit's timer ran. *)
LeaveDispatch(w) ==
    /\ worker[w] = "loop" /\ w \in exitreq
    /\ Goto(w, "exited")
    /\ UNCHANGED <<mainVars, job, lock, cursor, sessVars>>

(* http_service_accept_cb, as far as session_new; if that, or channel_accept, *)
(* fails there is no session and nothing to add.                              *)
Accept(w, s) ==
    /\ worker[w] = "loop" /\ life[s] = "none"
    /\ life' = [life EXCEPT ![s] = "live"]
    /\ owner' = [owner EXCEPT ![s] = w]
    /\ job' = [job EXCEPT ![w] = s]
    /\ Goto(w, "add")
    /\ UNCHANGED <<mainVars, lock, cursor, list>>

(* http_service_session_add *)
AddLocks(w) ==
    /\ worker[w] = "add"
    /\ mutex_lock(w)
    /\ Goto(w, "link")
    /\ UNCHANGED <<mainVars, job, cursor, sessVars>>

PushLinks(w) ==
    /\ worker[w] = "link" /\ ~ListFreed
    /\ list' = LinkLast(list, job[w])
    /\ Goto(w, "move_tail")
    /\ UNCHANGED <<mainVars, job, lock, cursor, life, owner>>

PushMovesTail(w) ==
    /\ worker[w] = "move_tail" /\ ~ListFreed
    /\ list' = MoveTail(list, job[w])
    /\ mutex_unlock(w)
    /\ job' = [job EXCEPT ![w] = NULL]
    /\ Goto(w, "loop")
    /\ UNCHANGED <<mainVars, cursor, life, owner>>

(* A callback of the session ends it: http_service_session_remove. *)
Remove(w, s) ==
    /\ worker[w] = "loop" /\ life[s] = "live" /\ owner[s] = w
    /\ job' = [job EXCEPT ![w] = s]
    /\ Goto(w, "remove")
    /\ UNCHANGED <<mainVars, lock, cursor, sessVars>>

RemoveLocks(w) ==
    /\ worker[w] = "remove" /\ ~ListFreed
    /\ mutex_lock(w)
    /\ cursor' = [cursor EXCEPT ![w] = list.link[HEAD]]
    /\ Goto(w, "search")
    /\ UNCHANGED <<mainVars, job, sessVars>>

(* One turn of list_foreach.  At its end the session is freed unlisted, which *)
(* never comes about while the list agrees with the sessions alive.           *)
Search(w) ==
    /\ worker[w] = "search" /\ (ListFreed => cursor[w] = NULL)
    /\ IF cursor[w] = NULL
       THEN /\ mutex_unlock(w)
            /\ session_free(job[w])
            /\ job' = [job EXCEPT ![w] = NULL]
            /\ Goto(w, "loop")
            /\ UNCHANGED <<cursor, list>>
       ELSE /\ IF cursor[w] = job[w]
               THEN Goto(w, "unlink") /\ UNCHANGED cursor
               ELSE cursor' = [cursor EXCEPT ![w] = list.link[@]] /\ UNCHANGED worker
            /\ UNCHANGED <<job, lock, list, life>>
    /\ UNCHANGED <<mainVars, owner>>

RemoveKeepsNode(w) ==
    /\ worker[w] = "unlink" /\ ~ListFreed
    /\ Goto(w, "free")
    /\ UNCHANGED <<mainVars, job, lock, cursor, sessVars>>

(* list_remove *)
RemoveUnlinks(w) ==
    /\ worker[w] = "unlink" /\ ~ListFreed
    /\ list' = Unlink(list, job[w])
    /\ Goto(w, "fix_back")
    /\ UNCHANGED <<mainVars, job, lock, cursor, life, owner>>

RemoveFixesBack(w) ==
    /\ worker[w] = "fix_back" /\ ~ListFreed
    /\ list' = FixBack(list, job[w])
    /\ Goto(w, "free")
    /\ UNCHANGED <<mainVars, job, lock, cursor, life, owner>>

RemoveFrees(w) ==
    /\ worker[w] = "free"
    /\ session_free(job[w])
    /\ mutex_unlock(w)
    /\ job' = [job EXCEPT ![w] = NULL]
    /\ cursor' = [cursor EXCEPT ![w] = NULL]
    /\ Goto(w, "loop")
    /\ UNCHANGED <<mainVars, list, owner>>

(* A step of list_push_back, list_foreach or list_remove on the freed list. *)
UsesFreedList(w) ==
    /\ ListFreed
    /\ \/ worker[w] \in {"link", "move_tail", "unlink", "fix_back"}
       \/ worker[w] = "remove" /\ lock = Nobody
       \/ worker[w] = "search" /\ cursor[w] # NULL
    /\ fault' = TRUE
    /\ UNCHANGED <<main, failed, killed, at, armed, pending, exitreq, joins,
                   workVars, cursor, sessVars>>

(* The rest of a callback under way, up to its return to the loop. *)
CallbackStep(w) ==
    \/ AddLocks(w) \/ PushLinks(w) \/ PushMovesTail(w)
    \/ RemoveLocks(w) \/ Search(w)
    \/ RemoveUnlinks(w) \/ RemoveFixesBack(w) \/ RemoveFrees(w)
    \/ UsesFreedList(w)

ThreadStep(w) == Listen(w) \/ ListenFails(w) \/ worker_failure(w) \/ CallbackStep(w)

WorkerStep(w) ==
    \/ ThreadStep(w) \/ LeaveDispatch(w)
    \/ \E s \in Sessions : Accept(w, s) \/ Remove(w, s)

-----------------------------------------------------------------------------

(* An operator, or the system, sends SIGTERM or SIGINT. *)
SignalArrives(sig) ==
    /\ Raise(sig)
    /\ UNCHANGED <<main, failed, fault, at, armed, exitreq, joins, workVars, cursor, sessVars>>

(* The process has ended. *)
Ended == ~Running /\ UNCHANGED vars

Next ==
    \/ /\ Running
       /\ \/ MainStep
          \/ \E w \in Workers : WorkerStep(w)
          \/ \E sig \in Signals : SignalArrives(sig)
    \/ Ended

Spec == Init /\ [][Next]_vars

(* No thread stops for ever inside its own code, and the loopexit timer, due *)
(* at once, runs.  Nothing obliges a client or a signal to arrive.           *)
Fairness ==
    /\ WF_vars(Running /\ MainStep)
    /\ \A w \in Workers : /\ WF_vars(Running /\ ThreadStep(w))
                          /\ WF_vars(Running /\ LeaveDispatch(w))

FairSpec == Spec /\ Fairness

-----------------------------------------------------------------------------
(* Properties.                                                             *)

Finalising == main \in {"finalising", "freeing", "done"}

(* http_service.c:33-56: until http_service_fini frees it, whenever nobody  *)
(* holds the mutex the list is well linked and holds exactly the sessions   *)
(* that are alive, but for those accepted and not added yet.                *)
Adding == {job[w] : w \in {v \in Workers : worker[v] = "add"}}

ListAgrees ==
    lock = Nobody /\ ~Finalising =>
        /\ WellLinked(list)
        /\ Members(list) = {s \in Sessions : life[s] = "live"} \ Adding

(* http_service.c:207-210: http_service_fini walks the list, frees sessions *)
(* and then the workers without the mutex, so no worker runs any more,      *)
(* unless one could not be started or stopped.                              *)
FiniAlone ==
    Finalising /\ ~failed => \A w \in Workers : worker[w] \in {"new", "exited"}

(* worker.c:24, http_service.c:193: the SIGTERM of a worker that cannot     *)
(* listen always finds the event of the main thread; with the event removed *)
(* it would kill the process before it has cleaned up.                      *)
FailureIsCaught ==
    ~failed /\ (\E w \in Workers : worker[w] = "failing") => "SIGTERM" \in armed

(* http_service.c:189-194: however many signals arrive, and whenever, each  *)
(* worker is stopped and joined at most once.                               *)
JoinOnce == \A w \in Workers : joins[w] <= 1

(* http_service.c:203-236, worker.c:164-172: the list, a node of it or an   *)
(* event base is used once freed, or a session freed twice, only if a       *)
(* worker could not be started or stopped.                                  *)
NothingFreedUsed ==
    fault \/ (\E s \in Sessions : life[s] = "freed_twice") => failed

(* http_service.h:19-21: with a worker thread started, http_service_start   *)
(* blocks until the process has received and processed SIGTERM or SIGINT.   *)
BlocksUntilSignal ==
    Finalising /\ (\E w \in Workers : worker[w] \notin {"new", "exited"}) => armed = {}

(* http_service.h:23-24: a signal, or a worker that cannot listen, brings   *)
(* the service to its end (or a second signal or a fault does): no join and *)
(* no wait for the mutex lasts for ever.                                    *)
Shutdown ==
    (pending # {} \/ \E w \in Workers : worker[w] = "failing") ~> ~Running

(* http_service.c:33-56, 203-236: until a worker cannot be started or       *)
(* stopped, the threads, the mutex and the pointers implement a set of      *)
(* sessions of which each is freed once.                                    *)
Registry == INSTANCE SessionRegistry
                WITH members <- IF ListFreed THEN {} ELSE Members(list), open <- ~Finalising
ImplementsRegistry == Registry!Init /\ [][failed' \/ Registry!Next]_Registry!vars

=============================================================================
