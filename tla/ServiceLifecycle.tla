-------------------------- MODULE ServiceLifecycle --------------------------
(***************************************************************************)
(* What http_service_init makes and http_service_fini frees, and main that *)
(* calls init, start and fini whatever they return (http_service.c:91-254, *)
(* worker.c:50-155, tigera_webserver.c:131-133).  Every call of init may   *)
(* fail.  Once init has succeeded, what the threads do until fini is the   *)
(* subject of HttpService; here they only listen and accept.               *)
(***************************************************************************)
EXTENDS Integers, Sequences, FiniteSets

CONSTANT NWorkers

ASSUME LifecycleAssumption == NWorkers \in Nat \ {0}

Workers == 1..NWorkers

(* What is allocated: things of the service, and things of each worker.    *)
The(kind) == <<kind, 0>>
All(kinds) == {The(kind) : kind \in kinds}
Of(kind) == {<<kind, w>> : w \in Workers}

Single == {"main_id", "key", "list", "mutex", "ebase", "ev_sigterm", "ev_sigint",
           "listeners", "workers"}
Thing == All(Single)
         \cup UNION {Of(kind) : kind \in {"listener", "worker", "base", "dnsbase", "thread",
                                          "session", "listening"}}

VARIABLES
    at,         \* where main is
    caller,     \* who has called http_service_fini: "init", on its label error, or "main"
    index,      \* the loop counter of init and start
    alive,      \* the things allocated and not freed
    known,      \* those the program has a pointer to that is not NULL
    nworkers,   \* http_service.nworkers
    failed,     \* the calls that have failed
    fault       \* NULL has been used as a pointer; nothing runs after it

vars == <<at, caller, index, alive, known, nworkers, failed, fault>>

Init ==
    /\ at = "worker_init" /\ caller = "nobody" /\ index = 1
    /\ alive = {} /\ known = {}
    /\ nworkers = 0 /\ failed = {} /\ fault = FALSE

Goto(step) == at' = step
Main(step) == at = step /\ ~fault

Made(S) == alive' = alive \cup S /\ known' = known \cup S

(* What is freed through a pointer, which is then NULL. *)
Freed(S) == alive' = alive \ S /\ known' = known \ S

Faults == fault' = TRUE /\ UNCHANGED <<at, caller, index, alive, known, nworkers, failed>>

-----------------------------------------------------------------------------
(* http_service_init                                                       *)

(* worker_init: the main thread's id, libevent's locks, the key; init      *)
(* ignores what it returns.                                                *)
worker_init ==
    /\ Main("worker_init")
    /\ \E S \in {{}, {"main_id"}, {"main_id", "key"}} :
          /\ Made(All(S))
          /\ failed' = IF "key" \in S THEN {} ELSE {"worker_init"}
    /\ Goto("list")
    /\ UNCHANGED <<caller, index, nworkers, fault>>

(* Calls of init in a row: where each goes on, and what it makes. *)
Follows == [list |-> "mutex", mutex |-> "ebase", ebase |-> "ev_sigterm",
            ev_sigterm |-> "add_sigterm", add_sigterm |-> "ev_sigint",
            ev_sigint |-> "add_sigint", add_sigint |-> "listeners", listeners |-> "listener"]
Makes(step) == All({step} \cap Single)

InitMakes ==
    /\ ~fault /\ at \in DOMAIN Follows
    /\ Made(Makes(at))
    /\ Goto(Follows[at])
    /\ UNCHANGED <<caller, index, nworkers, failed, fault>>

InitMakesListener ==
    /\ Main("listener") /\ index <= NWorkers
    /\ Made({<<"listener", index>>})
    /\ index' = index + 1
    /\ UNCHANGED <<caller, at, nworkers, failed, fault>>

InitMakesWorkers ==
    /\ Main("listener") /\ index > NWorkers
    /\ \/ Made({The("workers")}) /\ nworkers' = NWorkers /\ Goto("worker") /\ UNCHANGED failed
       \/ Goto("start") /\ failed' = failed \cup {"workers"} /\ UNCHANGED <<caller, alive, known, nworkers>>
    /\ index' = 1
    /\ UNCHANGED <<caller, fault>>

(* The calls of worker_new in a row, and what each makes for the worker.   *)
WorkerFollows == [worker |-> "worker_base", worker_base |-> "worker_dnsbase",
                  worker_dnsbase |-> "worker_options", worker_options |-> "worker_thread",
                  worker_thread |-> "worker"]
WorkerMakes == [worker |-> {"worker"}, worker_base |-> {"base"}, worker_dnsbase |-> {"dnsbase"},
                worker_options |-> {}, worker_thread |-> {"thread"}]

Creating == ~fault /\ at \in DOMAIN WorkerFollows /\ index <= nworkers

worker_new ==
    /\ Creating
    /\ Made({<<kind, index>> : kind \in WorkerMakes[at]})
    /\ Goto(WorkerFollows[at])
    /\ index' = IF at = "worker_thread" THEN index + 1 ELSE index
    /\ UNCHANGED <<caller, nworkers, failed, fault>>

(* A base that cannot be made notifiable is not yet in the worker: it is   *)
(* lost.  Without a worker there is nothing for worker_free to free.       *)
WorkerFails ==
    /\ Creating
    /\ \/ UNCHANGED alive /\ failed' = failed \cup {at}
       \/ /\ at = "worker_base"
          /\ alive' = alive \cup {<<"base", index>>} /\ failed' = failed \cup {"notifiable"}
    /\ \/ at = "worker" /\ Goto("fini") /\ caller' = "init"
       \/ at # "worker" /\ Goto("dnsbase_free") /\ UNCHANGED caller
    /\ UNCHANGED <<index, known, nworkers, fault>>

(* Mutant: init runs into its label error. *)
InitFallsThrough ==
    /\ Main("worker") /\ index > nworkers
    /\ Goto("fini") /\ caller' = "init" /\ index' = 1
    /\ UNCHANGED <<alive, known, nworkers, failed, fault>>

InitSucceeds ==
    /\ Main("worker") /\ index > nworkers
    /\ Goto("start") /\ index' = 1
    /\ UNCHANGED <<caller, alive, known, nworkers, failed, fault>>

InitFails ==
    /\ ~fault /\ at \in DOMAIN Follows \cup {"listener"}
    /\ at = "listener" => index <= NWorkers
    /\ failed' = failed \cup {at}
    /\ Goto("fini") /\ caller' = "init"
    /\ UNCHANGED <<index, alive, known, nworkers, fault>>

-----------------------------------------------------------------------------
(* worker_free, called by worker_new on its label error (nobody has called *)
(* http_service_fini then) and by http_service_fini for each worker.       *)

WorkerFreeStep(from, to, kinds) ==
    /\ Main(from) /\ Goto(to)
    /\ Freed(known \cap {<<kind, index>> : kind \in kinds})
    /\ UNCHANGED <<caller, index, nworkers, failed, fault>>

(* Mutant: the base goes before the resolver made on it. *)
FreeBaseFirst == WorkerFreeStep("dnsbase_free", "base_free", {"base"})

FreeDnsbase == WorkerFreeStep("dnsbase_free", "base_free", {"dnsbase"})

FreeWorkerBase == WorkerFreeStep("base_free", "worker_free", {"base"})

FreeWorker ==
    /\ Main("worker_free")
    /\ Freed(known \cap {<<"thread", index>>, <<"worker", index>>})
    /\ \/ caller = "nobody" /\ Goto("fini") /\ caller' = "init" /\ UNCHANGED index
       \/ caller # "nobody" /\ Goto("workers_fini") /\ index' = index + 1 /\ UNCHANGED caller
    /\ UNCHANGED <<nworkers, failed, fault>>

-----------------------------------------------------------------------------
(* http_service_start                                                      *)

(* http_service.workers[i] is read, and in the thread the key. *)
StartWorker ==
    /\ Main("start") /\ index <= nworkers
    /\ IF {The("workers"), <<"worker", index>>, The("key")} \subseteq known
       THEN /\ Made({<<"listening", index>>})
            /\ index' = index + 1
            /\ UNCHANGED <<caller, at, nworkers, failed, fault>>
       ELSE Faults

Dispatch ==
    /\ Main("start") /\ index > nworkers
    /\ IF The("ebase") \in known
       THEN /\ Goto("dispatch") /\ UNCHANGED <<caller, index, alive, known, nworkers, failed, fault>>
       ELSE Faults

(* The workers accept and remove sessions until a signal has stopped them. *)
Accept ==
    /\ Main("dispatch")
    /\ \E w \in 1..nworkers : <<"session", w>> \notin alive /\ Made({<<"session", w>>})
    /\ UNCHANGED <<caller, at, index, nworkers, failed, fault>>

Remove ==
    /\ Main("dispatch")
    /\ \E w \in 1..nworkers : <<"session", w>> \in alive /\ Freed({<<"session", w>>})
    /\ UNCHANGED <<caller, at, index, nworkers, failed, fault>>

Stopped ==
    /\ Main("dispatch")
    /\ Goto("fini") /\ caller' = "main"
    /\ UNCHANGED <<index, alive, known, nworkers, failed, fault>>

-----------------------------------------------------------------------------
(* http_service_fini, called by init on its label error, and by main.      *)

UpTo(kind) == {<<kind, w>> : w \in 1..nworkers}

FiniListeners == IF The("listeners") \in known
                 THEN {The("listeners")} \cup UpTo("listener") \cup UpTo("listening") ELSE {}

FiniStep(from, to, S) ==
    /\ Main(from) /\ Goto(to)
    /\ Freed(S)
    /\ UNCHANGED <<caller, index, nworkers, failed, fault>>

(* list_foreach_safe reads the head of a list that may be NULL. *)
FreeSessions ==
    \/ Main("fini") /\ The("list") \notin known /\ Faults
    \/ The("list") \in known /\ FiniStep("fini", "listeners_fini", {The("list")} \cup Of("session"))

FreeListeners ==
    /\ Main("listeners_fini") /\ Goto("workers_fini")
    /\ Freed(FiniListeners)
    /\ index' = 1
    /\ UNCHANGED <<caller, nworkers, failed, fault>>

(* The loop over the workers: one that is not NULL is given to worker_free. *)
FreeWorkers ==
    \/ /\ Main("workers_fini") /\ The("workers") \in known /\ index <= nworkers
       /\ IF <<"worker", index>> \in known
          THEN Goto("dnsbase_free") /\ UNCHANGED index
          ELSE index' = index + 1 /\ UNCHANGED at
       /\ UNCHANGED <<caller, alive, known, nworkers, failed, fault>>
    \/ /\ The("workers") \in known => index > nworkers
       /\ FiniStep("workers_fini", "events_fini", known \cap {The("workers")})

FreeEvents == FiniStep("events_fini", "base_fini", All({"ev_sigterm", "ev_sigint"}))

FreeBase == FiniStep("base_fini", "worker_fini", {The("ebase")})

(* Mutant: the key is not freed. *)
KeyKept ==
    /\ Main("worker_fini") /\ Freed({The("main_id")})
    /\ Goto(IF caller = "init" THEN "start" ELSE "over")
    /\ index' = 1
    /\ UNCHANGED <<caller, nworkers, failed, fault>>

(* Init returns to main, which starts the service; or main ends. *)
worker_fini ==
    /\ Main("worker_fini") /\ Freed(All({"main_id", "key"}))
    /\ Goto(IF caller = "init" THEN "start" ELSE "over")
    /\ index' = 1
    /\ UNCHANGED <<caller, nworkers, failed, fault>>

Next ==
    \/ worker_init \/ InitMakes \/ InitMakesListener \/ InitMakesWorkers
    \/ worker_new \/ WorkerFails \/ InitSucceeds \/ InitFails
    \/ StartWorker \/ Dispatch \/ Accept \/ Remove \/ Stopped
    \/ FreeDnsbase \/ FreeWorkerBase \/ FreeWorker
    \/ FreeSessions \/ FreeListeners \/ FreeWorkers \/ FreeEvents \/ FreeBase \/ worker_fini

Spec == Init /\ [][Next]_vars

-----------------------------------------------------------------------------
(* Properties.                                                             *)

TypeOK ==
    /\ at \in DOMAIN Follows \cup DOMAIN WorkerFollows
             \cup {"worker_init", "listener", "start", "dispatch", "dnsbase_free", "base_free",
                   "worker_free", "fini", "listeners_fini", "workers_fini", "events_fini",
                   "base_fini", "worker_fini", "over"}
    /\ caller \in {"nobody", "init", "main"}
    /\ index \in 1..NWorkers + 1 /\ nworkers \in {0, NWorkers}
    /\ alive \subseteq Thing /\ known \subseteq alive
    /\ failed \subseteq DOMAIN Follows \cup DOMAIN WorkerFollows
                     \cup {"worker_init", "listener", "workers", "notifiable"}
    /\ fault \in BOOLEAN

(* http_service.c:203-251, worker.c:98-147: what is registered with an     *)
(* event base is freed before that base: the listener and the connections  *)
(* of sessions before the workers, a worker's resolver before its base (in *)
(* finalisation, and when a later call of worker_new fails), the signal    *)
(* events before the base of main.                                         *)
BaseOf(x) == IF x[2] = 0 THEN The("ebase") ELSE <<"base", x[2]>>
OnBase == All({"ev_sigterm", "ev_sigint"}) \cup Of("dnsbase") \cup Of("listening") \cup Of("session")

BaseOutlives == TypeOK /\ \A x \in OnBase \cap alive : BaseOf(x) \in alive

(* tigera_webserver.c:131-133: main uses NULL as a pointer in no run in    *)
(* which every call of init has succeeded; in one in which init has failed *)
(* it may, since main starts and finalises the service whatever init       *)
(* returns.                                                                *)
FaultAfterFailure == fault => failed # {}

(* http_service.c:203-254: what is left when fini has returned.  The mutex *)
(* always is; the listeners are when init failed before it had set         *)
(* nworkers; the base of a worker is that was not made notifiable.         *)
LeftBehind ==
    IF failed = {} THEN All({"mutex"})
    ELSE All({"mutex"}) \cup (IF nworkers = 0 THEN Of("listener") ELSE {})
                       \cup (IF "notifiable" \in failed THEN Of("base") ELSE {})

AllFreed ==
    at = "over" \/ (at = "start" /\ caller = "init") => alive \subseteq LeftBehind

=============================================================================
