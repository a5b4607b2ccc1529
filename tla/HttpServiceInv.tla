--------------------------- MODULE HttpServiceInv ---------------------------
(***************************************************************************)
(* The inductive invariants behind the safety properties of HttpService.   *)
(* What depends on the order of the stop holds until thread_start or       *)
(* event_base_loopexit fails; the list, which no step follows once it is   *)
(* freed, keeps its shape whatever fails.                                  *)
(***************************************************************************)
EXTENDS HttpService

(* Types of what the order of start, stop and finalisation depends on. *)
ControlType ==
    /\ main \in MainState /\ failed \in BOOLEAN /\ at \in 1..NWorkers + 1
    /\ armed \subseteq Signals
    /\ worker \in [Workers -> WorkerState]
    /\ joins \in [Workers -> 0..2]
    /\ lock \in Workers \cup {Nobody}

AllExited == \A w \in Workers : worker[w] = "exited"

(* Which events are added tells how far the main thread has come. *)
ArmedInv ==
    /\ armed \in {Signals, {"SIGINT"}, {}}
    /\ main \in {"starting", "joining"} => armed = Signals
    /\ main = "stopping" /\ at <= NWorkers => armed = Signals
    /\ main = "stopping" => armed # {}
    /\ main = "dispatching" => armed # {"SIGINT"}
    /\ Finalising /\ ~failed => armed = {}

(* The workers below the counter have ended; the others were never joined. *)
JoinInv ==
    /\ main \in {"stopping", "joining"} =>
          \A w \in Workers : /\ w < at /\ ~failed => worker[w] = "exited"
                             /\ at <= w => joins[w] = 0
    /\ main \in {"starting", "dispatching"} /\ armed = Signals =>
          \A w \in Workers : joins[w] = 0
    /\ JoinOnce

(* The holder of the mutex is the one thread inside a critical section      *)
(* (http_service.c:33-35, 43-52).                                           *)
MutexInv == \A w \in Workers : worker[w] \in Critical <=> lock = w

(* A worker not started yet has no thread; one being joined is a worker. *)
StartInv ==
    /\ main = "starting" => \A w \in Workers : at <= w => worker[w] = "new"
    /\ main = "joining" => at <= NWorkers

ThreadInv == ControlType /\ StartInv /\ MutexInv

(* Once an event is removed, every worker's thread has ended, if all could *)
(* be stopped.                                                             *)
QuietInv == armed # Signals /\ ~failed => AllExited

StopInv == ThreadInv /\ ArmedInv /\ JoinInv /\ QuietInv

-----------------------------------------------------------------------------
(* The list of sessions.                                                   *)

Busy == {"add", "remove"} \cup Critical

(* A worker has a session at hand exactly inside a callback: one that it   *)
(* accepted, so that no two workers have the same.                         *)
JobInv ==
    \A w \in Workers :
        /\ job[w] = NULL <=> worker[w] \notin Busy
        /\ job[w] # NULL => owner[job[w]] = w /\ life[job[w]] # "none"

(* Whoever has half changed the list leaves it well linked. *)
Shaped ==
    /\ (\A w \in Workers : worker[w] \notin {"move_tail", "fix_back"}) => Good(list)
    /\ \A w \in Workers :
          /\ worker[w] = "move_tail" => Good(MoveTail(list, job[w]))
          /\ worker[w] = "fix_back" => /\ Good(FixBack(list, job[w]))
                                       /\ Members(FixBack(list, job[w])) = Members(list)

(* What a callback under way relies on. *)
Placed ==
    \A w \in Workers :
        /\ worker[w] \in {"add", "link"} => job[w] \notin Members(list)
        /\ worker[w] = "unlink" => job[w] \in Members(list)
        /\ worker[w] = "search" => cursor[w] \in Members(list) \cup {NULL}

Accepted == \A s \in Members(list) : life[s] # "none"

Tidy == Shaped /\ Placed

ListState == JobInv /\ Accepted /\ Tidy

(* Until http_service_fini begins, the sessions alive are those on the     *)
(* list, but for one about to be added and one about to be freed, and a    *)
(* search finds its session.                                               *)
Agreed ==
    /\ \A w \in Workers :
          /\ worker[w] \in {"remove", "search", "unlink"} => job[w] \in Members(list)
          /\ worker[w] = "search" => job[w] \in From(list.link, cursor[w])
          /\ worker[w] \in {"fix_back", "free"} => job[w] \notin Members(list)
          /\ job[w] # NULL => life[job[w]] = "live"
    /\ \A s \in Members(list) : life[s] = "live"
    /\ \A s \in Sessions : life[s] = "live" =>
          \/ s \in Members(list)
          \/ \E w \in Workers : job[w] = s /\ worker[w] \in {"add", "link", "fix_back", "free"}

(* http_service_fini has still to free what its loop has not come to.      *)
Freeing ==
    /\ main = "finalising" => cursor[Main] \in Members(list) \cup {NULL}
    /\ \A s \in Sessions :
          life[s] = "live" <=> main = "finalising" /\ s \in From(list.link, cursor[Main])

(* Nothing freed is used while all workers could be started and stopped. *)
Unharmed == ~failed => ~fault /\ \A s \in Sessions : life[s] # "freed_twice"

ListInv ==
    /\ TypeOK /\ ListState /\ Unharmed
    /\ ~Finalising => Agreed
    /\ Finalising /\ ~failed => Freeing

=============================================================================
