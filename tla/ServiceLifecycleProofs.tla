----------------------- MODULE ServiceLifecycleProofs -----------------------
(***************************************************************************)
(* What initialisation makes and finalisation frees, for every number of   *)
(* workers: bases outlive what is registered with them, nothing but what   *)
(* AllFreed names is left, and NULL is used only after a failure of init.  *)
(*                                                                         *)
(* The invariant says, for each place main can be at, which things the     *)
(* program has a pointer to and which are gone.                            *)
(***************************************************************************)
EXTENDS ServiceLifecycle, TLAPS

Before == {"worker_init", "list", "mutex", "ebase", "ev_sigterm", "add_sigterm", "ev_sigint",
           "add_sigint", "listeners", "listener"}
Creates == {"worker", "worker_base", "worker_dnsbase", "worker_options", "worker_thread"}
Working == Creates \cup {"start", "dispatch"}
Frees == {"dnsbase_free", "base_free", "worker_free"}
Past == {"listeners_fini", "workers_fini", "events_fini", "base_fini", "worker_fini", "over"}

WorkerParts(w) == {<<"worker", w>>, <<"base", w>>, <<"dnsbase", w>>, <<"thread", w>>}

(* worker_free has been called by http_service_fini. *)
Freeing == at \in Frees /\ caller # "nobody"

(* http_service_fini has returned. *)
Ended == at = "over" \/ (at = "start" /\ caller = "init")

PerWorker == {"worker", "base", "dnsbase", "thread", "session", "listening"}

(* Where main is, and what it is called by. *)
Control ==
    /\ at \in Before \cup Creates \cup {"dispatch"} => caller = "nobody"
    /\ at = "start" => caller \in {"nobody", "init"}
    /\ at = "over" => caller = "main"
    /\ at \in {"fini"} \cup Past => caller # "nobody"
    /\ caller = "init" => failed # {}
    /\ at \in Before => nworkers = 0
    /\ at \in Creates \cup Frees => nworkers = NWorkers
    /\ at \in (Creates \cup Frees) \ {"worker"} => index \in Workers
    /\ at \in Frees /\ caller = "nobody" => failed # {}
    /\ nworkers = 0 /\ at \notin Before => failed # {}

(* Pointers. *)
Pointers ==
    /\ \A x \in alive : x \in known \/ (x[1] = "base" /\ "notifiable" \in failed)
    /\ nworkers = 0 => \A x \in alive : x[1] \notin PerWorker
    /\ \A w \in Workers : <<"dnsbase", w>> \in known => <<"base", w>> \in known
    /\ \A w \in Workers, kind \in {"base", "dnsbase", "thread"} :
          <<kind, w>> \in known => <<"worker", w>> \in known
    /\ (nworkers = NWorkers /\ at \in Working \cup Frees \cup {"fini", "listeners_fini"} /\ ~Ended /\ ~Freeing)
       => The("listeners") \in known
    /\ (nworkers = NWorkers /\ at \in Working \cup Frees \cup {"fini", "listeners_fini", "workers_fini"} /\ ~Ended)
       => The("workers") \in known
    /\ at = "listener" => The("listeners") \in known
    /\ at \in Creates => \A w \in 1..(index - 1) : WorkerParts(w) \subseteq known
    /\ at \in Creates \ {"worker"} => <<"worker", index>> \in known
    /\ at \in Creates \ {"worker", "worker_base"} => <<"base", index>> \in known
    /\ at \in Creates \ {"worker", "worker_base", "worker_dnsbase"} => <<"dnsbase", index>> \in known
    /\ at \in {"start", "dispatch"} /\ ~Ended => \A w \in 1..nworkers : WorkerParts(w) \subseteq known

(* What is registered with a base. *)
Registered ==
    /\ \A w \in Workers : <<"session", w>> \in alive => at \in {"dispatch", "fini"}
    /\ \A w \in Workers : <<"listening", w>> \in alive => at \in {"start", "dispatch", "fini", "listeners_fini"}
    /\ \A w \in Workers : /\ <<"listening", w>> \in alive \/ <<"session", w>> \in alive
                             => caller # "init" /\ WorkerParts(w) \subseteq known
    /\ at \in {"ev_sigterm", "add_sigterm", "ev_sigint"} => The("ebase") \in known
    /\ The("ev_sigterm") \in alive \/ The("ev_sigint") \in alive => The("ebase") \in known

(* What http_service_fini, and worker_free, have freed. *)
Gone ==
    /\ at \in Past \/ Freeing \/ Ended => The("list") \notin alive
    /\ at \in Past \ {"listeners_fini"} \/ Freeing \/ Ended
       => /\ The("listeners") \notin alive
          /\ nworkers = NWorkers => \A w \in Workers : <<"listener", w>> \notin alive
    /\ at = "workers_fini" \/ Freeing
       => \A w \in 1..(index - 1) : \A kind \in PerWorker : <<kind, w>> \notin known
    /\ at \in Frees \ {"dnsbase_free"} => <<"dnsbase", index>> \notin known
    /\ at = "worker_free" => <<"base", index>> \notin known
    /\ at \in {"events_fini", "base_fini", "worker_fini", "over"} \/ Ended
       => /\ The("workers") \notin alive
          /\ \A x \in known : x[1] \notin PerWorker
    /\ at \in {"base_fini", "worker_fini", "over"} \/ Ended
       => The("ev_sigterm") \notin alive /\ The("ev_sigint") \notin alive
    /\ at \in {"worker_fini", "over"} \/ Ended => The("ebase") \notin alive
    /\ Ended => The("main_id") \notin alive /\ The("key") \notin alive

(* A run in which nothing has failed. *)
Unfailing ==
    failed = {} =>
        /\ ~fault
        /\ at \notin {"worker_init", "over"} => The("key") \in known
        /\ at \notin {"worker_init", "list"} \cup Frees \cup Past => The("list") \in known
        /\ at \in Working => The("ebase") \in known
        /\ at \in {"ev_sigterm", "add_sigterm", "ev_sigint", "add_sigint", "listeners", "listener"}
           => The("ebase") \in known

LInv == TypeOK /\ Control /\ Pointers /\ Registered /\ Gone /\ Unfailing

LEMMA worker_initInv ==
    ASSUME LInv, worker_init
    PROVE  LInv'
  <1>1. PICK S \in {{}, {"main_id"}, {"main_id", "key"}} :
          /\ at = "worker_init" /\ ~fault /\ at' = "list" /\ UNCHANGED <<caller, index, nworkers, fault>>
          /\ alive' = alive \cup All(S) /\ known' = known \cup All(S)
          /\ failed' = IF "key" \in S THEN {} ELSE {"worker_init"}
    BY DEF worker_init, Main, Made, Goto
  <1>2. (\A x \in All(S) : x = The("main_id") \/ x = The("key")) /\ ("key" \in S => The("key") \in All(S))
    BY DEF All
  <1>3. TypeOK'
    BY <1>1 DEF LInv, TypeOK, All, Single, Thing, Working, Past, Ended, Follows
  <1>4. Control'
    BY <1>1 DEF Creates, Frees, Freeing, LInv, Control, Past, Before
  <1>5. Pointers'
    BY <1>1, <1>2 DEF Creates, Frees, Freeing, LInv, Pointers, Working, Before, The, PerWorker, Control
  <1>6. Registered'
    BY <1>1, <1>2 DEF LInv, Registered, The
  <1>7. Gone'
    BY <1>1 DEF Creates, Frees, Freeing, LInv, Gone, Past, Ended
  <1>8. Unfailing'
    BY <1>1, <1>2 DEF Creates, Frees, Freeing, Unfailing, Working, Past
  <1> QED
    BY <1>3, <1>4, <1>5, <1>6, <1>7, <1>8 DEF LInv

LEMMA InitMakesInv ==
    ASSUME LInv, InitMakes
    PROVE  LInv'
  <1>1. /\ UNCHANGED <<caller, index, nworkers, failed, fault>>
        /\ \/ /\ at' = "mutex" /\ at = "list"
              /\ alive' = alive \cup {The("list")} /\ known' = known \cup {The("list")}
           \/ /\ at' = "ebase" /\ at = "mutex"
              /\ alive' = alive \cup {The("mutex")} /\ known' = known \cup {The("mutex")}
           \/ /\ at' = "ev_sigterm" /\ at = "ebase"
              /\ alive' = alive \cup {The("ebase")} /\ known' = known \cup {The("ebase")}
           \/ /\ at' = "add_sigterm" /\ at = "ev_sigterm"
              /\ alive' = alive \cup {The("ev_sigterm")} /\ known' = known \cup {The("ev_sigterm")}
           \/ /\ at' = "ev_sigint" /\ at = "add_sigterm" /\ UNCHANGED <<alive, known>>
           \/ /\ at' = "add_sigint" /\ at = "ev_sigint"
              /\ alive' = alive \cup {The("ev_sigint")} /\ known' = known \cup {The("ev_sigint")}
           \/ /\ at' = "listeners" /\ at = "add_sigint" /\ UNCHANGED <<alive, known>>
           \/ /\ at' = "listener" /\ at = "listeners"
              /\ alive' = alive \cup {The("listeners")} /\ known' = known \cup {The("listeners")}
    <2>1. at \in {"list", "mutex", "ebase", "ev_sigterm", "add_sigterm", "ev_sigint",
                  "add_sigint", "listeners"}
      BY DEF InitMakes, Follows
    <2>3. at' = Follows[at] /\ alive' = alive \cup Makes(at) /\ known' = known \cup Makes(at)
          /\ UNCHANGED <<caller, index, nworkers, failed, fault>>
      BY DEF InitMakes, Made, Goto
    <2>4. Makes(at) = IF at \in {"add_sigterm", "add_sigint"} THEN {} ELSE {The(at)}
      BY <2>1 DEF Makes, All, Single
    <2> QED
      BY <2>1, <2>3, <2>4 DEF Follows
  <1>2. TypeOK'
    <2>1. {The(kind) : kind \in Single} \subseteq Thing
      BY DEF Thing, All
    <2>2. at' \in DOMAIN Follows \cup {"listener"}
      BY <1>1 DEF Follows
    <2> QED
      BY <1>1, <2>1, <2>2 DEF LInv, TypeOK, Single
  <1>3. Control'
    BY <1>1 DEF Creates, Frees, Freeing, LInv, Control, Past, Before
  <1>4. Pointers'
    BY <1>1 DEF Creates, Frees, Freeing, LInv, Pointers, TypeOK, Control, The, Of,
       Before, Working, Past, Ended, PerWorker
  <1>5. Registered'
    BY <1>1 DEF LInv, Registered, TypeOK, Control, The, Of,
       Before, Working, Past, Ended, PerWorker
  <1>6. Gone'
    BY <1>1 DEF Creates, Frees, Freeing, LInv, Gone, TypeOK, Control, The, Of,
       Before, Working, Past, Ended, PerWorker
  <1>7. Unfailing'
    BY <1>1 DEF Creates, Frees, Freeing, LInv, Unfailing, TypeOK, Control, The, Of,
       Before, Working, Past, Ended, PerWorker
  <1> QED
    BY <1>2, <1>3, <1>4, <1>5, <1>6, <1>7 DEF LInv

LEMMA InitMakesListenerInv ==
    ASSUME LInv, InitMakesListener
    PROVE  LInv'
  <1>1. /\ at = "listener" /\ index \in Workers /\ index' = index + 1
        /\ UNCHANGED <<at, caller, nworkers, failed, fault>>
        /\ alive' = alive \cup {<<"listener", index>>} /\ known' = known \cup {<<"listener", index>>}
    BY LifecycleAssumption DEF LInv, TypeOK, InitMakesListener, Main, Made, Workers
  <1>2. TypeOK'
    BY <1>1, LifecycleAssumption DEF LInv, TypeOK, Workers, Of, Thing
  <1>3. Control'
    BY <1>1 DEF Creates, Frees, Freeing, LInv, Control
  <1>4. Pointers'
    BY <1>1 DEF Creates, Frees, Freeing, LInv, Pointers, Working, PerWorker
  <1>5. Registered'
    BY <1>1 DEF LInv, Registered, The
  <1>6. Gone'
    BY <1>1 DEF Creates, Frees, Freeing, LInv, Gone, Past, Ended
  <1>7. Unfailing'
    BY <1>1 DEF LInv, Unfailing
  <1> QED
    BY <1>2, <1>3, <1>4, <1>5, <1>6, <1>7 DEF LInv

LEMMA InitMakesWorkersInv ==
    ASSUME LInv, InitMakesWorkers
    PROVE  LInv'
  <1>1. /\ at = "listener" /\ caller' = caller /\ fault' = fault /\ index' = 1 /\ index = NWorkers + 1
        /\ \/ /\ alive' = alive \cup {The("workers")} /\ known' = known \cup {The("workers")}
              /\ nworkers' = NWorkers /\ at' = "worker" /\ failed' = failed
           \/ /\ at' = "start" /\ failed' = failed \cup {"workers"} /\ UNCHANGED <<alive, known, nworkers>>
    BY LifecycleAssumption DEF LInv, TypeOK, InitMakesWorkers, Main, Made, Goto
  <1>2. TypeOK'
    <2>1. "worker" \in DOMAIN WorkerFollows
      BY DEF WorkerFollows
    <2>2. The("workers") \in Thing /\ 1 \in 1..NWorkers + 1
      BY LifecycleAssumption DEF Thing, All, Single
    <2> QED
      BY <1>1, <2>1, <2>2 DEF LInv, TypeOK
  <1>3. Control'
    BY <1>1, LifecycleAssumption DEF Creates, Frees, Freeing, LInv, Control, Past, Before
  <1>4. Pointers'
    BY <1>1, LifecycleAssumption DEF Creates, Frees, Freeing, LInv, Pointers, Gone, Control, Registered, Unfailing, TypeOK,
       The, Ended, Working, PerWorker, Before
  <1>5. Registered'
    BY <1>1 DEF LInv, Registered, The
  <1>6. Gone'
    BY <1>1 DEF Creates, Frees, Freeing, LInv, Gone, Past, Before, Ended, Control
  <1>7. Unfailing'
    BY <1>1 DEF Creates, Frees, Freeing, LInv, Unfailing, Past
  <1> QED
    BY <1>2, <1>3, <1>4, <1>5, <1>6, <1>7 DEF LInv

LEMMA worker_newInv ==
    ASSUME LInv, worker_new
    PROVE  LInv'
  <1>1. /\ at \in Creates /\ index \in Workers /\ nworkers = NWorkers
        /\ UNCHANGED <<caller, nworkers, failed, fault>>
        /\ \/ /\ at = "worker" /\ at' = "worker_base" /\ index' = index
              /\ alive' = alive \cup {<<"worker", index>>} /\ known' = known \cup {<<"worker", index>>}
           \/ /\ at = "worker_base" /\ at' = "worker_dnsbase" /\ index' = index
              /\ alive' = alive \cup {<<"base", index>>} /\ known' = known \cup {<<"base", index>>}
           \/ /\ at = "worker_dnsbase" /\ at' = "worker_options" /\ index' = index
              /\ alive' = alive \cup {<<"dnsbase", index>>} /\ known' = known \cup {<<"dnsbase", index>>}
           \/ /\ at = "worker_options" /\ at' = "worker_thread" /\ index' = index
              /\ UNCHANGED <<alive, known>>
           \/ /\ at = "worker_thread" /\ at' = "worker" /\ index' = index + 1
              /\ alive' = alive \cup {<<"thread", index>>} /\ known' = known \cup {<<"thread", index>>}
    <2>1. at \in Creates /\ nworkers = NWorkers /\ index \in Workers
      BY LifecycleAssumption DEF worker_new, Creating, WorkerFollows, Creates, LInv, Control, TypeOK, Workers
    <2>2. /\ at' = WorkerFollows[at] /\ index' = IF at = "worker_thread" THEN index + 1 ELSE index
          /\ alive' = alive \cup {<<kind, index>> : kind \in WorkerMakes[at]}
          /\ known' = known \cup {<<kind, index>> : kind \in WorkerMakes[at]}
          /\ UNCHANGED <<caller, nworkers, failed, fault>>
      BY DEF worker_new, Made, Goto
    <2>3. {<<kind, index>> : kind \in WorkerMakes[at]}
          = IF at = "worker" THEN {<<"worker", index>>}
            ELSE IF at = "worker_base" THEN {<<"base", index>>}
            ELSE IF at = "worker_dnsbase" THEN {<<"dnsbase", index>>}
            ELSE IF at = "worker_thread" THEN {<<"thread", index>>} ELSE {}
      BY <2>1 DEF Creates, WorkerMakes
    <2> QED
      BY <2>1, <2>2, <2>3 DEF Creates, WorkerFollows
  <1>2. TypeOK'
    <2>1. /\ <<"worker", index>> \in Thing /\ <<"base", index>> \in Thing
          /\ <<"dnsbase", index>> \in Thing /\ <<"thread", index>> \in Thing
      BY <1>1 DEF Of, Thing
    <2>2. at' \in DOMAIN WorkerFollows
      BY <1>1 DEF WorkerFollows
    <2>3. index + 1 \in 1..NWorkers + 1
      BY <1>1, LifecycleAssumption DEF Workers
    <2>4. alive' \subseteq Thing /\ known' \subseteq alive' /\ index' \in 1..NWorkers + 1
      BY <1>1, <2>1, <2>3 DEF LInv, TypeOK
    <2> QED
      BY <1>1, <2>2, <2>4 DEF LInv, TypeOK
  <1>3. Control'
    BY <1>1 DEF LInv, Control, Creates, Frees, Past, Before
  <1>4. Pointers'
    <2>0. ~Ended /\ ~Ended' /\ ~Freeing /\ ~Freeing'
      BY <1>1 DEF Ended, Freeing, Creates, Frees
    <2>1. /\ \A x \in alive : x \in known \/ (x[1] = "base" /\ "notifiable" \in failed)
          /\ \A w \in Workers : <<"dnsbase", w>> \in known => <<"base", w>> \in known
          /\ \A w \in Workers, kind \in {"base", "dnsbase", "thread"} :
                <<kind, w>> \in known => <<"worker", w>> \in known
          /\ The("listeners") \in known /\ The("workers") \in known
          /\ at \in Creates \ {"worker"} => <<"worker", index>> \in known
          /\ at \in Creates \ {"worker", "worker_base"} => <<"base", index>> \in known
          /\ at \in Creates \ {"worker", "worker_base", "worker_dnsbase"} => <<"dnsbase", index>> \in known
          /\ \A w \in 1..(index - 1) : WorkerParts(w) \subseteq known
      BY <1>1, <2>0 DEF LInv, Pointers, Working
    <2>2. known \subseteq known' /\ nworkers # 0
      BY <1>1, LifecycleAssumption
    <2>3. /\ \A x \in alive' : x \in known' \/ (x[1] = "base" /\ "notifiable" \in failed')
          /\ The("listeners") \in known' /\ The("workers") \in known'
      BY <1>1, <2>1
    <2>4. /\ \A w \in Workers : <<"dnsbase", w>> \in known' => <<"base", w>> \in known'
          /\ \A w \in Workers, kind \in {"base", "dnsbase", "thread"} :
                <<kind, w>> \in known' => <<"worker", w>> \in known'
      BY <1>1, <2>1 DEF Creates
    <2>5. /\ at' \in Creates \ {"worker"} => <<"worker", index'>> \in known'
          /\ at' \in Creates \ {"worker", "worker_base"} => <<"base", index'>> \in known'
          /\ at' \in Creates \ {"worker", "worker_base", "worker_dnsbase"} => <<"dnsbase", index'>> \in known'
      BY <1>1, <2>1 DEF Creates
    <2>6. \A w \in 1..(index' - 1) : WorkerParts(w) \subseteq known'
      <3>1. CASE at = "worker_thread"
        <4>1. WorkerParts(index) \subseteq known'
          BY <1>1, <2>1, <3>1 DEF WorkerParts, Creates
        <4>2. \A w \in 1..(index' - 1) : w = index \/ w \in 1..(index - 1)
          BY <1>1, <3>1 DEF Workers
        <4> QED
          BY <2>1, <2>2, <4>1, <4>2
      <3>2. CASE at # "worker_thread"
        BY <1>1, <2>1, <2>2, <3>2
      <3> QED
        BY <3>1, <3>2
    <2>7. at' \in Creates
      BY <1>1 DEF Creates
    <2> QED
      BY <1>1, <2>0, <2>2, <2>3, <2>4, <2>5, <2>6, <2>7 DEF Pointers, Creates
  <1>5. Registered'
    BY <1>1 DEF LInv, Registered, The, WorkerParts, Creates
  <1>6. Gone'
    BY <1>1 DEF LInv, Gone, Past, Ended, Freeing, Creates, Frees
  <1>7. Unfailing'
    BY <1>1 DEF LInv, Unfailing, Creates, Working, Frees, Past
  <1> QED
    BY <1>2, <1>3, <1>4, <1>5, <1>6, <1>7 DEF LInv

LEMMA WorkerFailsInv ==
    ASSUME LInv, WorkerFails
    PROVE  LInv'
  <1>1. /\ at \in Creates /\ caller = "nobody" /\ index \in Workers /\ nworkers = NWorkers
        /\ UNCHANGED <<index, known, nworkers, fault>>
        /\ \/ UNCHANGED alive /\ failed' = failed \cup {at}
           \/ alive' = alive \cup {<<"base", index>>} /\ failed' = failed \cup {"notifiable"}
        /\ \/ at = "worker" /\ at' = "fini" /\ caller' = "init"
           \/ at' = "dnsbase_free" /\ caller' = caller
    BY LifecycleAssumption DEF LInv, TypeOK, Control, WorkerFails, Creating, WorkerFollows, Creates, Goto, Workers
  <1>2. TypeOK'
    <2>1. at \in DOMAIN WorkerFollows
      BY DEF WorkerFails, Creating
    <2> QED
      BY <1>1, <2>1 DEF LInv, TypeOK, Of, Thing
  <1>3. Control'
    BY <1>1 DEF LInv, Control, Before, Creates, Frees, Past
  <1>4. Pointers'
    <2>1. ~Ended /\ ~Ended' /\ ~Freeing /\ ~Freeing' /\ nworkers # 0
      BY <1>1, LifecycleAssumption DEF Ended, Freeing, Creates, Frees
    <2>2. The("listeners") \in known /\ The("workers") \in known
      BY <1>1, <2>1 DEF LInv, Pointers, Working
    <2> QED
      BY <1>1, <2>1, <2>2 DEF LInv, Pointers, Creates
  <1>5. Registered'
    BY <1>1 DEF LInv, Registered, The, Creates
  <1>6. Gone'
    BY <1>1 DEF LInv, Gone, Past, Ended, Freeing, Frees, Creates
  <1>7. Unfailing'
    BY <1>1 DEF LInv, Unfailing
  <1> QED
    BY <1>2, <1>3, <1>4, <1>5, <1>6, <1>7 DEF LInv

LEMMA FreeDnsbaseInv ==
    ASSUME LInv, FreeDnsbase
    PROVE  LInv'
  <1>1. /\ at = "dnsbase_free" /\ at' = "base_free" /\ index \in Workers
        /\ UNCHANGED <<caller, index, nworkers, failed, fault>>
        /\ alive' = alive \ (known \cap {<<"dnsbase", index>>})
        /\ known' = known \ {<<"dnsbase", index>>}
    BY DEF FreeDnsbase, WorkerFreeStep, Main, Goto, Freed, LInv, Control, Creates, Frees
  <1>2. TypeOK'
    BY <1>1 DEF LInv, TypeOK
  <1>3. Control'
    BY <1>1 DEF LInv, Control, Past, Before, Creates, Frees
  <1>4. Pointers'
    BY <1>1 DEF LInv, Pointers, Working, Creates, Frees, Freeing, Ended, The
  <1>5. Registered'
    BY <1>1 DEF LInv, Registered, The
  <1>6. Gone'
    BY <1>1 DEF LInv, Gone, Past, Ended, Freeing, Frees, The
  <1>7. Unfailing'
    BY <1>1 DEF LInv, Unfailing, Working, Past, The, Frees, Creates
  <1> QED
    BY <1>2, <1>3, <1>4, <1>5, <1>6, <1>7 DEF LInv

LEMMA FreeWorkerBaseInv ==
    ASSUME LInv, FreeWorkerBase
    PROVE  LInv'
  <1>1. /\ at = "base_free" /\ at' = "worker_free" /\ index \in Workers
        /\ UNCHANGED <<caller, index, nworkers, failed, fault>>
        /\ alive' = alive \ (known \cap {<<"base", index>>})
        /\ known' = known \ {<<"base", index>>}
        /\ <<"dnsbase", index>> \notin known
    BY DEF FreeWorkerBase, WorkerFreeStep, Main, Goto, Freed, LInv, Control, Creates, Frees, Gone
  <1>2. TypeOK'
    BY <1>1 DEF LInv, TypeOK
  <1>3. Control'
    BY <1>1 DEF LInv, Control, Past, Before, Creates, Frees
  <1>4. Pointers'
    BY <1>1 DEF LInv, Pointers, Working, Creates, Frees, Freeing, Ended, The
  <1>5. Registered'
    BY <1>1 DEF LInv, Registered, The
  <1>6. Gone'
    BY <1>1 DEF LInv, Gone, Past, Ended, Freeing, Frees, The
  <1>7. Unfailing'
    BY <1>1 DEF LInv, Unfailing, Working, Past, The, Frees, Creates
  <1> QED
    BY <1>2, <1>3, <1>4, <1>5, <1>6, <1>7 DEF LInv

LEMMA FreeWorkerInv ==
    ASSUME LInv, FreeWorker
    PROVE  LInv'
  <1>1. /\ at = "worker_free" /\ index \in Workers /\ nworkers = NWorkers
        /\ UNCHANGED <<nworkers, failed, fault>>
        /\ alive' = alive \ (known \cap {<<"thread", index>>, <<"worker", index>>})
        /\ known' = known \ {<<"thread", index>>, <<"worker", index>>}
        /\ \/ caller = "nobody" /\ at' = "fini" /\ caller' = "init" /\ index' = index
           \/ caller # "nobody" /\ at' = "workers_fini" /\ caller' = caller /\ index' = index + 1
        /\ <<"dnsbase", index>> \notin known /\ <<"base", index>> \notin known
    BY DEF FreeWorker, Main, Goto, Freed, LInv, Control, Creates, Frees, Gone
  <1>2. TypeOK'
    <2>1. index' \in 1..NWorkers + 1
      BY <1>1, LifecycleAssumption DEF Workers
    <2> QED
      BY <1>1, <2>1 DEF LInv, TypeOK
  <1>3. Control'
    BY <1>1, LifecycleAssumption DEF LInv, Control, Past, Before, Creates, Frees
  <1>4. Pointers'
    <2>1. ~Ended /\ ~Ended' /\ ~Freeing'
      BY <1>1 DEF Ended, Freeing, Frees
    <2> QED
      BY <1>1, <2>1 DEF LInv, Pointers, Working, Creates, Frees, Freeing, The
  <1>5. Registered'
    BY <1>1 DEF LInv, Registered, The
  <1>6. Gone'
    <2>1. ~Ended /\ ~Ended' /\ ~Freeing' /\ (caller # "nobody" => Freeing)
      BY <1>1 DEF Ended, Freeing, Frees
    <2>2. ASSUME caller # "nobody"
          PROVE  \A w \in 1..(index' - 1) : \A kind \in PerWorker : <<kind, w>> \notin known'
      <3>1. \A w \in 1..(index - 1) : \A kind \in PerWorker : <<kind, w>> \notin known
        BY <2>1, <2>2 DEF LInv, Gone
      <3>2. <<"session", index>> \notin known /\ <<"listening", index>> \notin known
        BY <1>1 DEF LInv, Registered, TypeOK
      <3>3. \A kind \in PerWorker : <<kind, index>> \notin known'
        BY <1>1, <3>2 DEF PerWorker
      <3>4. index' = index + 1
        BY <1>1, <2>2
      <3>5. \A w \in 1..(index' - 1) : w = index \/ w \in 1..(index - 1)
        BY <1>1, <3>4 DEF Workers
      <3>6. known' \subseteq known
        BY <1>1
      <3> QED
        BY <3>1, <3>3, <3>5, <3>6
    <2> QED
      BY <1>1, <2>1, <2>2 DEF LInv, Gone, Past, Frees, The
  <1>7. Unfailing'
    <2>1. caller = "nobody" => failed # {}
      BY <1>1 DEF LInv, Control, Frees
    <2> QED
      BY <1>1, <2>1 DEF LInv, Unfailing, Working, Past, The, Frees, Creates
  <1> QED
    BY <1>2, <1>3, <1>4, <1>5, <1>6, <1>7 DEF LInv

LEMMA InitSucceedsInv ==
    ASSUME LInv, InitSucceeds
    PROVE  LInv'
  <1>1. /\ at = "worker" /\ at' = "start" /\ caller = "nobody" /\ index = nworkers + 1 /\ index' = 1
        /\ UNCHANGED <<caller, alive, known, nworkers, failed, fault>>
    BY LifecycleAssumption DEF Creates, Frees, Freeing, LInv, TypeOK, Control, InitSucceeds, Main, Goto
  <1>2. TypeOK'
    BY <1>1 DEF LInv, TypeOK
  <1>3. Control'
    BY <1>1 DEF Creates, Frees, Freeing, LInv, Control, Past, Before
  <1>4. Pointers'
    <2>1. 1..(index - 1) = 1..nworkers /\ ~Ended /\ ~Ended'
      BY <1>1, LifecycleAssumption DEF LInv, TypeOK, Ended
    <2> QED
      BY <1>1, <2>1 DEF Creates, Frees, Freeing, LInv, Pointers, Working
  <1>5. Registered'
    BY <1>1 DEF LInv, Registered
  <1>6. Gone'
    BY <1>1 DEF Creates, Frees, Freeing, LInv, Gone, Past, Ended
  <1>7. Unfailing'
    BY <1>1 DEF Creates, Frees, Freeing, LInv, Unfailing, Working, Past
  <1> QED
    BY <1>2, <1>3, <1>4, <1>5, <1>6, <1>7 DEF LInv

LEMMA InitFailsInv ==
    ASSUME LInv, InitFails
    PROVE  LInv'
  <1>1. /\ at \in Before \ {"worker_init"} /\ at' = "fini" /\ caller' = "init" /\ failed' = failed \cup {at}
        /\ UNCHANGED <<index, alive, known, nworkers, fault>>
    BY DEF InitFails, Goto, Follows, Before
  <1>2. TypeOK'
    BY <1>1 DEF LInv, TypeOK, Before
  <1>3. Control'
    BY <1>1 DEF Creates, Frees, Freeing, LInv, Control, Before
  <1>4. Pointers'
    BY <1>1, LifecycleAssumption DEF Creates, Frees, Freeing, LInv, Pointers, Control
  <1>5. Registered'
    BY <1>1 DEF LInv, Registered, Before
  <1>6. Gone'
    BY <1>1 DEF Creates, Frees, Freeing, LInv, Gone, Past, Ended
  <1>7. Unfailing'
    BY <1>1 DEF LInv, Unfailing
  <1> QED
    BY <1>2, <1>3, <1>4, <1>5, <1>6, <1>7 DEF LInv

LEMMA StartWorkerInv ==
    ASSUME LInv, StartWorker
    PROVE  LInv'
  <1>1. /\ at = "start" /\ ~fault /\ index \in Workers /\ index <= nworkers /\ nworkers = NWorkers
        /\ UNCHANGED <<caller, at, nworkers, failed>>
        /\ \/ /\ alive' = alive \cup {<<"listening", index>>} /\ known' = known \cup {<<"listening", index>>}
              /\ {The("workers"), <<"worker", index>>, The("key")} \subseteq known
              /\ index' = index + 1 /\ fault' = fault
           \/ /\ ~({The("workers"), <<"worker", index>>, The("key")} \subseteq known)
              /\ fault' = TRUE /\ UNCHANGED <<index, alive, known>>
    BY LifecycleAssumption DEF LInv, TypeOK, StartWorker, Main, Made, Faults, Workers
  <1>2. The("workers") \in known => ~Ended
    BY <1>1 DEF LInv, Gone, Ended, TypeOK
  <1>3. TypeOK'
    <2>1. <<"listening", index>> \in Thing /\ (fault' = fault => index' \in 1..NWorkers + 1)
      BY <1>1, LifecycleAssumption DEF Thing, Of, Workers, LInv, TypeOK
    <2> QED
      BY <1>1, <2>1 DEF LInv, TypeOK
  <1>4. Control'
    BY <1>1 DEF Creates, Frees, Freeing, LInv, Control
  <1>5. Pointers'
    BY <1>1, LifecycleAssumption DEF Creates, Frees, Freeing, LInv, Pointers, Ended
  <1>6. Registered'
    BY <1>1, <1>2 DEF LInv, Registered, Pointers, Control, TypeOK, The, WorkerParts, Ended, Workers
  <1>7. Gone'
    BY <1>1, <1>2 DEF Creates, Frees, Freeing, LInv, Gone, Past, Ended
  <1>8. Unfailing'
    <2> SUFFICES ASSUME failed = {} PROVE Unfailing'
      BY <1>1 DEF Unfailing
    <2>1. ~Ended
      BY <1>1 DEF LInv, Control, Ended
    <2>2. WorkerParts(index) \subseteq known /\ The("workers") \in known /\ The("key") \in known
      BY <1>1, <2>1 DEF LInv, Pointers, Unfailing, Working, Workers
    <2>3. ~fault'
      BY <1>1, <2>2 DEF WorkerParts
    <2> QED
      BY <1>1, <2>3 DEF LInv, Unfailing
  <1> QED
    BY <1>3, <1>4, <1>5, <1>6, <1>7, <1>8 DEF LInv

LEMMA DispatchInv ==
    ASSUME LInv, Dispatch
    PROVE  LInv'
  <1>1. /\ at = "start" /\ ~fault /\ index > nworkers
        /\ UNCHANGED <<caller, index, alive, known, nworkers, failed>>
        /\ \/ at' = "dispatch" /\ fault' = fault /\ The("ebase") \in known
           \/ at' = at /\ fault' = TRUE /\ The("ebase") \notin known
    BY DEF Dispatch, Main, Goto, Faults
  <1>2. The("ebase") \in known => ~Ended
    BY <1>1 DEF LInv, Gone, Ended, TypeOK
  <1>3. TypeOK'
    BY <1>1 DEF LInv, TypeOK
  <1>4. Control'
    BY <1>1, <1>2 DEF Creates, Frees, Freeing, LInv, Control, Before, Past, Ended
  <1>5. Pointers'
    BY <1>1, <1>2 DEF Creates, Frees, Freeing, LInv, Pointers, Control, Working, Ended
  <1>6. Registered'
    BY <1>1 DEF LInv, Registered
  <1>7. Gone'
    BY <1>1 DEF Creates, Frees, Freeing, LInv, Gone, Past, Ended
  <1>8. Unfailing'
    BY <1>1 DEF Creates, Frees, Freeing, LInv, Unfailing, Working, Past
  <1> QED
    BY <1>3, <1>4, <1>5, <1>6, <1>7, <1>8 DEF LInv

LEMMA AcceptInv ==
    ASSUME LInv, Accept
    PROVE  LInv'
  <1>1. PICK w \in 1..nworkers :
          /\ at = "dispatch" /\ alive' = alive \cup {<<"session", w>>} /\ known' = known \cup {<<"session", w>>}
          /\ UNCHANGED <<at, caller, index, nworkers, failed, fault>>
    BY DEF Accept, Main, Made
  <1>2. nworkers = NWorkers /\ w \in Workers
    BY <1>1, LifecycleAssumption DEF LInv, TypeOK, Workers
  <1>3. TypeOK'
    BY <1>1 DEF LInv, TypeOK, Workers, Of, Thing
  <1>4. Control'
    BY <1>1 DEF LInv, Control
  <1>5. Pointers'
    BY <1>1 DEF Creates, Frees, Freeing, LInv, Pointers, Ended
  <1>6. Registered'
    BY <1>1 DEF LInv, Registered, Ended, The, Control, Pointers
  <1>7. Gone'
    BY <1>1 DEF Creates, Frees, Freeing, LInv, Gone, Past, Ended
  <1>8. Unfailing'
    BY <1>1 DEF LInv, Unfailing
  <1> QED
    BY <1>3, <1>4, <1>5, <1>6, <1>7, <1>8 DEF LInv

LEMMA RemoveInv ==
    ASSUME LInv, Remove
    PROVE  LInv'
  <1>1. PICK w \in 1..nworkers :
          /\ at = "dispatch" /\ alive' = alive \ {<<"session", w>>} /\ known' = known \ {<<"session", w>>}
          /\ UNCHANGED <<at, caller, index, nworkers, failed, fault>>
    BY DEF Remove, Main, Freed
  <1>2. TypeOK'
    BY <1>1 DEF LInv, TypeOK
  <1>3. Control'
    BY <1>1 DEF LInv, Control
  <1>4. Pointers'
    BY <1>1 DEF Creates, Frees, Freeing, LInv, Pointers, Ended, The, WorkerParts
  <1>5. Registered'
    <2>1. /\ \A v \in Workers : WorkerParts(v) \subseteq known => WorkerParts(v) \subseteq known'
          /\ The("ebase") \in known => The("ebase") \in known'
      BY <1>1 DEF WorkerParts, The
    <2> QED
      BY <1>1, <2>1 DEF LInv, Registered
  <1>6. Gone'
    BY <1>1 DEF Creates, Frees, Freeing, LInv, Gone, Ended
  <1>7. Unfailing'
    BY <1>1 DEF LInv, Unfailing, The
  <1> QED
    BY <1>2, <1>3, <1>4, <1>5, <1>6, <1>7 DEF LInv

LEMMA StoppedInv ==
    ASSUME LInv, Stopped
    PROVE  LInv'
  <1>1. /\ at = "dispatch" /\ at' = "fini" /\ caller' = "main"
        /\ UNCHANGED <<index, alive, known, nworkers, failed, fault>>
    BY DEF Stopped, Main, Goto
  <1>2. TypeOK'
    BY <1>1 DEF LInv, TypeOK
  <1>3. Control'
    BY <1>1 DEF Creates, Frees, Freeing, LInv, Control, Before
  <1>4. Pointers'
    BY <1>1 DEF Creates, Frees, Freeing, LInv, Pointers, Working, Ended
  <1>5. Registered'
    BY <1>1 DEF LInv, Registered
  <1>6. Gone'
    BY <1>1 DEF Creates, Frees, Freeing, LInv, Gone, Past, Ended
  <1>7. Unfailing'
    BY <1>1 DEF Creates, Frees, Freeing, LInv, Unfailing, Working, Past
  <1> QED
    BY <1>2, <1>3, <1>4, <1>5, <1>6, <1>7 DEF LInv

LEMMA FreeSessionsInv ==
    ASSUME LInv, FreeSessions
    PROVE  LInv'
  <1>1. /\ at = "fini" /\ ~fault /\ UNCHANGED <<caller, index, nworkers, failed>>
        /\ \/ /\ at' = "listeners_fini" /\ fault' = fault
              /\ alive' = alive \ ({The("list")} \cup Of("session"))
              /\ known' = known \ ({The("list")} \cup Of("session"))
           \/ The("list") \notin known /\ at' = at /\ fault' = TRUE /\ UNCHANGED <<alive, known>>
    BY DEF FreeSessions, FiniStep, Main, Goto, Freed, Faults
  <1>2. TypeOK'
    BY <1>1 DEF LInv, TypeOK
  <1>3. Control'
    BY <1>1 DEF Creates, Frees, Freeing, LInv, Control, Before
  <1>4. Pointers'
    BY <1>1 DEF Creates, Frees, Freeing, LInv, Pointers, Ended, The, WorkerParts, Of
  <1>5. Registered'
    <2>1. \A w \in Workers : <<"session", w>> \in Of("session")
      BY DEF Of
    <2>2. /\ \A w \in Workers : WorkerParts(w) \subseteq known => WorkerParts(w) \subseteq known'
          /\ The("ebase") \in known => The("ebase") \in known'
      BY <1>1 DEF Of, WorkerParts, The
    <2> QED
      BY <1>1, <2>1, <2>2 DEF LInv, Registered
  <1>6. Gone'
    BY <1>1 DEF Creates, Frees, Freeing, LInv, Gone, Ended
  <1>7. Unfailing'
    <2>1. fault' = fault \/ failed # {}
      BY <1>1 DEF Creates, Frees, Freeing, LInv, Unfailing, Past
    <2> QED
      BY <1>1, <2>1 DEF Creates, Frees, Freeing, LInv, Unfailing, Working, Past, Of, The
  <1> QED
    BY <1>2, <1>3, <1>4, <1>5, <1>6, <1>7 DEF LInv

LEMMA FreeListenersInv ==
    ASSUME LInv, FreeListeners
    PROVE  LInv'
  <1>1. /\ at = "listeners_fini" /\ at' = "workers_fini" /\ index' = 1
        /\ UNCHANGED <<caller, nworkers, failed, fault>>
        /\ alive' = alive \ FiniListeners /\ known' = known \ FiniListeners
    BY DEF FreeListeners, Main, Goto, Freed
  <1>2. \A x \in FiniListeners : x = The("listeners") \/ x[1] \in {"listener", "listening"}
    BY DEF FiniListeners, UpTo, The
  <1>3. TypeOK'
    BY <1>1, LifecycleAssumption DEF LInv, TypeOK
  <1>4. Control'
    BY <1>1 DEF LInv, Control, Past, Before, Creates, Frees
  <1>5. Pointers'
    BY <1>1, <1>2 DEF LInv, Pointers, Working, Ended, The, Creates, Frees, Freeing
  <1>6. Registered'
    BY <1>1, <1>2, LifecycleAssumption DEF LInv, TypeOK, Pointers, Registered, The, Workers, Before,
       Working, Past, Ended, Freeing, Frees, PerWorker, Follows, FiniListeners, UpTo
  <1>7. Gone'
    BY <1>1 DEF LInv, Gone, Past, Ended, The, Workers, Pointers, FiniListeners, UpTo, Freeing, Frees
  <1>8. Unfailing'
    BY <1>1, <1>2 DEF LInv, Unfailing, Working, Past, The, Frees, Creates
  <1> QED
    BY <1>3, <1>4, <1>5, <1>6, <1>7, <1>8 DEF LInv

LEMMA FreeWorkersInv ==
    ASSUME LInv, FreeWorkers
    PROVE  LInv'
  <1>1. /\ at = "workers_fini" /\ caller # "nobody" /\ index \in 1..NWorkers + 1
        /\ UNCHANGED <<caller, nworkers, failed, fault>>
    BY DEF FreeWorkers, FiniStep, Main, LInv, Control, TypeOK, Past
  <1>2. CASE /\ The("workers") \in known /\ index <= nworkers /\ <<"worker", index>> \in known
             /\ at' = "dnsbase_free" /\ UNCHANGED <<index, alive, known>>
    <2>1. index \in Workers /\ nworkers = NWorkers
      BY <1>1, <1>2, LifecycleAssumption DEF LInv, TypeOK, Workers
    <2>2. TypeOK'
      BY <1>1, <1>2 DEF LInv, TypeOK
    <2>3. Control'
      BY <1>1, <1>2, <2>1 DEF LInv, Control, Creates, Frees, Past, Before
    <2>4. Pointers'
      BY <1>1, <1>2 DEF LInv, Pointers, Freeing, Creates, Frees, Working, Ended
    <2>5. Registered'
      BY <1>1, <1>2 DEF LInv, Registered
    <2>6. Gone'
      BY <1>1, <1>2 DEF LInv, Gone, Past, Frees, Freeing, Ended
    <2>7. Unfailing'
      BY <1>1, <1>2 DEF LInv, Unfailing, Past, Frees, Working, Creates
    <2> QED
      BY <2>2, <2>3, <2>4, <2>5, <2>6, <2>7 DEF LInv
  <1>3. CASE /\ index <= nworkers /\ <<"worker", index>> \notin known
             /\ index' = index + 1 /\ UNCHANGED <<at, alive, known>>
    <2>1. index \in Workers /\ nworkers = NWorkers
      BY <1>1, <1>3, LifecycleAssumption DEF LInv, TypeOK, Workers
    <2>2. TypeOK'
      BY <1>1, <1>3, <2>1, LifecycleAssumption DEF LInv, TypeOK, Workers
    <2>3. Control'
      BY <1>1, <1>3, <2>1 DEF LInv, Control, Creates, Frees
    <2>4. Pointers'
      BY <1>1, <1>3 DEF LInv, Pointers, Freeing, Creates, Frees, Working, Ended
    <2>5. Registered'
      BY <1>1, <1>3 DEF LInv, Registered
    <2>6. \A w \in 1..(index' - 1) : \A kind \in PerWorker : <<kind, w>> \notin known'
      <3>1. \A w \in 1..(index - 1) : \A kind \in PerWorker : <<kind, w>> \notin known
        BY <1>1 DEF LInv, Gone
      <3>2. <<"session", index>> \notin known /\ <<"listening", index>> \notin known
        BY <1>1, <2>1 DEF LInv, Registered, TypeOK
      <3>3. \A kind \in {"base", "dnsbase", "thread"} : <<kind, index>> \notin known
        BY <1>3, <2>1 DEF LInv, Pointers
      <3>4. \A kind \in PerWorker : <<kind, index>> \notin known
        BY <1>3, <3>2, <3>3 DEF PerWorker
      <3>5. \A w \in 1..(index' - 1) : w = index \/ w \in 1..(index - 1)
        BY <1>1, <1>3
      <3> QED
        BY <1>3, <3>1, <3>4, <3>5
    <2>7. Gone'
      BY <1>1, <1>3, <2>6 DEF LInv, Gone, Past, Frees, Freeing, Ended
    <2>8. Unfailing'
      BY <1>1, <1>3 DEF LInv, Unfailing
    <2> QED
      BY <2>2, <2>3, <2>4, <2>5, <2>7, <2>8 DEF LInv
  <1>4. CASE /\ The("workers") \in known => index > nworkers
             /\ at' = "events_fini" /\ index' = index
             /\ alive' = alive \ (known \cap {The("workers")}) /\ known' = known \ {The("workers")}
    <2>1. TypeOK'
      BY <1>1, <1>4 DEF LInv, TypeOK
    <2>2. Control'
      BY <1>1, <1>4 DEF LInv, Control, Past, Before, Creates, Frees
    <2>3. Pointers'
      BY <1>1, <1>4 DEF LInv, Pointers, Working, The, Creates, Frees, Freeing, Ended
    <2>4. Registered'
      BY <1>1, <1>4 DEF LInv, Registered, The
    <2>5. ASSUME NEW x \in known, x[1] \in PerWorker PROVE FALSE
      <3>1. nworkers = NWorkers
        BY <2>5 DEF LInv, TypeOK, Pointers
      <3>2. The("workers") \in known
        BY <1>1, <3>1 DEF LInv, Pointers, Ended
      <3>3. PICK w \in Workers, kind \in PerWorker : x = <<kind, w>>
        BY <2>5 DEF LInv, TypeOK, Thing, All, Single, Of, PerWorker, The
      <3>4. w \in 1..(index - 1)
        BY <1>1, <1>4, <3>1, <3>2, <3>3, LifecycleAssumption DEF Workers
      <3>5. \A v \in 1..(index - 1) : \A k \in PerWorker : <<k, v>> \notin known
        BY <1>1 DEF LInv, Gone
      <3> QED
        BY <2>5, <3>3, <3>4, <3>5
    <2>6. The("workers") \in alive => The("workers") \in known
      BY DEF LInv, Pointers, The
    <2>7. Gone'
      BY <1>1, <1>4, <2>5, <2>6 DEF LInv, Gone, Past, Ended, Freeing, Frees
    <2>8. Unfailing'
      BY <1>1, <1>4 DEF LInv, Unfailing, Working, Past, The, Frees, Creates
    <2> QED
      BY <2>1, <2>2, <2>3, <2>4, <2>7, <2>8 DEF LInv
  <1> QED
    BY <1>2, <1>3, <1>4 DEF FreeWorkers, FiniStep, Main, Goto, Freed

LEMMA FreeEventsInv ==
    ASSUME LInv, FreeEvents
    PROVE  LInv'
  <1>1. /\ at = "events_fini" /\ at' = "base_fini" /\ UNCHANGED <<caller, index, nworkers, failed, fault>>
        /\ alive' = alive \ {The("ev_sigterm"), The("ev_sigint")}
        /\ known' = known \ {The("ev_sigterm"), The("ev_sigint")}
    BY DEF FreeEvents, FiniStep, Main, Goto, Freed, All
  <1>2. TypeOK'
    BY <1>1 DEF LInv, TypeOK
  <1>3. Control'
    BY <1>1 DEF Creates, Frees, Freeing, LInv, Control, Past, Before
  <1>4. Pointers'
    BY <1>1 DEF Creates, Frees, Freeing, LInv, Pointers, Working, The, WorkerParts
  <1>5. Registered'
    BY <1>1 DEF LInv, Registered
  <1>6. Gone'
    BY <1>1 DEF Creates, Frees, Freeing, LInv, Gone, Past, Ended
  <1>7. Unfailing'
    BY <1>1 DEF Creates, Frees, Freeing, LInv, Unfailing, Working, Past, The
  <1> QED
    BY <1>2, <1>3, <1>4, <1>5, <1>6, <1>7 DEF LInv

LEMMA FreeBaseInv ==
    ASSUME LInv, FreeBase
    PROVE  LInv'
  <1>1. /\ at = "base_fini" /\ at' = "worker_fini" /\ UNCHANGED <<caller, index, nworkers, failed, fault>>
        /\ alive' = alive \ {The("ebase")} /\ known' = known \ {The("ebase")}
    BY DEF FreeBase, FiniStep, Main, Goto, Freed
  <1>2. TypeOK'
    BY <1>1 DEF LInv, TypeOK
  <1>3. Control'
    BY <1>1 DEF Creates, Frees, Freeing, LInv, Control, Past, Before
  <1>4. Pointers'
    BY <1>1 DEF Creates, Frees, Freeing, LInv, Pointers, Working, The, WorkerParts
  <1>5. Registered'
    <2>1. \A w \in Workers : <<"session", w>> \notin alive /\ <<"listening", w>> \notin alive
      BY <1>1 DEF LInv, Registered
    <2>2. The("ev_sigterm") \notin alive /\ The("ev_sigint") \notin alive
      BY <1>1 DEF LInv, Gone
    <2> QED
      BY <1>1, <2>1, <2>2 DEF LInv, Registered
  <1>6. Gone'
    BY <1>1 DEF Creates, Frees, Freeing, LInv, Gone, Past, Ended
  <1>7. Unfailing'
    BY <1>1 DEF Creates, Frees, Freeing, LInv, Unfailing, Working, Past, The
  <1> QED
    BY <1>2, <1>3, <1>4, <1>5, <1>6, <1>7 DEF LInv

LEMMA worker_finiInv ==
    ASSUME LInv, worker_fini
    PROVE  LInv'
  <1>1. /\ at = "worker_fini" /\ at' = (IF caller = "init" THEN "start" ELSE "over") /\ index' = 1
        /\ UNCHANGED <<caller, nworkers, failed, fault>>
        /\ alive' = alive \ {The("main_id"), The("key")} /\ known' = known \ {The("main_id"), The("key")}
    BY DEF worker_fini, Main, Goto, Freed, All
  <1>2. TypeOK'
    BY <1>1, LifecycleAssumption DEF LInv, TypeOK
  <1>3. Control'
    BY <1>1 DEF Creates, Frees, Freeing, LInv, Control, Past, Before, TypeOK
  <1>4. Pointers'
    BY <1>1 DEF Creates, Frees, Freeing, LInv, Pointers, Ended, The, WorkerParts
  <1>5. Registered'
    BY <1>1 DEF LInv, Registered, The
  <1>6. Gone'
    BY <1>1 DEF Creates, Frees, Freeing, LInv, Gone, Past
  <1>7. Unfailing'
    BY <1>1 DEF Creates, Frees, Freeing, LInv, Unfailing, Working, Past, Control
  <1> QED
    BY <1>2, <1>3, <1>4, <1>5, <1>6, <1>7 DEF LInv

-----------------------------------------------------------------------------
(* The invariant, and what follows from it.                                *)

LEMMA InitInv == Init => LInv
  <1> SUFFICES ASSUME Init PROVE LInv
    OBVIOUS
  <1>1. TypeOK
    <2>1. 1 \in 1..NWorkers + 1
      BY LifecycleAssumption
    <2>2. alive \subseteq Thing /\ known \subseteq alive /\ failed = {}
      BY DEF Init
    <2> QED
      BY <2>1, <2>2 DEF Init, TypeOK
  <1>2. Control
    BY DEF Creates, Frees, Freeing, Init, Control, Before, Past
  <1>3. Pointers
    BY LifecycleAssumption DEF Creates, Frees, Freeing, Init, Pointers, Working
  <1>4. Registered /\ Gone /\ Unfailing
    BY DEF Creates, Frees, Freeing, Init, Registered, Gone, Unfailing, Past, Working, Ended
  <1> QED
    BY <1>1, <1>2, <1>3, <1>4 DEF LInv

LEMMA NextInv == LInv /\ [Next]_vars => LInv'
  <1> SUFFICES ASSUME LInv, [Next]_vars PROVE LInv'
    OBVIOUS
  <1>1. CASE UNCHANGED vars
    BY <1>1 DEF Creates, Frees, Freeing, vars, LInv, TypeOK, Control, Pointers, Registered, Gone, Unfailing, Ended
  <1>2. CASE worker_init \/ InitMakes \/ InitMakesListener \/ InitMakesWorkers
    BY <1>2, worker_initInv, InitMakesInv, InitMakesListenerInv, InitMakesWorkersInv
  <1>3. CASE worker_new \/ WorkerFails \/ InitSucceeds \/ InitFails
    BY <1>3, worker_newInv, WorkerFailsInv, InitSucceedsInv, InitFailsInv
  <1>6. CASE FreeDnsbase \/ FreeWorkerBase \/ FreeWorker
    BY <1>6, FreeDnsbaseInv, FreeWorkerBaseInv, FreeWorkerInv
  <1>4. CASE StartWorker \/ Dispatch \/ Accept \/ Remove \/ Stopped
    BY <1>4, StartWorkerInv, DispatchInv, AcceptInv, RemoveInv, StoppedInv
  <1>5. CASE FreeSessions \/ FreeListeners \/ FreeWorkers \/ FreeEvents \/ FreeBase \/ worker_fini
    BY <1>5, FreeSessionsInv, FreeListenersInv, FreeWorkersInv, FreeEventsInv, FreeBaseInv,
       worker_finiInv
  <1> QED
    BY <1>1, <1>2, <1>3, <1>4, <1>5, <1>6 DEF Next

LEMMA Invariance == Spec => []LInv
  BY InitInv, NextInv, PTL DEF Spec

(* http_service.c:214-251, worker.c:140-147: a base is freed after what is *)
(* registered with it, also when init has failed half way.                 *)
THEOREM BasesFreedLast == Spec => []BaseOutlives
  <1>1. ASSUME LInv, NEW x \in OnBase \cap alive PROVE BaseOf(x) \in alive
    <2>1. known \subseteq alive
      BY <1>1 DEF LInv, TypeOK
    <2>2. CASE x \in All({"ev_sigterm", "ev_sigint"})
      <3>1. x = The("ev_sigterm") \/ x = The("ev_sigint")
        BY <2>2 DEF All
      <3> QED
        BY <1>1, <2>1, <3>1 DEF LInv, Registered, BaseOf, The
    <2>3. ASSUME NEW w \in Workers, x = <<"dnsbase", w>> PROVE BaseOf(x) \in alive
      <3>1. <<"dnsbase", w>> \in known
        BY <1>1, <2>3 DEF LInv, Pointers
      <3>2. <<"base", w>> \in known
        BY <1>1, <3>1 DEF LInv, Pointers
      <3> QED
        BY <2>1, <2>3, <3>2 DEF BaseOf, Workers
    <2>4. ASSUME NEW w \in Workers, x = <<"listening", w>> \/ x = <<"session", w>>
          PROVE  BaseOf(x) \in alive
      <3>1. WorkerParts(w) \subseteq known
        BY <1>1, <2>4 DEF LInv, Registered
      <3> QED
        BY <2>1, <2>4, <3>1 DEF WorkerParts, BaseOf, Workers
    <2> QED
      BY <2>2, <2>3, <2>4 DEF OnBase, Of
  <1>2. LInv => BaseOutlives
    BY <1>1 DEF LInv, BaseOutlives
  <1> QED
    BY <1>2, Invariance, PTL

(* tigera_webserver.c:131-133: if every call of init succeeds, main uses   *)
(* no NULL pointer, whenever it is stopped.                                *)
THEOREM NoFaultUnlessFailed == Spec => []FaultAfterFailure
  <1>1. LInv => FaultAfterFailure
    BY DEF LInv, Unfailing, FaultAfterFailure
  <1> QED
    BY <1>1, Invariance, PTL

(* http_service.c:203-254: what http_service_fini leaves allocated.        *)
THEOREM NothingElseLeft == Spec => []AllFreed
  <1>1. ASSUME LInv, Ended, NEW x \in alive PROVE x \in LeftBehind
    <2>1. /\ x \in Thing
          /\ x \in known \/ (x[1] = "base" /\ "notifiable" \in failed)
          /\ nworkers \in {0, NWorkers} /\ (nworkers = 0 => failed # {})
      BY <1>1 DEF LInv, TypeOK, Pointers, Control, Before, Ended, Follows
    <2>2. CASE \E kind \in Single : x = The(kind)
      <3>1. x # The("list") /\ x # The("listeners") /\ x # The("workers") /\ x # The("ev_sigterm")
            /\ x # The("ev_sigint") /\ x # The("ebase") /\ x # The("main_id") /\ x # The("key")
        BY <1>1 DEF LInv, Gone
      <3>2. x = The("mutex")
        BY <2>2, <3>1 DEF Single
      <3> QED
        BY <3>2 DEF LeftBehind, All
    <2>3. ASSUME NEW w \in Workers, x = <<"listener", w>> PROVE x \in LeftBehind
      <3>1. nworkers = 0
        BY <1>1, <2>1, <2>3 DEF LInv, Gone
      <3> QED
        BY <2>1, <2>3, <3>1 DEF LeftBehind, Of
    <2>4. ASSUME NEW w \in Workers, NEW kind \in PerWorker, x = <<kind, w>> PROVE x \in LeftBehind
      <3>1. x \notin known
        BY <1>1, <2>4 DEF LInv, Gone
      <3>2. kind = "base" /\ "notifiable" \in failed
        BY <2>1, <2>4, <3>1
      <3> QED
        BY <2>4, <3>2 DEF LeftBehind, Of
    <2> QED
      BY <2>1, <2>2, <2>3, <2>4 DEF Thing, All, Of, PerWorker
  <1>2. LInv => AllFreed
    BY <1>1 DEF AllFreed, Ended
  <1> QED
    BY <1>2, Invariance, PTL

=============================================================================
