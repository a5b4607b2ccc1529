-------------------------- MODULE TcpSocketProofs ---------------------------
(***************************************************************************)
(* Who owns a descriptor, a bufferevent and a channel, for every set of    *)
(* sessions, listeners and descriptors.                                    *)
(*                                                                         *)
(* The properties of TcpSocket are not inductive: that a handler's         *)
(* descriptor has no second owner needs to know, at each of its steps,     *)
(* what its channel holds already.  IInv says so, up to the first block    *)
(* that is freed twice; the ownership of descriptors survives even that.   *)
(***************************************************************************)
EXTENDS TcpSocket, TLAPS

Resting == {"start", "idle", "gone"}

(* A channel no handler works on: held by its session, or without a        *)
(* bufferevent, or lost.                                                   *)
SlotRest(s, i) ==
    LET c == <<s, i>> IN
    /\ (block[c] = "live") = (i \in held[s])
    /\ i \in held[s] => bev[c] = "live" /\ field[c] = "bev"
    /\ i \notin held[s] => /\ field[c] = "NULL"
                           /\ bev[c] = "live" => block[c] = "none" /\ i = "CLIENT"
    /\ block[c] = "none" /\ i # "CLIENT" => bev[c] = "none"

(* The channel the handler of s works on, at each step of the handler.     *)
Accepting == {"accept_cb", "accept", "accept_config", "session_new"}

Stage(s) ==
    LET c == Chan(s) IN
    /\ at[s] \in Accepting => held[s] = {} /\ slot[s] = "CLIENT"
    /\ at[s] = "accept_cb" => bev[c] = "none" /\ block[c] = "none" /\ field[c] = "NULL"
    /\ at[s] = "accept" => bev[c] = "live" /\ block[c] = "none" /\ field[c] = "NULL"
    /\ at[s] \in {"accept_config", "session_new", "connect_config", "connect_socket"}
       => bev[c] = "live" /\ block[c] = "live" /\ field[c] = "bev"
    /\ at[s] \in {"connect", "connect_bev"}
       => bev[c] = "none" /\ block[c] = "live" /\ field[c] = "NULL"
    /\ at[s] = "connect_error"
       => /\ block[c] = "live"
          /\ \/ field[c] = "NULL" /\ bev[c] # "live"
             \/ field[c] = "bev" /\ bev[c] = "live" /\ fd[s] = NoFd /\ c \in refused
    /\ at[s] = "connect_failed"
       => /\ block[c] = "live"
          /\ \/ field[c] = "NULL" /\ bev[c] # "live"
             \/ field[c] = "bev" /\ bev[c] = "freed" /\ c \in refused

SessionInv(s) ==
    /\ \A i \in Slot : (i # slot[s] \/ at[s] \in Resting) => SlotRest(s, i)
    /\ at[s] = "start" => /\ held[s] = {} /\ slot[s] = "CLIENT"
                          /\ bev[Chan(s)] = "none" /\ block[Chan(s)] = "none"
    /\ at[s] \notin Resting => slot[s] \notin held[s] /\ Stage(s)
    /\ fd[s] # NoFd => at[s] \in {"accept_cb", "connect_bev", "connect_error"}
    /\ at[s] # "listen"

ListenerInv(l) ==
    /\ at[l] \in {"start", "listen", "idle", "gone"}
    /\ fd[l] # NoFd => at[l] = "listen"
    /\ at[l] \in {"start", "listen"} => bev[l] = "none" /\ block[l] = "live" /\ field[l] = "NULL"
    /\ at[l] = "idle" => /\ bev[l] = "live" /\ block[l] = "live"
                         /\ field[l] = "listener" /\ l \in listen
    /\ at[l] = "gone" => bev[l] # "live" /\ field[l] = "NULL"

CallsInv ==
    \A c \in calls : /\ bev[c] = "live" /\ block[c] = "live"
                     /\ field[c] = IF c \in Listeners THEN "listener" ELSE "bev"

StageInv ==
    /\ \A s \in Sessions : SessionInv(s)
    /\ \A l \in Listeners : ListenerInv(l)
    /\ CallsInv
    /\ stopped => \A p \in Proc : at[p] \in Resting

(* The conjuncts of OneOwner. *)
Owners ==
    /\ \A p \in Proc, f \in Fds : HandlerOwns(p, f) => table[f] = Chan(p)
    /\ \A c \in Channel, f \in Fds : BevOwns(c, f) => table[f] = c
    /\ \A p \in Proc, f \in Fds : ~(HandlerOwns(p, f) /\ BevOwns(Chan(p), f))
    /\ \A f \in Fds : table[f] # NULL => \/ \E p \in Proc : HandlerOwns(p, f)
                                         \/ \E c \in Channel : BevOwns(c, f)

IInv ==
    /\ TypeOK /\ Owners
    /\ fault \subseteq refused
    /\ fault = {} => StageInv

-----------------------------------------------------------------------------
(* Channels: each has one session or listener.                             *)

LEMMA ChannelOfProc ==
    ASSUME TypeOK
    PROVE  /\ \A p \in Proc : Chan(p) \in Channel
           /\ \A p, q \in Proc : Chan(p) = Chan(q) => p = q
           /\ \A s \in Sessions, i \in Slot : <<s, i>> \in Channel /\ <<s, i>> \notin Listeners
           /\ \A l \in Listeners : l \in Channel /\ l \notin Sessions
  BY TcpSocketAssumption DEF TypeOK, Proc, Chan, Channel

(* What belongs to p, and a step that leaves all the rest as it is. *)
Of(p, c) == IF p \in Sessions THEN \E i \in Slot : c = <<p, i>> ELSE c = p

Others(p) ==
    /\ \A q \in Proc \ {p} : at'[q] = at[q] /\ fd'[q] = fd[q]
    /\ \A s \in Sessions \ {p} : slot'[s] = slot[s] /\ held'[s] = held[s]
    /\ \A c \in Channel : ~Of(p, c) => bev'[c] = bev[c] /\ block'[c] = block[c] /\ field'[c] = field[c]
    /\ listen \subseteq listen' /\ refused \subseteq refused'
    /\ stopped' = stopped

(* What p's step has to show of the channels that call back. *)
CallsStep(p) ==
    \A c \in calls' :
        IF Of(p, c) THEN /\ bev'[c] = "live" /\ block'[c] = "live"
                         /\ field'[c] = IF c \in Listeners THEN "listener" ELSE "bev"
        ELSE c \in calls

LEMMA SessionFrame ==
    ASSUME NEW s \in Sessions, SessionInv(s), refused \subseteq refused',
           at'[s] = at[s], fd'[s] = fd[s], slot'[s] = slot[s], held'[s] = held[s],
           slot[s] \in Slot,
           \A i \in Slot : /\ bev'[<<s, i>>] = bev[<<s, i>>]
                           /\ block'[<<s, i>>] = block[<<s, i>>]
                           /\ field'[<<s, i>>] = field[<<s, i>>]
    PROVE  SessionInv(s)'
  <1>1. Chan(s)' = Chan(s) /\ Chan(s) = <<s, slot[s]>>
    BY DEF Chan
  <1>2. \A i \in Slot : SlotRest(s, i) => SlotRest(s, i)'
    BY DEF SlotRest
  <1>3. Stage(s) => Stage(s)'
    BY <1>1 DEF Stage
  <1> QED
    BY <1>1, <1>2, <1>3 DEF SessionInv

LEMMA ListenerFrame ==
    ASSUME NEW l \in Listeners, ListenerInv(l), listen \subseteq listen',
           at'[l] = at[l], fd'[l] = fd[l],
           bev'[l] = bev[l], block'[l] = block[l], field'[l] = field[l]
    PROVE  ListenerInv(l)'
  BY DEF ListenerInv

LEMMA StageOfStep ==
    ASSUME TypeOK, TypeOK', StageInv, NEW p \in Proc, Others(p), CallsStep(p),
           p \in Sessions => SessionInv(p)',
           p \in Listeners => ListenerInv(p)',
           stopped => at'[p] \in Resting
    PROVE  StageInv'
  <1>1. ASSUME NEW s \in Sessions PROVE SessionInv(s)'
    <2>1. CASE s = p
      BY <2>1
    <2>2. CASE s # p
      <3>1. \A i \in Slot : <<s, i>> \in Channel /\ ~Of(p, <<s, i>>)
        BY <2>2, ChannelOfProc DEF Of, Proc
      <3>2. slot[s] \in Slot
        BY DEF TypeOK
      <3> QED
        BY <2>2, <3>1, <3>2, SessionFrame DEF Others, StageInv, Proc
    <2> QED
      BY <2>1, <2>2
  <1>2. ASSUME NEW l \in Listeners PROVE ListenerInv(l)'
    <2>1. CASE l = p
      BY <2>1
    <2>2. CASE l # p
      <3>1. l \in Channel /\ ~Of(p, l)
        BY <2>2, ChannelOfProc DEF Of, Proc
      <3> QED
        BY <2>2, <3>1, ListenerFrame DEF Others, StageInv, Proc
    <2> QED
      BY <2>1, <2>2
  <1>3. CallsInv'
    BY DEF CallsStep, Others, CallsInv, StageInv, TypeOK
  <1>4. stopped' => \A q \in Proc : at'[q] \in Resting
    BY DEF Others, StageInv
  <1> QED
    BY <1>1, <1>2, <1>3, <1>4 DEF StageInv

-----------------------------------------------------------------------------
(* Descriptors: what opens, hands over or closes one, and what does not.   *)

LEMMA OwnersSame ==
    ASSUME TypeOK, Owners, UNCHANGED <<table, fd, bev, bevfd>>,
           \A s \in Sessions : slot'[s] = slot[s] \/ fd[s] = NoFd
    PROVE  Owners'
  <1>1. \A p \in Proc, f \in Fds : HandlerOwns(p, f) => Chan(p)' = Chan(p)
    BY TcpSocketAssumption DEF HandlerOwns, Chan
  <1> QED
    BY <1>1 DEF Owners, HandlerOwns, BevOwns

LEMMA OwnersOpen ==
    ASSUME TypeOK, Owners, NEW p \in Proc, fd[p] = NoFd, bev[Chan(p)] # "live",
           Opens(p, Chan(p)), UNCHANGED <<bev, bevfd, slot>>
    PROVE  Owners'
  <1> PICK f \in Fds : /\ table[f] = NULL
                       /\ table' = [table EXCEPT ![f] = Chan(p)]
                       /\ fd' = [fd EXCEPT ![p] = f]
    BY DEF Opens
  <1>1. \A q \in Proc : Chan(q)' = Chan(q)
    BY DEF Chan
  <1>2. /\ \A q \in Proc : Chan(q) \in Channel /\ Chan(q) # NULL
        /\ \A c \in Channel : c # NULL
    BY ChannelOfProc, TcpSocketAssumption
  <1>3. /\ \A q \in Proc : fd'[q] = IF q = p THEN f ELSE fd[q]
        /\ \A g \in Fds : table'[g] = IF g = f THEN Chan(p) ELSE table[g]
    BY DEF TypeOK
  <1> QED
    BY <1>1, <1>2, <1>3, TcpSocketAssumption DEF Owners, HandlerOwns, BevOwns

LEMMA OwnersTake ==
    ASSUME TypeOK, Owners, NEW p \in Proc, bev[Chan(p)] # "live",
           Makes(Chan(p), fd[p]), fd' = [fd EXCEPT ![p] = NoFd], UNCHANGED <<table, slot>>
    PROVE  Owners'
  <1>1. \A q \in Proc : Chan(q)' = Chan(q)
    BY DEF Chan
  <1>2. Chan(p) \in Channel /\ \A q, r \in Proc : Chan(q) = Chan(r) => q = r
    BY ChannelOfProc
  <1>3. /\ \A q \in Proc : fd'[q] = IF q = p THEN NoFd ELSE fd[q]
        /\ \A c \in Channel : /\ bev'[c] = IF c = Chan(p) THEN "live" ELSE bev[c]
                              /\ bevfd'[c] = IF c = Chan(p) THEN fd[p] ELSE bevfd[c]
    BY <1>2 DEF TypeOK, Makes
  <1>5. \A q \in Proc, f \in Fds : HandlerOwns(q, f)' <=> q # p /\ HandlerOwns(q, f)
    BY <1>3, TcpSocketAssumption DEF HandlerOwns
  <1>6. \A c \in Channel, f \in Fds :
            BevOwns(c, f)' <=> IF c = Chan(p) THEN HandlerOwns(p, f) ELSE BevOwns(c, f)
    BY <1>3 DEF HandlerOwns, BevOwns
  <1>7. \A f \in Fds : table'[f] = table[f]
    OBVIOUS
  <1>8. \A q \in Proc, f \in Fds : HandlerOwns(q, f)' => table'[f] = Chan(q)'
    BY <1>1, <1>5, <1>7 DEF Owners
  <1>9. \A c \in Channel, f \in Fds : BevOwns(c, f)' => table'[f] = c
    BY <1>6, <1>7 DEF Owners
  <1>10. ASSUME NEW q \in Proc, NEW f \in Fds, HandlerOwns(q, f)'
         PROVE  ~(bev'[Chan(q)'] = "live" /\ bevfd'[Chan(q)'] = f)
    <2>1. q # p /\ HandlerOwns(q, f) /\ Chan(q) # Chan(p) /\ Chan(q) \in Channel
      BY <1>2, <1>5, <1>10, ChannelOfProc
    <2> QED
      BY <1>1, <1>3, <2>1 DEF Owners, BevOwns
  <1>11. ASSUME NEW f \in Fds, table'[f] # NULL
         PROVE  (\E q \in Proc : HandlerOwns(q, f)') \/ (\E c \in Channel : BevOwns(c, f)')
    <2>1. CASE HandlerOwns(p, f)
      BY <1>2, <1>6, <2>1
    <2>2. CASE ~HandlerOwns(p, f)
      <3>1. ~BevOwns(Chan(p), f)
        BY DEF BevOwns
      <3> QED
        BY <1>5, <1>6, <1>7, <1>11, <2>2, <3>1 DEF Owners
    <2> QED
      BY <2>1, <2>2
  <1> QED
    BY <1>8, <1>9, <1>10, <1>11 DEF Owners, BevOwns

(* The descriptor of a handler, or none, is closed, and bufferevents with  *)
(* theirs.                                                                 *)
LEMMA OwnersClose ==
    ASSUME TypeOK, Owners, NEW p \in Proc, NEW own \in SUBSET Channel, NEW F,
           table' = Closed(F \cup {bevfd[c] : c \in {c \in own : bev[c] = "live"}}),
           bev' = [c \in Channel |-> IF c \in own THEN "freed" ELSE bev[c]],
           \/ F = {} /\ fd' = fd
           \/ F = {fd[p]} /\ fd' = [fd EXCEPT ![p] = NoFd],
           UNCHANGED <<bevfd, slot>>
    PROVE  Owners'
  <1> DEFINE Lets(f) == f \in F \/ \E c \in own : BevOwns(c, f)
  <1>1. \A q \in Proc : Chan(q)' = Chan(q) /\ Chan(q) \in Channel /\ Chan(q) # NULL
    BY ChannelOfProc, TcpSocketAssumption DEF Chan
  <1>2. \A f \in Fds : table'[f] = IF Lets(f) THEN NULL ELSE table[f]
    BY DEF Closed, BevOwns
  <1>3. \A c \in Channel, f \in Fds : BevOwns(c, f)' <=> c \notin own /\ BevOwns(c, f)
    BY DEF BevOwns
  <1>4. \A q \in Proc, f \in Fds : HandlerOwns(q, f)' <=> f \notin F /\ HandlerOwns(q, f)
    <2>1. CASE F = {} /\ fd' = fd
      BY <2>1 DEF HandlerOwns
    <2>2. CASE F = {fd[p]} /\ fd' = [fd EXCEPT ![p] = NoFd]
      <3>1. \A q \in Proc : fd'[q] = IF q = p THEN NoFd ELSE fd[q]
        BY <2>2 DEF TypeOK
      <3>2. ASSUME NEW q \in Proc, NEW f \in Fds, fd[p] = f, fd[q] = f PROVE q = p
        BY <3>2, ChannelOfProc DEF Owners, HandlerOwns
      <3> QED
        BY <2>2, <3>1, <3>2, TcpSocketAssumption DEF HandlerOwns
    <2> QED
      BY <2>1, <2>2
  <1>5. ASSUME NEW q \in Proc, NEW f \in Fds, HandlerOwns(q, f)' PROVE ~Lets(f)
    BY <1>4, <1>5 DEF Owners
  <1>6. ASSUME NEW d \in Channel, NEW f \in Fds, BevOwns(d, f)' PROVE ~Lets(f)
    <2>1. d \notin own /\ BevOwns(d, f) /\ table[f] = d
      BY <1>3, <1>6 DEF Owners
    <2>2. ~\E c \in own : BevOwns(c, f)
      BY <2>1 DEF Owners
    <2>3. f \notin F
      <3>1. CASE F = {fd[p]} /\ fd[p] = f
        <4>1. HandlerOwns(p, f) /\ table[f] = Chan(p)
          BY <3>1 DEF HandlerOwns, Owners
        <4> QED
          BY <2>1, <4>1 DEF Owners
      <3> QED
        BY <3>1
    <2> QED
      BY <2>2, <2>3
  <1>7. ASSUME NEW f \in Fds, table'[f] # NULL
        PROVE  (\E q \in Proc : HandlerOwns(q, f)') \/ (\E c \in Channel : BevOwns(c, f)')
    BY <1>2, <1>3, <1>4, <1>7 DEF Owners
  <1> HIDE DEF Lets
  <1> QED
    BY <1>1, <1>2, <1>3, <1>4, <1>5, <1>6, <1>7 DEF Owners

-----------------------------------------------------------------------------
(* The steps of a session: each leaves a channel of the session as the     *)
(* next step expects it.                                                   *)

LEMMA SessionFacts ==
    ASSUME TypeOK, NEW s \in Sessions
    PROVE  /\ s \in Proc /\ s \notin Listeners
           /\ Chan(s) = <<s, slot[s]>> /\ slot[s] \in Slot /\ Chan(s) \in Channel
           /\ Of(s, Chan(s)) /\ Chan(s) \notin Listeners
           /\ \A i \in Slot : <<s, i>> \in Channel /\ Of(s, <<s, i>>) /\ <<s, i>> \notin Listeners
           /\ \A c \in Channel : ~Of(s, c) => c # Chan(s)
           /\ \A i \in Slot : i # slot[s] => <<s, i>> # Chan(s)
  BY ChannelOfProc DEF TypeOK, Proc, Chan, Of

(* What every step but those that end in a fault starts from and has left  *)
(* to show.                                                                *)
LEMMA SessionStep ==
    ASSUME IInv, fault = {}, NEW s \in Sessions, TypeOK', Owners', fault' = {},
           Others(s), CallsStep(s), SessionInv(s)', stopped => at'[s] \in Resting
    PROVE  IInv'
  BY SessionFacts, StageOfStep DEF IInv

(* A handler leaves the session's other channels alone. *)
LEMMA SlotsKept ==
    ASSUME NEW s \in Sessions, SessionInv(s), slot[s] \in Slot,
           slot'[s] = slot[s], held'[s] \ {slot[s]} = held[s] \ {slot[s]},
           \A i \in Slot \ {slot[s]} : /\ bev'[<<s, i>>] = bev[<<s, i>>]
                                       /\ block'[<<s, i>>] = block[<<s, i>>]
                                       /\ field'[<<s, i>>] = field[<<s, i>>]
    PROVE  \A i \in Slot : i # slot'[s] => SlotRest(s, i)'
  <1> TAKE i \in Slot
  <1> SUFFICES ASSUME i # slot[s] PROVE SlotRest(s, i)'
    OBVIOUS
  <1>1. SlotRest(s, i)
    BY DEF SessionInv
  <1>2. i \in held'[s] <=> i \in held[s]
    OBVIOUS
  <1> QED
    BY <1>1, <1>2 DEF SlotRest

LEMMA SessionGoesOn ==
    ASSUME TypeOK, NEW s \in Sessions, SessionInv(s),
           slot'[s] = slot[s], held'[s] \ {slot[s]} = held[s] \ {slot[s]},
           \A i \in Slot \ {slot[s]} : /\ bev'[<<s, i>>] = bev[<<s, i>>]
                                       /\ block'[<<s, i>>] = block[<<s, i>>]
                                       /\ field'[<<s, i>>] = field[<<s, i>>],
           at'[s] \notin {"start", "listen"},
           at'[s] \in Resting => SlotRest(s, slot[s])',
           at'[s] \notin Resting => slot[s] \notin held'[s] /\ Stage(s)',
           fd'[s] # NoFd => at'[s] \in {"accept_cb", "connect_bev", "connect_error"}
    PROVE  SessionInv(s)'
  BY SlotsKept, SessionFacts DEF SessionInv

LEMMA OwnersLet ==
    ASSUME TypeOK, Owners, NEW p \in Proc, table' = Closed({fd[p]}),
           fd' = [fd EXCEPT ![p] = NoFd], UNCHANGED <<bev, bevfd, slot>>
    PROVE  Owners'
  <1> DEFINE own == {}
             Let == {bevfd[c] : c \in {c \in own : bev[c] = "live"}}
  <1>1. {fd[p]} \cup Let = {fd[p]}
    OBVIOUS
  <1>2. bev' = [c \in Channel |-> IF c \in own THEN "freed" ELSE bev[c]]
    BY DEF TypeOK
  <1>3. own \in SUBSET Channel /\ table' = Closed({fd[p]} \cup Let)
    BY <1>1
  <1> QED
    BY <1>2, <1>3, OwnersClose

(* Nothing is due of a channel without a bufferevent. *)
LEMMA NotCalled ==
    ASSUME StageInv, NEW c, bev[c] # "live" \/ block[c] # "live" \/ field[c] = "NULL"
    PROVE  c \notin calls
  BY DEF StageInv, CallsInv

LEMMA AcceptConnectionInv ==
    ASSUME IInv, NEW s \in Sessions, AcceptConnection(s)
    PROVE  IInv'
  <1> USE DEF AcceptConnection
  <1>1. TypeOK /\ Owners /\ StageInv /\ SessionInv(s) /\ fault = {} /\ fault' = {} /\ ~stopped
    BY DEF IInv, StageInv, Running
  <1>2. TypeOK'
    <2>1. PICK f \in Fds : /\ table' = [table EXCEPT ![f] = <<s, "CLIENT">>]
                           /\ fd' = [fd EXCEPT ![s] = f]
      BY DEF Opens
    <2>2. <<s, "CLIENT">> \in Channel
      BY <1>1, SessionFacts DEF Slot
    <2> QED
      BY <1>1, <2>1, <2>2 DEF TypeOK, Goto, channelVars, runVars
  <1>3. slot[s] = "CLIENT" /\ fd[s] = NoFd /\ Chan(s) = <<s, "CLIENT">> /\ bev[Chan(s)] = "none"
        /\ block[Chan(s)] = "none"
    BY <1>1 DEF SessionInv, Chan
  <1>4. Owners'
    BY <1>1, <1>3, OwnersOpen, SessionFacts DEF channelVars
  <1>5. SessionInv(s)'
    <2>1. \A i \in Slot : i # slot'[s] => SlotRest(s, i)'
      BY <1>1, SlotsKept, SessionFacts DEF channelVars
    <2>2. at'[s] = "accept_cb" /\ Chan(s)' = Chan(s) /\ UNCHANGED <<bev, block, field, held, slot>>
      BY <1>1, SessionFacts DEF Goto, Chan, channelVars, TypeOK
    <2>3. field[Chan(s)] = "NULL" /\ held[s] = {}
      BY <1>1, <1>3 DEF SessionInv, SlotRest, Resting, Slot
    <2> QED
      BY <1>3, <2>1, <2>2, <2>3 DEF SessionInv, Stage, Resting, Accepting
  <1>6. Others(s) /\ CallsStep(s)
    BY <1>1, SessionFacts DEF Others, CallsStep, Opens, Goto, channelVars, runVars, TypeOK,
       StageInv, CallsInv
  <1> QED
    BY <1>1, <1>2, <1>4, <1>5, <1>6, SessionStep

LEMMA AcceptFailsInv ==
    ASSUME IInv, NEW s \in Sessions, AcceptFails(s)
    PROVE  IInv'
  <1> USE DEF AcceptFails
  <1>1. TypeOK /\ Owners /\ StageInv /\ SessionInv(s) /\ fault = {} /\ ~stopped
    BY DEF IInv, StageInv, Running
  <1>2. TypeOK'
    BY <1>1, SessionFacts DEF TypeOK, Goto, Closed, Makes, Configured, channelVars, runVars
  <1>3. bev[Chan(s)] = "none" /\ block[Chan(s)] = "none" /\ field[Chan(s)] = "NULL"
        /\ held[s] = {}
    BY <1>1, SessionFacts DEF SessionInv, Stage, Resting, Accepting
  <1>4. Owners'
    BY <1>1, OwnersLet, SessionFacts DEF channelVars
  <1>5. SessionInv(s)'
    <2>1. at'[s] = "gone" /\ Chan(s)' = Chan(s)
      BY <1>1, SessionFacts DEF Goto, Chan, TypeOK
    <2>2. SlotRest(s, slot[s])'
      BY <1>3, <2>1 DEF SlotRest, channelVars, Chan
    <2> QED
      BY <1>1, <1>3, <2>1, <2>2, SessionGoesOn, SessionFacts DEF Makes, Configured, channelVars, TypeOK, Resting
  <1>6. Others(s) /\ CallsStep(s) /\ fault' = {}
    BY <1>1, <1>3, SessionFacts, NotCalled DEF Others, CallsStep, Goto, Makes, Configured,
       channelVars, runVars, TypeOK, StageInv, CallsInv
  <1> QED
    BY <1>1, <1>2, <1>4, <1>5, <1>6, SessionStep

LEMMA AcceptMakesBevInv ==
    ASSUME IInv, NEW s \in Sessions, AcceptMakesBev(s)
    PROVE  IInv'
  <1> USE DEF AcceptMakesBev
  <1>1. TypeOK /\ Owners /\ StageInv /\ SessionInv(s) /\ fault = {} /\ ~stopped
    BY DEF IInv, StageInv, Running
  <1>2. TypeOK'
    BY <1>1, SessionFacts DEF TypeOK, Goto, Closed, Makes, Configured, channelVars, runVars
  <1>3. bev[Chan(s)] = "none" /\ block[Chan(s)] = "none" /\ field[Chan(s)] = "NULL"
        /\ held[s] = {} /\ slot[s] = "CLIENT" /\ Chan(s) = <<s, "CLIENT">>
    BY <1>1, SessionFacts DEF SessionInv, Stage, Resting, Accepting
  <1>4. Owners'
    BY <1>1, <1>3, OwnersTake, SessionFacts
  <1>5. SessionInv(s)'
    <2>1. at'[s] = "accept" /\ Chan(s)' = Chan(s)
      BY <1>1, SessionFacts DEF Goto, Chan, TypeOK
    <2>2. Stage(s)' /\ slot[s] \notin held'[s]
      BY <1>1, <1>3, <2>1, SessionFacts DEF Stage, Makes, Configured, channelVars, TypeOK, Resting, Accepting
    <2> QED
      BY <1>1, <1>3, <2>1, <2>2, SessionGoesOn, SessionFacts DEF Makes, Configured, channelVars, TypeOK, Resting
  <1>6. Others(s) /\ CallsStep(s) /\ fault' = {}
    BY <1>1, <1>3, SessionFacts, NotCalled DEF Others, CallsStep, Goto, Makes, Configured,
       channelVars, runVars, TypeOK, StageInv, CallsInv
  <1> QED
    BY <1>1, <1>2, <1>4, <1>5, <1>6, SessionStep

LEMMA AcceptWithoutChannelInv ==
    ASSUME IInv, NEW s \in Sessions, AcceptWithoutChannel(s)
    PROVE  IInv'
  <1> USE DEF AcceptWithoutChannel
  <1>1. TypeOK /\ Owners /\ StageInv /\ SessionInv(s) /\ fault = {} /\ ~stopped
    BY DEF IInv, StageInv, Running
  <1>2. TypeOK'
    BY <1>1, SessionFacts DEF TypeOK, Goto, Closed, Makes, Configured, channelVars, runVars
  <1>3. bev[Chan(s)] = "live" /\ block[Chan(s)] = "none" /\ field[Chan(s)] = "NULL"
        /\ held[s] = {} /\ slot[s] = "CLIENT" /\ fd[s] = NoFd
    BY <1>1, SessionFacts DEF SessionInv, Stage, Resting, Accepting
  <1>4. Owners'
    BY <1>1, OwnersSame DEF channelVars
  <1>5. SessionInv(s)'
    <2>1. at'[s] = "gone" /\ Chan(s)' = Chan(s)
      BY <1>1, SessionFacts DEF Goto, Chan, TypeOK
    <2>2. SlotRest(s, slot[s])'
      BY <1>3, <2>1 DEF SlotRest, channelVars, Chan
    <2> QED
      BY <1>1, <1>3, <2>1, <2>2, SessionGoesOn, SessionFacts DEF Makes, Configured, channelVars, TypeOK, Resting
  <1>6. Others(s) /\ CallsStep(s) /\ fault' = {}
    BY <1>1, <1>3, SessionFacts, NotCalled DEF Others, CallsStep, Goto, Makes, Configured,
       channelVars, runVars, TypeOK, StageInv, CallsInv
  <1> QED
    BY <1>1, <1>2, <1>4, <1>5, <1>6, SessionStep

LEMMA AcceptMakesChannelInv ==
    ASSUME IInv, NEW s \in Sessions, AcceptMakesChannel(s)
    PROVE  IInv'
  <1> USE DEF AcceptMakesChannel
  <1>1. TypeOK /\ Owners /\ StageInv /\ SessionInv(s) /\ fault = {} /\ ~stopped
    BY DEF IInv, StageInv, Running
  <1>2. TypeOK'
    BY <1>1, SessionFacts DEF TypeOK, Goto, Closed, Makes, Configured, channelVars, runVars
  <1>3. bev[Chan(s)] = "live" /\ block[Chan(s)] = "none" /\ field[Chan(s)] = "NULL"
        /\ held[s] = {} /\ slot[s] = "CLIENT" /\ Chan(s) = <<s, "CLIENT">> /\ fd[s] = NoFd
    BY <1>1, SessionFacts DEF SessionInv, Stage, Resting, Accepting
  <1>4. Owners'
    BY <1>1, OwnersSame DEF channelVars
  <1>5. SessionInv(s)'
    <2>1. at'[s] = "accept_config" /\ Chan(s)' = Chan(s)
      BY <1>1, SessionFacts DEF Goto, Chan, TypeOK
    <2>2. Stage(s)' /\ slot[s] \notin held'[s]
      BY <1>1, <1>3, <2>1, SessionFacts DEF Stage, Makes, Configured, channelVars, TypeOK, Resting, Accepting
    <2> QED
      BY <1>1, <1>3, <2>1, <2>2, SessionGoesOn, SessionFacts DEF Makes, Configured, channelVars, TypeOK, Resting
  <1>6. Others(s) /\ CallsStep(s) /\ fault' = {}
    BY <1>1, <1>3, SessionFacts, NotCalled DEF Others, CallsStep, Goto, Makes, Configured,
       channelVars, runVars, TypeOK, StageInv, CallsInv
  <1> QED
    BY <1>1, <1>2, <1>4, <1>5, <1>6, SessionStep

LEMMA AcceptConfiguresInv ==
    ASSUME IInv, NEW s \in Sessions, AcceptConfigures(s)
    PROVE  IInv'
  <1> USE DEF AcceptConfigures
  <1>1. TypeOK /\ Owners /\ StageInv /\ SessionInv(s) /\ fault = {} /\ ~stopped
    BY DEF IInv, StageInv, Running
  <1>2. TypeOK'
    <2>1. <<s, "CLIENT">> \in Channel
      BY <1>1, SessionFacts DEF Slot
    <2> QED
      BY <1>1, <2>1 DEF TypeOK, Goto, Configured, runVars
  <1>3. bev[Chan(s)] = "live" /\ block[Chan(s)] = "live" /\ field[Chan(s)] = "bev"
        /\ held[s] = {} /\ slot[s] = "CLIENT" /\ Chan(s) = <<s, "CLIENT">> /\ fd[s] = NoFd
    BY <1>1, SessionFacts DEF SessionInv, Stage, Resting, Accepting
  <1>4. Owners'
    BY <1>1, OwnersSame DEF channelVars
  <1>5. SessionInv(s)'
    <2>1. at'[s] = "session_new" /\ Chan(s)' = Chan(s)
      BY <1>1, SessionFacts DEF Goto, Chan, TypeOK
    <2>2. Stage(s)' /\ slot[s] \notin held'[s]
      BY <1>1, <1>3, <2>1, SessionFacts DEF Stage, Makes, Configured, channelVars, TypeOK, Resting, Accepting
    <2> QED
      BY <1>1, <1>3, <2>1, <2>2, SessionGoesOn, SessionFacts DEF Makes, Configured, channelVars, TypeOK, Resting
  <1>6. Others(s) /\ CallsStep(s) /\ fault' = {}
    BY <1>1, <1>3, SessionFacts, NotCalled DEF Others, CallsStep, Goto, Makes, Configured,
       channelVars, runVars, TypeOK, StageInv, CallsInv
  <1> QED
    BY <1>1, <1>2, <1>4, <1>5, <1>6, SessionStep

LEMMA ConnectMakesBevInv ==
    ASSUME IInv, NEW s \in Sessions, ConnectMakesBev(s)
    PROVE  IInv'
  <1> USE DEF ConnectMakesBev
  <1>1. TypeOK /\ Owners /\ StageInv /\ SessionInv(s) /\ fault = {} /\ ~stopped
    BY DEF IInv, StageInv, Running
  <1>2. TypeOK'
    BY <1>1, SessionFacts DEF TypeOK, Goto, Closed, Makes, Configured, channelVars, runVars
  <1>3. bev[Chan(s)] = "none" /\ block[Chan(s)] = "live" /\ field[Chan(s)] = "NULL"
        /\ slot[s] \notin held[s]
    BY <1>1, SessionFacts DEF SessionInv, Stage, Resting, Accepting
  <1>4. Owners'
    BY <1>1, <1>3, OwnersTake, SessionFacts
  <1>5. SessionInv(s)'
    <2>1. at'[s] = "connect_config" /\ Chan(s)' = Chan(s)
      BY <1>1, SessionFacts DEF Goto, Chan, TypeOK
    <2>2. Stage(s)' /\ slot[s] \notin held'[s]
      BY <1>1, <1>3, <2>1, SessionFacts DEF Stage, Makes, Configured, channelVars, TypeOK, Resting, Accepting
    <2> QED
      BY <1>1, <1>3, <2>1, <2>2, SessionGoesOn, SessionFacts DEF Makes, Configured, channelVars, TypeOK, Resting
  <1>6. Others(s) /\ CallsStep(s) /\ fault' = {}
    BY <1>1, <1>3, SessionFacts, NotCalled DEF Others, CallsStep, Goto, Makes, Configured,
       channelVars, runVars, TypeOK, StageInv, CallsInv
  <1> QED
    BY <1>1, <1>2, <1>4, <1>5, <1>6, SessionStep

LEMMA ConnectConfiguresInv ==
    ASSUME IInv, NEW s \in Sessions, ConnectConfigures(s)
    PROVE  IInv'
  <1> USE DEF ConnectConfigures
  <1>1. TypeOK /\ Owners /\ StageInv /\ SessionInv(s) /\ fault = {} /\ ~stopped
    BY DEF IInv, StageInv, Running
  <1>2. TypeOK'
    BY <1>1, SessionFacts DEF TypeOK, Goto, Closed, Makes, Configured, channelVars, runVars
  <1>3. bev[Chan(s)] = "live" /\ block[Chan(s)] = "live" /\ field[Chan(s)] = "bev"
        /\ slot[s] \notin held[s] /\ fd[s] = NoFd
    BY <1>1, SessionFacts DEF SessionInv, Stage, Resting, Accepting
  <1>4. Owners'
    BY <1>1, OwnersSame DEF channelVars
  <1>5. SessionInv(s)'
    <2>1. at'[s] = "connect_socket" /\ Chan(s)' = Chan(s)
      BY <1>1, SessionFacts DEF Goto, Chan, TypeOK
    <2>2. Stage(s)' /\ slot[s] \notin held'[s]
      BY <1>1, <1>3, <2>1, SessionFacts DEF Stage, Makes, Configured, channelVars, TypeOK, Resting, Accepting
    <2> QED
      BY <1>1, <1>3, <2>1, <2>2, SessionGoesOn, SessionFacts DEF Makes, Configured, channelVars, TypeOK, Resting
  <1>6. Others(s) /\ CallsStep(s) /\ fault' = {}
    BY <1>1, <1>3, SessionFacts, NotCalled DEF Others, CallsStep, Goto, Makes, Configured,
       channelVars, runVars, TypeOK, StageInv, CallsInv
  <1> QED
    BY <1>1, <1>2, <1>4, <1>5, <1>6, SessionStep

LEMMA ConnectingInv ==
    ASSUME IInv, NEW s \in Sessions, Connecting(s)
    PROVE  IInv'
  <1> USE DEF Connecting
  <1>1. TypeOK /\ Owners /\ StageInv /\ SessionInv(s) /\ fault = {} /\ ~stopped
    BY DEF IInv, StageInv, Running
  <1>2. TypeOK'
    BY <1>1, SessionFacts DEF TypeOK, Goto, Closed, Makes, Configured, channelVars, runVars
  <1>3. bev[Chan(s)] = "live" /\ block[Chan(s)] = "live" /\ field[Chan(s)] = "bev"
        /\ slot[s] \notin held[s] /\ fd[s] = NoFd
    BY <1>1, SessionFacts DEF SessionInv, Stage, Resting, Accepting
  <1>4. Owners'
    BY <1>1, OwnersSame DEF channelVars
  <1>5. SessionInv(s)'
    <2>1. at'[s] = "idle" /\ Chan(s)' = Chan(s)
      BY <1>1, SessionFacts DEF Goto, Chan, TypeOK
    <2>2. SlotRest(s, slot[s])'
      BY <1>1, <1>3, <2>1 DEF SlotRest, channelVars, Chan, TypeOK
    <2> QED
      BY <1>1, <1>3, <2>1, <2>2, SessionGoesOn, SessionFacts DEF Makes, Configured, channelVars, TypeOK, Resting
  <1>6. Others(s) /\ CallsStep(s) /\ fault' = {}
    BY <1>1, <1>3, SessionFacts, NotCalled DEF Others, CallsStep, Goto, Makes, Configured,
       channelVars, runVars, TypeOK, StageInv, CallsInv
  <1> QED
    BY <1>1, <1>2, <1>4, <1>5, <1>6, SessionStep

LEMMA ConnectFailsInv ==
    ASSUME IInv, NEW s \in Sessions, ConnectFails(s)
    PROVE  IInv'
  <1> USE DEF ConnectFails
  <1>1. TypeOK /\ Owners /\ StageInv /\ SessionInv(s) /\ fault = {} /\ ~stopped
    BY DEF IInv, StageInv, Running
  <1>2. TypeOK'
    BY <1>1, SessionFacts DEF TypeOK, Goto, Closed, Makes, Configured, channelVars, runVars
  <1>3. /\ block[Chan(s)] = "live" /\ slot[s] \notin held[s]
        /\ \/ field[Chan(s)] = "NULL" /\ bev[Chan(s)] = "none" /\ at[s] # "connect_socket"
           \/ field[Chan(s)] = "bev" /\ bev[Chan(s)] = "live" /\ fd[s] = NoFd /\ at[s] = "connect_socket"
    BY <1>1, SessionFacts DEF SessionInv, Stage, Resting, Accepting
  <1>4. Owners'
    BY <1>1, OwnersSame DEF channelVars
  <1>5. SessionInv(s)'
    <2>1. at'[s] = "connect_error" /\ Chan(s)' = Chan(s)
      BY <1>1, SessionFacts DEF Goto, Chan, TypeOK
    <2>2. Stage(s)' /\ slot[s] \notin held'[s]
      BY <1>1, <1>3, <2>1, SessionFacts DEF Stage, Makes, Configured, channelVars, TypeOK, Resting, Accepting
    <2> QED
      BY <1>1, <1>3, <2>1, <2>2, SessionGoesOn, SessionFacts DEF Makes, Configured, channelVars, TypeOK, Resting
  <1>6. Others(s) /\ CallsStep(s) /\ fault' = {}
    BY <1>1, <1>3, SessionFacts, NotCalled DEF Others, CallsStep, Goto, Makes, Configured,
       channelVars, runVars, TypeOK, StageInv, CallsInv
  <1> QED
    BY <1>1, <1>2, <1>4, <1>5, <1>6, SessionStep

LEMMA ConnectOpensSocketInv ==
    ASSUME IInv, NEW s \in Sessions, ConnectOpensSocket(s)
    PROVE  IInv'
  <1> USE DEF ConnectOpensSocket
  <1>1. TypeOK /\ Owners /\ StageInv /\ SessionInv(s) /\ fault = {} /\ ~stopped
    BY DEF IInv, StageInv, Running
  <1>2. TypeOK'
    <2>1. PICK f \in Fds : /\ table' = [table EXCEPT ![f] = Chan(s)]
                           /\ fd' = [fd EXCEPT ![s] = f]
      BY DEF Opens
    <2> QED
      BY <1>1, <2>1, SessionFacts DEF TypeOK, Goto, channelVars, runVars
  <1>3. bev[Chan(s)] = "none" /\ block[Chan(s)] = "live" /\ field[Chan(s)] = "NULL"
        /\ slot[s] \notin held[s] /\ fd[s] = NoFd
    BY <1>1, SessionFacts DEF SessionInv, Stage, Resting, Accepting
  <1>4. Owners'
    BY <1>1, <1>3, OwnersOpen, SessionFacts DEF channelVars
  <1>5. SessionInv(s)'
    <2>1. at'[s] = "connect_bev" /\ Chan(s)' = Chan(s)
      BY <1>1, SessionFacts DEF Goto, Chan, TypeOK
    <2>2. Stage(s)' /\ slot[s] \notin held'[s]
      BY <1>1, <1>3, <2>1, SessionFacts DEF Stage, Makes, Configured, channelVars, TypeOK, Resting, Accepting
    <2> QED
      BY <1>1, <1>3, <2>1, <2>2, SessionGoesOn, SessionFacts DEF Makes, Configured, channelVars, TypeOK, Resting
  <1>6. Others(s) /\ CallsStep(s) /\ fault' = {}
    BY <1>1, <1>3, SessionFacts, NotCalled DEF Others, CallsStep, Goto, Opens, Makes, Configured,
       channelVars, runVars, TypeOK, StageInv, CallsInv
  <1> QED
    BY <1>1, <1>2, <1>4, <1>5, <1>6, SessionStep

-----------------------------------------------------------------------------
(* Freeing.                                                                *)

LEMMA NotAListener ==
    ASSUME TypeOK, StageInv, NEW s \in Sessions, NEW i \in Slot
    PROVE  <<s, i>> \notin listen /\ field[<<s, i>>] \in {"NULL", "bev"}
  <1>1. <<s, i>> \notin listen
    BY SessionFacts DEF TypeOK
  <1>2. SessionInv(s)
    BY DEF StageInv
  <1>3. CASE i # slot[s] \/ at[s] \in Resting
    <2>1. SlotRest(s, i)
      BY <1>2, <1>3 DEF SessionInv
    <2> QED
      BY <1>1, <2>1 DEF SlotRest
  <1>4. CASE i = slot[s] /\ at[s] \notin Resting
    <2>1. Stage(s) /\ Chan(s) = <<s, i>> /\ at[s] # "listen"
      BY <1>2, <1>4, SessionFacts DEF SessionInv
    <2>2. at[s] \in {"accept_cb", "accept", "accept_config", "session_new", "connect", "connect_bev",
                     "connect_config", "connect_socket", "connect_error", "connect_failed"}
      BY <1>4, <2>1, SessionFacts DEF TypeOK, Resting
    <2>3. field[Chan(s)] \in {"NULL", "bev"}
      BY <2>1, <2>2 DEF Stage
    <2> QED
      BY <1>1, <2>1, <2>3
  <1> QED
    BY <1>3, <1>4

LEMMA BevsFreedFacts ==
    ASSUME TypeOK, NEW C \in SUBSET Channel, NEW F, BevsFreed(C, F)
    PROVE  /\ bev' \in [Channel -> {"none", "live", "freed"}]
           /\ table' \in [Fds -> Channel \cup {NULL}]
           /\ \A c \in Channel : bev'[c] = IF c \in C /\ field[c] # "NULL" THEN "freed" ELSE bev[c]
           /\ calls' \subseteq calls /\ \A c \in calls' : c \notin C \/ field[c] = "NULL"
  BY DEF BevsFreed, TypeOK, Closed

LEMMA OwnersFree ==
    ASSUME TypeOK, Owners, NEW p \in Proc, NEW C \in SUBSET Channel, NEW F, BevsFreed(C, F),
           \/ F = {} /\ fd' = fd
           \/ F = {fd[p]} /\ fd' = [fd EXCEPT ![p] = NoFd],
           UNCHANGED <<bevfd, slot>>
    PROVE  Owners'
  <1> DEFINE own == {c \in C : field[c] # "NULL"}
  <1>1. /\ table' = Closed(F \cup {bevfd[c] : c \in {c \in own : bev[c] = "live"}})
        /\ bev' = [c \in Channel |-> IF c \in own THEN "freed" ELSE bev[c]]
        /\ own \in SUBSET Channel
    BY DEF BevsFreed
  <1> HIDE DEF own
  <1> QED
    BY <1>1, OwnersClose

(* A bufferevent of the handler's channel, freed as what it is. *)
LEMMA ConfigFailsFacts ==
    ASSUME TypeOK, StageInv, NEW s \in Sessions, ConfigFails(Chan(s)),
           bev[Chan(s)] = "live", field[Chan(s)] = "bev"
    PROVE  /\ fault' = {} /\ BevsFreed({Chan(s)}, {}) /\ {Chan(s)} \in SUBSET Channel
           /\ bev' \in [Channel -> {"none", "live", "freed"}]
           /\ table' \in [Fds -> Channel \cup {NULL}]
           /\ \A c \in Channel : bev'[c] = IF c = Chan(s) THEN "freed" ELSE bev[c]
           /\ calls' \subseteq calls /\ Chan(s) \notin calls'
           /\ field' \in [Channel -> {"NULL", "bev", "listener"}]
           /\ \A c \in Channel : field'[c] = IF c = Chan(s) THEN "NULL" ELSE field[c]
  <1>1. BevsFreed({Chan(s)}, {}) /\ {Chan(s)} \in SUBSET Channel
    BY SessionFacts DEF ConfigFails
  <1>2. ~Confused(Chan(s))
    BY NotAListener, SessionFacts DEF Confused
  <1>3. fault' = {}
    BY <1>1, <1>2 DEF ConfigFails, Misfreed
  <1>4. /\ field' \in [Channel -> {"NULL", "bev", "listener"}]
        /\ \A c \in Channel : field'[c] = IF c = Chan(s) THEN "NULL" ELSE field[c]
    <2>1. field' = [field EXCEPT ![Chan(s)] = "NULL"] /\ Chan(s) \in Channel
      BY SessionFacts DEF ConfigFails
    <2>2. field \in [Channel -> {"NULL", "bev", "listener"}]
      BY DEF TypeOK
    <2> QED
      BY <2>1, <2>2
  <1>5. /\ bev' \in [Channel -> {"none", "live", "freed"}]
        /\ table' \in [Fds -> Channel \cup {NULL}]
        /\ \A c \in Channel : bev'[c] = IF c \in {Chan(s)} /\ field[c] # "NULL" THEN "freed" ELSE bev[c]
        /\ calls' \subseteq calls /\ \A c \in calls' : c \notin {Chan(s)} \/ field[c] = "NULL"
    BY <1>1, BevsFreedFacts
  <1>6. /\ \A c \in Channel : bev'[c] = IF c = Chan(s) THEN "freed" ELSE bev[c]
        /\ Chan(s) \notin calls'
    BY <1>5
  <1> QED
    BY <1>1, <1>3, <1>4, <1>5, <1>6

LEMMA AcceptConfigFailsInv ==
    ASSUME IInv, NEW s \in Sessions, AcceptConfigFails(s)
    PROVE  IInv'
  <1> USE DEF AcceptConfigFails
  <1>1. TypeOK /\ Owners /\ StageInv /\ SessionInv(s) /\ fault = {} /\ ~stopped
    BY DEF IInv, StageInv, Running
  <1>2. bev[Chan(s)] = "live" /\ block[Chan(s)] = "live" /\ field[Chan(s)] = "bev"
        /\ fd[s] = NoFd /\ slot[s] \notin held[s]
        /\ held[s] = {} /\ Chan(s) = <<s, "CLIENT">>
    BY <1>1, SessionFacts DEF SessionInv, Stage, Resting, Accepting
  <1>3. ConfigFails(Chan(s))
    BY <1>2
  <1>4. /\ fault' = {} /\ BevsFreed({Chan(s)}, {}) /\ {Chan(s)} \in SUBSET Channel
        /\ bev' \in [Channel -> {"none", "live", "freed"}]
        /\ table' \in [Fds -> Channel \cup {NULL}]
        /\ \A c \in Channel : bev'[c] = IF c = Chan(s) THEN "freed" ELSE bev[c]
        /\ calls' \subseteq calls /\ Chan(s) \notin calls'
        /\ field' \in [Channel -> {"NULL", "bev", "listener"}]
        /\ \A c \in Channel : field'[c] = IF c = Chan(s) THEN "NULL" ELSE field[c]
    BY <1>1, <1>2, <1>3, ConfigFailsFacts
  <1>5. /\ at'[s] = "gone" /\ fd' = fd /\ UNCHANGED <<slot, held, bevfd, listen, runVars>>
        /\ \A p \in Proc \ {s} : at'[p] = at[p]
        /\ \A c \in Channel : block'[c] = IF c = Chan(s) THEN "freed" ELSE block[c]
        /\ block' \in [Channel -> {"none", "live", "freed"}]
    BY <1>1, <1>2, SessionFacts DEF Goto, TypeOK
  <1>6. TypeOK'
    BY <1>1, <1>4, <1>5, SessionFacts DEF TypeOK, Goto, runVars
  <1>7. Owners'
    BY <1>1, <1>4, <1>5, OwnersFree, SessionFacts
  <1>8. SessionInv(s)'
    <2>1. Chan(s)' = Chan(s)
      BY <1>5 DEF Chan
    <2>2. SlotRest(s, slot[s])'
      BY <1>1, <1>2, <1>4, <1>5, <2>1, SessionFacts DEF Stage, SlotRest, Accepting, Resting
    <2> QED
      BY <1>1, <1>2, <1>4, <1>5, <2>1, <2>2, SessionGoesOn, SessionFacts DEF Resting
  <1>9. Others(s) /\ CallsStep(s)
    BY <1>1, <1>4, <1>5, SessionFacts DEF Others, CallsStep, runVars, StageInv, CallsInv, Of, TypeOK
  <1> QED
    BY <1>1, <1>4, <1>6, <1>7, <1>8, <1>9, SessionStep

LEMMA ConnectConfigFailsInv ==
    ASSUME IInv, NEW s \in Sessions, ConnectConfigFails(s)
    PROVE  IInv'
  <1> USE DEF ConnectConfigFails
  <1>1. TypeOK /\ Owners /\ StageInv /\ SessionInv(s) /\ fault = {} /\ ~stopped
    BY DEF IInv, StageInv, Running
  <1>2. bev[Chan(s)] = "live" /\ block[Chan(s)] = "live" /\ field[Chan(s)] = "bev"
        /\ fd[s] = NoFd /\ slot[s] \notin held[s]
    BY <1>1, SessionFacts DEF SessionInv, Stage, Resting, Accepting
  <1>3. ConfigFails(Chan(s))
    BY <1>2
  <1>4. /\ fault' = {} /\ BevsFreed({Chan(s)}, {}) /\ {Chan(s)} \in SUBSET Channel
        /\ bev' \in [Channel -> {"none", "live", "freed"}]
        /\ table' \in [Fds -> Channel \cup {NULL}]
        /\ \A c \in Channel : bev'[c] = IF c = Chan(s) THEN "freed" ELSE bev[c]
        /\ calls' \subseteq calls /\ Chan(s) \notin calls'
        /\ field' \in [Channel -> {"NULL", "bev", "listener"}]
        /\ \A c \in Channel : field'[c] = IF c = Chan(s) THEN "NULL" ELSE field[c]
    BY <1>1, <1>2, <1>3, ConfigFailsFacts
  <1>5. /\ at'[s] = "connect_error" /\ fd' = fd /\ UNCHANGED <<slot, held, bevfd, listen, runVars>>
        /\ \A p \in Proc \ {s} : at'[p] = at[p]
        /\ \A c \in Channel : block'[c] = block[c]
        /\ block' \in [Channel -> {"none", "live", "freed"}]
    BY <1>1, <1>2, SessionFacts DEF Goto, TypeOK
  <1>6. TypeOK'
    BY <1>1, <1>4, <1>5, SessionFacts DEF TypeOK, Goto, runVars
  <1>7. Owners'
    BY <1>1, <1>4, <1>5, OwnersFree, SessionFacts
  <1>8. SessionInv(s)'
    <2>1. Chan(s)' = Chan(s)
      BY <1>5 DEF Chan
    <2>2. Stage(s)' /\ slot[s] \notin held'[s]
      BY <1>1, <1>2, <1>4, <1>5, <2>1, SessionFacts DEF Stage, SlotRest, Accepting, Resting
    <2> QED
      BY <1>1, <1>2, <1>4, <1>5, <2>1, <2>2, SessionGoesOn, SessionFacts DEF Resting
  <1>9. Others(s) /\ CallsStep(s)
    BY <1>1, <1>4, <1>5, SessionFacts DEF Others, CallsStep, runVars, StageInv, CallsInv, Of, TypeOK
  <1> QED
    BY <1>1, <1>4, <1>6, <1>7, <1>8, <1>9, SessionStep

(* The label error of tcp_socket_connect keeps the pointer to what it      *)
(* frees, on a channel whose connect failed at once.                       *)
LEMMA ConnectReleasesInv ==
    ASSUME IInv, NEW s \in Sessions, ConnectReleases(s)
    PROVE  IInv'
  <1> USE DEF ConnectReleases
  <1>1. TypeOK /\ Owners /\ StageInv /\ SessionInv(s) /\ fault = {} /\ ~stopped
    BY DEF IInv, StageInv, Running
  <1>2. /\ block[Chan(s)] = "live" /\ slot[s] \notin held[s]
        /\ \/ field[Chan(s)] = "NULL" /\ bev[Chan(s)] # "live"
           \/ field[Chan(s)] = "bev" /\ bev[Chan(s)] = "live" /\ Chan(s) \in refused
    BY <1>1, SessionFacts DEF SessionInv, Stage, Resting, Accepting
  <1>3. field[Chan(s)] # "NULL" => ~Confused(Chan(s))
    BY <1>1, NotAListener, SessionFacts DEF Confused
  <1>4. /\ bev' \in [Channel -> {"none", "live", "freed"}]
        /\ table' \in [Fds -> Channel \cup {NULL}]
        /\ \A c \in Channel :
              bev'[c] = IF c = Chan(s) /\ field[c] # "NULL" THEN "freed" ELSE bev[c]
        /\ calls' \subseteq calls /\ Chan(s) \notin calls'
        /\ fault' = {}
    <2>1. Chan(s) \notin calls \/ field[Chan(s)] # "NULL"
      BY <1>1, NotCalled
    <2>2. BevsFreed({Chan(s)}, {fd[s]}) /\ {Chan(s)} \in SUBSET Channel
      BY <1>1, SessionFacts
    <2>3. /\ bev' \in [Channel -> {"none", "live", "freed"}]
          /\ table' \in [Fds -> Channel \cup {NULL}]
          /\ \A c \in Channel : bev'[c] = IF c \in {Chan(s)} /\ field[c] # "NULL" THEN "freed" ELSE bev[c]
          /\ calls' \subseteq calls /\ \A c \in calls' : c \notin {Chan(s)} \/ field[c] = "NULL"
      BY <1>1, <2>2, BevsFreedFacts
    <2>5. fault' = {c \in {Chan(s)} : field[c] # "NULL" /\ (bev[c] # "live" \/ Confused(c))}
      BY DEF Misfreed
    <2>4. field[Chan(s)] # "NULL" => bev[Chan(s)] = "live" /\ ~Confused(Chan(s))
      BY <1>2, <1>3
    <2> QED
      BY <2>1, <2>3, <2>4, <2>5
  <1>5. /\ at'[s] = "connect_failed" /\ fd' = [fd EXCEPT ![s] = NoFd] /\ fd'[s] = NoFd
        /\ UNCHANGED <<slot, held, bevfd, block, field, listen, runVars>>
        /\ \A p \in Proc \ {s} : at'[p] = at[p] /\ fd'[p] = fd[p]
    BY <1>1, SessionFacts DEF Goto, TypeOK
  <1>6. TypeOK'
    BY <1>1, <1>4, <1>5, SessionFacts DEF TypeOK, Goto, runVars
  <1>7. Owners'
    BY <1>1, <1>5, OwnersFree, SessionFacts
  <1>8. SessionInv(s)'
    <2>1. Chan(s)' = Chan(s)
      BY <1>5 DEF Chan
    <2>2. Stage(s)' /\ slot[s] \notin held'[s]
      BY <1>1, <1>2, <1>4, <1>5, <2>1, SessionFacts DEF Stage, Accepting, runVars
    <2> QED
      BY <1>1, <1>2, <1>4, <1>5, <2>1, <2>2, SessionGoesOn, SessionFacts DEF Resting
  <1>9. Others(s) /\ CallsStep(s)
    BY <1>1, <1>4, <1>5, SessionFacts DEF Others, CallsStep, runVars, StageInv, CallsInv, Of, TypeOK
  <1> QED
    BY <1>1, <1>4, <1>6, <1>7, <1>8, <1>9, SessionStep

(* session_free with every channel the session holds, and the one its      *)
(* handler works on.                                                       *)
LEMMA SessionFreedInv ==
    ASSUME IInv, fault = {}, NEW s \in Sessions, NEW C, SessionFreed(s, C), fd[s] = NoFd,
           \/ C = {} /\ at[s] = "idle"
           \/ C = {Chan(s)} /\ at[s] \in {"session_new", "connect_failed"}
    PROVE  IInv'
  <1> DEFINE D == {<<s, i>> : i \in held[s]} \cup C
  <1>1. TypeOK /\ Owners /\ StageInv /\ SessionInv(s)
    BY DEF IInv, StageInv
  <1>2. D \in SUBSET Channel /\ BevsFreed(D, {})
    BY <1>1, SessionFacts DEF SessionFreed, tcp_socket_free, TypeOK
  <1>3. \A i \in Slot : <<s, i>> \in D <=> i \in held[s] \/ <<s, i>> \in C
    BY <1>1 DEF TypeOK
  <1>4. \A c \in D : \E i \in Slot : c = <<s, i>>
    BY <1>1, SessionFacts DEF TypeOK
  <1>5. ASSUME NEW i \in Slot
        PROVE  /\ <<s, i>> \notin D => SlotRest(s, i) /\ i \notin held[s]
               /\ <<s, i>> \in D /\ field[<<s, i>>] # "NULL" /\ bev[<<s, i>>] # "live" => <<s, i>> \in refused
               /\ <<s, i>> \in D /\ field[<<s, i>>] = "NULL" => bev[<<s, i>>] # "live"
               /\ <<s, i>> \in D => block[<<s, i>>] = "live"
    <2>1. CASE <<s, i>> \in C
      <3>1. i = slot[s] /\ <<s, i>> = Chan(s) /\ at[s] \in {"session_new", "connect_failed"}
        BY <1>1, <2>1, SessionFacts
      <3>2. Stage(s)
        BY <1>1, <3>1 DEF SessionInv, Resting
      <3> QED
        BY <3>1, <3>2, <1>3, <2>1 DEF Stage
    <2>2. CASE <<s, i>> \notin C
      <3>1. i # slot[s] \/ at[s] \in Resting
        BY <1>1, <2>2, SessionFacts DEF Resting
      <3>2. SlotRest(s, i)
        BY <1>1, <3>1 DEF SessionInv
      <3> QED
        BY <3>2, <1>3, <2>2 DEF SlotRest
    <2> QED
      BY <2>1, <2>2
  <1> HIDE DEF D
  <1>6. /\ bev' \in [Channel -> {"none", "live", "freed"}]
        /\ table' \in [Fds -> Channel \cup {NULL}]
        /\ \A c \in Channel : bev'[c] = IF c \in D /\ field[c] # "NULL" THEN "freed" ELSE bev[c]
        /\ calls' \subseteq calls /\ \A c \in calls' : c \notin D \/ field[c] = "NULL"
    BY <1>1, <1>2, BevsFreedFacts
  <1>7. /\ fault' = Misfreed(D) \cup {c \in D : block[c] # "live"}
        /\ block' = [c \in Channel |-> IF c \in D THEN "freed" ELSE block[c]]
        /\ field' = [c \in Channel |-> IF c \in D THEN "NULL" ELSE field[c]]
        /\ held' = [held EXCEPT ![s] = {}] /\ at' = [at EXCEPT ![s] = "gone"]
        /\ UNCHANGED <<slot, fd, runVars, bevfd, listen>>
    BY DEF SessionFreed, tcp_socket_free, Goto, D
  <1>8. TypeOK' /\ fault' \subseteq refused'
    <2>1. fault' \subseteq refused
      <3> SUFFICES ASSUME NEW c \in fault' PROVE c \in refused
        OBVIOUS
      <3>0. c \in D
        BY <1>7 DEF Misfreed
      <3> PICK i \in Slot : c = <<s, i>>
        BY <1>4, <3>0
      <3>1. c \in D /\ field[c] # "NULL" /\ (bev[c] # "live" \/ Confused(c))
        BY <1>5, <1>7, <3>0 DEF Misfreed
      <3>2. ~Confused(c)
        BY <1>1, <3>1, NotAListener DEF Confused
      <3> QED
        BY <1>5, <3>1, <3>2
    <2> QED
      BY <1>1, <1>2, <1>6, <1>7, <2>1, SessionFacts DEF TypeOK, runVars
  <1>9. Owners'
    BY <1>1, <1>2, <1>7, OwnersFree, SessionFacts
  <1>10. SessionInv(s)'
    <2>1. at'[s] = "gone" /\ held'[s] = {} /\ fd'[s] = NoFd
      BY <1>1, <1>7, SessionFacts DEF TypeOK
    <2>2. ASSUME NEW i \in Slot PROVE SlotRest(s, i)'
      <3>1. <<s, i>> \in Channel
        BY <1>1, SessionFacts
      <3>2. /\ bev'[<<s, i>>] = IF <<s, i>> \in D /\ field[<<s, i>>] # "NULL" THEN "freed" ELSE bev[<<s, i>>]
            /\ block'[<<s, i>>] = IF <<s, i>> \in D THEN "freed" ELSE block[<<s, i>>]
            /\ field'[<<s, i>>] = IF <<s, i>> \in D THEN "NULL" ELSE field[<<s, i>>]
        BY <1>6, <1>7, <3>1
      <3>3. CASE <<s, i>> \in D
        BY <1>5, <2>1, <3>2, <3>3 DEF SlotRest
      <3>4. CASE <<s, i>> \notin D
        BY <1>5, <2>1, <3>2, <3>4 DEF SlotRest
      <3> QED
        BY <3>3, <3>4
    <2> QED
      BY <2>1, <2>2 DEF SessionInv, Resting
  <1>11. Others(s)
    <2>1. \A c \in Channel : ~Of(s, c) => c \notin D
      BY <1>1, <1>4 DEF Of
    <2> QED
      BY <1>1, <1>6, <1>7, <2>1, SessionFacts DEF Others, runVars, TypeOK
  <1>12. CallsStep(s)
    <2> SUFFICES ASSUME NEW c \in calls', Of(s, c) PROVE FALSE
      BY <1>6 DEF CallsStep
    <2> PICK i \in Slot : c = <<s, i>>
      BY DEF Of
    <2>1. bev[c] = "live" /\ block[c] = "live" /\ field[c] # "NULL"
      BY <1>1, <1>6, SessionFacts DEF StageInv, CallsInv
    <2>2. c \notin D
      BY <1>6, <2>1
    <2> QED
      BY <1>5, <2>1, <2>2 DEF SlotRest
  <1>13. at'[s] \in Resting
    BY <1>1, <1>7, SessionFacts DEF TypeOK, Resting
  <1>14. CASE fault' = {}
    BY <1>8, <1>9, <1>10, <1>11, <1>12, <1>13, <1>14, SessionStep
  <1>15. CASE fault' # {}
    BY <1>8, <1>9, <1>15 DEF IInv
  <1> QED
    BY <1>14, <1>15

LEMMA session_newInv ==
    ASSUME IInv, NEW s \in Sessions, session_new(s)
    PROVE  IInv'
  <1>1. TypeOK /\ Owners /\ StageInv /\ SessionInv(s) /\ fault = {} /\ ~stopped /\ at[s] = "session_new"
    BY DEF IInv, StageInv, Running, session_new
  <1>2. bev[Chan(s)] = "live" /\ block[Chan(s)] = "live" /\ field[Chan(s)] = "bev"
        /\ held[s] = {} /\ slot[s] = "CLIENT" /\ Chan(s) = <<s, "CLIENT">> /\ fd[s] = NoFd
    BY <1>1, SessionFacts DEF SessionInv, Stage, Resting, Accepting
  <1>3. CASE SessionFreed(s, {<<s, "CLIENT">>})
    BY <1>1, <1>2, <1>3, SessionFreedInv
  <1>4. CASE /\ Goto(s, "idle") /\ held' = [held EXCEPT ![s] = {"CLIENT"}]
             /\ UNCHANGED <<table, slot, fd, channelVars, runVars, fault>>
    <2>1. TypeOK'
      BY <1>1, <1>2, <1>4, SessionFacts DEF TypeOK, Goto, channelVars, runVars
    <2>2. Owners'
      BY <1>1, <1>4, OwnersSame DEF channelVars
    <2>3. at'[s] = "idle" /\ held'[s] = {"CLIENT"} /\ Chan(s)' = Chan(s)
      BY <1>1, <1>4, SessionFacts DEF Goto, Chan, TypeOK
    <2>4. SlotRest(s, slot[s])'
      BY <1>2, <1>4, <2>3 DEF SlotRest, channelVars
    <2>5. SessionInv(s)'
      BY <1>1, <1>2, <1>4, <2>3, <2>4, SessionGoesOn, SessionFacts DEF channelVars, Resting
    <2>6. Others(s) /\ CallsStep(s) /\ fault' = {}
      BY <1>1, <1>4, SessionFacts DEF Others, CallsStep, Goto, channelVars, runVars, TypeOK,
         StageInv, CallsInv
    <2> QED
      BY <1>1, <2>1, <2>2, <2>5, <2>6, SessionStep
  <1> QED
    BY <1>3, <1>4 DEF session_new

LEMMA http_server_connectInv ==
    ASSUME IInv, NEW s \in Sessions, http_server_connect(s)
    PROVE  IInv'
  <1>1. TypeOK /\ Owners /\ StageInv /\ SessionInv(s) /\ fault = {} /\ ~stopped /\ at[s] = "idle"
    BY DEF IInv, StageInv, Running, http_server_connect
  <1> PICK i \in {"NAME", "JOKE"} : /\ block[<<s, i>>] = "none"
                                    /\ slot' = [slot EXCEPT ![s] = i]
                                    /\ block' = [block EXCEPT ![<<s, i>>] = "live"]
    BY DEF http_server_connect
  <1>2. i \in Slot /\ <<s, i>> \in Channel /\ <<s, i>> \notin Listeners /\ i # "CLIENT"
    BY <1>1, SessionFacts DEF Slot
  <1>3. fd[s] = NoFd /\ \A j \in Slot : SlotRest(s, j)
    BY <1>1 DEF SessionInv, Resting
  <1>4. bev[<<s, i>>] = "none" /\ field[<<s, i>>] = "NULL" /\ i \notin held[s]
    BY <1>2, <1>3 DEF SlotRest
  <1>5. /\ at'[s] = "connect" /\ slot'[s] = i
        /\ \A p \in Proc \ {s} : at'[p] = at[p]
        /\ \A r \in Sessions \ {s} : slot'[r] = slot[r]
        /\ \A c \in Channel : block'[c] = IF c = <<s, i>> THEN "live" ELSE block[c]
        /\ UNCHANGED <<table, fd, bev, bevfd, calls, field, listen, held, runVars, fault>>
    <2>1. UNCHANGED <<table, fd, bev, bevfd, calls, field, listen, held, runVars, fault>>
      BY DEF http_server_connect
    <2>2. at' = [at EXCEPT ![s] = "connect"]
      BY DEF http_server_connect, Goto
    <2>3. \A c \in Channel : block'[c] = IF c = <<s, i>> THEN "live" ELSE block[c]
      BY <1>1, <1>2 DEF TypeOK
    <2> QED
      BY <1>1, <2>1, <2>2, <2>3, SessionFacts DEF TypeOK
  <1>6. TypeOK'
    BY <1>1, <1>2, <1>5, SessionFacts DEF TypeOK, Goto, http_server_connect, runVars
  <1>7. Owners'
    BY <1>1, <1>3, <1>5, OwnersSame
  <1>8. SessionInv(s)'
    <2>1. ASSUME NEW j \in Slot, j # i PROVE SlotRest(s, j)'
      <3>1. <<s, j>> \in Channel /\ <<s, j>> # <<s, i>>
        BY <1>1, <2>1, SessionFacts
      <3> QED
        BY <1>3, <1>5, <3>1 DEF SlotRest
    <2>2. Stage(s)'
      <3>1. Chan(s)' = <<s, i>>
        BY <1>5 DEF Chan
      <3> QED
        BY <1>2, <1>4, <1>5, <3>1 DEF Stage, Accepting
    <2> QED
      BY <1>3, <1>4, <1>5, <2>1, <2>2 DEF SessionInv, Resting
  <1>9. Others(s)
    BY <1>2, <1>5 DEF Others, Of, runVars
  <1>10. CallsStep(s)
    BY <1>1, <1>2, <1>5 DEF CallsStep, StageInv, CallsInv, TypeOK
  <1> QED
    BY <1>1, <1>5, <1>6, <1>7, <1>8, <1>9, <1>10, SessionStep

(* An upstream that has replied: its channel is freed, and no longer held. *)
LEMMA http_responseInv ==
    ASSUME IInv, NEW s \in Sessions, http_response(s)
    PROVE  IInv'
  <1>1. TypeOK /\ Owners /\ StageInv /\ SessionInv(s) /\ fault = {} /\ ~stopped /\ at[s] = "idle"
    BY DEF IInv, StageInv, Running, http_response
  <1> PICK i \in held[s] \cap {"NAME", "JOKE"} : /\ tcp_socket_free({<<s, i>>})
                                               /\ held' = [held EXCEPT ![s] = @ \ {i}]
    BY DEF http_response
  <1> DEFINE c == <<s, i>>
  <1>2. i \in Slot /\ c \in Channel /\ c \notin Listeners /\ {c} \in SUBSET Channel
    BY <1>1, SessionFacts DEF Slot
  <1>3. fd[s] = NoFd /\ \A j \in Slot : SlotRest(s, j)
    BY <1>1 DEF SessionInv, Resting
  <1>4. block[c] = "live" /\ bev[c] = "live" /\ field[c] = "bev"
    BY <1>2, <1>3 DEF SlotRest
  <1>5. ~Confused(c)
    BY <1>1, <1>2, <1>4 DEF Confused, TypeOK
  <1>6. /\ fault' = {} /\ BevsFreed({c}, {}) /\ fd' = fd
        /\ UNCHANGED <<at, slot, fd, runVars, bevfd, listen>>
    BY <1>4, <1>5 DEF tcp_socket_free, Misfreed, http_response
  <1>7. /\ bev' \in [Channel -> {"none", "live", "freed"}]
        /\ table' \in [Fds -> Channel \cup {NULL}]
        /\ \A d \in Channel : bev'[d] = IF d \in {c} /\ field[d] # "NULL" THEN "freed" ELSE bev[d]
        /\ calls' \subseteq calls /\ \A d \in calls' : d \notin {c} \/ field[d] = "NULL"
    BY <1>1, <1>2, <1>6, BevsFreedFacts
  <1>8. /\ block' = [d \in Channel |-> IF d \in {c} THEN "freed" ELSE block[d]]
        /\ field' = [d \in Channel |-> IF d \in {c} THEN "NULL" ELSE field[d]]
        /\ held'[s] = held[s] \ {i} /\ \A r \in Sessions \ {s} : held'[r] = held[r]
    BY <1>1 DEF tcp_socket_free, TypeOK
  <1> HIDE DEF c
  <1>9. TypeOK'
    <2>1. held' \in [Sessions -> SUBSET Slot]
      BY <1>1 DEF TypeOK
    <2> QED
      BY <1>1, <1>2, <1>6, <1>7, <1>8, <2>1 DEF TypeOK, runVars
  <1>10. Owners'
    BY <1>1, <1>2, <1>6, OwnersFree, SessionFacts
  <1>11. SessionInv(s)'
    <2>1. ASSUME NEW j \in Slot PROVE SlotRest(s, j)'
      <3>1. <<s, j>> \in Channel /\ (<<s, j>> = c <=> j = i)
        BY <1>1, SessionFacts DEF c
      <3> QED
        BY <1>3, <1>4, <1>7, <1>8, <3>1 DEF SlotRest
    <2> QED
      BY <1>1, <1>3, <1>6, <2>1 DEF SessionInv, Resting
  <1>12. Others(s)
    <2>1. \A d \in Channel : ~Of(s, d) => d # c
      BY <1>2 DEF Of, c
    <2> QED
      BY <1>1, <1>6, <1>7, <1>8, <2>1, SessionFacts DEF Others, runVars, TypeOK
  <1>13. CallsStep(s)
    BY <1>1, <1>4, <1>7, <1>8 DEF CallsStep, StageInv, CallsInv, TypeOK
  <1>14. at'[s] \in Resting
    BY <1>1, <1>6 DEF Resting
  <1> QED
    BY <1>1, <1>6, <1>9, <1>10, <1>11, <1>12, <1>13, <1>14, SessionStep

LEMMA SessionEndsInv ==
    ASSUME IInv, NEW s \in Sessions,
           ConnectFailed(s) \/ http_service_session_remove(s) \/ FiniSession(s)
    PROVE  IInv'
  <1>1. SessionInv(s) /\ fault = {}
    BY DEF IInv, StageInv, Running, ConnectFailed, http_service_session_remove, FiniSession
  <1>2. fd[s] = NoFd
    BY <1>1 DEF SessionInv, ConnectFailed, http_service_session_remove, FiniSession
  <1>3. CASE ConnectFailed(s)
    BY <1>1, <1>2, <1>3, SessionFreedInv DEF ConnectFailed
  <1>4. CASE http_service_session_remove(s)
    BY <1>1, <1>2, <1>4, SessionFreedInv DEF http_service_session_remove
  <1>5. CASE FiniSession(s)
    BY <1>1, <1>2, <1>5, SessionFreedInv DEF FiniSession
  <1> QED
    BY <1>3, <1>4, <1>5

-----------------------------------------------------------------------------
(* The steps of a listener.                                                *)

LEMMA ListenerFacts ==
    ASSUME TypeOK, NEW l \in Listeners
    PROVE  /\ l \in Proc /\ l \notin Sessions /\ l \in Channel
           /\ Chan(l) = l /\ Chan(l)' = l /\ \A c : Of(l, c) <=> c = l
  BY ChannelOfProc DEF Proc, Chan, Of

LEMMA ListenerStep ==
    ASSUME IInv, fault = {}, NEW l \in Listeners, TypeOK', Owners', fault' = {},
           Others(l), CallsStep(l), ListenerInv(l)', stopped => at'[l] \in Resting
    PROVE  IInv'
  BY ListenerFacts, StageOfStep DEF IInv

LEMMA ListenOpensSocketInv ==
    ASSUME IInv, NEW l \in Listeners, ListenOpensSocket(l)
    PROVE  IInv'
  <1> USE DEF ListenOpensSocket
  <1>1. TypeOK /\ Owners /\ StageInv /\ ListenerInv(l) /\ fault = {} /\ fault' = {} /\ ~stopped
    BY DEF IInv, StageInv, Running
  <1>2. fd[l] = NoFd /\ bev[l] = "none" /\ block[l] = "live" /\ field[l] = "NULL"
    BY <1>1 DEF ListenerInv
  <1>3. PICK f \in Fds : /\ table' = [table EXCEPT ![f] = l]
                         /\ fd' = [fd EXCEPT ![l] = f]
    BY DEF Opens
  <1>4. TypeOK'
    BY <1>1, <1>3, ListenerFacts DEF TypeOK, Goto, channelVars, runVars
  <1>5. Owners'
    BY <1>1, <1>2, OwnersOpen, ListenerFacts DEF channelVars
  <1>6. ListenerInv(l)'
    BY <1>1, <1>2, <1>3, ListenerFacts DEF ListenerInv, Goto, channelVars, TypeOK
  <1>7. Others(l) /\ CallsStep(l)
    BY <1>1, <1>2, <1>3, ListenerFacts DEF Others, CallsStep, Goto, channelVars, runVars, TypeOK,
       StageInv, CallsInv
  <1> QED
    BY <1>1, <1>4, <1>5, <1>6, <1>7, ListenerStep

LEMMA ListenFailsInv ==
    ASSUME IInv, NEW l \in Listeners, ListenFails(l)
    PROVE  IInv'
  <1> USE DEF ListenFails
  <1>1. TypeOK /\ Owners /\ StageInv /\ ListenerInv(l) /\ fault = {} /\ fault' = {} /\ ~stopped
    BY DEF IInv, StageInv, Running
  <1>2. bev[l] = "none" /\ block[l] = "live" /\ field[l] = "NULL"
    BY <1>1 DEF ListenerInv
  <1>3. TypeOK'
    BY <1>1, ListenerFacts DEF TypeOK, Closed, Goto, channelVars, runVars
  <1>4. Owners'
    BY <1>1, OwnersLet, ListenerFacts DEF channelVars
  <1>5. ListenerInv(l)'
    BY <1>1, <1>2, ListenerFacts DEF ListenerInv, Goto, channelVars, TypeOK
  <1>6. Others(l) /\ CallsStep(l)
    BY <1>1, <1>2, ListenerFacts DEF Others, CallsStep, Goto, channelVars, runVars, TypeOK,
       StageInv, CallsInv
  <1> QED
    BY <1>1, <1>3, <1>4, <1>5, <1>6, ListenerStep

LEMMA ListenMakesListenerInv ==
    ASSUME IInv, NEW l \in Listeners, ListenMakesListener(l)
    PROVE  IInv'
  <1> USE DEF ListenMakesListener
  <1>1. TypeOK /\ Owners /\ StageInv /\ ListenerInv(l) /\ fault = {} /\ fault' = {} /\ ~stopped
    BY DEF IInv, StageInv, Running
  <1>2. bev[l] = "none" /\ block[l] = "live" /\ field[l] = "NULL"
    BY <1>1 DEF ListenerInv
  <1>3. TypeOK'
    BY <1>1, ListenerFacts DEF TypeOK, Makes, Goto, runVars
  <1>4. Owners'
    BY <1>1, <1>2, OwnersTake, ListenerFacts
  <1>5. ListenerInv(l)'
    BY <1>1, <1>2, ListenerFacts DEF ListenerInv, Makes, Goto, TypeOK
  <1>6. Others(l) /\ CallsStep(l)
    BY <1>1, <1>5, ListenerFacts DEF Others, CallsStep, Makes, Goto, runVars, TypeOK,
       StageInv, CallsInv, ListenerInv
  <1> QED
    BY <1>1, <1>3, <1>4, <1>5, <1>6, ListenerStep

LEMMA FiniListenerInv ==
    ASSUME IInv, NEW l \in Listeners, FiniListener(l)
    PROVE  IInv'
  <1> USE DEF FiniListener
  <1>1. TypeOK /\ Owners /\ StageInv /\ ListenerInv(l) /\ fault = {} /\ stopped
    BY DEF IInv, StageInv
  <1>2. fd[l] = NoFd /\ at[l] # "listen"
    BY <1>1, ListenerFacts DEF ListenerInv, StageInv, Resting
  <1>3. field[l] # "NULL" => bev[l] = "live" /\ ~Confused(l)
    BY <1>1, <1>2 DEF ListenerInv, Confused
  <1>4. BevsFreed({l}, {}) /\ {l} \in SUBSET Channel
    BY <1>1, ListenerFacts DEF tcp_socket_free
  <1>5. /\ bev' \in [Channel -> {"none", "live", "freed"}]
        /\ table' \in [Fds -> Channel \cup {NULL}]
        /\ \A c \in Channel : bev'[c] = IF c \in {l} /\ field[c] # "NULL" THEN "freed" ELSE bev[c]
        /\ calls' \subseteq calls /\ \A c \in calls' : c \notin {l} \/ field[c] = "NULL"
    BY <1>1, <1>4, BevsFreedFacts
  <1>6. fault' = {}
    BY <1>3 DEF tcp_socket_free, Misfreed
  <1>7. /\ block' = [c \in Channel |-> IF c \in {l} THEN "freed" ELSE block[c]]
        /\ field' = [c \in Channel |-> IF c \in {l} THEN "NULL" ELSE field[c]]
        /\ at' = [at EXCEPT ![l] = "gone"]
        /\ UNCHANGED <<slot, fd, held, runVars, bevfd, listen>>
    BY DEF tcp_socket_free, Goto
  <1>8. TypeOK'
    BY <1>1, <1>5, <1>6, <1>7, ListenerFacts DEF TypeOK, runVars
  <1>9. Owners'
    BY <1>1, <1>4, <1>7, OwnersFree, ListenerFacts
  <1>10. ListenerInv(l)'
    BY <1>1, <1>2, <1>5, <1>7, ListenerFacts DEF ListenerInv, TypeOK
  <1>11. Others(l) /\ CallsStep(l)
    BY <1>1, <1>5, <1>7, ListenerFacts DEF Others, CallsStep, runVars, TypeOK, StageInv, CallsInv
  <1>12. at'[l] \in Resting
    BY <1>1, <1>7, ListenerFacts DEF TypeOK, Resting
  <1> QED
    BY <1>1, <1>6, <1>8, <1>9, <1>10, <1>11, <1>12, ListenerStep

-----------------------------------------------------------------------------
(* The invariant, and what follows from it.                                *)

LEMMA InitInv == Init => IInv
  <1> SUFFICES ASSUME Init PROVE IInv
    OBVIOUS
  <1>1. TypeOK
    BY DEF Init, TypeOK, Proc, Slot
  <1>2. Owners
    BY <1>1, TcpSocketAssumption, ChannelOfProc DEF Init, Owners, HandlerOwns, BevOwns
  <1>3. ASSUME NEW s \in Sessions PROVE SessionInv(s)
    <2>1. at[s] = "start" /\ held[s] = {} /\ slot[s] = "CLIENT" /\ fd[s] = NoFd
      BY <1>1, SessionFacts DEF Init
    <2>2. ASSUME NEW i \in Slot
          PROVE  bev[<<s, i>>] = "none" /\ block[<<s, i>>] = "none" /\ field[<<s, i>>] = "NULL"
      BY <1>1, SessionFacts DEF Init
    <2>3. \A i \in Slot : SlotRest(s, i)
      BY <2>1, <2>2 DEF SlotRest
    <2>4. bev[Chan(s)] = "none" /\ block[Chan(s)] = "none"
      BY <1>1, <2>2, SessionFacts
    <2> QED
      BY <2>1, <2>3, <2>4 DEF SessionInv, Resting
  <1>4. ASSUME NEW l \in Listeners PROVE ListenerInv(l)
    BY <1>1, ListenerFacts DEF Init, ListenerInv
  <1>5. CallsInv /\ ~stopped /\ fault = {}
    BY DEF Init, CallsInv
  <1> QED
    BY <1>1, <1>2, <1>3, <1>4, <1>5 DEF IInv, StageInv

LEMMA NextInv == IInv /\ [Next]_vars => IInv'
  <1> SUFFICES ASSUME IInv, [Next]_vars PROVE IInv'
    OBVIOUS
  <1>1. CASE UNCHANGED vars
    <2>1. TypeOK' /\ Owners' /\ (fault \subseteq refused)'
      BY <1>1 DEF IInv, TypeOK, Owners, HandlerOwns, BevOwns, Chan, vars, channelVars, runVars
    <2>2. StageInv => StageInv'
      <3>1. ASSUME NEW s \in Sessions, SessionInv(s) PROVE SessionInv(s)'
        BY <1>1, <3>1, SessionFrame, SessionFacts DEF vars, channelVars, runVars, IInv
      <3>2. ASSUME NEW l \in Listeners, ListenerInv(l) PROVE ListenerInv(l)'
        BY <1>1, <3>2, ListenerFrame DEF vars, channelVars
      <3> QED
        BY <1>1, <3>1, <3>2 DEF StageInv, CallsInv, vars, channelVars, runVars
    <2> QED
      BY <1>1, <2>1, <2>2 DEF IInv, vars
  <1>2. ASSUME NEW s \in Sessions, AcceptStep(s) PROVE IInv'
    BY <1>2, AcceptConnectionInv, AcceptFailsInv, AcceptMakesBevInv, AcceptWithoutChannelInv,
       AcceptMakesChannelInv, AcceptConfiguresInv, AcceptConfigFailsInv, session_newInv
    DEF AcceptStep
  <1>3. ASSUME NEW s \in Sessions, ConnectStep(s) PROVE IInv'
    BY <1>3, http_server_connectInv, ConnectOpensSocketInv, ConnectMakesBevInv,
       ConnectConfiguresInv, ConnectConfigFailsInv, ConnectingInv, ConnectFailsInv,
       ConnectReleasesInv, SessionEndsInv, http_responseInv
    DEF ConnectStep
  <1>4. ASSUME NEW s \in Sessions, http_service_session_remove(s) \/ FiniSession(s) PROVE IInv'
    BY <1>4, SessionEndsInv
  <1>5. ASSUME NEW l \in Listeners,
               ListenOpensSocket(l) \/ ListenFails(l) \/ ListenMakesListener(l) \/ FiniListener(l)
        PROVE  IInv'
    BY <1>5, ListenOpensSocketInv, ListenFailsInv, ListenMakesListenerInv, FiniListenerInv
  <1>6. CASE WorkersJoined
    <2> USE DEF WorkersJoined
    <2>1. TypeOK /\ Owners /\ StageInv /\ fault = {}
      BY <1>6 DEF IInv, Running
    <2>2. TypeOK' /\ Owners'
      BY <1>6, <2>1, OwnersSame DEF TypeOK, channelVars
    <2>3. ASSUME NEW s \in Sessions PROVE SessionInv(s)'
      BY <1>6, <2>1, SessionFrame, SessionFacts DEF StageInv, channelVars
    <2>4. ASSUME NEW l \in Listeners PROVE ListenerInv(l)'
      BY <1>6, <2>1, ListenerFrame DEF StageInv, channelVars
    <2>5. CallsInv' /\ \A p \in Proc : at'[p] \in Resting
      BY <1>6, <2>1 DEF StageInv, CallsInv, AtRest, Resting, channelVars
    <2> QED
      BY <1>6, <2>1, <2>2, <2>3, <2>4, <2>5 DEF IInv, StageInv
  <1> QED
    BY <1>1, <1>2, <1>3, <1>4, <1>5, <1>6 DEF Next

LEMMA Invariance == Spec => []IInv
  BY InitInv, NextInv, PTL DEF Spec

(* tcp_socket.c:143, 355, 408: an open descriptor has one owner at any     *)
(* instant, and it is the one it was opened for.                           *)
THEOREM DescriptorsOwned == Spec => []OneOwner
  <1>1. IInv => OneOwner
    BY DEF IInv, Owners, OneOwner
  <1> QED
    BY <1>1, Invariance, PTL

(* tcp_socket.c:286, 397: a bufferevent or listener that calls back finds  *)
(* its channel allocated, and holding it.                                  *)
THEOREM CallbacksFindChannels == Spec => []CallbackFindsChannel
  <1>1. IInv => CallbackFindsChannel
    BY DEF IInv, StageInv, CallsInv, CallbackFindsChannel
  <1> QED
    BY <1>1, Invariance, PTL

(* tcp_socket.c:56, http_service.c:61, session.c:260-261, 321-322: between *)
(* handlers a live bufferevent belongs to a channel that its session       *)
(* holds, or is the one lost with a connection accepted without memory for *)
(* its channel; and the session holds no freed channel, the upstream that  *)
(* was freed on its reply included.                                        *)
THEOREM BufferEventsHeld == Spec => []HeldOrLost
  <1>1. ASSUME IInv, fault = {}, NEW s \in Sessions, NEW i \in Slot, AtRest(s)
        PROVE  /\ (block[<<s, i>>] = "live") = (i \in held[s])
               /\ (bev[<<s, i>>] = "live") = (i \in held[s] \/ Lost(<<s, i>>))
    <2>1. SlotRest(s, i)
      BY <1>1 DEF IInv, StageInv, SessionInv, AtRest, Resting
    <2> QED
      BY <2>1 DEF SlotRest, Lost
  <1>2. IInv => HeldOrLost
    BY <1>1 DEF HeldOrLost
  <1> QED
    BY <1>2, Invariance, PTL

(* tcp_socket.c:167, session.c:261, 322, 429: no channel or bufferevent is *)
(* freed twice, or as what it is not, but the bufferevent of a connect     *)
(* that failed on it; an upstream freed on its reply is not freed again    *)
(* with its session.                                                       *)
THEOREM FreedTwiceOnlyIfRefused == Spec => []FreedOnce
  <1>1. IInv => FreedOnce
    BY DEF IInv, FreedOnce
  <1> QED
    BY <1>1, Invariance, PTL

=============================================================================
