----------------------------- MODULE TcpSocket ------------------------------
(***************************************************************************)
(* Who owns a connection (tcp_socket.c): the descriptor that socket() or   *)
(* the listener returns, the bufferevent or evconnlistener that takes it   *)
(* over, the io_channel that holds that one and the session that holds the *)
(* channel, on every path of accept, connect, listen and free, with the    *)
(* callers that decide what is released when one of them fails.            *)
(*                                                                         *)
(* A session runs one handler at a time, and the handlers of sessions and  *)
(* listeners interleave: descriptors are one table for all threads, and a  *)
(* number that is closed is given out again.                               *)
(***************************************************************************)
EXTENDS FiniteSets

CONSTANTS
    Sessions, Listeners,
    Fds,             \* bound: the descriptors of the process
    NULL, NoFd       \* a closed entry of the table; a variable holding -1

Slot == {"CLIENT", "NAME", "JOKE"}

(* A session makes one channel for each slot, a worker's listener is one.  *)
Channel == (Sessions \X Slot) \cup Listeners

ASSUME TcpSocketAssumption ==
    /\ Listeners \cap (Sessions \cup (Sessions \X Slot)) = {}
    /\ NULL \notin Channel /\ NoFd \notin Fds

VARIABLES
    table,    \* what each descriptor refers to: the connection of a channel
    at,       \* where the handler of a session or a listener is
    slot,     \* http_server_connect: the session's channel it works on
    fd,       \* the local variable fd of its handler
    bev,      \* the heap block of each bufferevent or evconnlistener
    bevfd,    \* and the descriptor it has taken over
    calls,    \* the channels whose bufferevent or listener calls back
    block,    \* the heap block of each tcp_socket
    field,    \* its union: "NULL", "bev" or "listener"
    listen,   \* the channels with tcp_socket->listen
    held,     \* the slots of http_sessions that each session holds
    stopped,  \* the workers have been joined
    refused,  \* history: the channels whose connect failed at once, on the
              \* bufferevent made for it
    fault     \* the channels freed again, or whose bufferevent has been
              \* freed again or as what it is not; nothing runs after it

channelVars == <<bev, bevfd, calls, block, field, listen>>
runVars == <<stopped, refused>>
vars == <<table, at, slot, fd, bev, bevfd, calls, block, field, listen, held, stopped,
          refused, fault>>

Proc == Sessions \cup Listeners
Chan(p) == IF p \in Sessions THEN <<p, slot[p]>> ELSE p

(* Listeners are made by http_service_init. *)
Init ==
    /\ table = [f \in Fds |-> NULL]
    /\ at = [p \in Proc |-> "start"]
    /\ slot = [s \in Sessions |-> "CLIENT"]
    /\ fd = [p \in Proc |-> NoFd]
    /\ bev = [c \in Channel |-> "none"] /\ bevfd = [c \in Channel |-> NoFd]
    /\ calls = {}
    /\ block = [c \in Channel |-> IF c \in Listeners THEN "live" ELSE "none"]
    /\ field = [c \in Channel |-> "NULL"]
    /\ listen = {}
    /\ held = [s \in Sessions |-> {}]
    /\ stopped = FALSE /\ refused = {} /\ fault = {}

Goto(p, step) == at' = [at EXCEPT ![p] = step]
Running == ~stopped /\ fault = {}

(* The kernel opens a descriptor for a channel, or closes one. *)
Opens(p, c) == \E f \in Fds : /\ table[f] = NULL
                              /\ table' = [table EXCEPT ![f] = c]
                              /\ fd' = [fd EXCEPT ![p] = f]
Closed(F) == [f \in Fds |-> IF f \in F THEN NULL ELSE table[f]]

(* A bufferevent, or a listener, that takes over a descriptor. *)
Makes(c, f) == bev' = [bev EXCEPT ![c] = "live"] /\ bevfd' = [bevfd EXCEPT ![c] = f]

(* bufferevent_free or evconnlistener_free of what the channels of C hold, *)
(* with the option CLOSE_ON_FREE; and the descriptors F are closed.        *)
Confused(c) == (field[c] = "listener") # (c \in listen)

Misfreed(C) == {c \in C : field[c] # "NULL" /\ (bev[c] # "live" \/ Confused(c))}

BevsFreed(C, F) ==
    LET own == {c \in C : field[c] # "NULL"} IN
    /\ bev' = [c \in Channel |-> IF c \in own THEN "freed" ELSE bev[c]]
    /\ table' = Closed(F \cup {bevfd[c] : c \in {c \in own : bev[c] = "live"}})
    /\ calls' = calls \ own

(* Mutant: the channel is freed without its bufferevent. *)
OnlyChannelFreed(C) ==
    /\ block' = [c \in Channel |-> IF c \in C THEN "freed" ELSE block[c]]
    /\ field' = [c \in Channel |-> IF c \in C THEN "NULL" ELSE field[c]]
    /\ UNCHANGED <<table, bev, bevfd, calls, listen, fault>>

(* tcp_socket_free of each channel in C, whose blocks must be allocated. *)
tcp_socket_free(C) ==
    /\ BevsFreed(C, {})
    /\ fault' = Misfreed(C) \cup {c \in C : block[c] # "live"}
    /\ block' = [c \in Channel |-> IF c \in C THEN "freed" ELSE block[c]]
    /\ field' = [c \in Channel |-> IF c \in C THEN "NULL" ELSE field[c]]
    /\ UNCHANGED <<bevfd, listen>>

(* session_free with what it holds, and the channels in C. *)
SessionFreed(s, C) ==
    /\ tcp_socket_free({<<s, i>> : i \in held[s]} \cup C)
    /\ held' = [held EXCEPT ![s] = {}]
    /\ Goto(s, "gone")
    /\ UNCHANGED <<slot, fd, runVars>>

-----------------------------------------------------------------------------
(* Accepting a connection: tcp_socket_accept_cb, http_service_accept_cb    *)
(* and tcp_socket_accept.                                                  *)

(* libevent accepts for a listener, and calls tcp_socket_accept_cb. *)
AcceptConnection(s) ==
    /\ Running /\ at[s] = "start"
    /\ \E l \in Listeners : l \in calls
    /\ Opens(s, <<s, "CLIENT">>)
    /\ Goto(s, "accept_cb")
    /\ UNCHANGED <<slot, channelVars, held, runVars, fault>>

(* An address family, getsockname or bufferevent_socket_new that fails. *)
AcceptFails(s) ==
    /\ Running /\ at[s] = "accept_cb"
    /\ table' = Closed({fd[s]})
    /\ Goto(s, "gone") /\ fd' = [fd EXCEPT ![s] = NoFd]
    /\ UNCHANGED <<slot, channelVars, held, runVars, fault>>

AcceptMakesBev(s) ==
    /\ Running /\ at[s] = "accept_cb"
    /\ Makes(<<s, "CLIENT">>, fd[s])
    /\ Goto(s, "accept") /\ fd' = [fd EXCEPT ![s] = NoFd]
    /\ UNCHANGED <<table, slot, calls, block, field, listen, held, runVars, fault>>

(* No memory for the channel: http_service_accept_cb is told NULL, and     *)
(* nobody frees param->io_ctx.                                             *)
AcceptWithoutChannel(s) ==
    /\ Running /\ at[s] = "accept"
    /\ Goto(s, "gone")
    /\ UNCHANGED <<table, slot, fd, channelVars, held, runVars, fault>>

AcceptMakesChannel(s) ==
    /\ Running /\ at[s] = "accept"
    /\ block' = [block EXCEPT ![<<s, "CLIENT">>] = "live"]
    /\ field' = [field EXCEPT ![<<s, "CLIENT">>] = "bev"]
    /\ Goto(s, "accept_config")
    /\ UNCHANGED <<table, slot, fd, bev, bevfd, calls, listen, held, runVars, fault>>

(* tcp_socket_config: what it sets, and what it undoes. *)
Configured(c) == calls' = calls \cup {c}
ConfigFails(c) ==
    /\ BevsFreed({c}, {}) /\ fault' = Misfreed({c})
    /\ field' = [field EXCEPT ![c] = "NULL"]

AcceptConfigures(s) ==
    /\ Running /\ at[s] = "accept_config"
    /\ Configured(<<s, "CLIENT">>)
    /\ Goto(s, "session_new")
    /\ UNCHANGED <<table, slot, fd, bev, bevfd, block, field, listen, held, runVars, fault>>

AcceptConfigFails(s) ==
    /\ Running /\ at[s] = "accept_config"
    /\ ConfigFails(<<s, "CLIENT">>)
    /\ block' = [block EXCEPT ![<<s, "CLIENT">>] = "freed"]
    /\ Goto(s, "gone")
    /\ UNCHANGED <<slot, fd, bevfd, listen, held, runVars>>

session_new(s) ==
    /\ Running /\ at[s] = "session_new"
    /\ \/ /\ Goto(s, "idle") /\ held' = [held EXCEPT ![s] = {"CLIENT"}]
          /\ UNCHANGED <<table, slot, fd, channelVars, runVars, fault>>
       \/ SessionFreed(s, {<<s, "CLIENT">>})

-----------------------------------------------------------------------------
(* Connecting to an upstream: http_server_connect and tcp_socket_connect.  *)

(* tcp_socket_new and http_session_new; if one fails the session goes. *)
http_server_connect(s) ==
    /\ Running /\ at[s] = "idle"
    /\ \E i \in {"NAME", "JOKE"} :
          /\ block[<<s, i>>] = "none"
          /\ slot' = [slot EXCEPT ![s] = i]
          /\ block' = [block EXCEPT ![<<s, i>>] = "live"]
    /\ Goto(s, "connect")
    /\ UNCHANGED <<table, fd, bev, bevfd, calls, field, listen, held, runVars, fault>>

ConnectOpensSocket(s) ==
    /\ Running /\ at[s] = "connect"
    /\ Opens(s, Chan(s))
    /\ Goto(s, "connect_bev")
    /\ UNCHANGED <<slot, channelVars, held, runVars, fault>>

(* Mutant: the descriptor is closed again when a later call fails. *)
FdKept(s) ==
    /\ Running /\ at[s] = "connect_bev"
    /\ Makes(Chan(s), fd[s])
    /\ field' = [field EXCEPT ![Chan(s)] = "bev"]
    /\ Goto(s, "connect_config")
    /\ UNCHANGED <<table, slot, fd, calls, block, listen, held, runVars, fault>>

(* fd = -1: the bufferevent owns the descriptor from now on. *)
ConnectMakesBev(s) ==
    /\ Running /\ at[s] = "connect_bev"
    /\ Makes(Chan(s), fd[s])
    /\ field' = [field EXCEPT ![Chan(s)] = "bev"]
    /\ fd' = [fd EXCEPT ![s] = NoFd]
    /\ Goto(s, "connect_config")
    /\ UNCHANGED <<table, slot, calls, block, listen, held, runVars, fault>>

ConnectConfigures(s) ==
    /\ Running /\ at[s] = "connect_config"
    /\ Configured(Chan(s))
    /\ Goto(s, "connect_socket")
    /\ UNCHANGED <<table, slot, fd, bev, bevfd, block, field, listen, held, runVars, fault>>

ConnectConfigFails(s) ==
    /\ Running /\ at[s] = "connect_config"
    /\ ConfigFails(Chan(s))
    /\ Goto(s, "connect_error")
    /\ UNCHANGED <<slot, fd, bevfd, block, listen, held, runVars>>

Connecting(s) ==
    /\ Running /\ at[s] = "connect_socket"
    /\ held' = [held EXCEPT ![s] = @ \cup {slot[s]}]
    /\ Goto(s, "idle")
    /\ UNCHANGED <<table, slot, fd, channelVars, runVars, fault>>

(* socket, bufferevent_socket_new or bufferevent_socket_connect fails. *)
ConnectFails(s) ==
    /\ Running /\ at[s] \in {"connect", "connect_bev", "connect_socket"}
    /\ refused' = IF at[s] = "connect_socket" THEN refused \cup {Chan(s)} ELSE refused
    /\ Goto(s, "connect_error")
    /\ UNCHANGED <<table, slot, fd, channelVars, held, stopped, fault>>

(* The label error: the descriptor is closed and the bufferevent freed;    *)
(* tcp_socket->bev is not reset.                                           *)
ConnectReleases(s) ==
    /\ Running /\ at[s] = "connect_error"
    /\ BevsFreed({Chan(s)}, {fd[s]}) /\ fault' = Misfreed({Chan(s)})
    /\ fd' = [fd EXCEPT ![s] = NoFd]
    /\ Goto(s, "connect_failed")
    /\ UNCHANGED <<slot, bevfd, block, field, listen, held, runVars>>

(* http_session_free of the upstream, then the session is removed. *)
ConnectFailed(s) ==
    /\ Running /\ at[s] = "connect_failed"
    /\ SessionFreed(s, {Chan(s)})

(* Mutant: http_sessions keeps the upstream that has been freed. *)
ReplyKeepsPointer(s) ==
    /\ Running /\ at[s] = "idle"
    /\ \E i \in held[s] \cap {"NAME", "JOKE"} : tcp_socket_free({<<s, i>>})
    /\ UNCHANGED <<at, slot, fd, held, runVars>>

(* http_response_name, http_response_joke: in a read callback of its own   *)
(* the upstream that has replied is freed; the session goes on without it, *)
(* or is removed behind it.                                                *)
http_response(s) ==
    /\ Running /\ at[s] = "idle"
    /\ \E i \in held[s] \cap {"NAME", "JOKE"} :
          /\ tcp_socket_free({<<s, i>>})
          /\ held' = [held EXCEPT ![s] = @ \ {i}]
    /\ UNCHANGED <<at, slot, fd, runVars>>

(* Any callback may remove the session. *)
http_service_session_remove(s) ==
    /\ Running /\ at[s] = "idle"
    /\ SessionFreed(s, {})

-----------------------------------------------------------------------------
(* Listening: tcp_socket_listen, in the prologue of a worker.              *)

ListenOpensSocket(l) ==
    /\ Running /\ at[l] = "start"
    /\ Opens(l, l)
    /\ Goto(l, "listen")
    /\ UNCHANGED <<slot, channelVars, held, runVars, fault>>

(* setsockopt, bind or evconnlistener_new fails; or socket did. *)
ListenFails(l) ==
    /\ Running /\ at[l] \in {"start", "listen"}
    /\ table' = Closed({fd[l]})
    /\ Goto(l, "gone") /\ fd' = [fd EXCEPT ![l] = NoFd]
    /\ UNCHANGED <<slot, channelVars, held, runVars, fault>>

ListenMakesListener(l) ==
    /\ Running /\ at[l] = "listen"
    /\ Makes(l, fd[l])
    /\ field' = [field EXCEPT ![l] = "listener"] /\ listen' = listen \cup {l}
    /\ calls' = calls \cup {l}
    /\ Goto(l, "idle") /\ fd' = [fd EXCEPT ![l] = NoFd]
    /\ UNCHANGED <<table, slot, block, held, runVars, fault>>

-----------------------------------------------------------------------------
(* The service stops between two callbacks of every worker; main frees the *)
(* sessions, then the listeners.                                           *)

AtRest(p) == at[p] \in {"start", "idle", "gone"}

WorkersJoined ==
    /\ Running /\ \A p \in Proc : AtRest(p)
    /\ stopped' = TRUE
    /\ UNCHANGED <<table, at, slot, fd, channelVars, held, refused, fault>>

FiniSession(s) ==
    /\ stopped /\ fault = {} /\ at[s] = "idle"
    /\ SessionFreed(s, {})

FiniListener(l) ==
    /\ stopped /\ fault = {} /\ \A s \in Sessions : at[s] # "idle"
    /\ block[l] = "live"
    /\ tcp_socket_free({l})
    /\ Goto(l, "gone")
    /\ UNCHANGED <<slot, fd, held, runVars>>

AcceptStep(s) ==
    \/ AcceptConnection(s) \/ AcceptFails(s) \/ AcceptMakesBev(s)
    \/ AcceptWithoutChannel(s) \/ AcceptMakesChannel(s)
    \/ AcceptConfigures(s) \/ AcceptConfigFails(s) \/ session_new(s)

ConnectStep(s) ==
    \/ http_server_connect(s) \/ ConnectOpensSocket(s) \/ ConnectMakesBev(s)
    \/ ConnectConfigures(s) \/ ConnectConfigFails(s) \/ Connecting(s)
    \/ ConnectFails(s) \/ ConnectReleases(s) \/ ConnectFailed(s) \/ http_response(s)

Next ==
    \/ \E s \in Sessions : AcceptStep(s) \/ ConnectStep(s) \/ http_service_session_remove(s)
                           \/ FiniSession(s)
    \/ \E l \in Listeners : ListenOpensSocket(l) \/ ListenFails(l) \/ ListenMakesListener(l)
                            \/ FiniListener(l)
    \/ WorkersJoined

Spec == Init /\ [][Next]_vars

-----------------------------------------------------------------------------
(* Properties.                                                             *)

TypeOK ==
    /\ table \in [Fds -> Channel \cup {NULL}]
    /\ at \in [Proc -> {"start", "accept_cb", "accept", "accept_config", "session_new", "idle",
                        "connect", "connect_bev", "connect_config", "connect_socket",
                        "connect_error", "connect_failed", "listen", "gone"}]
    /\ slot \in [Sessions -> Slot] /\ fd \in [Proc -> Fds \cup {NoFd}]
    /\ bev \in [Channel -> {"none", "live", "freed"}]
    /\ bevfd \in [Channel -> Fds \cup {NoFd}]
    /\ calls \subseteq Channel /\ listen \subseteq Listeners
    /\ block \in [Channel -> {"none", "live", "freed"}]
    /\ field \in [Channel -> {"NULL", "bev", "listener"}]
    /\ held \in [Sessions -> SUBSET Slot]
    /\ stopped \in BOOLEAN /\ refused \subseteq Channel /\ fault \subseteq Channel

(* tcp_socket.c:143, 355, 408: at any instant an open descriptor has one   *)
(* owner, a handler or a live bufferevent, and it is the one it was opened *)
(* for: no handler closes, or goes on with, a descriptor whose number      *)
(* another connection has been given.                                      *)
HandlerOwns(p, f) == fd[p] = f
BevOwns(c, f) == bev[c] = "live" /\ bevfd[c] = f

OneOwner ==
    /\ TypeOK
    /\ \A p \in Proc, f \in Fds : HandlerOwns(p, f) => table[f] = Chan(p)
    /\ \A c \in Channel, f \in Fds : BevOwns(c, f) => table[f] = c
    /\ \A p \in Proc, f \in Fds : ~(HandlerOwns(p, f) /\ BevOwns(Chan(p), f))
    /\ \A f \in Fds : table[f] # NULL => \/ \E p \in Proc : HandlerOwns(p, f)
                                         \/ \E c \in Channel : BevOwns(c, f)

(* tcp_socket.c:286, 397: a bufferevent or listener that calls back does   *)
(* so with a channel that is allocated and holds it: no path frees the     *)
(* channel and leaves the callback, or the other way round.                *)
CallbackFindsChannel ==
    fault = {} => \A c \in calls : /\ bev[c] = "live" /\ block[c] = "live"
                               /\ field[c] = IF c \in Listeners THEN "listener" ELSE "bev"

(* tcp_socket.c:56, http_service.c:61, session.c:260-261: between handlers *)
(* every live bufferevent belongs to a channel that a session holds, and a *)
(* session holds no channel that is freed, the upstream that has replied   *)
(* included; a connection accepted without memory for its channel is the   *)
(* one that is lost.                                                       *)
Lost(c) == bev[c] = "live" /\ block[c] = "none" /\ \E s \in Sessions : c = <<s, "CLIENT">>

HeldOrLost ==
    fault = {} => \A s \in Sessions, i \in Slot :
        AtRest(s) => /\ (block[<<s, i>>] = "live") = (i \in held[s])
                     /\ (bev[<<s, i>>] = "live") = (i \in held[s] \/ Lost(<<s, i>>))

(* tcp_socket.c:167, session.c:261, 322, 429: a channel or its bufferevent *)
(* is freed twice, or as what it is not, on no path but a connect that     *)
(* fails on the bufferevent made; session_free skips an upstream that was  *)
(* freed on its reply.                                                     *)
FreedOnce == fault \subseteq refused

=============================================================================
