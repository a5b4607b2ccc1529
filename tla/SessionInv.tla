----------------------------- MODULE SessionInv -----------------------------
(***************************************************************************)
(* The inductive invariant of Session.  It is stated over the values that  *)
(* belong to one session (m: its memory, r: its fields, h: its HTTP        *)
(* sessions, c: its reference, D: its requests in flight), so that a step  *)
(* of one session says nothing about another, and promises nothing of a    *)
(* session that has taken its request again.                               *)
(***************************************************************************)
EXTENDS Session

(* The cell is what the strong holder (the session) and the weak holders   *)
(* (the requests in flight) have made of it.                               *)
RefInv(m, c, D) ==
    /\ m = "none" => c = NoCell /\ D = {}
    /\ m = "live" =>
          \/ c = NoCell /\ D = {}
          \/ c = [st |-> "live", ptr |-> TRUE, refcnt |-> 1, weak_refcnt |-> Count(D)]
    /\ m = "freed" =>
          \/ c.st # "live" /\ D = {}
          \/ /\ c = [st |-> "live", ptr |-> FALSE, refcnt |-> 0, weak_refcnt |-> Count(D)]
             /\ D # {}

ChannelsIn(h) == {i \in Upstream : h[i].io # "null"}
WaitingIn(h) == {i \in Upstream : h[i].io \in {"connecting", "refused"} \/ "connected" \in h[i].cb}

(* Which callbacks can be due on a channel, by the state of its connection. *)
ChannelInv(h) ==
    /\ \A i \in Upstream :
          /\ h[i].io \in {"null", "connecting"} => h[i].cb = {}
          /\ h[i].io = "refused" => h[i].cb = {"error"}
    /\ h["CLIENT"].io \in {"open", "halfclosed", "dead"}
    /\ h["CLIENT"].io = "dead" => "error" \in h["CLIENT"].cb
    /\ "connected" \notin h["CLIENT"].cb

(* Each upstream is in exactly one stage, once the request is complete. *)
PhaseInv(r, h, D) ==
    /\ D \cap ChannelsIn(h) = {}
    /\ r.replied \cap (D \cup ChannelsIn(h)) = {}
    /\ D \cup ChannelsIn(h) \cup r.replied
          = IF r.state = "PARSING_CLIENT_REQUEST" THEN {} ELSE Upstream

CounterInv(r, h, D) ==
    /\ r.pending_resolutions = Count(D)
    /\ r.pending_connections = Count(WaitingIn(h))
    /\ r.pending_replies = Count(ChannelsIn(h) \ WaitingIn(h))

(* The state of the session, its strings, its client's parser and output. *)
ClientInv(r, hc) ==
    /\ r.state \in {"PARSING_CLIENT_REQUEST", "RESOLVING_WEBSERVER_DOMAINS", "CLIENT_RESPONSE"}
    /\ r.state = "CLIENT_RESPONSE" <=> r.replied = Upstream
    /\ r.strings = IF r.state = "CLIENT_RESPONSE" THEN {}
                   ELSE UNION {Strings(i) : i \in r.replied}
    /\ hc.state = "HTTP_MESSAGE_COMPLETE" <=> r.state # "PARSING_CLIENT_REQUEST"
    /\ hc.out => r.state = "CLIENT_RESPONSE"
    /\ r.state = "CLIENT_RESPONSE" => hc.out \/ hc.cb \cap {"write", "error"} # {}

(* A session in PARSING_CLIENT_REQUEST has no reference yet, and is the    *)
(* only kind that has none.                                                *)
OneSessionInv(m, r, h, c, D) ==
    /\ RefInv(m, c, D)
    /\ m = "none" => h = [i \in Idx |-> NoHttp]
    /\ m = "freed" => h = [i \in Idx |-> NoHttp]
    /\ m = "live" => /\ ChannelInv(h)
                     /\ PhaseInv(r, h, D)
                     /\ CounterInv(r, h, D)
                     /\ ClientInv(r, h["CLIENT"])
                     /\ c = NoCell <=> r.state = "PARSING_CLIENT_REQUEST"

InvAt(s) == OneSessionInv(mem[s], sess[s], http[s], cell[s], dns[s])

OnceInv(s) == TakenOnce(s) => InvAt(s) /\ NoneLost(s)

(* The whole of it; RefSafe, CountersAgree, ResponseComplete and NoOrphan  *)
(* follow from this one.                                                   *)
IInv == TypeOK /\ NoFault /\ \A s \in Sessions : OnceInv(s)

=============================================================================
