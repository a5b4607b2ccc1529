------------------------------ MODULE Session ------------------------------
(***************************************************************************)
(* A client session of the web service (session.c) together with the       *)
(* callbacks of the three HTTP sessions it owns (http_session.c): the      *)
(* client's, and one to each of the two upstream servers, "NAME" and       *)
(* "JOKE".  A session belongs to one worker, whose event loop runs one     *)
(* callback at a time: an action is one callback, run to its end.  The     *)
(* environment (peers, kernel, resolver) acts between callbacks.           *)
(*                                                                         *)
(* What is abstracted.  The bytes of a message: a read callback leaves the *)
(* parser inside a message, at its end, or failed.  The text of the        *)
(* replies: which of the three strings the session holds.  The list of     *)
(* sessions and its mutex (module HttpService).                            *)
(***************************************************************************)
EXTENDS Reference

CONSTANTS
    Sessions,      \* one element per accepted connection
    AllocMayFail,  \* may malloc, calloc, strdup, evbuffer_add fail?
    MaxAgain       \* bound: how often a session takes its request again

ASSUME ConstantsAssumption ==
    /\ AllocMayFail \in BOOLEAN
    /\ MaxAgain \in Nat

VARIABLES
    mem,    \* mem[s]: the heap block of the session
    sess,   \* sess[s]: its fields (what they were last, once it is freed)
    http,   \* http[s][i]: its HTTP sessions with their channels
    cell,   \* cell[s]: the reference in its field "me"
    dns,    \* dns[s]: the upstreams whose dns_request, made under cell[s], is in flight
    again,  \* again[s]: how often message_complete ran again on its request
    lost,   \* lost[s][i]: requests in flight under a reference "me" no longer names
    fault   \* why nothing more is said of the process (see Next)

vars == <<mem, sess, http, cell, dns, again, lost, fault>>

Upstream == {"NAME", "JOKE"}
Idx == Upstream \cup {"CLIENT"}

(* Number of upstreams in D: the weak references and the counters count these. *)
Count(D) == (IF "NAME" \in D THEN 1 ELSE 0) + (IF "JOKE" \in D THEN 1 ELSE 0)

SessionState == {"PARSING_CLIENT_REQUEST", "RESOLVING_WEBSERVER_DOMAINS",
                 "CLIENT_RESPONSE", "ERROR_RESOLVING_DOMAIN", "ERROR_CONNECTING_TO_WS",
                 "ERROR_REQUESTING_FROM_WS", "ERROR_CLIENT_RESPONSE"}

(* The strings a reply stores in the session, and all that a response needs. *)
Strings(i) == IF i = "NAME" THEN {"name", "surname"} ELSE {"joke"}
AllStrings == {"name", "surname", "joke"}

(* struct session; "replied" holds name_replied and joke_replied.          *)
SessionRecord == [state : SessionState, pending_resolutions : Int,
                  pending_connections : Int, pending_replies : Int,
                  replied : SUBSET Upstream, strings : SUBSET AllStrings]

NewSession == [state |-> "PARSING_CLIENT_REQUEST", pending_resolutions |-> 0,
               pending_connections |-> 0, pending_replies |-> 0,
               replied |-> {}, strings |-> {}]

(***************************************************************************)
(* An HTTP session and its channel.  "state" is where its parser rests     *)
(* between callbacks (PARSE_BEGIN stands for BODY_PARSE too), "out" says   *)
(* that the output buffer holds data, "io" is the connection as the kernel *)
(* sees it, and "cb" the deferred callbacks libevent is about to run.      *)
(***************************************************************************)
HttpState == {"HTTP_MESSAGE_BEGIN", "HTTP_MESSAGE_PARSE_BEGIN", "HTTP_MESSAGE_COMPLETE"}
Callback == {"connected", "read", "write", "error", "eof"}

HttpRecord == [io : {"null", "connecting", "refused", "open", "halfclosed", "dead"},
               state : HttpState, eof : BOOLEAN, out : BOOLEAN, cb : SUBSET Callback]

NoHttp == [io |-> "null", state |-> "HTTP_MESSAGE_BEGIN",
           eof |-> FALSE, out |-> FALSE, cb |-> {}]
http_session_new(io) == [NoHttp EXCEPT !.io = io]

(* The callbacks libevent runs before e when both are due on a channel; an *)
(* error hides the EOF that was merged with it (tcp_socket_event_cb).      *)
RunsBefore(e) == CASE e = "connected" -> {}
                   [] e = "read"      -> {"connected"}
                   [] e = "write"     -> {"connected", "read"}
                   [] e = "error"     -> {"connected", "read", "write"}
                   [] e = "eof"       -> {"connected", "read", "write", "error"}

Due(s, i, e) == /\ e \in http[s][i].cb
                /\ http[s][i].cb \cap RunsBefore(e) = {}

(* Channel i of s once its callback e has run. *)
Ran(s, i, e) == [http[s][i] EXCEPT !.cb = @ \ {e}]

Init ==
    /\ mem = [s \in Sessions |-> "none"]
    /\ sess = [s \in Sessions |-> NewSession]
    /\ http = [s \in Sessions |-> [i \in Idx |-> NoHttp]]
    /\ cell = [s \in Sessions |-> NoCell]
    /\ dns = [s \in Sessions |-> {}]
    /\ again = [s \in Sessions |-> 0]
    /\ lost = [s \in Sessions |-> [i \in Upstream |-> 0]]
    /\ fault = "none"

-----------------------------------------------------------------------------
(* The pieces the callbacks are made of.  Each says what becomes of mem,   *)
(* sess, http and cell; its caller speaks for the other variables.         *)

(* Frees the session whose fields are now r: its channels, with their      *)
(* pending callbacks, and its strong count of the reference c.             *)
http_service_session_remove(s, r, c) ==
    /\ mem' = [mem EXCEPT ![s] = "freed"]
    /\ sess' = [sess EXCEPT ![s] = r]
    /\ http' = [http EXCEPT ![s] = [i \in Idx |-> NoHttp]]
    /\ cell' = [cell EXCEPT ![s] = reference_dec(c)]

(* The callback ends and the session lives on. *)
Continue(s, r, h, c) ==
    /\ sess' = [sess EXCEPT ![s] = r]
    /\ http' = [http EXCEPT ![s] = h]
    /\ cell' = [cell EXCEPT ![s] = c]
    /\ UNCHANGED mem

Fails(s, r, c, state) == http_service_session_remove(s, [r EXCEPT !.state = state], c)

(* accept: a new session on an open channel, added to the service's list. *)
accept_cb(s) ==
    /\ mem[s] = "none"
    /\ mem' = [mem EXCEPT ![s] = "live"]
    /\ sess' = [sess EXCEPT ![s] = NewSession]
    /\ http' = [http EXCEPT ![s]["CLIENT"] = http_session_new("open")]
    /\ UNCHANGED <<cell, dns, again, lost, fault>>

-----------------------------------------------------------------------------
(* Closing the client's channel, and the response to the client.           *)

(* Mutant: waits for the client's EOF, too. *)
ReadyToCloseNeedsEof(s, h) ==
    IF sess[s].state = "CLIENT_RESPONSE" /\ h.eof
    THEN http_service_session_remove(s, sess[s], cell[s])
    ELSE Continue(s, sess[s], [http[s] EXCEPT !["CLIENT"] = h], cell[s])

(* client_ready_to_close; h is the client's channel after the callback.    *)
client_ready_to_close(s, h) ==
    IF sess[s].state = "CLIENT_RESPONSE"
    THEN http_service_session_remove(s, sess[s], cell[s])
    ELSE Continue(s, sess[s], [http[s] EXCEPT !["CLIENT"] = h], cell[s])

(* Mutant: does not look at the output buffer. *)
ShouldCloseIgnoresOutput(h) ==
    \/ h.eof /\ h.state = "HTTP_MESSAGE_BEGIN"
    \/ h.state = "HTTP_MESSAGE_COMPLETE"

channel_should_close(h) ==
    \/ h.eof /\ h.state = "HTTP_MESSAGE_BEGIN"
    \/ h.state = "HTTP_MESSAGE_COMPLETE" /\ ~h.out

(* The upstream sessions register no ready_to_close callback. *)
CloseOrContinue(s, i, h) ==
    IF i = "CLIENT" /\ channel_should_close(h)
    THEN client_ready_to_close(s, h)
    ELSE Continue(s, sess[s], [http[s] EXCEPT ![i] = h], cell[s])

(* http_client_response: nothing until both replies are in.  Then          *)
(* client_response_create takes the length of the three strings, of which  *)
(* none may be NULL, and frees them.                                       *)
Respond(s, r, h, strings) ==
    \/ /\ r.replied # Upstream
       /\ Continue(s, r, h, cell[s])
       /\ UNCHANGED fault
    \/ /\ r.replied = Upstream
       /\ fault' = IF r.strings # AllStrings THEN "null_deref" ELSE fault
       /\ \/ AllocMayFail /\ Fails(s, r, cell[s], "ERROR_CLIENT_RESPONSE")
          \/ Continue(s, [r EXCEPT !.state = "CLIENT_RESPONSE", !.strings = strings],
                      [h EXCEPT !["CLIENT"].out = TRUE], cell[s])

(* Mutant: session->joke still points to the string that was freed. *)
ResponseKeepsJoke(s, r, h) == Respond(s, r, h, {"joke"})

http_client_response(s, r, h) == Respond(s, r, h, {})

(* The reply of upstream i is kept in r, and its channel freed. *)
Keep(r, i) == [r EXCEPT !.replied = @ \cup {i}, !.strings = @ \cup Strings(i)]
Reply(s, i, r, h) ==
    \/ Fails(s, r, cell[s], "ERROR_CLIENT_RESPONSE") /\ UNCHANGED fault
    \/ http_client_response(s, Keep(r, i), h)

(* Mutant: the reply is still counted as pending. *)
ReplyNotCounted(s, i) == Reply(s, i, sess[s], [http[s] EXCEPT ![i] = NoHttp])

(* http_response_name and http_response_joke: the body is not the JSON     *)
(* expected (or a copy fails), or the reply is kept.                       *)
http_response(s, i) ==
    Reply(s, i, [sess[s] EXCEPT !.pending_replies = @ - 1],
          [http[s] EXCEPT ![i] = NoHttp])

-----------------------------------------------------------------------------
(* The client's request is complete: a new reference and two name          *)
(* resolutions.  If the resolver answers inside evdns_getaddrinfo, the     *)
(* callback frees the dns_request and, the answer being an error, the      *)
(* session, and dnsname_resolve then writes to the freed request.          *)

client_msg_complete(s, h) ==
    LET r == sess[s]
        c == reference_new
        weak(ref) == reference_weak_inc(ref)
        hs == [http[s] EXCEPT !["CLIENT"] = h]
        InFlight(D) == dns' = [dns EXCEPT ![s] = D]
    IN  \/ /\ AllocMayFail                     \* reference_new
           /\ http_service_session_remove(s, r, NoCell)
           /\ InFlight({}) /\ UNCHANGED fault
        \/ /\ AllocMayFail                     \* the first dns_request
           /\ http_service_session_remove(s, r, c)
           /\ InFlight({}) /\ UNCHANGED fault
        \/ /\ AllocMayFail                     \* the second dns_request
           /\ http_service_session_remove(s, [r EXCEPT !.pending_resolutions = @ + 1], weak(c))
           /\ InFlight({"NAME"}) /\ UNCHANGED fault
        \/ /\ Fails(s, r, reference_weak_dec(weak(c)), "ERROR_RESOLVING_DOMAIN")
           /\ InFlight({}) /\ fault' = "late_write"
        \/ /\ Continue(s, [r EXCEPT !.state = "RESOLVING_WEBSERVER_DOMAINS",
                                    !.pending_resolutions = @ + 2], hs, weak(weak(c)))
           /\ InFlight(Upstream) /\ UNCHANGED fault

(* When message_complete runs again, "me" is overwritten: the strong count *)
(* of the reference it named is never given back, so that for the requests *)
(* in flight under it the session is there for ever.                       *)
ReferenceLost(s) ==
    /\ again' = [again EXCEPT ![s] = @ + 1]
    /\ lost' = [lost EXCEPT ![s] = [i \in Upstream |-> @[i] + (IF i \in dns[s] THEN 1 ELSE 0)]]

(* An upstream's address is known: connect to it, or, with no memory or no *)
(* socket for that, give the session up.  When tcp_socket_connect fails    *)
(* with its bufferevent made, it frees that and keeps the pointer, and     *)
(* http_session_free frees it again.  A channel that is in the slot is     *)
(* overwritten: session_free will not free it, and the model stops there.  *)
http_server_connect(s, i, r, c) ==
    \/ Fails(s, r, c, "ERROR_CONNECTING_TO_WS") /\ fault' \in {fault, "double_free"}
    \/ /\ Continue(s, [r EXCEPT !.pending_connections = @ + 1],
                   [http[s] EXCEPT ![i] = http_session_new("connecting")], c)
       /\ fault' = IF http[s][i].io = "null" THEN fault ELSE "lost_channel"

(* The resolver's answer, with c what dns_request_free made of the         *)
(* session's reference: an error or no address, or an address.             *)
AnswerFor(s, i, c) ==
    \/ Fails(s, sess[s], c, "ERROR_RESOLVING_DOMAIN") /\ UNCHANGED fault
    \/ http_server_connect(s, i, [sess[s] EXCEPT !.pending_resolutions = @ - 1], c)

(* reference_get reads the cell, and the session is used if it is there. *)
BadReference(s) == cell[s].st # "live" \/ (reference_get(cell[s]) /\ mem[s] # "live")

dnsname_resolved_cb(s, i) ==
    LET c == reference_weak_dec(cell[s])
    IN  /\ i \in dns[s]
        /\ dns' = [dns EXCEPT ![s] = @ \ {i}]
        /\ \/ /\ BadReference(s)
              /\ fault' = "use_after_free"
              /\ UNCHANGED <<mem, sess, http, cell>>
           \/ /\ ~BadReference(s) /\ ~reference_get(cell[s])       \* session is gone
              /\ cell' = [cell EXCEPT ![s] = c]
              /\ UNCHANGED <<mem, sess, http, fault>>
           \/ ~BadReference(s) /\ reference_get(cell[s]) /\ AnswerFor(s, i, c)
        /\ UNCHANGED <<again, lost>>

(* The same callback for a request under an overwritten reference, which   *)
(* still holds its strong count: reference_get returns the session, there  *)
(* or not.                                                                 *)
lost_request_resolved(s, i) ==
    /\ lost[s][i] > 0
    /\ lost' = [lost EXCEPT ![s][i] = @ - 1]
    /\ \/ /\ mem[s] # "live"
          /\ fault' = "use_after_free"
          /\ UNCHANGED <<mem, sess, http, cell>>
       \/ mem[s] = "live" /\ AnswerFor(s, i, cell[s])
    /\ UNCHANGED <<dns, again>>

-----------------------------------------------------------------------------
(* The callbacks of a channel.                                             *)

(* http_request_name and http_request_joke, on "connected". *)
http_request(s, i) ==
    LET r == [sess[s] EXCEPT !.pending_connections = @ - 1]
    IN  /\ Due(s, i, "connected")
        /\ \/ AllocMayFail /\ Fails(s, r, cell[s], "ERROR_REQUESTING_FROM_WS")
           \/ Continue(s, [r EXCEPT !.pending_replies = @ + 1],
                       [http[s] EXCEPT ![i] = [Ran(s, i, "connected") EXCEPT !.out = TRUE]],
                       cell[s])
        /\ UNCHANGED <<dns, again, lost, fault>>

(* http_session_read_cb looks first whether the channel should close.      *)
read_cb_closes(s, i) ==
    /\ Due(s, i, "read")
    /\ channel_should_close(http[s][i])
    /\ CloseOrContinue(s, i, Ran(s, i, "read"))
    /\ UNCHANGED <<dns, again, lost, fault>>

Parses(s, i) ==
    /\ Due(s, i, "read")
    /\ ~channel_should_close(http[s][i])

(* Mutant: the loop ends when the headers do. *)
StopsAtHeaders(h) == {h.state, "HTTP_HEADERS_COMPLETE"}

(* Where the parser rests when the data ends inside a message: it may not  *)
(* have seen its first token yet (the blank lines before a request).       *)
ParserRests(h) == {h.state, "HTTP_MESSAGE_PARSE_BEGIN"}

read_cb_partial(s, i) ==
    /\ Parses(s, i)
    /\ http[s][i].state # "HTTP_MESSAGE_COMPLETE"
    /\ \E st \in ParserRests(http[s][i]) :
          Continue(s, sess[s], [http[s] EXCEPT ![i] = [Ran(s, i, "read") EXCEPT !.state = st]],
                   cell[s])
    /\ UNCHANGED <<dns, again, lost, fault>>

read_cb_error(s, i) ==
    /\ Parses(s, i)
    /\ http[s][i].state # "HTTP_MESSAGE_COMPLETE"
    /\ http_service_session_remove(s, sess[s], cell[s])
    /\ UNCHANGED <<dns, again, lost, fault>>

(* The message ends, or data arrives after its end while output is still   *)
(* pending: the parser's state stays HTTP_MESSAGE_COMPLETE, so that        *)
(* message_complete is called again.                                       *)
read_cb_client_complete(s) ==
    /\ Parses(s, "CLIENT")
    /\ client_msg_complete(s, [Ran(s, "CLIENT", "read") EXCEPT !.state = "HTTP_MESSAGE_COMPLETE"])
    /\ IF http[s]["CLIENT"].state = "HTTP_MESSAGE_COMPLETE"
       THEN ReferenceLost(s)
       ELSE UNCHANGED <<again, lost>>

read_cb_upstream_complete(s, i) ==
    /\ Parses(s, i)
    /\ http_response(s, i)
    /\ UNCHANGED <<dns, again, lost>>

(* Mutant: the drained output buffer goes unnoticed. *)
WriteIgnored(s, i) ==
    /\ Due(s, i, "write")
    /\ Continue(s, sess[s], [http[s] EXCEPT ![i] = Ran(s, i, "write")], cell[s])
    /\ UNCHANGED <<dns, again, lost, fault>>

(* The output buffer has been drained. *)
write_cb(s, i) ==
    /\ Due(s, i, "write")
    /\ CloseOrContinue(s, i, Ran(s, i, "write"))
    /\ UNCHANGED <<dns, again, lost, fault>>

event_cb_error(s, i) ==
    /\ Due(s, i, "error")
    /\ http_service_session_remove(s, sess[s], cell[s])
    /\ UNCHANGED <<dns, again, lost, fault>>

event_cb_eof(s, i) ==
    /\ Due(s, i, "eof")
    /\ CloseOrContinue(s, i, [Ran(s, i, "eof") EXCEPT !.eof = TRUE])
    /\ UNCHANGED <<dns, again, lost, fault>>

-----------------------------------------------------------------------------
(* The environment: what the peers and the kernel do to a channel.         *)

Channel(s, i, io, e) ==
    /\ http' = [http EXCEPT ![s][i].io = io, ![s][i].cb = @ \cup {e}]
    /\ UNCHANGED <<mem, sess, cell, dns, again, lost, fault>>

Connected(s, i) ==
    http[s][i].io = "connecting" /\ Channel(s, i, "open", "connected")

(* A refused or broken connection, or a write that failed (the only thing  *)
(* that libevent still looks at once the peer has shut its side down).     *)
ConnectionLost(s, i) ==
    \/ http[s][i].io = "connecting" /\ Channel(s, i, "refused", "error")
    \/ /\ \/ http[s][i].io = "open"
          \/ http[s][i].io = "halfclosed" /\ http[s][i].out
       /\ Channel(s, i, "dead", "error")

(* Data arrives, from a client past its request too; there the bound: none *)
(* for a session that has taken its request again MaxAgain times.          *)
Readable(s, i) ==
    /\ http[s][i].io = "open" /\ "read" \notin http[s][i].cb
    /\ i = "CLIENT" /\ http[s][i].state = "HTTP_MESSAGE_COMPLETE" => again[s] < MaxAgain
    /\ Channel(s, i, "open", "read")

(* The peer shuts its side down; libevent stops reading, writes go on. *)
PeerCloses(s, i) ==
    http[s][i].io = "open" /\ Channel(s, i, "halfclosed", "eof")

(* The kernel has taken the whole output buffer. *)
Flushed(s, i) ==
    /\ http[s][i].out /\ http[s][i].io \in {"open", "halfclosed"}
    /\ http' = [http EXCEPT ![s][i].out = FALSE, ![s][i].cb = @ \cup {"write"}]
    /\ UNCHANGED <<mem, sess, cell, dns, again, lost, fault>>

Callbacks(s, i) ==
    \/ read_cb_closes(s, i) \/ read_cb_partial(s, i) \/ read_cb_error(s, i)
    \/ write_cb(s, i) \/ event_cb_error(s, i) \/ event_cb_eof(s, i)

UpstreamCallbacks(s, i) ==
    \/ dnsname_resolved_cb(s, i) \/ lost_request_resolved(s, i)
    \/ http_request(s, i) \/ read_cb_upstream_complete(s, i)

Environment(s, i) ==
    \/ Connected(s, i) \/ ConnectionLost(s, i)
    \/ Readable(s, i) \/ PeerCloses(s, i) \/ Flushed(s, i)

(* Nothing runs after undefined behaviour, and a process that has lost a   *)
(* channel is not followed further: that channel's callbacks keep using    *)
(* the session, and nothing frees it.                                      *)
Runs == fault = "none"

Next ==
    /\ Runs
    /\ \E s \in Sessions :
          \/ accept_cb(s) \/ read_cb_client_complete(s)
          \/ \E i \in Idx : Callbacks(s, i) \/ Environment(s, i)
          \/ \E i \in Upstream : UpstreamCallbacks(s, i)

Spec == Init /\ [][Next]_vars

-----------------------------------------------------------------------------
(* Safety.                                                                 *)

(* The values the fields range over; between callbacks no parser rests at  *)
(* the end of the headers (the loop of http_session_read_cb goes on).      *)
TypeOK ==
    /\ mem \in [Sessions -> {"none", "live", "freed"}]
    /\ sess \in [Sessions -> SessionRecord]
    /\ http \in [Sessions -> [Idx -> HttpRecord]]
    /\ cell \in [Sessions -> Cell]
    /\ dns \in [Sessions -> SUBSET Upstream]
    /\ again \in [Sessions -> Nat]
    /\ lost \in [Sessions -> [Upstream -> Nat]]
    /\ fault \in {"none", "null_deref", "use_after_free", "late_write", "double_free",
                  "lost_channel"}

(* The properties below are promises to a client whose request is taken    *)
(* once.  Taking it again breaks each of them (see the claims at the end), *)
(* and needs data behind the request while the response is in the output   *)
(* buffer: other such data does no harm.                                   *)
TakenOnce(s) == again[s] = 0

(* The reference protocol between session_free and a late                  *)
(* dnsname_resolved_cb: while a request is in flight its cell is there,    *)
(* the cell points to the session exactly while the session lives, and the *)
(* weak count is the number of requests in flight; with the session freed  *)
(* and none in flight the cell is gone.                                    *)
RefSafeOf(s) ==
    dns[s] # {} => /\ cell[s].st = "live"
                   /\ cell[s].ptr <=> mem[s] = "live"
                   /\ cell[s].weak_refcnt = Count(dns[s])
NoLeakOf(s) == mem[s] = "freed" /\ dns[s] = {} => cell[s].st # "live"
NoneLost(s) == \A i \in Upstream : lost[s][i] = 0
RefSafe == \A s \in Sessions : TakenOnce(s) => RefSafeOf(s) /\ NoLeakOf(s) /\ NoneLost(s)

(* No callback dereferences a freed session, a freed reference or a NULL   *)
(* string, and no channel is lost, whatever the order in which answers,    *)
(* data and errors come, as long as no session takes its request again; a  *)
(* resolver that answers at once and a connect that fails at once are the  *)
(* only other ways to undefined behaviour.                                 *)
NoFault ==
    fault \in {"null_deref", "use_after_free", "lost_channel"}
        => \E s \in Sessions : ~TakenOnce(s)

(* The three counters of struct session count what their comments say:     *)
(* resolutions in flight, connections not yet established, and requests    *)
(* sent whose reply is not in.  And neither upstream is forgotten or asked *)
(* twice: from the end of the client's request on, each is in exactly one  *)
(* of the stages resolving, connecting or connected, and replied.          *)
Waiting(s) == {i \in Upstream : \/ http[s][i].io \in {"connecting", "refused"}
                                \/ "connected" \in http[s][i].cb}
Channels(s) == {i \in Upstream : http[s][i].io # "null"}

CountersAgreeOf(s) ==
    /\ sess[s].pending_resolutions = Count(dns[s])
    /\ sess[s].pending_connections = Count(Waiting(s))
    /\ sess[s].pending_replies = Count(Channels(s) \ Waiting(s))
UpstreamPhaseOf(s) ==
    /\ dns[s] \cap Channels(s) = {}
    /\ sess[s].replied \cap (dns[s] \cup Channels(s)) = {}
    /\ dns[s] \cup Channels(s) \cup sess[s].replied
           = IF sess[s].state = "PARSING_CLIENT_REQUEST" THEN {} ELSE Upstream
LiveOnce(s) == mem[s] = "live" /\ TakenOnce(s)
CountersAgree ==
    \A s \in Sessions : LiveOnce(s) => CountersAgreeOf(s) /\ UpstreamPhaseOf(s)

(* The client is answered when both upstreams have replied, not earlier    *)
(* and not twice: the response is all that is ever in its output buffer,   *)
(* and the strings the session owns are those of the replies not yet used. *)
ResponseCompleteOf(s) ==
    /\ sess[s].state = "CLIENT_RESPONSE" <=> sess[s].replied = Upstream
    /\ sess[s].strings = IF sess[s].state = "CLIENT_RESPONSE" THEN {}
                         ELSE UNION {Strings(i) : i \in sess[s].replied}
    /\ http[s]["CLIENT"].state = "HTTP_MESSAGE_COMPLETE"
           <=> sess[s].state # "PARSING_CLIENT_REQUEST"
    /\ http[s]["CLIENT"].out => sess[s].state = "CLIENT_RESPONSE"
ResponseComplete == \A s \in Sessions : LiveOnce(s) => ResponseCompleteOf(s)

(* A session that has answered is still going to be closed: its output is  *)
(* on its way, or a callback that removes the session is due.              *)
NoOrphanOf(s) ==
    LET h == http[s]["CLIENT"]
    IN  sess[s].state = "CLIENT_RESPONSE" =>
            \/ h.out /\ h.io \in {"open", "halfclosed"}
            \/ h.cb \cap {"write", "error"} # {}
NoOrphan == \A s \in Sessions : LiveOnce(s) => NoOrphanOf(s)

Freed(s) == mem[s] = "live" /\ mem'[s] = "freed"

(* A session with output for its client is freed only when the connection  *)
(* has failed: an EOF of the client, a late upstream or late data never    *)
(* discards a response, unless that data makes the session take its        *)
(* request again, in this step or before it.                               *)
ResponseNotDiscarded ==
    [][\A s \in Sessions :
          Freed(s) /\ http[s]["CLIENT"].out
             => "error" \in http[s]["CLIENT"].cb \/ again'[s] > 0]_vars

-----------------------------------------------------------------------------
(* Claims of the source's comments that the code does not keep.            *)

(* session.c:570: the names are resolved asynchronously, so that no answer *)
(* comes before dnsname_resolve has done with its request.                 *)
ResolvesLater == fault # "late_write"

(* session.c:49-50: the flags say whether the servers have replied, and so *)
(* whether the strings that client_response_create measures are there.     *)
RepliedMeansStrings == fault # "null_deref"

(* session.c:203-206: the channel is ready to close as soon as all pending *)
(* data is written; until then only a failed connection ends the session.  *)
PendingDataWritten ==
    [][\A s \in Sessions :
          Freed(s) /\ http[s]["CLIENT"].out => "error" \in http[s]["CLIENT"].cb]_vars

-----------------------------------------------------------------------------
(* Liveness.  A loop runs every callback that is due, and the resolver     *)
(* answers or times out.  Of the peers it is assumed that a connection is  *)
(* established or refused, that an upstream sends until its message ends   *)
(* or it closes, and that the client reads its response.                   *)

read_cb(s, i) ==
    \/ read_cb_closes(s, i) \/ read_cb_partial(s, i) \/ read_cb_error(s, i)
    \/ i = "CLIENT" /\ read_cb_client_complete(s)
    \/ i \in Upstream /\ read_cb_upstream_complete(s, i)

ConnectResult(s, i) ==
    http[s][i].io = "connecting" /\ (Connected(s, i) \/ ConnectionLost(s, i))

LoopFairness(s) ==
    /\ \A i \in Idx : /\ WF_vars(Runs /\ read_cb(s, i))
                      /\ WF_vars(Runs /\ write_cb(s, i))
                      /\ WF_vars(Runs /\ event_cb_error(s, i))
                      /\ WF_vars(Runs /\ event_cb_eof(s, i))
    /\ \A i \in Upstream : /\ WF_vars(Runs /\ http_request(s, i))
                           /\ WF_vars(Runs /\ dnsname_resolved_cb(s, i))
                           /\ WF_vars(Runs /\ lost_request_resolved(s, i))

PeerFairness(s) ==
    /\ WF_vars(Runs /\ Flushed(s, "CLIENT"))
    /\ \A i \in Upstream :
          /\ WF_vars(Runs /\ ConnectResult(s, i))
          /\ WF_vars(Runs /\ Readable(s, i))
          /\ SF_vars(Runs /\ read_cb_upstream_complete(s, i))

Fairness == \A s \in Sessions : LoopFairness(s) /\ PeerFairness(s)

FairSpec == Spec /\ Fairness

(* An upstream that closed before its message was complete: the parser is  *)
(* never told, and nothing else will happen on that channel.               *)
Stalled(s) == \E i \in Upstream : http[s][i].eof

(* Once its request is complete a session is answered or given up, unless  *)
(* an upstream closed in the middle of its reply or the process is gone.   *)
Answered ==
    \A s \in Sessions :
       mem[s] = "live" /\ sess[s].state = "RESOLVING_WEBSERVER_DOMAINS"
          ~> mem[s] = "freed" \/ Stalled(s) \/ ~Runs

=============================================================================
