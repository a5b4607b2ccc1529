---------------------------- MODULE HttpSession -----------------------------
(***************************************************************************)
(* One HTTP session (http_session.c) down to its read loop: how the bytes  *)
(* in the channel's input buffer reach the parser, what is drained of them *)
(* and when message_complete is called.  Session abstracts all this to     *)
(* "the message is not complete, complete, or malformed".                  *)
(*                                                                         *)
(* The bytes are the positions of "stream", all the peer will ever send; a *)
(* byte is known by what the parser makes of it.  The input buffer holds   *)
(* the positions drained + 1 .. arrived, in chunks that end at "cuts".     *)
(* The callbacks of a channel run one at a time on one thread: nothing     *)
(* arrives while the read loop runs, which takes a step per call of        *)
(* http_parser_execute.                                                    *)
(***************************************************************************)
EXTENDS Integers, Sequences, FiniteSetsExt

CONSTANTS
    Requests,      \* the streams a client may send
    Responses,     \* the streams an upstream may send
    HighWM,        \* TCP_SOCKET_READ_HIGH_WM, in bytes of a stream
    AllocMayFail   \* may evbuffer_new, evbuffer_add and malloc fail?

(* "end" is the line feed that ends the headers, "bare_end" the same when  *)
(* no body follows, "last" the last byte of a body of known length; a body *)
(* that ends with the connection has none.                                 *)
Byte == {"blank", "first", "head", "end", "bare_end", "body", "last", "bad"}

ASSUME HttpSessionAssumption ==
    /\ Requests \cup Responses \subseteq Seq(Byte)
    /\ HighWM \in Nat \ {0} /\ AllocMayFail \in BOOLEAN

VARIABLES
    role,       \* whose session it is: "CLIENT", or "UPSTREAM"
    stream,     \* the bytes the peer sends
    arrived,    \* how many of them have been read from the socket
    cuts,       \* where the chunks of the input buffer end
    drained,    \* how many bytes have been drained from it
    len,        \* session->len: bytes of the input buffer already parsed
    state,      \* session->state
    mode,       \* what the parser expects next
    body,       \* session->body: the bytes message_body has added
    at,         \* where http_session_read_cb is; "idle" between callbacks
    vec,        \* http_request_parse: where the next chunk begins
    given,      \* given[n]: the body at the n-th call of message_complete
    written,    \* the master has written its request, or its response
    out,        \* the output buffer holds data
    eof,        \* channel->eof
    due,        \* the callbacks libevent is about to run
    gone        \* the session has been removed

inputVars == <<arrived, cuts, drained>>
parserVars == <<len, mode, body>>
channelVars == <<written, out, eof>>
fixedVars == <<role, stream>>
vars == <<role, stream, arrived, cuts, drained, len, state, mode, body, at, vec,
          given, written, out, eof, due, gone>>

HttpState == {"HTTP_MESSAGE_BEGIN", "HTTP_MESSAGE_PARSE_BEGIN", "HTTP_HEADERS_COMPLETE",
              "HTTP_BODY_PARSE", "HTTP_MESSAGE_COMPLETE"}
Parsing == HttpState \ {"HTTP_HEADERS_COMPLETE", "HTTP_MESSAGE_COMPLETE"}

InputLength == arrived - drained

Init ==
    /\ \/ role = "CLIENT" /\ stream \in Requests
       \/ role = "UPSTREAM" /\ stream \in Responses
    /\ arrived = 0 /\ cuts = {} /\ drained = 0
    /\ len = 0 /\ state = "HTTP_MESSAGE_BEGIN" /\ mode = "start" /\ body = <<>>
    /\ at = "idle" /\ vec = 0 /\ given = <<>>
    /\ written = FALSE /\ out = FALSE /\ eof = FALSE /\ due = {} /\ gone = FALSE

-----------------------------------------------------------------------------
(* The parser, as its callbacks and return values show it to the loop.     *)

(* The bytes it passes over without a callback that pauses it.  Of a       *)
(* response it passes over none at the start: it calls message_begin for a *)
(* leading blank as well.                                                  *)
PassesOver(m) == CASE m = "start" -> IF role = "CLIENT" THEN {"blank"} ELSE {}
                   [] m = "head"  -> {"head"}
                   [] m = "body"  -> {"body"}
                   [] OTHER       -> {}

(* The chunk the loop is at, and the bytes of it the parser stops at.      *)
VecEnd == Min({c \in cuts : c >= vec})
Stops == {k \in vec..VecEnd : stream[k] \notin PassesOver(mode)}
Stop == Min(Stops)

Positions(p, e) == [k \in 1..(e - p + 1) |-> p + k - 1]
BodyTo(e) == IF mode = "body" THEN body \o Positions(vec, e) ELSE body

-----------------------------------------------------------------------------
(* Closing.                                                                *)

(* The session is removed, with its channel: nothing of it runs any more.  *)
http_service_session_remove ==
    /\ gone' = TRUE /\ at' = "idle" /\ due' = {}
    /\ UNCHANGED <<fixedVars, inputVars, parserVars, state, vec, given, channelVars>>

channel_should_close ==
    \/ eof /\ state = "HTTP_MESSAGE_BEGIN"
    \/ state = "HTTP_MESSAGE_COMPLETE" /\ ~out

(* Of ready_to_close, only a client's session in CLIENT_RESPONSE goes. *)
ready_to_close(rest) ==
    IF role = "CLIENT" /\ written
    THEN http_service_session_remove
    ELSE /\ due' = rest
         /\ UNCHANGED <<fixedVars, inputVars, parserVars, state, at, vec, given,
                        channelVars, gone>>

(* libevent runs the callbacks that are due on a channel in this order.    *)
RunsBefore(e) == CASE e = "read"  -> {}
                   [] e = "write" -> {"read"}
                   [] e = "error" -> {"read", "write"}
                   [] e = "eof"   -> {"read", "write", "error"}
Due(e) == at = "idle" /\ ~gone /\ e \in due /\ due \cap RunsBefore(e) = {}

-----------------------------------------------------------------------------
(* http_session_read_cb                                                    *)

read_cb_closes ==
    /\ Due("read") /\ channel_should_close
    /\ ready_to_close(due \ {"read"})

(* A callback that is due has bytes to look at: the branch for an empty    *)
(* buffer is never taken.                                                  *)
read_cb_enters ==
    /\ Due("read") /\ ~channel_should_close
    /\ InputLength > 0
    /\ at' = "loop" /\ due' = due \ {"read"}
    /\ UNCHANGED <<fixedVars, inputVars, parserVars, state, vec, given, channelVars, gone>>

(* http_request_parse finds the chunks behind the first len bytes; setting *)
(* the start fails beyond the end, and room for many chunks may be lacking.*)
ParseStarts ==
    /\ at = "loop" /\ state \in Parsing
    /\ len <= InputLength
    /\ at' = "vecs" /\ vec' = drained + len + 1
    /\ UNCHANGED <<fixedVars, inputVars, parserVars, state, given, channelVars, due, gone>>

ParseCannotStart ==
    /\ at = "loop" /\ state \in Parsing
    /\ len > InputLength \/ AllocMayFail
    /\ http_service_session_remove

(* The loop is left: the state is what it was before http_request_parse.   *)
VecsDone ==
    /\ at = "vecs" /\ vec > arrived
    /\ at' = "idle"
    /\ UNCHANGED <<fixedVars, inputVars, parserVars, state, vec, given, channelVars, due, gone>>

(* http_parser_execute takes the whole chunk.                              *)
VecParsed ==
    /\ at = "vecs" /\ vec <= arrived /\ Stops = {}
    /\ len' = len + (VecEnd - vec + 1)
    /\ body' = BodyTo(VecEnd)
    /\ vec' = VecEnd + 1
    /\ UNCHANGED <<fixedVars, inputVars, mode, state, at, given, channelVars, due, gone>>

(* A callback pauses the parser after n bytes of the chunk; the loop of    *)
(* http_session_read_cb goes round with a new state, and is left with the  *)
(* rest unparsed if the state is what it was.                              *)
Paused(n, m, st, b) ==
    /\ len' = len + n
    /\ mode' = m /\ state' = st /\ body' = b
    /\ at' = IF st = state THEN "idle" ELSE "loop"
    /\ UNCHANGED <<fixedVars, inputVars, vec, given, channelVars, due, gone>>

(* The first byte of a message, or a blank before that of a response.      *)
message_begin ==
    /\ at = "vecs" /\ vec <= arrived /\ Stops # {}
    /\ mode = "start" /\ stream[Stop] \in {"first", "blank"}
    /\ Paused(Stop - vec + 1, IF stream[Stop] = "first" THEN "head" ELSE "start",
              "HTTP_MESSAGE_PARSE_BEGIN", body)

(* Mutant: the byte that ends the headers is parsed and not counted. *)
LastByteNotCounted ==
    /\ at = "vecs" /\ vec <= arrived /\ Stops # {}
    /\ mode = "head"
    /\ \/ /\ stream[Stop] = "end"
          /\ Paused(Stop - vec, "body", "HTTP_HEADERS_COMPLETE", body)
       \/ /\ stream[Stop] = "bare_end"
          /\ Paused(Stop - vec, "done", "HTTP_MESSAGE_COMPLETE", body)

(* Paused in on_headers_complete the parser has not consumed the line feed *)
(* it is at; the loop has it parse that byte alone, which completes a      *)
(* message without a body.                                                 *)
headers_parse_complete ==
    /\ at = "vecs" /\ vec <= arrived /\ Stops # {}
    /\ mode = "head"
    /\ \/ /\ stream[Stop] = "end"
          /\ Paused(Stop - vec + 1, "body", "HTTP_HEADERS_COMPLETE", body)
       \/ /\ stream[Stop] = "bare_end"
          /\ Paused(Stop - vec + 1, "done", "HTTP_MESSAGE_COMPLETE", body)

message_parse_complete ==
    /\ at = "vecs" /\ vec <= arrived /\ Stops # {}
    /\ mode = "body" /\ stream[Stop] = "last"
    /\ Paused(Stop - vec + 1, "done", "HTTP_MESSAGE_COMPLETE", BodyTo(Stop))

Understood == \/ mode = "start" /\ stream[Stop] \in {"first", "blank"}
              \/ mode = "head" /\ stream[Stop] \in {"end", "bare_end"}
              \/ mode = "body" /\ stream[Stop] = "last"

(* A byte the parser does not understand, or a callback of it that fails.  *)
ParseFails ==
    /\ at = "vecs" /\ vec <= arrived
    /\ \/ Stops # {} /\ ~Understood
       \/ AllocMayFail /\ (mode = "body" \/ (mode = "start" /\ Stops # {}))
    /\ http_service_session_remove

(* channel_drain_input *)
Drain ==
    /\ drained' = Min({drained + len, arrived})
    /\ cuts' = {c \in cuts : c > drained'}
    /\ len' = 0

(* Mutant: the headers stay in the buffer until the message is complete. *)
HeadersNotDrained ==
    /\ at = "loop" /\ state = "HTTP_HEADERS_COMPLETE"
    /\ state' = "HTTP_BODY_PARSE"
    /\ UNCHANGED <<fixedVars, inputVars, parserVars, at, vec, given, channelVars, due, gone>>

DrainHeaders ==
    /\ at = "loop" /\ state = "HTTP_HEADERS_COMPLETE"
    /\ Drain
    /\ state' = "HTTP_BODY_PARSE"
    /\ UNCHANGED <<fixedVars, arrived, mode, body, at, vec, given, channelVars, due, gone>>

(* Mutant: the message stays in the buffer. *)
MessageNotDrained ==
    /\ at = "loop" /\ state = "HTTP_MESSAGE_COMPLETE"
    /\ given' = Append(given, body)
    /\ at' = "idle" /\ len' = 0
    /\ written' = FALSE
    /\ \/ role = "CLIENT" /\ UNCHANGED <<due, gone>>
       \/ gone' = TRUE /\ due' = {}
    /\ UNCHANGED <<fixedVars, inputVars, mode, body, state, vec, out, eof>>

(* message_complete of an upstream's session frees it, or the master with  *)
(* it; that of the client's may, if names cannot be resolved.  The state   *)
(* stays HTTP_MESSAGE_COMPLETE.                                            *)
MessageComplete ==
    /\ at = "loop" /\ state = "HTTP_MESSAGE_COMPLETE"
    /\ Drain
    /\ given' = Append(given, body)
    /\ at' = "idle"
    /\ written' = FALSE
    /\ \/ role = "CLIENT" /\ UNCHANGED <<due, gone>>
       \/ gone' = TRUE /\ due' = {}
    /\ UNCHANGED <<fixedVars, arrived, mode, body, state, vec, out, eof>>

ReadStep ==
    \/ read_cb_closes \/ read_cb_enters
    \/ ParseStarts \/ ParseCannotStart \/ VecsDone \/ VecParsed
    \/ message_begin \/ headers_parse_complete \/ message_parse_complete \/ ParseFails
    \/ DrainHeaders \/ MessageComplete

-----------------------------------------------------------------------------
(* The other callbacks, the master and the peer.                           *)

write_cb ==
    /\ Due("write")
    /\ IF channel_should_close THEN ready_to_close(due \ {"write"})
       ELSE /\ due' = due \ {"write"}
            /\ UNCHANGED <<fixedVars, inputVars, parserVars, state, at, vec, given,
                           channelVars, gone>>

event_cb_error == Due("error") /\ http_service_session_remove

(* tcp_socket_event_cb sets eof before the close decision is made. *)
event_cb_eof ==
    /\ Due("eof")
    /\ eof' = TRUE /\ due' = due \ {"eof"}
    /\ IF /\ role = "CLIENT" /\ written
          /\ state = "HTTP_MESSAGE_COMPLETE" /\ ~out
       THEN gone' = TRUE ELSE UNCHANGED gone
    /\ UNCHANGED <<fixedVars, inputVars, parserVars, state, at, vec, given, written, out>>

(* Between callbacks the master writes: a request on an upstream's channel *)
(* once it is connected, the response on the client's.                     *)
MasterWrites ==
    /\ at = "idle" /\ ~gone /\ ~written
    /\ role = "CLIENT" => given # <<>>
    /\ written' = TRUE /\ out' = TRUE
    /\ UNCHANGED <<fixedVars, inputVars, parserVars, state, at, vec, given, eof, due, gone>>

Flushed ==
    /\ at = "idle" /\ ~gone /\ out
    /\ out' = FALSE /\ due' = due \cup {"write"}
    /\ UNCHANGED <<fixedVars, inputVars, parserVars, state, at, vec, given, written, eof, gone>>

(* libevent looks at the socket while the input buffer is below its high   *)
(* watermark, and reads no more than brings it there.                      *)
Reads == at = "idle" /\ ~gone /\ ~eof /\ due \cap {"eof", "error"} = {} /\ InputLength < HighWM

(* Mutant: no watermark is set. *)
ArriveUnbounded ==
    /\ at = "idle" /\ ~gone /\ ~eof /\ due \cap {"eof", "error"} = {}
    /\ \E n \in 1..Len(stream) - arrived :
          /\ arrived' = arrived + n
          /\ cuts' = cuts \cup {arrived + n}
    /\ due' = due \cup {"read"}
    /\ UNCHANGED <<fixedVars, drained, parserVars, state, at, vec, given, channelVars, gone>>

Arrive ==
    /\ Reads
    /\ \E n \in 1..(HighWM - InputLength) :
          /\ arrived + n <= Len(stream)
          /\ arrived' = arrived + n
          /\ cuts' = cuts \cup {arrived + n}
    /\ due' = due \cup {"read"}
    /\ UNCHANGED <<fixedVars, drained, parserVars, state, at, vec, given, channelVars, gone>>

PeerCloses ==
    /\ Reads
    /\ due' = due \cup {"eof"}
    /\ UNCHANGED <<fixedVars, inputVars, parserVars, state, at, vec, given, channelVars, gone>>

ConnectionLost ==
    /\ Reads \/ (at = "idle" /\ ~gone /\ out)
    /\ "error" \notin due
    /\ due' = due \cup {"error"}
    /\ UNCHANGED <<fixedVars, inputVars, parserVars, state, at, vec, given, channelVars, gone>>

Next ==
    \/ ReadStep \/ write_cb \/ event_cb_error \/ event_cb_eof
    \/ MasterWrites \/ Flushed
    \/ Arrive \/ PeerCloses \/ ConnectionLost

Spec == Init /\ [][Next]_vars

(* The loop runs what is due, and the peer sends its stream to the end     *)
(* unless it closes or the connection is lost.                             *)
Fairness == WF_vars(ReadStep) /\ WF_vars(write_cb) /\ WF_vars(Arrive)

FairSpec == Spec /\ Fairness

-----------------------------------------------------------------------------
(* Properties.                                                             *)

Message == INSTANCE HttpMessage
           WITH result <- IF given # <<>> THEN "message" ELSE IF gone THEN "over" ELSE "reading",
                taken <- IF given # <<>> THEN drained ELSE 0,
                bodies <- given

TypeOK ==
    /\ role \in {"CLIENT", "UPSTREAM"} /\ stream \in Requests \cup Responses
    /\ arrived \in 0..Len(stream) /\ cuts \subseteq drained + 1..arrived
    /\ drained \in 0..arrived /\ len \in 0..InputLength
    /\ state \in HttpState /\ mode \in {"start", "head", "body", "done"}
    /\ body \in Seq(1..arrived) /\ given \in Seq(Seq(1..arrived))
    /\ at \in {"idle", "loop", "vecs"} /\ vec \in 0..arrived + 1
    /\ written \in BOOLEAN /\ out \in BOOLEAN /\ eof \in BOOLEAN /\ gone \in BOOLEAN
    /\ due \subseteq {"read", "write", "error", "eof"}

(* http_session.c:229-251, 365, 380: len, the drained bytes and the parser *)
(* stay in step, across every division of the stream into chunks and every *)
(* pause: what has been drained or counted in len is what the parser has   *)
(* consumed, each byte once and in order, so that the next chunk begins    *)
(* where it left off.                                                      *)
Parsed == drained + len
Seen(B) == \E k \in 1..Parsed : stream[k] \in B

InStep ==
    TypeOK /\ (~gone =>
        /\ at = "vecs" => vec = Parsed + 1
        /\ mode = IF Seen({"last", "bare_end"}) THEN "done"
                  ELSE IF Seen({"end"}) THEN "body"
                  ELSE IF Seen({"first"}) THEN "head" ELSE "start"
        /\ \/ mode \in {"start", "head"} /\ body = <<>>
           \/ /\ mode \in {"body", "done"}
              /\ \E h \in 1..Parsed :
                    /\ stream[h] \in {"end", "bare_end"} /\ body = Message!Body(h, Parsed)
                    /\ \A k \in h + 1..Parsed : stream[k] \in {"body", "last"})

(* A message of the stream: bounds are those of the headers and the body.  *)
Deliverable ==
    \E f, h, n \in 1..Len(stream) :
        f < h /\ Message!IsMessage(stream, f, h, n) /\ h <= HighWM /\ n - h <= HighWM

(* tcp_socket.c:8, http_session.c:365: the headers and the body are each   *)
(* kept in the input buffer until they are complete, and that stops        *)
(* reading at its memory limit; and the end of the connection is not told  *)
(* to the parser (http_session.c:313).  So a message whose body is longer  *)
(* than the limit, or ends with the connection, is never handed on.        *)
WithinLimit == ~Deliverable => given = <<>>

(* http_session.c:197, 355-360: a message within the limit is handed on,   *)
(* in however many pieces it arrives, unless the session or the connection *)
(* ends before.  A response behind a blank is not: the second call of      *)
(* message_begin leaves the state as it was, and what has arrived is       *)
(* looked at again only if more arrives.                                   *)
BlankBefore == role = "UPSTREAM" /\ stream[1] = "blank"

HandedOn ==
    Deliverable /\ ~BlankBefore =>
        <>(given # <<>> \/ gone \/ eof \/ due \cap {"eof", "error"} # {})

(* The read loop implements the abstract reading of one message. *)
ImplementsMessage == Message!Spec

=============================================================================
