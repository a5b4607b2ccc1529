---------------------------- MODULE HttpMessage -----------------------------
(***************************************************************************)
(* What the read loop of an HTTP session promises: of the bytes a peer     *)
(* sends, in whatever pieces they arrive, the first message is handed on   *)
(* when all of it is there, with its body, all of its body and nothing     *)
(* else; its bytes and no others are taken from the input buffer.          *)
(***************************************************************************)
EXTENDS Integers, Sequences

VARIABLES
    stream,    \* the bytes, each known by its part in a message
    arrived,   \* how many have arrived
    result,    \* "reading", then "message", unless "over" comes first
    taken,     \* how many bytes the message has taken, once handed on
    bodies     \* the bodies handed on, as positions in the stream

vars == <<stream, arrived, result, taken, bodies>>

All(s, p, e, b) == \A k \in p..e : s[k] = b

(* Headers from byte f, which end at h, and a body that ends at n. *)
IsMessage(s, f, h, n) ==
    /\ All(s, 1, f - 1, "blank") /\ s[f] = "first" /\ All(s, f + 1, h - 1, "head")
    /\ \/ s[h] = "bare_end" /\ n = h
       \/ s[h] = "end" /\ h < n /\ All(s, h + 1, n - 1, "body") /\ s[n] = "last"

(* The body, as its positions in the stream. *)
Body(h, n) == [k \in 1..n - h |-> h + k]

Init ==
    /\ arrived = 0 /\ result = "reading"
    /\ taken = 0 /\ bodies = <<>>

Arrive ==
    /\ arrived' \in arrived + 1..Len(stream)
    /\ UNCHANGED <<stream, result, taken, bodies>>

(* Again if data behind the message calls message_complete once more. *)
HandOn ==
    /\ result \in {"reading", "message"}
    /\ result' = "message"
    /\ \E f, h, n \in 1..arrived : /\ f < h /\ IsMessage(stream, f, h, n)
                                   /\ taken' = n
                                   /\ bodies' = Append(bodies, Body(h, n))
    /\ UNCHANGED <<stream, arrived>>

(* A malformed message, an error, or no memory. *)
GiveUp ==
    /\ result = "reading" /\ result' = "over"
    /\ UNCHANGED <<stream, arrived, taken, bodies>>

Next == Arrive \/ HandOn \/ GiveUp

Spec == Init /\ [][Next]_vars

=============================================================================
