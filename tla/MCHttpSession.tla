--------------------------- MODULE MCHttpSession ----------------------------
(***************************************************************************)
(* Instances of HttpSession for TLC: streams with a message without a      *)
(* body, with a body of known length and with one that ends with the       *)
(* connection, in every division into chunks.  Chunked bodies are not      *)
(* modelled.                                                               *)
(***************************************************************************)
EXTENDS HttpSession

CONSTANTS MaxBody, MaxBehind   \* bounds: bytes of a body, bytes behind a message

Rep(b, n) == [k \in 1..n |-> b]

Heads == {Rep("blank", b) \o <<"first">> \o Rep("head", h) : b \in 0..1, h \in 0..1}
Bodies == {<<"bare_end">>} \cup {<<"end">> \o Rep("body", n) \o <<"last">> : n \in 0..MaxBody - 1}
UntilClose == {<<"end">> \o Rep("body", n) : n \in 1..2}

(* A next message, of which nothing is parsed, is all that can come behind.*)
Behind == {Rep("first", n) : n \in 0..MaxBehind}

Broken(S) == {[s EXCEPT ![k] = "bad"] : <<s, k>> \in {<<s, k>> \in S \X (1..6) : k <= Len(s)}}

Whole == {h \o b : h \in Heads, b \in Bodies}
Short == {h \o b : h \in Heads, b \in {<<"bare_end">>, <<"end", "body", "last">>}}

MCRequests == {w \o x : w \in Whole, x \in Behind} \cup Broken(Short)
MCResponses == Whole \cup {h \o b : h \in Heads, b \in UntilClose} \cup Broken(Short)

=============================================================================
