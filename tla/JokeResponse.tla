---------------------------- MODULE JokeResponse ----------------------------
(***************************************************************************)
(* The response to a client, from the strings of the two replies to the    *)
(* body in the channel's output buffer: client_response_create with        *)
(* joke_create (session.c:88-175), and http_response_write                 *)
(* (http_session.c:133-183).  Session abstracts all this to "the strings   *)
(* are used up and the output buffer holds data, or it failed".            *)
(*                                                                         *)
(* A text is a sequence of letters, its NUL the position behind the last.  *)
(* A step of joke_create is a round of one of its loops.  Every allocation *)
(* and every evbuffer call may fail.  Lengths are taken to fit an int.     *)
(***************************************************************************)
EXTENDS Integers, Sequences, FiniteSetsExt

CONSTANTS
    Letter,
    Jokes, Names, Surnames,      \* the texts the upstreams may reply
    NameToken, SurnameToken      \* "Eduardo", "Panisset"

ASSUME JokeResponseAssumption ==
    /\ Jokes \cup Names \cup Surnames \cup {NameToken, SurnameToken} \subseteq Seq(Letter)
    /\ NameToken # <<>> /\ SurnameToken # <<>>

VARIABLES
    reply,     \* the texts the session began with
    fields,    \* which of its strings the session still points to
    block,     \* the heap block of each text
    pass,      \* which of the two calls of joke_create it is
    joke,      \* sess_joke
    at,        \* where the code is
    n,         \* first loop: where strstr goes on
    len,       \* new_joke_len
    p,         \* second loop: what of sess_joke has been copied
    new        \* new_joke[0..i-1]

scanVars == <<n, len, p, new>>
vars == <<reply, fields, block, pass, joke, at, n, len, p, new>>

Field == {"name", "surname", "joke"}
Block == Field \cup {"first", "second"}

Token == IF pass = 1 THEN NameToken ELSE SurnameToken
SessToken == IF pass = 1 THEN reply.name ELSE reply.surname

(* http_client_response when both replies are in. *)
Init ==
    /\ reply \in [name : Names, surname : Surnames, joke : Jokes]
    /\ fields = Field
    /\ block = [b \in Block |-> IF b \in Field THEN 1 ELSE 0]
    /\ pass = 1 /\ joke = reply.joke /\ at = "count"
    /\ n = 1 /\ len = Len(joke) /\ p = 1 /\ new = <<>>

(* malloc and free: the number of times a block could be freed. *)
Frees(B) == block' = [b \in Block |-> IF b \in B THEN block[b] - 1 ELSE block[b]]

(* strstr(from, token) *)
MatchesAt(text, k, token) ==
    /\ k + Len(token) - 1 <= Len(text)
    /\ \A j \in 1..Len(token) : text[k + j - 1] = token[j]
Matches(from) == {k \in from..Len(joke) : MatchesAt(joke, k, Token)}
strstr(from) == Min(Matches(from))

-----------------------------------------------------------------------------
(* joke_create *)

(* Mutant: the new text is not longer than the old one. *)
CountsOnlyToken ==
    /\ at = "count" /\ Matches(n) # {}
    /\ len' = len - Len(Token)
    /\ n' = strstr(n) + Len(Token)
    /\ UNCHANGED <<reply, fields, block, pass, joke, at, p, new>>

CountMatch ==
    /\ at = "count" /\ Matches(n) # {}
    /\ len' = len - Len(Token) + Len(SessToken)
    /\ n' = strstr(n) + Len(Token)
    /\ UNCHANGED <<reply, fields, block, pass, joke, at, p, new>>

NewBlock == IF pass = 1 THEN "first" ELSE "second"

CountEnds ==
    /\ at = "count" /\ Matches(n) = {}
    /\ len' = len + 1
    /\ \/ at' = "copy" /\ block' = [block EXCEPT ![NewBlock] = 1]
       \/ at' = "no_memory" /\ UNCHANGED block
    /\ p' = 1 /\ new' = <<>>
    /\ UNCHANGED <<reply, fields, pass, joke, n>>

(* Mutant: p stays on the token's last letter. *)
CopyLeavesLetter ==
    /\ at = "copy" /\ Matches(p) # {}
    /\ new' = new \o SubSeq(joke, p, strstr(p) - 1) \o SessToken
    /\ p' = strstr(p) + Len(Token) - 1
    /\ UNCHANGED <<reply, fields, block, pass, joke, at, n, len>>

CopyMatch ==
    /\ at = "copy" /\ Matches(p) # {}
    /\ new' = new \o SubSeq(joke, p, strstr(p) - 1) \o SessToken
    /\ p' = strstr(p) + Len(Token)
    /\ UNCHANGED <<reply, fields, block, pass, joke, at, n, len>>

CopyRest ==
    /\ at = "copy" /\ Matches(p) = {}
    /\ new' = new \o SubSeq(joke, p, Len(joke))
    /\ at' = "created"
    /\ UNCHANGED <<reply, fields, block, pass, joke, n, len, p>>

-----------------------------------------------------------------------------
(* client_response_create *)

(* Mutant: the old joke is freed and the session keeps pointing to it. *)
FirstKeepsJoke ==
    /\ at = "created" /\ pass = 1
    /\ Frees({"name", "joke"}) /\ fields' = fields \ {"name"}
    /\ pass' = 2 /\ joke' = new
    /\ at' = "count" /\ n' = 1 /\ len' = Len(new)
    /\ UNCHANGED <<reply, p, new>>

FirstCreated ==
    /\ at = "created" /\ pass = 1
    /\ Frees({"name", "joke"}) /\ fields' = fields \ {"name", "joke"}
    /\ pass' = 2 /\ joke' = new
    /\ at' = "count" /\ n' = 1 /\ len' = Len(new)
    /\ UNCHANGED <<reply, p, new>>

FirstFailed ==
    /\ at = "no_memory" /\ pass = 1
    /\ Frees({"name"}) /\ fields' = fields \ {"name"}
    /\ at' = "remove"
    /\ UNCHANGED <<reply, pass, joke, scanVars>>

(* The joke of the first pass is freed whether or not the second succeeds. *)
SecondEnds ==
    /\ at \in {"created", "no_memory"} /\ pass = 2
    /\ Frees({"surname", "first"}) /\ fields' = fields \ {"surname"}
    /\ at' = IF at = "created" THEN "write" ELSE "remove"
    /\ UNCHANGED <<reply, pass, joke, scanVars>>

-----------------------------------------------------------------------------
(* http_response_write, and what becomes of the body.                      *)

(* The date, the status line or a header: the body stays with nobody. *)
HeadersFail ==
    /\ at = "write" /\ at' = "remove_lost"
    /\ UNCHANGED <<reply, fields, block, pass, joke, scanVars>>

(* evbuffer_add_reference fails. *)
ReferenceFails ==
    /\ at = "write" /\ at' = "remove"
    /\ Frees({"second"})
    /\ UNCHANGED <<reply, fields, pass, joke, scanVars>>

Written ==
    /\ at = "write" /\ at' = "output"
    /\ UNCHANGED <<reply, fields, block, pass, joke, scanVars>>

(* The buffer gives the body back when it has been sent, or is freed. *)
http_response_cleanup ==
    /\ at = "output" /\ at' = "remove"
    /\ Frees({"second"})
    /\ UNCHANGED <<reply, fields, pass, joke, scanVars>>

session_free ==
    /\ at \in {"remove", "remove_lost"}
    /\ Frees(fields) /\ fields' = {}
    /\ at' = IF at = "remove" THEN "over" ELSE "over_lost"
    /\ UNCHANGED <<reply, pass, joke, scanVars>>

Next ==
    \/ CountMatch \/ CountEnds \/ CopyMatch \/ CopyRest
    \/ FirstCreated \/ FirstFailed \/ SecondEnds
    \/ HeadersFail \/ ReferenceFails \/ Written \/ http_response_cleanup \/ session_free

Spec == Init /\ [][Next]_vars

-----------------------------------------------------------------------------
(* Properties.                                                             *)

TypeOK ==
    /\ reply \in [name : Names, surname : Surnames, joke : Jokes]
    /\ fields \subseteq Field /\ block \in [Block -> 0..1]
    /\ pass \in 1..2 /\ joke \in Seq(Letter) /\ new \in Seq(Letter)
    /\ at \in {"count", "copy", "created", "no_memory", "write", "output",
               "remove", "remove_lost", "over", "over_lost"}
    /\ n \in 1..Len(joke) + 1 /\ p \in Nat \ {0} /\ len \in Nat

(* session.c:95-130: the copy stays inside the block of the length the     *)
(* first scan has counted, at every round and with the NUL at the end, and *)
(* fills it to the last byte.                                              *)
WithinBlock ==
    /\ TypeOK
    /\ at = "copy" => Len(new) + 1 <= len
    /\ at = "created" => Len(new) + 1 = len

(* The replacement of tokens by texts, each where it first matches; what   *)
(* "with" gives is not looked at again.                                    *)
Replaced(text, with) ==
    LET Hits(k) == {w \in with : MatchesAt(text, k, w[1])}
        r[k \in 1..Len(text) + 1] ==
          IF k > Len(text) THEN <<>>
          ELSE IF Hits(k) = {} THEN <<text[k]>> \o r[k + 1]
          ELSE LET w == CHOOSE w \in Hits(k) : TRUE IN w[2] \o r[k + Len(w[1])]
    IN r[1]

(* session.c:109-125: each call of joke_create replaces every token, for   *)
(* adjacent tokens, a token at either end, none, and an empty replacement. *)
TokenReplaced ==
    at = "created" => new = Replaced(joke, {<<Token, SessToken>>})

(* session.c:156-166: the second call looks at the name the first has put  *)
(* in as well, and an empty name joins what stood around its token.  Both  *)
(* tokens are replaced in the client's joke for tokens like the program's, *)
(* where that of the name never begins inside that of the surname, and for *)
(* every name that is not empty and into which the surname's token cannot  *)
(* reach: laid over the name at any place, even in part, it disagrees with *)
(* it.  (With "Panisset": a name that does not contain it, begin with an   *)
(* end of it, as "t", or end with a beginning of it, as "P".)              *)
TokensApart ==
    \A j \in 0..Len(SurnameToken) - 1 : \E i \in 1..Len(NameToken) :
        i + j <= Len(SurnameToken) /\ NameToken[i] # SurnameToken[i + j]
NameApart(name) ==
    \A d \in 1 - Len(SurnameToken)..Len(name) - 1 : \E j \in 1..Len(SurnameToken) :
        j + d \in 1..Len(name) /\ name[j + d] # SurnameToken[j]
Apart == TokensApart /\ reply.name # <<>> /\ NameApart(reply.name)

BothReplaced ==
    at \in {"write", "output"} /\ Apart
    => new = Replaced(reply.joke, {<<NameToken, reply.name>>, <<SurnameToken, reply.surname>>})

(* session.c:158-172, 596-601: each string has one owner on every path:    *)
(* what a field of the session points to is allocated, and at the end all  *)
(* has been freed but a body that http_response_write had not yet handed   *)
(* to the output buffer (http_session.c:141-174).                          *)
StringsOwned ==
    /\ \A b \in fields : block[b] = 1
    /\ at = "over" => \A b \in Block : block[b] = 0
    /\ at = "over_lost" => \A b \in Block : block[b] = IF b = "second" THEN 1 ELSE 0

=============================================================================
