-------------------------- MODULE HttpSessionProofs --------------------------
(***************************************************************************)
(* Proofs about HttpSession, for every set of streams and every watermark: *)
(* what has been drained or counted is what the parser has consumed,       *)
(* across every division into chunks; what is longer than the watermark is *)
(* never handed on; and the read loop implements the reading of one        *)
(* message (HttpMessage).                                                  *)
(***************************************************************************)
EXTENDS HttpSession, SequenceTheorems, WellFoundedInduction, TLAPS

(* The blank lines, first byte and headers that end at byte e. *)
Headers(f, e) ==
    /\ f \in 1..e
    /\ Message!All(stream, 1, f - 1, "blank") /\ stream[f] = "first"
    /\ Message!All(stream, f + 1, e, "head")

(* The input buffer holds no more than its watermark allows, its last chunk *)
(* ends where the data does, and the loop goes on behind what is parsed.    *)
Buffered ==
    /\ InputLength <= HighWM
    /\ drained < arrived => arrived \in cuts
    /\ at = "vecs" => vec = Parsed + 1

(* What the parser has consumed, at each state of the session: nothing is   *)
(* drained before the headers are complete, and then they alone are.        *)
Consumed ==
    \/ /\ state \in {"HTTP_MESSAGE_BEGIN", "HTTP_MESSAGE_PARSE_BEGIN"} /\ mode = "start"
       /\ drained = 0 /\ body = <<>>
       /\ Message!All(stream, 1, Parsed, "blank")
    \/ /\ state = "HTTP_MESSAGE_PARSE_BEGIN" /\ mode = "head"
       /\ drained = 0 /\ body = <<>>
       /\ \E f \in 1..Parsed : Headers(f, Parsed)
    \/ /\ state = "HTTP_HEADERS_COMPLETE" /\ mode = "body" /\ at = "loop"
       /\ drained = 0 /\ body = <<>>
       /\ stream[Parsed] = "end" /\ \E f \in 1..Parsed - 1 : Headers(f, Parsed - 1)
    \/ /\ state = "HTTP_BODY_PARSE" /\ mode = "body"
       /\ drained <= HighWM /\ body = Message!Body(drained, Parsed)
       /\ stream[drained] = "end" /\ \E f \in 1..drained - 1 : Headers(f, drained - 1)
       /\ Message!All(stream, drained + 1, Parsed, "body")
    \/ /\ state = "HTTP_MESSAGE_COMPLETE" /\ mode = "done"
       /\ \E f, h \in 1..Parsed :
             /\ f < h /\ Message!IsMessage(stream, f, h, Parsed)
             /\ h <= HighWM /\ Parsed - h <= HighWM
             /\ body = Message!Body(h, Parsed)

(* A message is handed on when it is complete, and drained with that.       *)
Handed ==
    /\ given # <<>> => state = "HTTP_MESSAGE_COMPLETE" /\ len = 0
    /\ given = <<>> /\ state = "HTTP_MESSAGE_COMPLETE" => at = "loop"
    /\ at = "vecs" => state \in Parsing
    /\ gone => at = "idle"

ReadInv == TypeOK /\ Buffered /\ Consumed /\ Handed

-----------------------------------------------------------------------------
(* Sets of numbers, and sequences of positions.                              *)

LEMMA Least ==
    ASSUME NEW S \in SUBSET Nat, S # {}
    PROVE  Min(S) \in S /\ \A k \in S : Min(S) <= k
<1> DEFINE R == {ss \in Nat \X Nat : ss[1] < ss[2]}
<1>1. IsWellFoundedOn(R, Nat)
    BY NatLessThanWellFounded DEF OpToRel
<1>2. PICK m \in S : \A k \in S : ~(<<k, m>> \in R)
    BY <1>1, WFMin
<1>3. ASSUME NEW k \in S PROVE m <= k
    <2>1. <<k, m>> \notin R /\ k \in Nat /\ m \in Nat
        BY <1>2
    <2>2. <<k, m>> \in Nat \X Nat
        BY <2>1
    <2>3. ~(<<k, m>>[1] < <<k, m>>[2])
        BY <2>1, <2>2
    <2> QED BY <2>1, <2>3
<1> QED BY <1>3 DEF Min

LEMMA LeastOfTwo ==
    ASSUME NEW a \in Nat, NEW b \in Nat, a <= b
    PROVE  Min({a, b}) = a
<1>1. Min({a, b}) \in {a, b} /\ \A k \in {a, b} : Min({a, b}) <= k
    BY Least
<1> QED BY <1>1

LEMMA BodyIsSeq ==
    ASSUME NEW h \in Nat, NEW n \in Nat, h <= n, NEW e \in Nat, n <= e
    PROVE  /\ Message!Body(h, n) \in Seq(1..e) /\ Len(Message!Body(h, n)) = n - h
           /\ \A k \in 1..n - h : Message!Body(h, n)[k] = h + k
<1>1. n - h \in Nat /\ \A k \in 1..n - h : h + k \in 1..e
    OBVIOUS
<1>2. [k \in 1..n - h |-> h + k] \in [1..n - h -> 1..e]
    BY <1>1
<1> QED BY <1>1, <1>2, SeqDef, LenProperties DEF Message!Body

LEMMA NoBody ==
    ASSUME NEW h \in Nat
    PROVE  Message!Body(h, h) = <<>>
<1>1. Message!Body(h, h) \in Seq(1..h) /\ Len(Message!Body(h, h)) = 0
    BY BodyIsSeq
<1> QED BY <1>1, EmptySeq

(* message_body adds the positions from p to e to what it has added before.  *)
LEMMA BodyGrows ==
    ASSUME NEW h \in Nat, NEW p \in Nat, NEW e \in Nat, h < p, p <= e + 1
    PROVE  Message!Body(h, p - 1) \o Positions(p, e) = Message!Body(h, e)
<1> DEFINE s == Message!Body(h, p - 1)
           t == Positions(p, e)
           u == Message!Body(h, e)
<1>1. /\ s \in Seq(1..e) /\ Len(s) = p - 1 - h
      /\ \A k \in 1..p - 1 - h : s[k] = h + k
    <2>1. p - 1 \in Nat /\ h <= p - 1 /\ p - 1 <= e
        OBVIOUS
    <2> HIDE DEF s
    <2> QED BY <2>1, BodyIsSeq DEF s
<1>2. /\ u \in Seq(1..e) /\ Len(u) = e - h
      /\ \A k \in 1..e - h : u[k] = h + k
    <2>1. h <= e /\ e <= e
        OBVIOUS
    <2> HIDE DEF u
    <2> QED BY <2>1, BodyIsSeq DEF u
<1>3. /\ t \in Seq(1..e) /\ Len(t) = e - p + 1
      /\ \A k \in 1..e - p + 1 : t[k] = p + k - 1
    <2>1. e - p + 1 \in Nat /\ \A k \in 1..(e - p + 1) : p + k - 1 \in 1..e
        OBVIOUS
    <2>2. [k \in 1..(e - p + 1) |-> p + k - 1] \in [1..(e - p + 1) -> 1..e]
        BY <2>1
    <2> QED BY <2>1, <2>2, SeqDef, LenProperties DEF Positions
<1> HIDE DEF s, t, u
<1>4. /\ s \o t \in Seq(1..e) /\ Len(s \o t) = Len(s) + Len(t)
      /\ \A k \in 1..Len(s) + Len(t) : (s \o t)[k] = IF k <= Len(s) THEN s[k] ELSE t[k - Len(s)]
    BY <1>1, <1>3, ConcatProperties
<1>5. Len(s) + Len(t) = e - h
    BY <1>1, <1>3
<1>6. ASSUME NEW k \in 1..e - h PROVE (s \o t)[k] = u[k]
    <2>1. CASE k <= p - 1 - h
        <3>1. k \in 1..p - 1 - h /\ (s \o t)[k] = s[k]
            BY <1>1, <1>4, <1>5, <2>1
        <3> QED BY <1>1, <1>2, <3>1
    <2>2. CASE ~(k <= p - 1 - h)
        <3>1. k - (p - 1 - h) \in 1..e - p + 1 /\ (s \o t)[k] = t[k - (p - 1 - h)]
            BY <1>1, <1>4, <1>5, <2>2
        <3> QED BY <1>2, <1>3, <3>1
    <2> QED BY <2>1, <2>2
<1>7. s \o t = u
    BY <1>2, <1>4, <1>5, <1>6, SeqEqual
<1> QED BY <1>7 DEF s, t, u

-----------------------------------------------------------------------------
(* What the invariant says of the numbers, and where the parser stops.       *)

LEMMA Numbers ==
    ASSUME TypeOK
    PROVE  /\ HighWM \in Nat \ {0} /\ stream \in Seq(Byte) /\ Len(stream) \in Nat
           /\ arrived \in Nat /\ arrived <= Len(stream) /\ drained \in Nat /\ len \in Nat
           /\ Parsed \in Nat /\ Parsed <= arrived /\ drained <= Parsed /\ vec \in Nat
           /\ Parsed = drained + len /\ InputLength = arrived - drained
           /\ cuts \in SUBSET Nat /\ \A c \in cuts : drained < c /\ c <= arrived
<1>1. HighWM \in Nat \ {0} /\ stream \in Seq(Byte)
    BY HttpSessionAssumption DEF TypeOK
<1>2. Len(stream) \in Nat
    BY <1>1, LenProperties
<1> QED BY <1>1, <1>2 DEF TypeOK, InputLength, Parsed

LEMMA Chunk ==
    ASSUME TypeOK, Buffered, at = "vecs", vec <= arrived
    PROVE  /\ vec = Parsed + 1 /\ VecEnd \in Nat /\ vec <= VecEnd /\ VecEnd <= arrived
           /\ Stops = {} => \A k \in vec..VecEnd : stream[k] \in PassesOver(mode)
           /\ Stops # {} => /\ Stop \in Nat /\ vec <= Stop /\ Stop <= VecEnd
                            /\ \A k \in vec..Stop - 1 : stream[k] \in PassesOver(mode)
<1>1. vec = Parsed + 1 /\ drained < arrived /\ arrived \in cuts
    BY Numbers DEF Buffered
<1>2. VecEnd \in {c \in cuts : c >= vec} /\ \A c \in cuts : c >= vec => VecEnd <= c
    BY <1>1, Numbers, Least DEF VecEnd
<1>3. VecEnd \in Nat /\ vec <= VecEnd /\ VecEnd <= arrived
    BY <1>2, Numbers
<1>4. Stops \in SUBSET Nat /\ Stops \in SUBSET (vec..VecEnd)
    BY <1>3, Numbers DEF Stops
<1>5. Stops # {} => Stop \in Stops /\ \A k \in Stops : Stop <= k
    BY <1>4, Least DEF Stop
<1>6. ASSUME Stops # {}, NEW k \in vec..Stop - 1 PROVE stream[k] \in PassesOver(mode)
    <2>1. Stop \in vec..VecEnd /\ vec \in Nat
        BY <1>4, <1>5, <1>6, Numbers
    <2>2. k \in vec..VecEnd /\ ~(Stop <= k)
        BY <1>3, <1>6, <2>1
    <2> QED BY <1>5, <1>6, <2>2 DEF Stops
<1> QED BY <1>1, <1>3, <1>4, <1>5, <1>6 DEF Stops

-----------------------------------------------------------------------------
(* Each step keeps the invariant and is one of the abstract reader, or       *)
(* changes nothing there.                                                    *)

Steps == ReadInv' /\ [Message!Next]_Message!vars

(* What the abstract reader sees.                                            *)
LEMMA SameReader ==
    ASSUME TypeOK, UNCHANGED <<stream, arrived, given>>, given # <<>> => drained' = drained
    PROVE  /\ gone' = gone => UNCHANGED Message!vars
           /\ gone' = TRUE => [Message!Next]_Message!vars
<1>1. CASE given # <<>>
    BY <1>1 DEF Message!vars
<1>2. CASE given = <<>>
    <2>1. gone' = gone => UNCHANGED Message!vars
        BY <1>2 DEF Message!vars
    <2>2. ASSUME ~gone, gone' = TRUE PROVE Message!GiveUp
        BY <1>2, <2>2 DEF Message!GiveUp
    <2>3. gone \in BOOLEAN
        BY DEF TypeOK
    <2> QED BY <2>1, <2>2, <2>3 DEF Message!Next
<1> QED BY <1>1, <1>2

(* Nothing of the input, the parser or what is handed on changes.            *)
QuietTo(a, v) ==
    /\ UNCHANGED <<fixedVars, inputVars, parserVars, state, given>>
    /\ at' = a /\ vec' = v
    /\ written' \in BOOLEAN /\ out' \in BOOLEAN /\ eof' \in BOOLEAN
    /\ due' \subseteq {"read", "write", "error", "eof"}

LEMMA QuietStep ==
    ASSUME ReadInv, NEW a \in {"idle", "loop", "vecs"}, NEW v \in 0..arrived + 1, QuietTo(a, v),
           a = "vecs" => v = Parsed + 1 /\ state \in Parsing,
           state \notin Parsing => a = at \/ a = "loop",
           (gone' = gone /\ (~gone \/ a = "idle")) \/ (gone' = TRUE /\ a = "idle")
    PROVE  Steps
<1> USE DEF QuietTo, fixedVars, inputVars, parserVars
<1>1. TypeOK'
    BY DEF ReadInv, TypeOK, InputLength
<1>2. Parsed' = Parsed /\ InputLength' = InputLength
    BY DEF Parsed, InputLength
<1>3. Buffered'
    BY <1>2 DEF ReadInv, Buffered
<1>4. Consumed'
    <2>1. state = "HTTP_HEADERS_COMPLETE" => at' = "loop"
        BY DEF ReadInv, Consumed, Parsing
    <2> QED BY <1>2, <2>1 DEF ReadInv, Consumed, Headers
<1>5. Handed'
    BY DEF ReadInv, Handed, Parsing
<1>6. [Message!Next]_Message!vars
    BY SameReader DEF ReadInv
<1> QED BY <1>1, <1>3, <1>4, <1>5, <1>6 DEF Steps, ReadInv

LEMMA Removed ==
    ASSUME ReadInv, http_service_session_remove, state \in Parsing \/ at = "idle"
    PROVE  Steps
<1>1. QuietTo("idle", vec) /\ gone' = TRUE /\ vec \in 0..arrived + 1
    BY DEF http_service_session_remove, QuietTo, channelVars, ReadInv, TypeOK
<1> QED BY <1>1, QuietStep

LEMMA MayClose ==
    ASSUME ReadInv, at = "idle", NEW rest \in SUBSET due, ready_to_close(rest)
    PROVE  Steps
<1>1. CASE http_service_session_remove
    BY <1>1, Removed
<1>2. CASE ~(role = "CLIENT" /\ written)
    <2>1. QuietTo(at, vec) /\ gone' = gone /\ vec \in 0..arrived + 1
        BY <1>2 DEF ready_to_close, QuietTo, channelVars, ReadInv, TypeOK
    <2> QED BY <2>1, QuietStep
<1> QED BY <1>1, <1>2 DEF ready_to_close

(* The callbacks and the peer, but for the bytes that arrive.                *)
LEMMA CallbackSteps ==
    ASSUME ReadInv,
           \/ read_cb_closes \/ read_cb_enters \/ write_cb \/ event_cb_error \/ event_cb_eof
           \/ MasterWrites \/ Flushed \/ PeerCloses \/ ConnectionLost
    PROVE  Steps
<1>0. /\ vec \in 0..arrived + 1 /\ written \in BOOLEAN /\ out \in BOOLEAN /\ eof \in BOOLEAN
      /\ due \subseteq {"read", "write", "error", "eof"}
    BY DEF ReadInv, TypeOK
<1>1. CASE read_cb_closes
    BY <1>1, MayClose DEF read_cb_closes, Due
<1>2. CASE read_cb_enters
    <2>1. QuietTo("loop", vec) /\ gone' = gone /\ ~gone
        BY <1>0, <1>2 DEF read_cb_enters, Due, QuietTo, channelVars
    <2> QED BY <1>0, <2>1, QuietStep
<1>3. CASE write_cb
    <2>1. CASE channel_should_close
        BY <1>3, <2>1, MayClose DEF write_cb, Due
    <2>2. CASE ~channel_should_close
        <3>1. QuietTo(at, vec) /\ gone' = gone /\ at = "idle"
            BY <1>0, <1>3, <2>2 DEF write_cb, Due, QuietTo, channelVars
        <3> QED BY <1>0, <3>1, QuietStep
    <2> QED BY <2>1, <2>2
<1>4. CASE event_cb_error
    BY <1>4, Removed DEF event_cb_error, Due
<1>5. CASE event_cb_eof
    <2>1. /\ QuietTo(at, vec) /\ at = "idle" /\ (gone' = gone \/ gone' = TRUE)
        BY <1>0, <1>5 DEF event_cb_eof, Due, QuietTo
    <2> QED BY <1>0, <2>1, QuietStep
<1>6. CASE MasterWrites \/ Flushed
    <2>1. QuietTo(at, vec) /\ gone' = gone /\ at = "idle"
        BY <1>0, <1>6 DEF MasterWrites, Flushed, QuietTo
    <2> QED BY <1>0, <2>1, QuietStep
<1>7. CASE PeerCloses \/ ConnectionLost
    <2>1. QuietTo(at, vec) /\ gone' = gone /\ at = "idle"
        BY <1>0, <1>7 DEF PeerCloses, ConnectionLost, Reads, QuietTo, channelVars
    <2> QED BY <1>0, <2>1, QuietStep
<1> QED BY <1>1, <1>2, <1>3, <1>4, <1>5, <1>6, <1>7

(* The steps of http_request_parse that parse nothing.                       *)
LEMMA LoopSteps ==
    ASSUME ReadInv, ParseStarts \/ ParseCannotStart \/ VecsDone \/ ParseFails
    PROVE  Steps
<1>0. /\ vec \in 0..arrived + 1 /\ written \in BOOLEAN /\ out \in BOOLEAN /\ eof \in BOOLEAN
      /\ due \subseteq {"read", "write", "error", "eof"} /\ (gone => at = "idle")
      /\ at = "vecs" => state \in Parsing
    BY DEF ReadInv, TypeOK, Handed
<1>1. CASE ParseStarts
    <2>1. drained + len + 1 = Parsed + 1 /\ drained + len + 1 \in 0..arrived + 1
        BY Numbers DEF ReadInv
    <2>2. /\ QuietTo("vecs", drained + len + 1) /\ gone' = gone /\ ~gone /\ state \in Parsing
        BY <1>0, <1>1 DEF ParseStarts, QuietTo, channelVars
    <2> QED BY <2>1, <2>2, QuietStep
<1>2. CASE ParseCannotStart \/ ParseFails
    BY <1>0, <1>2, Removed DEF ParseCannotStart, ParseFails
<1>3. CASE VecsDone
    <2>1. QuietTo("idle", vec) /\ gone' = gone /\ state \in Parsing
        BY <1>0, <1>3 DEF VecsDone, QuietTo, channelVars
    <2> QED BY <1>0, <2>1, QuietStep
<1> QED BY <1>1, <1>2, <1>3

(* Bytes arrive, no more than the watermark lets in.                         *)
LEMMA ArriveStep ==
    ASSUME ReadInv, Arrive
    PROVE  Steps
<1>1. PICK n \in 1..(HighWM - InputLength) :
         arrived + n <= Len(stream) /\ arrived' = arrived + n /\ cuts' = cuts \cup {arrived + n}
    BY DEF Arrive
<1>2. /\ UNCHANGED <<role, stream, drained, len, mode, body, state, at, vec, given, written, out, eof, gone>>
      /\ at = "idle" /\ due' = due \cup {"read"}
    BY DEF Arrive, Reads, fixedVars, parserVars, channelVars
<1>3. /\ arrived \in Nat /\ n \in Nat \ {0} /\ n <= HighWM - InputLength /\ arrived' \in Nat
      /\ arrived < arrived' /\ Parsed' = Parsed /\ InputLength' = InputLength + n
    BY <1>1, <1>2, Numbers DEF ReadInv, InputLength, Parsed
<1>4. TypeOK'
    <2>1. /\ arrived' \in 0..Len(stream) /\ cuts' \subseteq drained + 1..arrived'
          /\ drained \in 0..arrived' /\ len \in 0..InputLength' /\ vec \in 0..arrived' + 1
        BY <1>1, <1>3, Numbers DEF ReadInv, TypeOK, InputLength
    <2>2. body \in Seq(1..arrived') /\ given \in Seq(Seq(1..arrived'))
        <3>1. 1..arrived \subseteq 1..arrived'
            BY <1>3
        <3>2. \A q \in Seq(1..arrived) : q \in Seq(1..arrived')
            BY <3>1, SeqMonotonic
        <3>3. Seq(1..arrived) \subseteq Seq(1..arrived')
            BY <3>2
        <3> QED BY <3>2, <3>3, SeqMonotonic DEF ReadInv, TypeOK
    <2> QED BY <1>2, <2>1, <2>2 DEF ReadInv, TypeOK
<1>5. Buffered'
    BY <1>1, <1>2, <1>3, Numbers DEF ReadInv, Buffered, InputLength
<1>6. Consumed' /\ Handed'
    <2>1. Consumed'
        BY <1>2, <1>3 DEF ReadInv, Consumed, Headers
    <2> QED BY <1>2, <2>1 DEF ReadInv, Handed
<1>7. Message!Arrive
    BY <1>1, <1>2, <1>3, Numbers DEF Message!Arrive, ReadInv
<1> QED BY <1>4, <1>5, <1>6, <1>7 DEF Steps, ReadInv, Message!Next

-----------------------------------------------------------------------------
(* The calls of http_parser_execute.                                         *)

(* What every one of them leaves alone.                                      *)
Parses(e, m, st, b) ==
    /\ UNCHANGED <<role, stream, arrived, cuts, drained, given, written, out, eof, due, gone>>
    /\ len' = e - drained /\ mode' = m /\ state' = st /\ body' = b

LEMMA ParseStep ==
    ASSUME ReadInv, at = "vecs", vec <= arrived,
           NEW e \in Nat, Parsed <= e, e <= arrived, NEW m, NEW st, NEW b, Parses(e, m, st, b),
           m \in {"start", "head", "body", "done"}, st \in HttpState, b \in Seq(1..arrived),
           \/ at' = "vecs" /\ vec' = e + 1 /\ st \in Parsing
           \/ at' = "loop" /\ vec' = vec
           \/ at' = "idle" /\ vec' = vec /\ st \in Parsing,
           Consumed'
    PROVE  Steps
<1>0. /\ drained \in Nat /\ arrived \in Nat /\ vec \in Nat /\ Parsed \in Nat /\ drained <= Parsed
    BY Numbers DEF ReadInv
<1>1. /\ Parsed' = e /\ InputLength' = InputLength /\ len' \in 0..InputLength
      /\ drained \in Nat /\ arrived \in Nat /\ vec \in Nat
    <2>1. len' = e - drained /\ drained' = drained /\ arrived' = arrived
        BY DEF Parses
    <2> QED BY <1>0, <2>1 DEF Parsed, InputLength
<1>2. TypeOK'
    BY <1>1 DEF ReadInv, TypeOK, Parses, InputLength
<1>3. Buffered'
    BY <1>1 DEF ReadInv, Buffered, Parses
<1>4. given = <<>> /\ ~gone
    BY DEF ReadInv, Handed, Parsing
<1>5. Handed'
    <2>1. given' = <<>> /\ ~gone' /\ state' = st /\ (at' = "vecs" => st \in Parsing)
        BY <1>4 DEF Parses
    <2>2. st = "HTTP_MESSAGE_COMPLETE" => at' = "loop"
        BY DEF Parsing
    <2> QED BY <2>1, <2>2 DEF Handed
<1>6. UNCHANGED Message!vars
    BY <1>4, SameReader DEF ReadInv, Parses
<1> QED BY <1>2, <1>3, <1>5, <1>6, Consumed' DEF Steps, ReadInv

(* What is parsed when http_parser_execute is called.                        *)
LEMMA Reading ==
    ASSUME ReadInv, at = "vecs"
    PROVE  /\ state \in Parsing /\ state # "HTTP_HEADERS_COMPLETE" /\ given = <<>>
           /\ mode = "start" =>
                 /\ drained = 0 /\ body = <<>> /\ Message!All(stream, 1, Parsed, "blank")
                 /\ state \in {"HTTP_MESSAGE_BEGIN", "HTTP_MESSAGE_PARSE_BEGIN"}
           /\ mode = "head" =>
                 /\ drained = 0 /\ body = <<>> /\ \E f \in 1..Parsed : Headers(f, Parsed)
                 /\ state = "HTTP_MESSAGE_PARSE_BEGIN"
           /\ mode = "body" =>
                 /\ drained <= HighWM /\ body = Message!Body(drained, Parsed)
                 /\ stream[drained] = "end" /\ \E f \in 1..drained - 1 : Headers(f, drained - 1)
                 /\ Message!All(stream, drained + 1, Parsed, "body")
                 /\ state = "HTTP_BODY_PARSE"
           /\ mode \in {"start", "head", "body"}
BY DEF ReadInv, Handed, Consumed, Parsing

(* More of the same behind what was parsed.                                  *)
LEMMA AllGrows ==
    ASSUME NEW p \in Nat, NEW q \in Nat, NEW e \in Nat, q <= e, NEW b,
           Message!All(stream, p, q, b), \A k \in q + 1..e : stream[k] = b
    PROVE  Message!All(stream, p, e, b)
<1> SUFFICES ASSUME NEW k \in p..e PROVE stream[k] = b
    BY DEF Message!All
<1>1. k \in p..q \/ k \in q + 1..e
    OBVIOUS
<1> QED BY <1>1 DEF Message!All

LEMMA VecParsedStep ==
    ASSUME ReadInv, VecParsed
    PROVE  Steps
<1>1. /\ at = "vecs" /\ vec <= arrived /\ Stops = {}
      /\ vec = Parsed + 1 /\ VecEnd \in Nat /\ vec <= VecEnd /\ VecEnd <= arrived
      /\ \A k \in vec..VecEnd : stream[k] \in PassesOver(mode)
    BY Chunk DEF VecParsed, ReadInv
<1>2. /\ drained \in Nat /\ Parsed \in Nat /\ drained <= Parsed /\ len \in Nat
      /\ Parsed = drained + len
    BY Numbers DEF ReadInv
<1>3. Parses(VecEnd, mode, state, BodyTo(VecEnd)) /\ at' = "vecs" /\ vec' = VecEnd + 1
    <2>1. len + (VecEnd - vec + 1) = VecEnd - drained
        BY <1>1, <1>2
    <2> QED BY <1>1, <2>1 DEF VecParsed, Parses, fixedVars, inputVars, channelVars
<1>4. /\ UNCHANGED <<stream, drained, mode, state>> /\ Parsed' = VecEnd /\ body' = BodyTo(VecEnd)
    BY <1>1, <1>2, <1>3 DEF Parses, Parsed
<1>8. /\ mode \in {"start", "head", "body", "done"} /\ state \in HttpState /\ state \in Parsing
      /\ VecEnd \in Nat /\ Parsed <= VecEnd
    BY <1>1, <1>2, Reading DEF ReadInv, TypeOK
<1>5. CASE mode = "start"
    <2>1. Message!All(stream, 1, VecEnd, "blank")
        <3>1. \A k \in Parsed + 1..VecEnd : stream[k] = "blank"
            BY <1>1, <1>5 DEF PassesOver
        <3> QED BY <1>1, <1>2, <1>5, <3>1, Reading, AllGrows
    <2>2. body' = <<>> /\ body' \in Seq(1..arrived)
        BY <1>1, <1>4, <1>5, Reading, EmptySeq DEF BodyTo
    <2>3. Consumed'
        BY <1>1, <1>4, <1>5, <2>1, <2>2, Reading DEF Consumed
    <2> QED BY <1>1, <1>2, <1>3, <1>4, <1>8, <2>2, <2>3, ParseStep
<1>6. CASE mode = "head"
    <2>1. PICK f \in 1..Parsed : Headers(f, Parsed)
        BY <1>1, <1>6, Reading
    <2>2. Headers(f, VecEnd)
        <3>1. Message!All(stream, f + 1, VecEnd, "head")
            BY <1>1, <1>2, <1>6, <2>1, AllGrows DEF PassesOver, Headers
        <3> QED BY <1>1, <1>2, <2>1, <3>1 DEF Headers
    <2>3. \E g \in 1..VecEnd : Headers(g, VecEnd)
        BY <1>1, <1>2, <2>1, <2>2
    <2>4. body' = <<>> /\ body' \in Seq(1..arrived)
        BY <1>1, <1>4, <1>6, Reading, EmptySeq DEF BodyTo
    <2>5. Consumed'
        BY <1>1, <1>4, <1>6, <2>3, <2>4, Reading DEF Consumed, Headers
    <2> QED BY <1>1, <1>2, <1>3, <1>4, <1>8, <2>4, <2>5, ParseStep
<1>7. CASE mode = "body"
    <2>1. Message!All(stream, drained + 1, VecEnd, "body")
        <3>1. \A k \in Parsed + 1..VecEnd : stream[k] = "body"
            BY <1>1, <1>7 DEF PassesOver
        <3>2. Message!All(stream, drained + 1, Parsed, "body") /\ drained + 1 \in Nat
            BY <1>1, <1>2, <1>7, Reading
        <3> QED BY <1>2, <1>8, <3>1, <3>2, AllGrows
    <2>2. body' = Message!Body(drained, VecEnd)
        <3>1. body = Message!Body(drained, Parsed) /\ body' = body \o Positions(vec, VecEnd)
            BY <1>1, <1>4, <1>7, Reading DEF BodyTo
        <3>2. vec \in Nat /\ drained < vec /\ vec <= VecEnd + 1 /\ vec - 1 = Parsed
            BY <1>1, <1>2
        <3>3. Message!Body(drained, vec - 1) \o Positions(vec, VecEnd) = Message!Body(drained, VecEnd)
            BY <1>2, <1>8, <3>2, BodyGrows
        <3> QED BY <3>1, <3>2, <3>3
    <2>3. body' \in Seq(1..arrived)
        BY <1>1, <1>2, <2>2, BodyIsSeq, Numbers DEF ReadInv
    <2>4. Consumed'
        BY <1>1, <1>4, <1>7, <2>1, <2>2, Reading DEF Consumed, Headers
    <2> QED BY <1>1, <1>2, <1>3, <1>4, <1>8, <2>3, <2>4, ParseStep
<1> QED BY <1>1, <1>5, <1>6, <1>7, Reading

(* A callback pauses the parser behind the byte it stops at.                 *)
LEMMA PausedStep ==
    ASSUME ReadInv, at = "vecs", vec <= arrived, Stops # {},
           NEW m, NEW st, NEW b, Paused(Stop - vec + 1, m, st, b)
    PROVE  /\ Parses(Stop, m, st, b) /\ vec' = vec
           /\ at' = IF st = state THEN "idle" ELSE "loop"
           /\ Parsed' = Stop /\ drained' = drained
           /\ Stop \in Nat /\ Parsed < Stop /\ Stop <= arrived
           /\ drained \in Nat /\ Parsed \in Nat /\ drained <= Parsed
           /\ vec = Parsed + 1 /\ Stop - drained <= HighWM
           /\ \A k \in Parsed + 1..Stop - 1 : stream[k] \in PassesOver(mode)
<1>1. /\ vec = Parsed + 1 /\ VecEnd \in Nat /\ VecEnd <= arrived
      /\ Stop \in Nat /\ vec <= Stop /\ Stop <= VecEnd
      /\ \A k \in vec..Stop - 1 : stream[k] \in PassesOver(mode)
    BY Chunk DEF ReadInv
<1>2. /\ drained \in Nat /\ Parsed \in Nat /\ drained <= Parsed /\ len \in Nat
      /\ Parsed = drained + len /\ arrived \in Nat /\ HighWM \in Nat
      /\ arrived - drained <= HighWM
    BY Numbers DEF ReadInv, Buffered
<1>3. len + (Stop - vec + 1) = Stop - drained
    BY <1>1, <1>2
<1>4. /\ Parses(Stop, m, st, b) /\ vec' = vec
      /\ at' = IF st = state THEN "idle" ELSE "loop"
    BY <1>3 DEF Paused, Parses, fixedVars, inputVars, channelVars
<1>5. Parsed' = Stop /\ drained' = drained
    BY <1>1, <1>2, <1>4 DEF Parsed, Parses
<1> QED BY <1>1, <1>2, <1>4, <1>5

(* The first byte begins the headers; a blank before it changes only how     *)
(* much is parsed.                                                           *)
LEMMA MessageBeginStep ==
    ASSUME ReadInv, message_begin
    PROVE  Steps
<1> DEFINE m == IF stream[Stop] = "first" THEN "head" ELSE "start"
<1>1. /\ at = "vecs" /\ vec <= arrived /\ Stops # {} /\ mode = "start"
      /\ stream[Stop] \in {"first", "blank"}
      /\ Paused(Stop - vec + 1, m, "HTTP_MESSAGE_PARSE_BEGIN", body)
    BY DEF message_begin
<1>2. drained = 0 /\ body = <<>> /\ Message!All(stream, 1, Parsed, "blank")
    BY <1>1, Reading
<1>3. /\ Parses(Stop, m, "HTTP_MESSAGE_PARSE_BEGIN", body) /\ vec' = vec
      /\ at' \in {"idle", "loop"}
      /\ Parsed' = Stop /\ drained' = drained
      /\ Stop \in Nat /\ Parsed < Stop /\ Stop <= arrived /\ Parsed \in Nat
      /\ \A k \in Parsed + 1..Stop - 1 : stream[k] \in PassesOver(mode)
    <2> HIDE DEF m
    <2> QED BY <1>1, PausedStep
<1>4. Message!All(stream, 1, Stop - 1, "blank")
    <2>1. \A k \in Parsed + 1..Stop - 1 : stream[k] = "blank"
        BY <1>1, <1>3 DEF PassesOver
    <2>2. Stop - 1 \in Nat /\ Parsed <= Stop - 1
        BY <1>3
    <2> QED BY <1>2, <1>3, <2>1, <2>2, AllGrows
<1>5. Consumed'
    <2>1. CASE stream[Stop] = "first"
        <3>1. Message!All(stream, Stop + 1, Stop, "head")
            BY <1>3 DEF Message!All
        <3>2. Stop \in 1..Stop /\ Headers(Stop, Stop)
            BY <1>3, <1>4, <2>1, <3>1 DEF Headers
        <3>3. mode' = "head" /\ state' = "HTTP_MESSAGE_PARSE_BEGIN" /\ body' = <<>> /\ stream' = stream
            BY <1>2, <1>3, <2>1 DEF Parses
        <3> QED BY <1>2, <1>3, <3>2, <3>3 DEF Consumed, Headers
    <2>2. CASE stream[Stop] = "blank"
        <3>1. Message!All(stream, 1, Stop, "blank")
            <4>1. \A k \in (Stop - 1) + 1..Stop : stream[k] = "blank"
                BY <1>3, <2>2
            <4>2. Stop - 1 \in Nat /\ Stop - 1 <= Stop
                BY <1>3
            <4> QED BY <1>3, <1>4, <4>1, <4>2, AllGrows
        <3>2. mode' = "start" /\ state' = "HTTP_MESSAGE_PARSE_BEGIN" /\ body' = <<>> /\ stream' = stream
            BY <1>2, <1>3, <2>2 DEF Parses
        <3> QED BY <1>2, <1>3, <3>1, <3>2 DEF Consumed
    <2> QED BY <1>1, <2>1, <2>2
<1>6. body \in Seq(1..arrived)
    BY DEF ReadInv, TypeOK
<1>7. m \in {"start", "head"} /\ Parsed <= Stop
    BY <1>3
<1>8. /\ "HTTP_MESSAGE_PARSE_BEGIN" \in HttpState /\ "HTTP_MESSAGE_PARSE_BEGIN" \in Parsing
    BY DEF HttpState, Parsing
<1> HIDE DEF m
<1> QED BY <1>1, <1>3, <1>5, <1>6, <1>7, <1>8, ParseStep

(* The line feed that ends the headers is parsed by itself, and counted.     *)
LEMMA HeadersStep ==
    ASSUME ReadInv, headers_parse_complete
    PROVE  Steps
<1>1. at = "vecs" /\ vec <= arrived /\ Stops # {} /\ mode = "head"
    BY DEF headers_parse_complete
<1>2. /\ drained = 0 /\ body = <<>> /\ \E f \in 1..Parsed : Headers(f, Parsed)
      /\ state = "HTTP_MESSAGE_PARSE_BEGIN"
    BY <1>1, Reading
<1>3. PICK f \in 1..Parsed : Headers(f, Parsed)
    BY <1>2
<1>4. body \in Seq(1..arrived)
    BY DEF ReadInv, TypeOK
<1>5. ASSUME Stop \in Nat, Parsed < Stop, Parsed \in Nat,
             \A k \in Parsed + 1..Stop - 1 : stream[k] \in PassesOver(mode)
      PROVE  f \in 1..Stop - 1 /\ Headers(f, Stop - 1)
    <2>1. Message!All(stream, f + 1, Stop - 1, "head")
        BY <1>1, <1>3, <1>5, AllGrows DEF PassesOver, Headers
    <2> QED BY <1>3, <1>5, <2>1 DEF Headers
<1>6. CASE stream[Stop] = "end" /\ Paused(Stop - vec + 1, "body", "HTTP_HEADERS_COMPLETE", body)
    <2>1. /\ Parses(Stop, "body", "HTTP_HEADERS_COMPLETE", body) /\ at' = "loop" /\ vec' = vec
          /\ Parsed' = Stop /\ drained' = drained
          /\ Stop \in Nat /\ Parsed < Stop /\ Stop <= arrived /\ Parsed \in Nat
          /\ \A k \in Parsed + 1..Stop - 1 : stream[k] \in PassesOver(mode)
        BY <1>1, <1>2, <1>6, PausedStep
    <2>2. f \in 1..Stop - 1 /\ Headers(f, Stop - 1)
        BY <1>5, <2>1
    <2>3. Consumed'
        BY <1>2, <1>6, <2>1, <2>2 DEF Consumed, Headers, Parses
    <2> QED BY <1>1, <1>4, <2>1, <2>3, ParseStep DEF HttpState
<1>7. CASE stream[Stop] = "bare_end" /\ Paused(Stop - vec + 1, "done", "HTTP_MESSAGE_COMPLETE", body)
    <2>1. /\ Parses(Stop, "done", "HTTP_MESSAGE_COMPLETE", body) /\ at' = "loop" /\ vec' = vec
          /\ Parsed' = Stop /\ drained' = drained
          /\ Stop \in Nat /\ Parsed < Stop /\ Stop <= arrived /\ Parsed \in Nat
          /\ Stop - drained <= HighWM
          /\ \A k \in Parsed + 1..Stop - 1 : stream[k] \in PassesOver(mode)
        BY <1>1, <1>2, <1>7, PausedStep
    <2>2. f \in 1..Stop - 1 /\ Headers(f, Stop - 1)
        BY <1>5, <2>1
    <2>3. Message!IsMessage(stream, f, Stop, Stop) /\ f \in 1..Stop /\ Stop \in 1..Stop /\ f < Stop
        BY <1>7, <2>1, <2>2 DEF Message!IsMessage, Headers
    <2>4. Stop <= HighWM /\ Stop - Stop <= HighWM /\ body = Message!Body(Stop, Stop)
        BY <1>2, <2>1, NoBody, HttpSessionAssumption
    <2>5. Consumed'
        BY <1>2, <2>1, <2>3, <2>4 DEF Consumed, Parses
    <2> QED BY <1>1, <1>4, <2>1, <2>5, ParseStep DEF HttpState
<1> QED BY <1>6, <1>7 DEF headers_parse_complete

LEMMA MessageEndsStep ==
    ASSUME ReadInv, message_parse_complete
    PROVE  Steps
<1>1. /\ at = "vecs" /\ vec <= arrived /\ Stops # {} /\ mode = "body" /\ stream[Stop] = "last"
      /\ Paused(Stop - vec + 1, "done", "HTTP_MESSAGE_COMPLETE", BodyTo(Stop))
    BY DEF message_parse_complete
<1>2. /\ drained <= HighWM /\ body = Message!Body(drained, Parsed) /\ stream[drained] = "end"
      /\ \E f \in 1..drained - 1 : Headers(f, drained - 1)
      /\ Message!All(stream, drained + 1, Parsed, "body") /\ state = "HTTP_BODY_PARSE"
    BY <1>1, Reading
<1>3. /\ Parses(Stop, "done", "HTTP_MESSAGE_COMPLETE", BodyTo(Stop)) /\ at' = "loop" /\ vec' = vec
      /\ Parsed' = Stop /\ drained' = drained
      /\ Stop \in Nat /\ Parsed < Stop /\ Stop <= arrived /\ Parsed \in Nat
      /\ drained \in Nat /\ drained <= Parsed /\ vec = Parsed + 1 /\ Stop - drained <= HighWM
      /\ \A k \in Parsed + 1..Stop - 1 : stream[k] \in PassesOver(mode)
    BY <1>1, <1>2, PausedStep
<1>4. BodyTo(Stop) = Message!Body(drained, Stop)
    <2>1. BodyTo(Stop) = Message!Body(drained, Parsed) \o Positions(vec, Stop)
        BY <1>1, <1>2 DEF BodyTo
    <2>2. vec \in Nat /\ drained < vec /\ vec <= Stop + 1 /\ vec - 1 = Parsed
        BY <1>3
    <2>3. Message!Body(drained, vec - 1) \o Positions(vec, Stop) = Message!Body(drained, Stop)
        BY <1>3, <2>2, BodyGrows
    <2> QED BY <2>1, <2>2, <2>3
<1>5. BodyTo(Stop) \in Seq(1..arrived)
    <2>1. arrived \in Nat /\ drained <= Stop
        BY <1>3, Numbers DEF ReadInv
    <2> QED BY <1>3, <1>4, <2>1, BodyIsSeq
<1>6. PICK f \in 1..drained - 1 : Headers(f, drained - 1)
    BY <1>2
<1>7. /\ f \in 1..Stop /\ drained \in 1..Stop /\ f < drained
      /\ Message!IsMessage(stream, f, drained, Stop)
    <2>1. Message!All(stream, drained + 1, Stop - 1, "body")
        <3>1. \A k \in Parsed + 1..Stop - 1 : stream[k] = "body"
            BY <1>1, <1>3 DEF PassesOver
        <3>2. Stop - 1 \in Nat /\ Parsed <= Stop - 1 /\ drained + 1 \in Nat
            BY <1>3
        <3> QED BY <1>2, <1>3, <3>1, <3>2, AllGrows
    <2> QED BY <1>1, <1>2, <1>3, <1>6, <2>1 DEF Message!IsMessage, Headers
<1>8. Consumed'
    BY <1>2, <1>3, <1>4, <1>7 DEF Consumed, Parses
<1> QED BY <1>1, <1>3, <1>5, <1>8, ParseStep DEF HttpState

-----------------------------------------------------------------------------
(* What the session does between the calls, and all of it together.          *)

(* Draining what was parsed takes nothing else from the input buffer.        *)
LEMMA Drained ==
    ASSUME ReadInv, Drain, UNCHANGED arrived
    PROVE  /\ drained' = Parsed /\ Parsed' = Parsed /\ len' = 0 /\ Parsed \in Nat
           /\ Parsed <= arrived /\ InputLength' = arrived - Parsed /\ InputLength' <= HighWM
           /\ cuts' \subseteq Parsed + 1..arrived /\ InputLength' \in Nat
           /\ (Parsed < arrived => arrived \in cuts')
<1>1. /\ arrived \in Nat /\ drained \in Nat /\ len \in Nat /\ Parsed \in Nat /\ HighWM \in Nat
      /\ Parsed = drained + len /\ Parsed <= arrived /\ drained <= Parsed
      /\ InputLength = arrived - drained /\ InputLength <= HighWM
      /\ cuts \in SUBSET Nat /\ \A c \in cuts : drained < c /\ c <= arrived
    BY Numbers DEF ReadInv, Buffered
<1>2. drained' = Parsed /\ len' = 0
    <2>1. Min({Parsed, arrived}) = Parsed
        BY <1>1, LeastOfTwo
    <2> QED BY <1>1, <2>1 DEF Drain
<1>3. Parsed' = Parsed /\ InputLength' = arrived - Parsed
    BY <1>1, <1>2 DEF Parsed, InputLength
<1>4. cuts' = {c \in cuts : c > Parsed}
    BY <1>2 DEF Drain
<1>5. Parsed < arrived => arrived \in cuts'
    BY <1>1, <1>4 DEF ReadInv, Buffered
<1>6. cuts' \subseteq Parsed + 1..arrived
    <2> SUFFICES ASSUME NEW c \in cuts' PROVE c \in Parsed + 1..arrived
        OBVIOUS
    <2>1. c \in cuts /\ c > Parsed
        BY <1>4
    <2>2. c \in Nat /\ c <= arrived
        BY <1>1, <2>1
    <2> QED BY <1>1, <2>1, <2>2
<1> QED BY <1>1, <1>2, <1>3, <1>5, <1>6

LEMMA DrainHeadersStep ==
    ASSUME ReadInv, DrainHeaders
    PROVE  Steps
<1>1. /\ at = "loop" /\ state = "HTTP_HEADERS_COMPLETE" /\ Drain /\ state' = "HTTP_BODY_PARSE"
      /\ UNCHANGED <<role, stream, arrived, mode, body, at, vec, given, written, out, eof, due, gone>>
    BY DEF DrainHeaders, fixedVars, channelVars
<1>2. /\ drained' = Parsed /\ Parsed' = Parsed /\ len' = 0 /\ Parsed \in Nat
      /\ Parsed <= arrived /\ InputLength' = arrived - Parsed /\ InputLength' <= HighWM
      /\ cuts' \subseteq Parsed + 1..arrived /\ InputLength' \in Nat
      /\ (Parsed < arrived => arrived \in cuts')
    BY <1>1, Drained
<1>3. /\ mode = "body" /\ drained = 0 /\ body = <<>> /\ stream[Parsed] = "end"
      /\ \E f \in 1..Parsed - 1 : Headers(f, Parsed - 1)
    BY <1>1 DEF ReadInv, Consumed
<1>4. given = <<>> /\ ~gone
    BY <1>1 DEF ReadInv, Handed
<1>5. TypeOK'
    BY <1>1, <1>2 DEF ReadInv, TypeOK, HttpState
<1>6. Buffered'
    BY <1>1, <1>2 DEF Buffered
<1>7. Consumed'
    <2>1. Parsed <= HighWM
        BY <1>2, <1>3, Numbers DEF ReadInv, Buffered
    <2>2. Message!Body(Parsed, Parsed) = <<>>
        BY <1>2, NoBody
    <2>3. Message!All(stream, Parsed + 1, Parsed, "body")
        BY <1>2 DEF Message!All
    <2>4. body' = Message!Body(drained', Parsed')
        BY <1>1, <1>2, <1>3, <2>2
    <2> QED BY <1>1, <1>2, <1>3, <2>1, <2>3, <2>4 DEF Consumed, Headers
<1>8. Handed'
    BY <1>1, <1>4 DEF Handed, Parsing
<1>9. UNCHANGED Message!vars
    BY <1>1, <1>4 DEF Message!vars
<1> QED BY <1>5, <1>6, <1>7, <1>8, <1>9 DEF Steps, ReadInv

LEMMA MessageCompleteStep ==
    ASSUME ReadInv, MessageComplete
    PROVE  Steps
<1>1. /\ at = "loop" /\ state = "HTTP_MESSAGE_COMPLETE" /\ Drain
      /\ given' = Append(given, body) /\ at' = "idle" /\ written' = FALSE
      /\ UNCHANGED <<role, stream, arrived, mode, body, state, vec, out, eof>>
      /\ gone' \in BOOLEAN /\ due' \subseteq due
    BY DEF MessageComplete, fixedVars, ReadInv, TypeOK
<1>2. /\ drained' = Parsed /\ Parsed' = Parsed /\ len' = 0 /\ Parsed \in Nat
      /\ Parsed <= arrived /\ InputLength' = arrived - Parsed /\ InputLength' <= HighWM
      /\ cuts' \subseteq Parsed + 1..arrived /\ InputLength' \in Nat
      /\ (Parsed < arrived => arrived \in cuts')
    BY <1>1, Drained
<1>3. PICK f \in 1..Parsed, h \in 1..Parsed :
         /\ f < h /\ Message!IsMessage(stream, f, h, Parsed)
         /\ h <= HighWM /\ Parsed - h <= HighWM /\ body = Message!Body(h, Parsed)
    BY <1>1 DEF ReadInv, Consumed
<1>4. given' \in Seq(Seq(1..arrived)) /\ given' # <<>>
    <2>1. body \in Seq(1..arrived) /\ given \in Seq(Seq(1..arrived))
        BY DEF ReadInv, TypeOK
    <2> QED BY <1>1, <2>1, AppendProperties
<1>5. TypeOK'
    <2>1. /\ arrived' \in 0..Len(stream') /\ cuts' \subseteq drained' + 1..arrived'
          /\ drained' \in 0..arrived' /\ len' \in 0..InputLength' /\ vec' \in 0..arrived' + 1
        BY <1>1, <1>2 DEF ReadInv, TypeOK
    <2>2. given' \in Seq(Seq(1..arrived')) /\ body' \in Seq(1..arrived')
        BY <1>1, <1>4 DEF ReadInv, TypeOK
    <2>3. /\ at' \in {"idle", "loop", "vecs"} /\ written' \in BOOLEAN /\ gone' \in BOOLEAN
          /\ due' \subseteq {"read", "write", "error", "eof"}
        BY <1>1 DEF ReadInv, TypeOK
    <2> QED BY <1>1, <2>1, <2>2, <2>3 DEF ReadInv, TypeOK
<1>6. Buffered'
    BY <1>1, <1>2 DEF Buffered
<1>7. Consumed'
    <2>1. mode = "done"
        BY <1>1 DEF ReadInv, Consumed
    <2> QED BY <1>1, <1>2, <1>3, <2>1 DEF Consumed
<1>8. Handed'
    BY <1>1, <1>2, <1>4 DEF Handed
<1>9. Message!HandOn
    <2>1. f \in 1..arrived /\ h \in 1..arrived /\ Parsed \in 1..arrived
        <3>1. arrived \in Nat
            BY Numbers DEF ReadInv
        <3> QED BY <1>2, <1>3, <3>1
    <2>2. ~gone
        BY <1>1 DEF ReadInv, Handed
    <2> QED BY <1>1, <1>2, <1>3, <1>4, <2>1, <2>2 DEF Message!HandOn
<1> QED BY <1>5, <1>6, <1>7, <1>8, <1>9 DEF Steps, ReadInv, Message!Next

LEMMA Starts ==
    ASSUME Init
    PROVE  ReadInv /\ Message!Init
<1>1. /\ arrived = 0 /\ cuts = {} /\ drained = 0 /\ len = 0 /\ body = <<>> /\ given = <<>>
      /\ state = "HTTP_MESSAGE_BEGIN" /\ mode = "start" /\ at = "idle" /\ vec = 0 /\ gone = FALSE
      /\ written = FALSE /\ out = FALSE /\ eof = FALSE /\ due = {}
      /\ role \in {"CLIENT", "UPSTREAM"} /\ stream \in Requests \cup Responses
    BY DEF Init
<1>2. stream \in Seq(Byte) /\ Len(stream) \in Nat /\ HighWM \in Nat
    BY <1>1, HttpSessionAssumption, LenProperties
<1>3. TypeOK
    <2>1. body \in Seq(1..arrived) /\ given \in Seq(Seq(1..arrived))
        BY <1>1, EmptySeq
    <2>2. /\ arrived \in 0..Len(stream) /\ cuts \subseteq drained + 1..arrived
          /\ drained \in 0..arrived /\ len \in 0..InputLength /\ vec \in 0..arrived + 1
        BY <1>1, <1>2 DEF InputLength
    <2>3. state \in HttpState
        BY <1>1 DEF HttpState
    <2> QED BY <1>1, <2>1, <2>2, <2>3 DEF TypeOK
<1>4. InputLength = 0 /\ Parsed = 0
    BY <1>1 DEF InputLength, Parsed
<1>5. Buffered /\ Handed
    BY <1>1, <1>2, <1>4 DEF Buffered, Handed
<1>6. Consumed
    <2>1. Message!All(stream, 1, Parsed, "blank")
        BY <1>4 DEF Message!All
    <2> QED BY <1>1, <2>1 DEF Consumed
<1>7. Message!Init
    BY <1>1 DEF Message!Init
<1> QED BY <1>3, <1>5, <1>6, <1>7 DEF ReadInv

LEMMA EveryStep ==
    ASSUME ReadInv, [Next]_vars
    PROVE  Steps
<1>1. CASE UNCHANGED vars
    BY <1>1 DEF vars, Steps, ReadInv, TypeOK, Buffered, Consumed, Handed, InputLength, Parsed,
                Headers, Message!vars
<1>2. CASE ReadStep
    BY <1>2, CallbackSteps, LoopSteps, VecParsedStep, MessageBeginStep, HeadersStep,
       MessageEndsStep, DrainHeadersStep, MessageCompleteStep DEF ReadStep
<1>3. CASE Arrive
    BY <1>3, ArriveStep
<1>4. CASE \/ write_cb \/ event_cb_error \/ event_cb_eof
           \/ MasterWrites \/ Flushed \/ PeerCloses \/ ConnectionLost
    BY <1>4, CallbackSteps
<1> QED BY <1>1, <1>2, <1>3, <1>4 DEF Next

LEMMA ReadInvAlways == Spec => []ReadInv
<1>1. Init => ReadInv
    BY Starts
<1>2. ReadInv /\ [Next]_vars => ReadInv'
    BY EveryStep DEF Steps
<1> QED BY <1>1, <1>2, PTL DEF Spec

-----------------------------------------------------------------------------
(* The properties.                                                           *)

(* What the parser expects next follows from what it has consumed.           *)
LEMMA ModeFollows ==
    ASSUME ReadInv
    PROVE  mode = IF Seen({"last", "bare_end"}) THEN "done"
                  ELSE IF Seen({"end"}) THEN "body"
                  ELSE IF Seen({"first"}) THEN "head" ELSE "start"
<1>0. Parsed \in Nat /\ drained \in Nat /\ drained <= Parsed
    BY Numbers DEF ReadInv
<1>1. ASSUME NEW f, NEW e \in Nat, Headers(f, e)
      PROVE  f \in 1..e /\ \A k \in 1..e : stream[k] \in {"blank", "first", "head"} /\ stream[f] = "first"
    <2>1. f \in Nat /\ f \in 1..e
        BY <1>1 DEF Headers
    <2>2. ASSUME NEW k \in 1..e PROVE stream[k] \in {"blank", "first", "head"}
        <3>1. k \in 1..f - 1 \/ k = f \/ k \in f + 1..e
            BY <2>1
        <3> QED BY <1>1, <3>1 DEF Headers, Message!All
    <2> QED BY <1>1, <2>1, <2>2 DEF Headers
<1>2. CASE mode = "start"
    <2>1. \A k \in 1..Parsed : stream[k] = "blank"
        BY <1>2 DEF ReadInv, Consumed, Message!All
    <2> QED BY <1>2, <2>1 DEF Seen
<1>3. CASE mode = "head"
    <2>1. PICK f \in 1..Parsed : Headers(f, Parsed)
        BY <1>3 DEF ReadInv, Consumed
    <2> QED BY <1>0, <1>1, <1>3, <2>1 DEF Seen
<1>4. CASE mode = "body"
    <2>1. PICK h \in 1..Parsed :
             /\ stream[h] = "end" /\ \E f \in 1..h - 1 : Headers(f, h - 1)
             /\ \A k \in h + 1..Parsed : stream[k] = "body"
        <3>1. CASE state = "HTTP_HEADERS_COMPLETE"
            <4>1. stream[Parsed] = "end" /\ \E f \in 1..Parsed - 1 : Headers(f, Parsed - 1)
                BY <3>1 DEF ReadInv, Consumed
            <4>2. Parsed \in 1..Parsed /\ \A k \in Parsed + 1..Parsed : stream[k] = "body"
                BY <1>0, <4>1
            <4> QED BY <4>1, <4>2
        <3>2. CASE state = "HTTP_BODY_PARSE"
            <4>1. /\ stream[drained] = "end" /\ \E f \in 1..drained - 1 : Headers(f, drained - 1)
                  /\ \A k \in drained + 1..Parsed : stream[k] = "body"
                BY <3>2, <1>4 DEF ReadInv, Consumed, Message!All
            <4>2. drained \in 1..Parsed
                BY <1>0, <4>1
            <4> QED BY <4>1, <4>2
        <3> QED BY <1>4, <3>1, <3>2 DEF ReadInv, Consumed
    <2>2. \A k \in 1..h - 1 : stream[k] \in {"blank", "first", "head"}
        BY <1>0, <1>1, <2>1
    <2>3. ASSUME NEW k \in 1..Parsed PROVE stream[k] \in {"blank", "first", "head", "end", "body"}
        <3>1. k \in 1..h - 1 \/ k = h \/ k \in h + 1..Parsed
            BY <1>0
        <3> QED BY <2>1, <2>2, <3>1
    <2> QED BY <1>4, <2>1, <2>3 DEF Seen
<1>5. CASE mode = "done"
    <2>1. PICK f \in 1..Parsed, h \in 1..Parsed : Message!IsMessage(stream, f, h, Parsed)
        BY <1>5 DEF ReadInv, Consumed
    <2>2. stream[Parsed] \in {"last", "bare_end"} /\ Parsed \in 1..Parsed
        BY <1>0, <2>1 DEF Message!IsMessage
    <2> QED BY <1>5, <2>2 DEF Seen
<1> QED BY <1>2, <1>3, <1>4, <1>5 DEF ReadInv, TypeOK

(* The body that has been added is that of the stream.                       *)
LEMMA BodyFollows ==
    ASSUME ReadInv
    PROVE  \/ mode \in {"start", "head"} /\ body = <<>>
           \/ /\ mode \in {"body", "done"}
              /\ \E h \in 1..Parsed :
                    /\ stream[h] \in {"end", "bare_end"} /\ body = Message!Body(h, Parsed)
                    /\ \A k \in h + 1..Parsed : stream[k] \in {"body", "last"}
<1>0. Parsed \in Nat /\ drained \in Nat /\ drained <= Parsed
    BY Numbers DEF ReadInv
<1>1. CASE mode \in {"start", "head"}
    BY <1>1 DEF ReadInv, Consumed
<1>2. CASE state = "HTTP_HEADERS_COMPLETE"
    <2>1. /\ mode = "body" /\ body = <<>> /\ stream[Parsed] = "end" /\ \E f \in 1..Parsed - 1 : TRUE
        BY <1>2 DEF ReadInv, Consumed
    <2>2. /\ Parsed \in 1..Parsed /\ body = Message!Body(Parsed, Parsed)
          /\ \A k \in Parsed + 1..Parsed : stream[k] \in {"body", "last"}
        BY <1>0, <2>1, NoBody
    <2> QED BY <2>1, <2>2
<1>3. CASE state = "HTTP_BODY_PARSE" /\ mode = "body"
    <2>1. /\ body = Message!Body(drained, Parsed) /\ stream[drained] = "end"
          /\ \E f \in 1..drained - 1 : TRUE
          /\ \A k \in drained + 1..Parsed : stream[k] = "body"
        BY <1>3 DEF ReadInv, Consumed, Message!All
    <2>2. drained \in 1..Parsed
        BY <1>0, <2>1
    <2> QED BY <1>3, <2>1, <2>2
<1>4. CASE state = "HTTP_MESSAGE_COMPLETE"
    <2>1. PICK f \in 1..Parsed, h \in 1..Parsed :
             Message!IsMessage(stream, f, h, Parsed) /\ body = Message!Body(h, Parsed)
        BY <1>4 DEF ReadInv, Consumed
    <2>2. stream[h] \in {"end", "bare_end"} /\ \A k \in h + 1..Parsed : stream[k] \in {"body", "last"}
        <3>1. CASE Parsed = h /\ stream[h] = "bare_end"
            BY <1>0, <3>1
        <3>2. CASE /\ stream[h] = "end" /\ h < Parsed /\ stream[Parsed] = "last"
                   /\ Message!All(stream, h + 1, Parsed - 1, "body")
            <4>1. \A k \in h + 1..Parsed : k \in h + 1..Parsed - 1 \/ k = Parsed
                BY <1>0
            <4> QED BY <3>2, <4>1 DEF Message!All
        <3> QED BY <2>1, <3>1, <3>2 DEF Message!IsMessage
    <2>3. mode = "done"
        BY <1>4 DEF ReadInv, Consumed
    <2> QED BY <2>1, <2>2, <2>3
<1> QED BY <1>1, <1>2, <1>3, <1>4 DEF ReadInv, Consumed

(* http_session.c:229-251, 365, 380: len, the drained bytes and the parser   *)
(* stay in step, however the stream is divided into chunks.                  *)
THEOREM StaysInStep == Spec => []InStep
<1>1. ReadInv => InStep
    <2> SUFFICES ASSUME ReadInv PROVE InStep
        OBVIOUS
    <2>1. at = "vecs" => vec = Parsed + 1
        BY DEF ReadInv, Buffered
    <2>2. TypeOK
        BY DEF ReadInv
    <2> QED BY <2>1, <2>2, ModeFollows, BodyFollows DEF InStep
<1> QED BY <1>1, ReadInvAlways, PTL

(* tcp_socket.c:8, http_session.c:365: a message whose headers or whose body *)
(* is longer than the watermark, or whose body ends with the connection, is  *)
(* never handed on, whatever the watermark is.                               *)
THEOREM LongNotHandedOn == Spec => []WithinLimit
<1>1. ReadInv => WithinLimit
    <2> SUFFICES ASSUME ReadInv, given # <<>> PROVE Deliverable
        BY DEF WithinLimit
    <2>1. PICK f \in 1..Parsed, h \in 1..Parsed :
             /\ f < h /\ Message!IsMessage(stream, f, h, Parsed)
             /\ h <= HighWM /\ Parsed - h <= HighWM
        BY DEF ReadInv, Consumed, Handed
    <2>2. f \in 1..Len(stream) /\ h \in 1..Len(stream) /\ Parsed \in 1..Len(stream)
        BY <2>1, Numbers DEF ReadInv
    <2> QED BY <2>1, <2>2 DEF Deliverable
<1> QED BY <1>1, ReadInvAlways, PTL

(* http_session.c:197-417: whatever the pieces in which the bytes arrive and *)
(* wherever the parser is paused, the session hands on the first message of  *)
(* the stream when all of it is there, its body and nothing else, and takes  *)
(* its bytes and no others.                                                  *)
THEOREM IsReader == Spec => ImplementsMessage
<1>1. Init => Message!Init
    BY Starts
<1>2. ReadInv /\ [Next]_vars => [Message!Next]_Message!vars
    BY EveryStep DEF Steps
<1> QED BY <1>1, <1>2, ReadInvAlways, PTL DEF Spec, ImplementsMessage, Message!Spec

=============================================================================
