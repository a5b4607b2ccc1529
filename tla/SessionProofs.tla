--------------------------- MODULE SessionProofs ---------------------------
(***************************************************************************)
(* Proofs about Session, for every set of sessions and every value of the  *)
(* other constants.                                                        *)
(***************************************************************************)
EXTENDS SessionInv, TLAPS

-----------------------------------------------------------------------------
(* Type correctness.                                                       *)

(* The fields a callback hands to its pieces, typed. *)
Fields == /\ mem \in [Sessions -> {"none", "live", "freed"}]
          /\ sess \in [Sessions -> SessionRecord]
          /\ http \in [Sessions -> [Idx -> HttpRecord]]
          /\ cell \in [Sessions -> Cell]

(* Overwriting the counts of a cell, and what goes with them. *)
LEMMA CellUpdate ==
    ASSUME NEW c \in Cell, NEW n \in Int, NEW p \in BOOLEAN,
           NEW st \in {"none", "live", "freed"}
    PROVE  /\ [c EXCEPT !.refcnt = n] \in Cell
           /\ [c EXCEPT !.refcnt = n, !.ptr = p, !.st = st] \in Cell
           /\ [c EXCEPT !.weak_refcnt = n] \in Cell
           /\ [c EXCEPT !.weak_refcnt = n, !.st = st] \in Cell
  BY DEF Cell

(* Every function of reference.h maps cells to cells. *)
LEMMA CellTypes ==
    /\ NoCell \in Cell /\ reference_new \in Cell
    /\ \A c \in Cell : /\ reference_dec(c) \in Cell
                       /\ reference_weak_dec(c) \in Cell
                       /\ reference_weak_inc(c) \in Cell
  <1>1. NoCell \in Cell /\ reference_new \in Cell
    BY DEF Cell, NoCell, reference_new
  <1>2. ASSUME NEW c \in Cell PROVE reference_dec(c) \in Cell
    <2> DEFINE st == IF c.weak_refcnt = 0 THEN "freed" ELSE c.st
    <2>0. 0 \in Int /\ FALSE \in BOOLEAN
      OBVIOUS
    <2>1. st \in {"none", "live", "freed"} /\ c.refcnt - 1 \in Int
      BY DEF Cell
    <2> HIDE DEF st
    <2>2. [c EXCEPT !.refcnt = c.refcnt - 1] \in Cell
      BY <2>1, CellUpdate
    <2>3. [c EXCEPT !.refcnt = 0, !.ptr = FALSE, !.st = st] \in Cell
      BY <2>0, <2>1, CellUpdate
    <2>4. QED
      BY <2>2, <2>3 DEF reference_dec, st
  <1>3. ASSUME NEW c \in Cell PROVE reference_weak_dec(c) \in Cell
    <2> DEFINE st == IF c.weak_refcnt = 1 /\ ~c.ptr THEN "freed" ELSE c.st
    <2>1. st \in {"none", "live", "freed"} /\ c.weak_refcnt - 1 \in Int
      BY DEF Cell
    <2> HIDE DEF st
    <2>2. [c EXCEPT !.weak_refcnt = c.weak_refcnt - 1, !.st = st] \in Cell
      BY <2>1, CellUpdate
    <2>3. QED
      BY <2>2 DEF reference_weak_dec, st
  <1>4. ASSUME NEW c \in Cell PROVE reference_weak_inc(c) \in Cell
    <2>1. c.weak_refcnt + 1 \in Int
      BY DEF Cell
    <2>2. QED
      BY <2>1, CellUpdate DEF reference_weak_inc
  <1>5. QED
    BY <1>1, <1>2, <1>3, <1>4

(* A fresh or absent HTTP session has the type of one. *)
LEMMA HttpTypes ==
    /\ NoHttp \in HttpRecord
    /\ \A io \in {"open", "connecting"} : http_session_new(io) \in HttpRecord
  BY DEF NoHttp, HttpRecord, http_session_new, HttpState, Callback

(* Removing a session leaves its fields typed. *)
LEMMA RemoveType ==
    ASSUME Fields, NEW s \in Sessions, NEW r \in SessionRecord, NEW c \in Cell,
           http_service_session_remove(s, r, c)
    PROVE  Fields'
  BY CellTypes, HttpTypes DEF Fields, http_service_session_remove

LEMMA FailsType ==
    ASSUME Fields, NEW s \in Sessions, NEW r \in SessionRecord, NEW c \in Cell,
           NEW state \in SessionState, Fails(s, r, c, state)
    PROVE  Fields'
  <1>1. [r EXCEPT !.state = state] \in SessionRecord
    BY DEF SessionRecord
  <1>2. QED
    BY <1>1, RemoveType DEF Fails

(* A callback that ends with typed values leaves typed fields. *)
LEMMA ContinueType ==
    ASSUME Fields, NEW s \in Sessions, NEW r \in SessionRecord,
           NEW h \in [Idx -> HttpRecord], NEW c \in Cell, Continue(s, r, h, c)
    PROVE  Fields'
  BY DEF Fields, Continue

(* The same for the callbacks that may close the client's channel. *)
LEMMA CloseType ==
    ASSUME Fields, NEW s \in Sessions, NEW i \in Idx, NEW h \in HttpRecord,
           CloseOrContinue(s, i, h)
    PROVE  Fields'
  <1>1. /\ sess[s] \in SessionRecord /\ cell[s] \in Cell
        /\ [http[s] EXCEPT ![i] = h] \in [Idx -> HttpRecord]
    BY DEF Fields
  <1>2. CASE Continue(s, sess[s], [http[s] EXCEPT ![i] = h], cell[s])
    BY <1>1, <1>2, ContinueType
  <1>3. CASE http_service_session_remove(s, sess[s], cell[s])
    BY <1>1, <1>3, RemoveType
  <1>4. QED
    BY <1>2, <1>3 DEF CloseOrContinue, client_ready_to_close

(* A channel keeps its type when a callback has run. *)
LEMMA RanType ==
    ASSUME Fields, NEW s \in Sessions, NEW i \in Idx, NEW e \in Callback
    PROVE  Ran(s, i, e) \in HttpRecord
  <1>1. http[s][i] \in HttpRecord
    BY DEF Fields
  <1>2. http[s][i].cb \ {e} \in SUBSET Callback
    BY <1>1 DEF HttpRecord
  <1>3. QED
    BY <1>1, <1>2 DEF Ran, HttpRecord

(* Overwriting one field of a record with a value of its type. *)
LEMMA HttpUpdate ==
    ASSUME NEW h \in HttpRecord
    PROVE  /\ \A st \in HttpState : [h EXCEPT !.state = st] \in HttpRecord
           /\ \A b \in BOOLEAN : [h EXCEPT !.eof = b] \in HttpRecord
           /\ \A b \in BOOLEAN : [h EXCEPT !.out = b] \in HttpRecord
           /\ \A cb \in SUBSET Callback : [h EXCEPT !.cb = cb] \in HttpRecord
  BY DEF HttpRecord

LEMMA SessionUpdate ==
    ASSUME NEW r \in SessionRecord
    PROVE  /\ \A st \in SessionState : [r EXCEPT !.state = st] \in SessionRecord
           /\ \A R \in SUBSET Upstream : [r EXCEPT !.replied = R] \in SessionRecord
           /\ \A S \in SUBSET AllStrings : [r EXCEPT !.strings = S] \in SessionRecord
           /\ \A n \in Int : /\ [r EXCEPT !.pending_resolutions = n] \in SessionRecord
                            /\ [r EXCEPT !.pending_connections = n] \in SessionRecord
                            /\ [r EXCEPT !.pending_replies = n] \in SessionRecord
  BY DEF SessionRecord

(* What every lemma below takes from TypeOK about session s. *)
LEMMA FieldTypes ==
    ASSUME Fields, NEW s \in Sessions
    PROVE  /\ sess[s] \in SessionRecord /\ cell[s] \in Cell
           /\ http[s] \in [Idx -> HttpRecord]
           /\ \A i \in Idx : http[s][i] \in HttpRecord
           /\ sess[s].pending_resolutions \in Int
           /\ sess[s].pending_connections \in Int
           /\ sess[s].pending_replies \in Int
           /\ sess[s].replied \in SUBSET Upstream
           /\ sess[s].strings \in SUBSET AllStrings
  BY DEF Fields, SessionRecord

LEMMA StateNames ==
    /\ {"ERROR_RESOLVING_DOMAIN", "ERROR_CONNECTING_TO_WS", "ERROR_REQUESTING_FROM_WS",
        "ERROR_CLIENT_RESPONSE", "CLIENT_RESPONSE", "RESOLVING_WEBSERVER_DOMAINS",
        "PARSING_CLIENT_REQUEST"} \subseteq SessionState
    /\ {"connected", "read", "write", "error", "eof"} \subseteq Callback
    /\ {"HTTP_MESSAGE_PARSE_BEGIN", "HTTP_MESSAGE_COMPLETE"} \subseteq HttpState
    /\ Upstream \subseteq Idx /\ "CLIENT" \in Idx
    /\ {} \in SUBSET AllStrings
    /\ \A i \in Upstream : Strings(i) \in SUBSET AllStrings
  BY DEF SessionState, Callback, HttpState, Upstream, Idx, AllStrings, Strings

LEMMA ConnectType ==
    ASSUME Fields, NEW s \in Sessions, NEW i \in Upstream,
           NEW r \in SessionRecord, NEW c \in Cell, http_server_connect(s, i, r, c)
    PROVE  Fields' /\ fault' \in {fault, "double_free", "lost_channel"}
  <1>0. fault' \in {fault, "double_free", "lost_channel"}
    BY DEF http_server_connect
  <1>1. CASE Fails(s, r, c, "ERROR_CONNECTING_TO_WS")
    BY <1>0, <1>1, FailsType, StateNames
  <1>2. CASE Continue(s, [r EXCEPT !.pending_connections = @ + 1],
                      [http[s] EXCEPT ![i] = http_session_new("connecting")], c)
    <2>1. r.pending_connections + 1 \in Int
      BY DEF SessionRecord
    <2>2. [r EXCEPT !.pending_connections = @ + 1] \in SessionRecord
      BY <2>1, SessionUpdate
    <2>3. [http[s] EXCEPT ![i] = http_session_new("connecting")] \in [Idx -> HttpRecord]
      BY FieldTypes, HttpTypes, StateNames
    <2>4. QED
      BY <1>0, <1>2, <2>2, <2>3, ContinueType
  <1>3. QED
    BY <1>1, <1>2 DEF http_server_connect

(* A reply: the session fails, waits for the other one, or responds. *)
LEMMA ResponseType ==
    ASSUME Fields, NEW s \in Sessions, NEW i \in Upstream, http_response(s, i)
    PROVE  Fields' /\ (fault' = fault \/ fault' = "null_deref")
  <1> DEFINE r0 == [sess[s] EXCEPT !.pending_replies = @ - 1]
             r == Keep(r0, i)
             h == [http[s] EXCEPT ![i] = NoHttp]
  <1>1. r0 \in SessionRecord
    <2>1. sess[s].pending_replies - 1 \in Int
      BY FieldTypes
    <2>2. QED
      BY <2>1, FieldTypes, SessionUpdate
  <1>2. r \in SessionRecord
    <2>1. r0.replied \cup {i} \in SUBSET Upstream /\ r0.strings \cup Strings(i) \in SUBSET AllStrings
      BY <1>1, StateNames DEF SessionRecord
    <2>2. QED
      BY <1>1, <2>1 DEF Keep, SessionRecord
  <1>3. h \in [Idx -> HttpRecord]
    BY FieldTypes, HttpTypes, StateNames
  <1>4. [h EXCEPT !["CLIENT"].out = TRUE] \in [Idx -> HttpRecord]
    <2>1. [h["CLIENT"] EXCEPT !.out = TRUE] \in HttpRecord
      BY <1>3, StateNames, HttpUpdate
    <2>2. QED
      BY <1>3, <2>1
  <1>5. [r EXCEPT !.state = "CLIENT_RESPONSE", !.strings = {}] \in SessionRecord
    BY <1>2, StateNames DEF SessionRecord
  <1>6. cell[s] \in Cell
    BY FieldTypes
  <1> HIDE DEF r0, r, h
  <1>7. CASE Fails(s, r0, cell[s], "ERROR_CLIENT_RESPONSE") /\ UNCHANGED fault
    BY <1>1, <1>6, <1>7, FailsType, StateNames
  <1>8. CASE Continue(s, r, h, cell[s]) /\ UNCHANGED fault
    BY <1>2, <1>3, <1>6, <1>8, ContinueType
  <1>9. CASE /\ fault' = IF r.strings # AllStrings THEN "null_deref" ELSE fault
             /\ Fails(s, r, cell[s], "ERROR_CLIENT_RESPONSE")
    BY <1>2, <1>6, <1>9, FailsType, StateNames
  <1>10. CASE /\ fault' = IF r.strings # AllStrings THEN "null_deref" ELSE fault
              /\ Continue(s, [r EXCEPT !.state = "CLIENT_RESPONSE", !.strings = {}],
                          [h EXCEPT !["CLIENT"].out = TRUE], cell[s])
    BY <1>4, <1>5, <1>6, <1>10, ContinueType
  <1>11. QED
    BY <1>7, <1>8, <1>9, <1>10
    DEF http_response, Reply, http_client_response, Respond, r0, r, h

(* The request is complete: the session fails, faults, or starts resolving. *)
LEMMA ClientCompleteType ==
    ASSUME TypeOK, NEW s \in Sessions, NEW h \in HttpRecord, client_msg_complete(s, h)
    PROVE  /\ Fields' /\ dns' \in [Sessions -> SUBSET Upstream]
           /\ fault' \in {fault, "late_write"}
  <1> DEFINE r == sess[s]
             c1 == reference_weak_inc(reference_new)
             c2 == reference_weak_inc(c1)
             hs == [http[s] EXCEPT !["CLIENT"] = h]
             rr == [r EXCEPT !.pending_resolutions = @ + 1]
             r2 == [r EXCEPT !.state = "RESOLVING_WEBSERVER_DOMAINS",
                             !.pending_resolutions = @ + 2]
  <1>0. Fields /\ dns \in [Sessions -> SUBSET Upstream]
    BY DEF TypeOK, Fields
  <1>1. /\ r \in SessionRecord /\ c1 \in Cell /\ c2 \in Cell
        /\ reference_weak_dec(c1) \in Cell /\ NoCell \in Cell /\ reference_new \in Cell
    BY <1>0, FieldTypes, CellTypes
  <1>2. hs \in [Idx -> HttpRecord]
    BY <1>0, FieldTypes, StateNames
  <1>3. rr \in SessionRecord
    <2>1. r.pending_resolutions + 1 \in Int
      BY <1>0, FieldTypes
    <2>2. QED
      BY <1>1, <2>1, SessionUpdate
  <1>4. r2 \in SessionRecord
    <2>1. r.pending_resolutions + 2 \in Int
      BY <1>0, FieldTypes
    <2>2. QED
      BY <1>1, <2>1, StateNames DEF SessionRecord
  <1>5. /\ [dns EXCEPT ![s] = @ \cup {"NAME"}] \in [Sessions -> SUBSET Upstream]
        /\ [dns EXCEPT ![s] = Upstream] \in [Sessions -> SUBSET Upstream]
    BY <1>0 DEF Upstream
  <1> HIDE DEF r, c1, c2, hs, rr, r2
  <1>6. CASE /\ \/ http_service_session_remove(s, r, NoCell)
                \/ http_service_session_remove(s, r, reference_new)
             /\ dns' = [dns EXCEPT ![s] = {}] /\ UNCHANGED fault
    BY <1>0, <1>1, <1>6, RemoveType
  <1>7. CASE /\ http_service_session_remove(s, rr, c1)
             /\ dns' = [dns EXCEPT ![s] = {"NAME"}]
             /\ UNCHANGED fault
    BY <1>0, <1>1, <1>3, <1>5, <1>7, RemoveType
  <1>8. CASE /\ Fails(s, r, reference_weak_dec(c1), "ERROR_RESOLVING_DOMAIN")
             /\ dns' = [dns EXCEPT ![s] = {}] /\ fault' = "late_write"
    BY <1>0, <1>1, <1>8, FailsType, StateNames
  <1>9. CASE /\ Continue(s, r2, hs, c2)
             /\ dns' = [dns EXCEPT ![s] = Upstream] /\ UNCHANGED fault
    BY <1>0, <1>1, <1>2, <1>4, <1>5, <1>9, ContinueType
  <1>10. QED
    BY <1>6, <1>7, <1>8, <1>9 DEF client_msg_complete, r, c1, c2, hs, rr, r2

(* The resolver's answer to a session that is there. *)
LEMMA AnswerType ==
    ASSUME Fields, NEW s \in Sessions, NEW i \in Upstream, NEW c \in Cell, AnswerFor(s, i, c)
    PROVE  Fields' /\ fault' \in {fault, "double_free", "lost_channel"}
  <1> DEFINE r == [sess[s] EXCEPT !.pending_resolutions = @ - 1]
  <1>1. sess[s] \in SessionRecord /\ sess[s].pending_resolutions - 1 \in Int
    BY FieldTypes
  <1>2. r \in SessionRecord
    BY <1>1, SessionUpdate
  <1> HIDE DEF r
  <1>3. CASE Fails(s, sess[s], c, "ERROR_RESOLVING_DOMAIN") /\ UNCHANGED fault
    BY <1>1, <1>3, FailsType, StateNames
  <1>4. CASE http_server_connect(s, i, r, c)
    BY <1>2, <1>4, ConnectType
  <1>5. QED
    BY <1>3, <1>4 DEF AnswerFor, r

LEMMA DnsType ==
    ASSUME TypeOK, NEW s \in Sessions, NEW i \in Upstream, dnsname_resolved_cb(s, i)
    PROVE  /\ Fields' /\ dns' \in [Sessions -> SUBSET Upstream]
           /\ fault' \in {fault, "double_free", "lost_channel", "use_after_free"}
  <1> DEFINE c == reference_weak_dec(cell[s])
  <1>0. Fields /\ dns \in [Sessions -> SUBSET Upstream]
    BY DEF TypeOK, Fields
  <1>1. c \in Cell
    BY <1>0, FieldTypes, CellTypes
  <1>2. dns' \in [Sessions -> SUBSET Upstream]
    BY <1>0 DEF dnsname_resolved_cb
  <1> HIDE DEF c
  <1>3. CASE UNCHANGED <<mem, sess, http, cell>> /\ fault' = "use_after_free"
    BY <1>0, <1>2, <1>3 DEF Fields
  <1>4. CASE cell' = [cell EXCEPT ![s] = c] /\ UNCHANGED <<mem, sess, http, fault>>
    BY <1>0, <1>1, <1>2, <1>4 DEF Fields
  <1>5. CASE AnswerFor(s, i, c)
    BY <1>0, <1>1, <1>2, <1>5, AnswerType
  <1>6. QED
    BY <1>3, <1>4, <1>5 DEF dnsname_resolved_cb, c

LEMMA LostType ==
    ASSUME TypeOK, NEW s \in Sessions, NEW i \in Upstream, lost_request_resolved(s, i)
    PROVE  TypeOK'
  <1>0. Fields
    BY DEF TypeOK, Fields
  <1>1. lost[s] \in [Upstream -> Nat] /\ lost[s][i] \in Nat /\ lost[s][i] > 0
    BY DEF TypeOK, lost_request_resolved
  <1>2. lost[s][i] - 1 \in Nat
    BY <1>1
  <1>3. [lost[s] EXCEPT ![i] = @ - 1] \in [Upstream -> Nat]
    BY <1>1, <1>2
  <1>4. lost' = [lost EXCEPT ![s] = [lost[s] EXCEPT ![i] = @ - 1]]
    BY DEF lost_request_resolved, TypeOK
  <1>5. lost' \in [Sessions -> [Upstream -> Nat]]
    BY <1>3, <1>4 DEF TypeOK
  <1>6. CASE UNCHANGED <<mem, sess, http, cell>> /\ fault' = "use_after_free"
    BY <1>5, <1>6 DEF lost_request_resolved, TypeOK
  <1>7. CASE AnswerFor(s, i, cell[s])
    <2>1. Fields' /\ fault' \in {fault, "double_free", "lost_channel"}
      BY <1>0, <1>7, AnswerType, FieldTypes
    <2>2. QED
      BY <1>5, <2>1 DEF lost_request_resolved, TypeOK, Fields
  <1>8. QED
    BY <1>6, <1>7 DEF lost_request_resolved

(* The message ends for the first time, or again. *)
LEMMA ReferenceLostType ==
    ASSUME TypeOK, NEW s \in Sessions, ReferenceLost(s) \/ UNCHANGED <<again, lost>>
    PROVE  again' \in [Sessions -> Nat] /\ lost' \in [Sessions -> [Upstream -> Nat]]
  <1>1. CASE ReferenceLost(s)
    <2> DEFINE L == [i \in Upstream |-> lost[s][i] + (IF i \in dns[s] THEN 1 ELSE 0)]
    <2>1. again[s] + 1 \in Nat
      BY DEF TypeOK
    <2>2. \A i \in Upstream : lost[s][i] \in Nat
      BY DEF TypeOK
    <2>3. L \in [Upstream -> Nat]
      BY <2>2
    <2>4. lost' = [lost EXCEPT ![s] = L]
      BY <1>1 DEF ReferenceLost, TypeOK
    <2> HIDE DEF L
    <2>5. QED
      BY <1>1, <2>1, <2>3, <2>4 DEF ReferenceLost, TypeOK
  <1>2. CASE UNCHANGED <<again, lost>>
    BY <1>2 DEF TypeOK
  <1>3. QED
    BY <1>1, <1>2

LEMMA RequestType ==
    ASSUME Fields, NEW s \in Sessions, NEW i \in Upstream, http_request(s, i)
    PROVE  Fields'
  <1> DEFINE r == [sess[s] EXCEPT !.pending_connections = @ - 1]
             rr == [r EXCEPT !.pending_replies = @ + 1]
             h == [http[s] EXCEPT ![i] = [Ran(s, i, "connected") EXCEPT !.out = TRUE]]
  <1>1. r \in SessionRecord
    <2>1. sess[s].pending_connections - 1 \in Int
      BY FieldTypes
    <2>2. QED
      BY <2>1, FieldTypes, SessionUpdate
  <1>2. rr \in SessionRecord
    <2>1. r.pending_replies + 1 \in Int
      BY <1>1 DEF SessionRecord
    <2>2. QED
      BY <1>1, <2>1, SessionUpdate
  <1>3. h \in [Idx -> HttpRecord]
    <2>1. Ran(s, i, "connected") \in HttpRecord
      BY RanType, StateNames
    <2>2. [Ran(s, i, "connected") EXCEPT !.out = TRUE] \in HttpRecord
      BY <2>1, HttpUpdate
    <2>3. QED
      BY <2>2, FieldTypes, StateNames
  <1>4. cell[s] \in Cell
    BY FieldTypes
  <1> HIDE DEF r, rr, h
  <1>5. CASE Fails(s, r, cell[s], "ERROR_REQUESTING_FROM_WS")
    BY <1>1, <1>4, <1>5, FailsType, StateNames
  <1>6. CASE Continue(s, rr, h, cell[s])
    BY <1>2, <1>3, <1>4, <1>6, ContinueType
  <1>7. QED
    BY <1>5, <1>6 DEF http_request, r, rr, h

(* A read that ends inside a message. *)
LEMMA PartialType ==
    ASSUME Fields, NEW s \in Sessions, NEW i \in Idx, read_cb_partial(s, i)
    PROVE  Fields'
  <1>1. PICK st \in ParserRests(http[s][i]) :
           Continue(s, sess[s], [http[s] EXCEPT ![i] = [Ran(s, i, "read") EXCEPT !.state = st]],
                    cell[s])
    BY DEF read_cb_partial
  <1>2. st \in HttpState
    BY FieldTypes, StateNames DEF ParserRests, HttpRecord
  <1>3. [Ran(s, i, "read") EXCEPT !.state = st] \in HttpRecord
    BY <1>2, RanType, HttpUpdate, StateNames
  <1>4. [http[s] EXCEPT ![i] = [Ran(s, i, "read") EXCEPT !.state = st]] \in [Idx -> HttpRecord]
    BY <1>3, FieldTypes
  <1>5. QED
    BY <1>1, <1>4, FieldTypes, ContinueType

(* What the peers and the kernel may do. *)
LEMMA EnvironmentType ==
    ASSUME TypeOK, NEW s \in Sessions, NEW i \in Idx, Environment(s, i)
    PROVE  TypeOK'
  <1>0. Fields /\ http[s][i] \in HttpRecord
    BY FieldTypes DEF TypeOK, Fields
  <1>1. ASSUME NEW io \in {"refused", "open", "halfclosed", "dead"}, NEW e \in Callback,
               Channel(s, i, io, e)
        PROVE  http' \in [Sessions -> [Idx -> HttpRecord]]
    <2>1. http[s][i].cb \cup {e} \in SUBSET Callback
      BY <1>0 DEF HttpRecord
    <2>2. [http[s][i] EXCEPT !.io = io, !.cb = @ \cup {e}] \in HttpRecord
      BY <1>0, <2>1 DEF HttpRecord
    <2>3. http' = [http EXCEPT ![s] = [http[s] EXCEPT
                      ![i] = [http[s][i] EXCEPT !.io = io, !.cb = @ \cup {e}]]]
      BY <1>0, <1>1 DEF Channel, Fields, HttpRecord
    <2>4. QED
      BY <1>0, <2>2, <2>3 DEF Fields
  <1>2. ASSUME Flushed(s, i) PROVE http' \in [Sessions -> [Idx -> HttpRecord]]
    <2>1. http[s][i].cb \cup {"write"} \in SUBSET Callback
      BY <1>0, StateNames DEF HttpRecord
    <2>2. [http[s][i] EXCEPT !.out = FALSE, !.cb = @ \cup {"write"}] \in HttpRecord
      BY <1>0, <2>1 DEF HttpRecord
    <2>3. http' = [http EXCEPT ![s] = [http[s] EXCEPT
                      ![i] = [http[s][i] EXCEPT !.out = FALSE, !.cb = @ \cup {"write"}]]]
      BY <1>0, <1>2 DEF Flushed, Fields, HttpRecord
    <2>4. QED
      BY <1>0, <2>2, <2>3 DEF Fields
  <1>3. CASE Flushed(s, i)
    BY <1>2, <1>3 DEF Flushed, TypeOK
  <1>4. CASE Connected(s, i)
    BY <1>1, <1>4, StateNames DEF Connected, Channel, TypeOK
  <1>5. CASE ConnectionLost(s, i)
    BY <1>1, <1>5, StateNames DEF ConnectionLost, Channel, TypeOK
  <1>6. CASE PeerCloses(s, i)
    BY <1>1, <1>6, StateNames DEF PeerCloses, Channel, TypeOK
  <1>7. CASE Readable(s, i)
    BY <1>1, <1>7, StateNames DEF Readable, Channel, TypeOK
  <1>8. QED
    BY <1>3, <1>4, <1>5, <1>6, <1>7 DEF Environment

LEMMA TypeInit == Init => TypeOK
  <1> SUFFICES ASSUME Init PROVE TypeOK
    OBVIOUS
  <1>1. /\ NewSession \in SessionRecord /\ NoHttp \in HttpRecord /\ NoCell \in Cell
    BY HttpTypes, CellTypes DEF NewSession, SessionRecord, SessionState
  <1>2. QED
    BY <1>1 DEF Init, TypeOK

(* Every step keeps the types: one step of the proof per action. *)
LEMMA TypeNext == TypeOK /\ [Next]_vars => TypeOK'
  <1> SUFFICES ASSUME TypeOK, [Next]_vars PROVE TypeOK'
    OBVIOUS
  <1>0. Fields
    BY DEF TypeOK, Fields
  <1>1. ASSUME Fields', UNCHANGED <<dns, again, lost, fault>> PROVE TypeOK'
    BY <1>1 DEF TypeOK, Fields
  <1>2. ASSUME NEW s \in Sessions, accept_cb(s) PROVE TypeOK'
    <2>1. [http[s] EXCEPT !["CLIENT"] = http_session_new("open")] \in [Idx -> HttpRecord]
      BY <1>0, FieldTypes, HttpTypes, StateNames
    <2>2. http' = [http EXCEPT ![s] = [http[s] EXCEPT !["CLIENT"] = http_session_new("open")]]
      BY <1>0, <1>2 DEF accept_cb, Fields
    <2>3. NewSession \in SessionRecord
      BY DEF NewSession, SessionRecord, SessionState
    <2>4. Fields'
      BY <1>0, <1>2, <2>1, <2>2, <2>3 DEF accept_cb, Fields
    <2>5. QED
      BY <1>1, <1>2, <2>4 DEF accept_cb
  <1>3. ASSUME NEW s \in Sessions, read_cb_client_complete(s) PROVE TypeOK'
    <2>1. [Ran(s, "CLIENT", "read") EXCEPT !.state = "HTTP_MESSAGE_COMPLETE"] \in HttpRecord
      BY <1>0, RanType, HttpUpdate, StateNames
    <2>2. /\ Fields' /\ dns' \in [Sessions -> SUBSET Upstream]
          /\ fault' \in {fault, "late_write"}
      BY <1>3, <2>1, ClientCompleteType DEF read_cb_client_complete
    <2>3. again' \in [Sessions -> Nat] /\ lost' \in [Sessions -> [Upstream -> Nat]]
      BY <1>3, ReferenceLostType DEF read_cb_client_complete
    <2>4. QED
      BY <2>2, <2>3 DEF TypeOK, Fields
  <1>4. ASSUME NEW s \in Sessions, NEW i \in Idx, Callbacks(s, i) PROVE TypeOK'
    <2>1. CASE read_cb_closes(s, i)
      BY <1>0, <1>1, <2>1, RanType, CloseType, StateNames DEF read_cb_closes
    <2>2. CASE read_cb_partial(s, i)
      BY <1>0, <1>1, <2>2, PartialType DEF read_cb_partial
    <2>3. CASE read_cb_error(s, i) \/ event_cb_error(s, i)
      BY <1>0, <1>1, <2>3, RemoveType, FieldTypes DEF read_cb_error, event_cb_error
    <2>4. CASE write_cb(s, i)
      BY <1>0, <1>1, <2>4, RanType, CloseType, StateNames DEF write_cb
    <2>5. CASE event_cb_eof(s, i)
      <3>1. [Ran(s, i, "eof") EXCEPT !.eof = TRUE] \in HttpRecord
        BY <1>0, RanType, HttpUpdate, StateNames
      <3>2. QED
        BY <1>0, <1>1, <2>5, <3>1, CloseType DEF event_cb_eof
    <2>6. QED
      BY <1>4, <2>1, <2>2, <2>3, <2>4, <2>5 DEF Callbacks
  <1>5. ASSUME NEW s \in Sessions, NEW i \in Upstream, UpstreamCallbacks(s, i) PROVE TypeOK'
    <2>1. CASE dnsname_resolved_cb(s, i)
      <3>1. /\ Fields' /\ dns' \in [Sessions -> SUBSET Upstream]
            /\ fault' \in {fault, "double_free", "lost_channel", "use_after_free"}
        BY <2>1, DnsType
      <3>2. QED
        BY <2>1, <3>1 DEF dnsname_resolved_cb, TypeOK, Fields
    <2>2. CASE http_request(s, i)
      BY <1>0, <1>1, <2>2, RequestType DEF http_request
    <2>3. CASE read_cb_upstream_complete(s, i)
      <3>1. Fields' /\ (fault' = fault \/ fault' = "null_deref")
        BY <1>0, <2>3, ResponseType DEF read_cb_upstream_complete
      <3>2. QED
        BY <2>3, <3>1 DEF read_cb_upstream_complete, TypeOK, Fields
    <2>4. CASE lost_request_resolved(s, i)
      BY <2>4, LostType
    <2>5. QED
      BY <1>5, <2>1, <2>2, <2>3, <2>4 DEF UpstreamCallbacks
  <1>6. CASE UNCHANGED vars
    BY <1>6 DEF vars, TypeOK
  <1>7. QED
    BY <1>2, <1>3, <1>4, <1>5, <1>6, EnvironmentType DEF Next

(* The fields of every session keep the values their types allow, and no   *)
(* parser rests at the end of the headers, whatever the constants are.     *)
THEOREM TypeCorrect == Spec => []TypeOK
  <1>1. QED
    BY TypeInit, TypeNext, PTL DEF Spec

-----------------------------------------------------------------------------
(* The inductive invariant.                                                *)

LEMMA CountLaws ==
    ASSUME NEW D \in SUBSET Upstream
    PROVE  /\ Count(D) \in Nat
           /\ Count(D) = 0 <=> D = {}
           /\ \A i \in D : Count(D \ {i}) = Count(D) - 1
           /\ \A i \in Upstream \ D : Count(D \cup {i}) = Count(D) + 1
  <1>1. Count(D) \in Nat /\ (Count(D) = 0 <=> D = {})
    BY DEF Count, Upstream
  <1>2. ASSUME NEW i \in D PROVE Count(D \ {i}) = Count(D) - 1
    <2>1. CASE i = "NAME"
      BY <2>1 DEF Count, Upstream
    <2>2. CASE i = "JOKE"
      BY <2>2 DEF Count, Upstream
    <2>3. QED
      BY <2>1, <2>2 DEF Upstream
  <1>3. ASSUME NEW i \in Upstream \ D PROVE Count(D \cup {i}) = Count(D) + 1
    <2>1. CASE i = "NAME"
      BY <1>3, <2>1 DEF Count, Upstream
    <2>2. CASE i = "JOKE"
      BY <1>3, <2>2 DEF Count, Upstream
    <2>3. QED
      BY <2>1, <2>2 DEF Upstream
  <1>4. QED
    BY <1>1, <1>2, <1>3

(* session_free drops the strong count; the requests in flight keep the    *)
(* cell, which no longer points to the session.                            *)
LEMMA RefRemove ==
    ASSUME NEW D \in SUBSET Upstream, NEW c, RefInv("live", c, D)
    PROVE  RefInv("freed", reference_dec(c), D)
  <1>1. CASE c = NoCell /\ D = {}
    BY <1>1 DEF RefInv, reference_dec, NoCell
  <1>2. CASE c = [st |-> "live", ptr |-> TRUE, refcnt |-> 1, weak_refcnt |-> Count(D)]
    <2>1. reference_dec(c) = [st |-> IF Count(D) = 0 THEN "freed" ELSE "live",
                              ptr |-> FALSE, refcnt |-> 0, weak_refcnt |-> Count(D)]
      BY <1>2 DEF reference_dec
    <2>2. CASE D = {}
      BY <2>1, <2>2, CountLaws DEF RefInv
    <2>3. CASE D # {}
      BY <2>1, <2>3, CountLaws DEF RefInv
    <2>4. QED
      BY <2>2, <2>3
  <1>3. QED
    BY <1>1, <1>2 DEF RefInv

(* dns_request_free drops one weak count, of a session alive or gone. *)
LEMMA RefWeakDec ==
    ASSUME NEW D \in SUBSET Upstream, NEW i \in D, NEW c, NEW m \in {"none", "live", "freed"},
           RefInv(m, c, D)
    PROVE  /\ m # "none" /\ c.st = "live" /\ (reference_get(c) <=> m = "live")
           /\ RefInv(m, reference_weak_dec(c), D \ {i})
           /\ m = "live" => reference_weak_dec(c) # NoCell
  <1>1. CASE m = "none"
    BY <1>1 DEF RefInv
  <1>2. CASE m = "live"
    <2>1. c = [st |-> "live", ptr |-> TRUE, refcnt |-> 1, weak_refcnt |-> Count(D)]
      BY <1>2 DEF RefInv
    <2>2. reference_weak_dec(c) = [st |-> "live", ptr |-> TRUE, refcnt |-> 1,
                                   weak_refcnt |-> Count(D \ {i})]
      BY <2>1, CountLaws DEF reference_weak_dec
    <2>3. QED
      BY <1>2, <2>1, <2>2 DEF RefInv, reference_get, NoCell
  <1>3. CASE m = "freed"
    <2>1. c = [st |-> "live", ptr |-> FALSE, refcnt |-> 0, weak_refcnt |-> Count(D)]
      BY <1>3 DEF RefInv
    <2>2. reference_weak_dec(c) = [st |-> IF Count(D) = 1 THEN "freed" ELSE "live",
                                   ptr |-> FALSE, refcnt |-> 0,
                                   weak_refcnt |-> Count(D \ {i})]
      BY <2>1, CountLaws DEF reference_weak_dec
    <2>3. Count(D) = 1 <=> D \ {i} = {}
      <3>1. Count(D \ {i}) = 0 <=> D \ {i} = {}
        BY CountLaws
      <3>2. QED
        BY <3>1, CountLaws
    <2>4. RefInv(m, reference_weak_dec(c), D \ {i})
      <3>1. CASE D \ {i} = {}
        BY <1>3, <2>2, <2>3, <3>1 DEF RefInv
      <3>2. CASE D \ {i} # {}
        BY <1>3, <2>2, <2>3, <3>2 DEF RefInv
      <3>3. QED
        BY <3>1, <3>2
    <2>5. QED
      BY <1>3, <2>1, <2>4 DEF reference_get
  <1>4. QED
    BY <1>1, <1>2, <1>3

(* A new reference with the weak counts of both requests. *)
LEMMA RefNew ==
    LET c1 == reference_weak_inc(reference_new)
        c2 == reference_weak_inc(c1)
    IN  /\ RefInv("live", reference_new, {}) /\ RefInv("live", c1, {"NAME"})
        /\ RefInv("live", c2, Upstream) /\ c2 # NoCell
  <1> DEFINE c1 == reference_weak_inc(reference_new)
             c2 == reference_weak_inc(c1)
  <1>1. reference_new = [st |-> "live", ptr |-> TRUE, refcnt |-> 1, weak_refcnt |-> 0]
    BY DEF reference_new
  <1>2. c1 = [st |-> "live", ptr |-> TRUE, refcnt |-> 1, weak_refcnt |-> 1]
    <2>1. c1 = [reference_new EXCEPT !.weak_refcnt = 0 + 1]
      BY <1>1 DEF reference_weak_inc
    <2>2. 0 + 1 = 1
      OBVIOUS
    <2>3. QED
      BY <1>1, <2>1, <2>2
  <1> HIDE DEF c1
  <1>3. c2 = [st |-> "live", ptr |-> TRUE, refcnt |-> 1, weak_refcnt |-> 2]
    <2>1. c2 = [c1 EXCEPT !.weak_refcnt = 1 + 1]
      BY <1>2 DEF reference_weak_inc
    <2>2. 1 + 1 = 2
      OBVIOUS
    <2>3. QED
      BY <1>2, <2>1, <2>2
  <1> HIDE DEF c2
  <1>4. Count({}) = 0 /\ Count({"NAME"}) = 1 /\ Count(Upstream) = 2
    BY DEF Count, Upstream
  <1>5. /\ RefInv("live", reference_new, {}) /\ RefInv("live", c1, {"NAME"})
        /\ RefInv("live", c2, Upstream)
    BY <1>1, <1>2, <1>3, <1>4 DEF RefInv
  <1>6. c2 # NoCell
    BY <1>3 DEF NoCell
  <1>7. QED
    BY <1>5, <1>6 DEF c1, c2

(* The values of session s after the step satisfy the invariant. *)
LEMMA OneMoves ==
    ASSUME NEW s \in Sessions,
           OneSessionInv(mem'[s], sess'[s], http'[s], cell'[s], dns'[s])
    PROVE  InvAt(s)'
  BY DEF InvAt

DnsBecomes(s, D) == dns'[s] = D

(* A session is removed while the requests D are in flight. *)
LEMMA RemoveInv ==
    ASSUME TypeOK, NEW s \in Sessions, InvAt(s), NEW r, NEW c, NEW D \in SUBSET Upstream,
           RefInv("live", c, D), http_service_session_remove(s, r, c), DnsBecomes(s, D)
    PROVE  InvAt(s)'
  <1>1. /\ mem'[s] = "freed" /\ http'[s] = [i \in Idx |-> NoHttp]
        /\ cell'[s] = reference_dec(c) /\ dns'[s] = D
    BY DEF http_service_session_remove, DnsBecomes, TypeOK
  <1>2. OneSessionInv(mem'[s], sess'[s], http'[s], cell'[s], dns'[s])
    BY <1>1, RefRemove DEF OneSessionInv
  <1>3. QED
    BY <1>2, OneMoves

(* A session goes on with the values r, h, c, D. *)
LEMMA ContinueInv ==
    ASSUME TypeOK, NEW s \in Sessions, mem[s] = "live", NEW r, NEW h, NEW c, NEW D,
           OneSessionInv("live", r, h, c, D), Continue(s, r, h, c), DnsBecomes(s, D)
    PROVE  InvAt(s)'
  <1>1. mem'[s] = "live" /\ sess'[s] = r /\ http'[s] = h /\ cell'[s] = c /\ dns'[s] = D
    BY DEF Continue, DnsBecomes, TypeOK
  <1>2. QED
    BY <1>1, OneMoves

(* Only a live session has channels, and so callbacks. *)
LEMMA OnlyLive ==
    ASSUME TypeOK, NEW s \in Sessions, InvAt(s), NEW i \in Idx,
           http[s][i].cb # {} \/ http[s][i].io # "null" \/ http[s][i].out
    PROVE  mem[s] = "live"
  <1>1. http[s] # [j \in Idx |-> NoHttp]
    BY DEF NoHttp
  <1>2. QED
    BY <1>1 DEF InvAt, OneSessionInv, TypeOK

(* The invariant of a live session, unfolded. *)
LEMMA LiveInv ==
    ASSUME TypeOK, NEW s \in Sessions, InvAt(s), mem[s] = "live"
    PROVE  /\ OneSessionInv("live", sess[s], http[s], cell[s], dns[s])
           /\ RefInv("live", cell[s], dns[s]) /\ ChannelInv(http[s])
           /\ PhaseInv(sess[s], http[s], dns[s]) /\ CounterInv(sess[s], http[s], dns[s])
           /\ ClientInv(sess[s], http[s]["CLIENT"])
           /\ cell[s] = NoCell <=> sess[s].state = "PARSING_CLIENT_REQUEST"
           /\ dns[s] \in SUBSET Upstream /\ http[s] \in [Idx -> HttpRecord]
  BY DEF InvAt, OneSessionInv, TypeOK, DnsBecomes

LEMMA DnsUnchanged ==
    ASSUME NEW s \in Sessions, UNCHANGED dns
    PROVE  DnsBecomes(s, dns[s])
  BY DEF DnsBecomes

(* Removing a live session, its requests left in flight. *)
LEMMA RemoveLive ==
    ASSUME TypeOK, NEW s \in Sessions, InvAt(s), mem[s] = "live", NEW r,
           http_service_session_remove(s, r, cell[s]), UNCHANGED dns
    PROVE  InvAt(s)'
  BY LiveInv, DnsUnchanged, RemoveInv

(* A step of an upstream's channel that keeps the stage it is in. *)
LEMMA ChannelStep ==
    ASSUME NEW r, NEW h \in [Idx -> HttpRecord], NEW c, NEW D,
           OneSessionInv("live", r, h, c, D), NEW i \in Upstream, NEW hh,
           hh.io = "null" <=> h[i].io = "null",
           hh.io \in {"connecting", "refused"} \/ "connected" \in hh.cb
              <=> h[i].io \in {"connecting", "refused"} \/ "connected" \in h[i].cb,
           hh.io \in {"null", "connecting"} => hh.cb = {},
           hh.io = "refused" => hh.cb = {"error"}
    PROVE  OneSessionInv("live", r, [h EXCEPT ![i] = hh], c, D)
  <1> DEFINE g == [h EXCEPT ![i] = hh]
  <1>1. /\ g["CLIENT"] = h["CLIENT"] /\ g[i] = hh
        /\ \A j \in Upstream \ {i} : g[j] = h[j]
    BY DEF Upstream, Idx
  <1> HIDE DEF g
  <1>2. ChannelsIn(g) = ChannelsIn(h) /\ WaitingIn(g) = WaitingIn(h)
    BY <1>1 DEF ChannelsIn, WaitingIn
  <1>3. ChannelInv(g)
    BY <1>1 DEF OneSessionInv, ChannelInv
  <1>4. PhaseInv(r, g, D) /\ CounterInv(r, g, D)
    BY <1>2 DEF OneSessionInv, PhaseInv, CounterInv
  <1>5. OneSessionInv("live", r, g, c, D)
    BY <1>1, <1>3, <1>4 DEF OneSessionInv
  <1>6. QED
    BY <1>5 DEF g

(* A step of the client's channel. *)
LEMMA ClientStep ==
    ASSUME NEW r, NEW h \in [Idx -> HttpRecord], NEW c, NEW D,
           OneSessionInv("live", r, h, c, D), NEW hc,
           hc.io \in {"open", "halfclosed", "dead"},
           hc.io = "dead" => "error" \in hc.cb,
           "connected" \notin hc.cb, ClientInv(r, hc)
    PROVE  OneSessionInv("live", r, [h EXCEPT !["CLIENT"] = hc], c, D)
  <1> DEFINE g == [h EXCEPT !["CLIENT"] = hc]
  <1>1. g["CLIENT"] = hc /\ \A j \in Upstream : g[j] = h[j]
    BY DEF Upstream, Idx
  <1> HIDE DEF g
  <1>2. ChannelsIn(g) = ChannelsIn(h) /\ WaitingIn(g) = WaitingIn(h)
    BY <1>1 DEF ChannelsIn, WaitingIn
  <1>3. ChannelInv(g)
    BY <1>1 DEF OneSessionInv, ChannelInv
  <1>4. PhaseInv(r, g, D) /\ CounterInv(r, g, D)
    BY <1>2 DEF OneSessionInv, PhaseInv, CounterInv
  <1>5. OneSessionInv("live", r, g, c, D)
    BY <1>1, <1>3, <1>4 DEF OneSessionInv
  <1>6. QED
    BY <1>5 DEF g

(* The same two steps as steps of the system. *)
LEMMA UpstreamContinues ==
    ASSUME TypeOK, NEW s \in Sessions, InvAt(s), mem[s] = "live", UNCHANGED dns,
           NEW i \in Upstream, NEW hh,
           Continue(s, sess[s], [http[s] EXCEPT ![i] = hh], cell[s]),
           hh.io = http[s][i].io, hh.cb \subseteq http[s][i].cb,
           "connected" \in hh.cb <=> "connected" \in http[s][i].cb,
           "error" \in hh.cb <=> "error" \in http[s][i].cb
    PROVE  InvAt(s)'
  <1>1. /\ hh.io \in {"null", "connecting"} => hh.cb = {}
        /\ hh.io = "refused" => hh.cb = {"error"}
    BY LiveInv DEF ChannelInv
  <1>2. OneSessionInv("live", sess[s], [http[s] EXCEPT ![i] = hh], cell[s], dns[s])
    BY <1>1, LiveInv, ChannelStep
  <1>3. QED
    BY <1>2, LiveInv, DnsUnchanged, ContinueInv

LEMMA ClientContinues ==
    ASSUME TypeOK, NEW s \in Sessions, InvAt(s), mem[s] = "live", UNCHANGED dns, NEW hc,
           Continue(s, sess[s], [http[s] EXCEPT !["CLIENT"] = hc], cell[s]),
           hc.io = http[s]["CLIENT"].io, hc.cb \subseteq http[s]["CLIENT"].cb,
           "error" \in hc.cb <=> "error" \in http[s]["CLIENT"].cb,
           ClientInv(sess[s], hc)
    PROVE  InvAt(s)'
  <1>1. /\ hc.io \in {"open", "halfclosed", "dead"}
        /\ hc.io = "dead" => "error" \in hc.cb
        /\ "connected" \notin hc.cb
    BY LiveInv DEF ChannelInv
  <1>2. OneSessionInv("live", sess[s], [http[s] EXCEPT !["CLIENT"] = hc], cell[s], dns[s])
    BY <1>1, LiveInv, ClientStep
  <1>3. QED
    BY <1>2, LiveInv, DnsUnchanged, ContinueInv

-----------------------------------------------------------------------------
(* One lemma per action or group of actions: each preserves InvAt.         *)

LEMMA RanFields ==
    ASSUME TypeOK, NEW s \in Sessions, NEW i \in Idx, NEW e
    PROVE  /\ Ran(s, i, e).io = http[s][i].io /\ Ran(s, i, e).state = http[s][i].state
           /\ Ran(s, i, e).out = http[s][i].out /\ Ran(s, i, e).eof = http[s][i].eof
           /\ Ran(s, i, e).cb = http[s][i].cb \ {e}
  <1>1. http[s][i] \in HttpRecord
    BY DEF TypeOK
  <1>2. QED
    BY <1>1 DEF Ran, HttpRecord

(* A due callback makes its session live. *)
LEMMA DueLive ==
    ASSUME TypeOK, NEW s \in Sessions, InvAt(s), NEW i \in Idx, NEW e, Due(s, i, e)
    PROVE  mem[s] = "live" /\ e \in http[s][i].cb
  BY OnlyLive DEF Due

(* A new session on an open channel, in the first state. *)
LEMMA AcceptInv ==
    ASSUME TypeOK, NEW s \in Sessions, InvAt(s), accept_cb(s)
    PROVE  InvAt(s)'
  <1>1. /\ cell[s] = NoCell /\ dns[s] = {} /\ http[s] = [i \in Idx |-> NoHttp]
    BY DEF InvAt, OneSessionInv, RefInv, accept_cb
  <1>3. /\ mem'[s] = "live" /\ sess'[s] = NewSession /\ cell'[s] = NoCell /\ dns'[s] = {}
        /\ \A i \in Upstream : http'[s][i] = NoHttp
        /\ http'[s]["CLIENT"] = http_session_new("open")
    BY <1>1 DEF accept_cb, TypeOK, Idx, Upstream
  <1>4. /\ ChannelsIn(http'[s]) = {} /\ WaitingIn(http'[s]) = {}
    BY <1>3 DEF ChannelsIn, WaitingIn, NoHttp
  <1>5. ChannelInv(http'[s])
    BY <1>3 DEF ChannelInv, NoHttp, http_session_new
  <1>6. PhaseInv(NewSession, http'[s], {})
    BY <1>4 DEF PhaseInv, NewSession
  <1>7. CounterInv(NewSession, http'[s], {})
    BY <1>4 DEF CounterInv, NewSession, Count
  <1>8. ClientInv(NewSession, http'[s]["CLIENT"])
    <2>1. /\ NewSession.state = "PARSING_CLIENT_REQUEST" /\ NewSession.replied = {}
          /\ NewSession.strings = {}
      BY DEF NewSession
    <2>2. /\ http'[s]["CLIENT"].state = "HTTP_MESSAGE_BEGIN"
          /\ http'[s]["CLIENT"].out = FALSE /\ http'[s]["CLIENT"].cb = {}
      BY <1>3 DEF http_session_new, NoHttp
    <2>3. UNION {Strings(i) : i \in {}} = {} /\ Upstream # {}
      BY DEF Upstream
    <2>4. QED
      BY <2>1, <2>2, <2>3 DEF ClientInv
  <1>9. OneSessionInv("live", NewSession, http'[s], NoCell, {})
    BY <1>5, <1>6, <1>7, <1>8 DEF OneSessionInv, RefInv, NewSession
  <1>10. QED
    BY <1>3, <1>9, OneMoves

(* A callback that may close the client's channel: it does so only if the  *)
(* session has answered; h is the channel after the callback.              *)
LEMMA CloseInv ==
    ASSUME TypeOK, NEW s \in Sessions, InvAt(s), NEW i \in Idx, mem[s] = "live", NEW h,
           UNCHANGED dns, CloseOrContinue(s, i, h),
           h.io = http[s][i].io, h.cb \subseteq http[s][i].cb,
           "connected" \in h.cb <=> "connected" \in http[s][i].cb,
           "error" \in h.cb <=> "error" \in http[s][i].cb,
           h.state = http[s][i].state, h.out = http[s][i].out
    PROVE  InvAt(s)'
  <1>1. CASE i \in Upstream
    <2>1. Continue(s, sess[s], [http[s] EXCEPT ![i] = h], cell[s])
      BY <1>1 DEF CloseOrContinue, Upstream
    <2>2. QED
      BY <1>1, <2>1, UpstreamContinues
  <1>2. CASE i = "CLIENT"
    <2>1. CASE http_service_session_remove(s, sess[s], cell[s])
      BY <2>1, RemoveLive
    <2>2. CASE /\ Continue(s, sess[s], [http[s] EXCEPT !["CLIENT"] = h], cell[s])
               /\ sess[s].state # "CLIENT_RESPONSE" \/ ~channel_should_close(h)
      <3>1. ClientInv(sess[s], http[s]["CLIENT"])
        BY LiveInv
      <3>2. sess[s].state = "CLIENT_RESPONSE" => h.out
        BY <1>2, <2>2, <3>1 DEF ClientInv, channel_should_close
      <3>3. ClientInv(sess[s], h)
        BY <1>2, <3>1, <3>2 DEF ClientInv
      <3>4. QED
        BY <1>2, <2>2, <3>3, ClientContinues
    <2>3. QED
      BY <1>2, <2>1, <2>2 DEF CloseOrContinue, client_ready_to_close
  <1>3. QED
    BY <1>1, <1>2 DEF Idx

LEMMA CallbacksInv ==
    ASSUME TypeOK, NEW s \in Sessions, InvAt(s), NEW i \in Idx, Callbacks(s, i)
    PROVE  InvAt(s)'
  <1>1. CASE read_cb_closes(s, i)
    <2>1. Due(s, i, "read") /\ UNCHANGED dns /\ CloseOrContinue(s, i, Ran(s, i, "read"))
      BY <1>1 DEF read_cb_closes
    <2>2. QED
      BY <2>1, DueLive, RanFields, CloseInv
  <1>2. CASE write_cb(s, i)
    <2>1. Due(s, i, "write") /\ UNCHANGED dns /\ CloseOrContinue(s, i, Ran(s, i, "write"))
      BY <1>2 DEF write_cb
    <2>2. QED
      BY <2>1, DueLive, RanFields, CloseInv
  <1>3. CASE event_cb_eof(s, i)
    <2> DEFINE h == [Ran(s, i, "eof") EXCEPT !.eof = TRUE]
    <2>1. Due(s, i, "eof") /\ UNCHANGED dns /\ CloseOrContinue(s, i, h)
      BY <1>3 DEF event_cb_eof
    <2>2. Ran(s, i, "eof") \in HttpRecord
      BY RanType, StateNames DEF TypeOK, Fields
    <2>3. /\ h.io = http[s][i].io /\ h.state = http[s][i].state
          /\ h.out = http[s][i].out /\ h.cb = http[s][i].cb \ {"eof"}
      BY <2>2, RanFields DEF HttpRecord
    <2> HIDE DEF h
    <2>4. QED
      BY <2>1, <2>3, DueLive, CloseInv
  <1>4. CASE read_cb_error(s, i) \/ event_cb_error(s, i)
    BY <1>4, DueLive, RemoveLive DEF read_cb_error, event_cb_error, Parses
  <1>5. CASE read_cb_partial(s, i)
    <2>1. Due(s, i, "read") /\ UNCHANGED dns /\ http[s][i].state # "HTTP_MESSAGE_COMPLETE"
      BY <1>5 DEF read_cb_partial, Parses
    <2>2. PICK st \in ParserRests(http[s][i]) :
             Continue(s, sess[s], [http[s] EXCEPT ![i] = [Ran(s, i, "read") EXCEPT !.state = st]],
                      cell[s])
      BY <1>5 DEF read_cb_partial
    <2> DEFINE h == [Ran(s, i, "read") EXCEPT !.state = st]
    <2>3. Ran(s, i, "read") \in HttpRecord
      BY RanType, StateNames DEF TypeOK, Fields
    <2>4. /\ h.io = http[s][i].io /\ h.state = st /\ h.out = http[s][i].out
          /\ h.cb = http[s][i].cb \ {"read"}
      BY <2>3, RanFields DEF HttpRecord
    <2>5. Continue(s, sess[s], [http[s] EXCEPT ![i] = h], cell[s])
      BY <2>2
    <2>6. st # "HTTP_MESSAGE_COMPLETE"
      BY <2>1 DEF ParserRests
    <2> HIDE DEF h
    <2>7. CASE i \in Upstream
      BY <2>1, <2>4, <2>5, <2>7, DueLive, UpstreamContinues
    <2>8. CASE i = "CLIENT"
      <3>1. mem[s] = "live" /\ ClientInv(sess[s], http[s]["CLIENT"])
        BY <2>1, DueLive, LiveInv
      <3>2. ClientInv(sess[s], h)
        BY <2>1, <2>4, <2>6, <2>8, <3>1 DEF ClientInv
      <3>3. QED
        BY <2>1, <2>4, <2>5, <2>8, <3>1, <3>2, ClientContinues
    <2>9. QED
      BY <2>7, <2>8 DEF Idx
  <1>6. QED
    BY <1>1, <1>2, <1>3, <1>4, <1>5 DEF Callbacks

(* The client's request is complete, for the first time.                   *)
LEMMA ClientCompleteInv ==
    ASSUME TypeOK, NEW s \in Sessions, InvAt(s), read_cb_client_complete(s),
           http[s]["CLIENT"].state # "HTTP_MESSAGE_COMPLETE"
    PROVE  InvAt(s)' /\ fault' \in {fault, "late_write"}
  <1> DEFINE r == sess[s]
             c1 == reference_weak_inc(reference_new)
             c2 == reference_weak_inc(c1)
             hc == [Ran(s, "CLIENT", "read") EXCEPT !.state = "HTTP_MESSAGE_COMPLETE"]
             hs == [http[s] EXCEPT !["CLIENT"] = hc]
             r2 == [r EXCEPT !.state = "RESOLVING_WEBSERVER_DOMAINS",
                             !.pending_resolutions = @ + 2]
  <1>1. Due(s, "CLIENT", "read") /\ "CLIENT" \in Idx
    BY StateNames DEF read_cb_client_complete, Parses
  <1>2. mem[s] = "live" /\ "read" \in http[s]["CLIENT"].cb
    BY <1>1, DueLive
  <1>3. /\ ChannelInv(http[s]) /\ PhaseInv(r, http[s], dns[s]) /\ CounterInv(r, http[s], dns[s])
        /\ ClientInv(r, http[s]["CLIENT"]) /\ dns[s] \in SUBSET Upstream
        /\ http[s] \in [Idx -> HttpRecord] /\ r \in SessionRecord
    BY <1>2, LiveInv DEF TypeOK
  <1>4. r.state = "PARSING_CLIENT_REQUEST"
    BY <1>2, <1>3 DEF ClientInv
  <1>5. dns[s] = {} /\ ChannelsIn(http[s]) = {} /\ r.replied = {}
    BY <1>3, <1>4 DEF PhaseInv
  <1>6. /\ ~http[s]["CLIENT"].out /\ r.strings = {}
        /\ WaitingIn(http[s]) = {}
    <2>1. ~http[s]["CLIENT"].out /\ r.strings = {}
      BY <1>3, <1>4, <1>5 DEF ClientInv
    <2>2. \A i \in Upstream : http[s][i].io = "null"
      BY <1>5 DEF ChannelsIn
    <2>3. WaitingIn(http[s]) = {}
      BY <1>3, <2>2 DEF ChannelInv, WaitingIn
    <2>4. QED
      BY <2>1, <2>3
  <1>7. /\ RefInv("live", NoCell, {}) /\ RefInv("live", reference_new, {})
        /\ RefInv("live", c1, {"NAME"}) /\ RefInv("live", c2, Upstream) /\ c2 # NoCell
    BY RefNew DEF RefInv
  <1>8. /\ {"NAME"} \in SUBSET Upstream /\ {} \in SUBSET Upstream
        /\ Upstream \in SUBSET Upstream
    BY DEF Upstream
  <1>9. CASE /\ \/ http_service_session_remove(s, r, NoCell)
                \/ http_service_session_remove(s, r, reference_new)
             /\ dns' = [dns EXCEPT ![s] = {}] /\ UNCHANGED fault
    <2>1. DnsBecomes(s, {})
      BY <1>9 DEF DnsBecomes, TypeOK
    <2>2. QED
      BY <1>5, <1>7, <1>8, <1>9, <2>1, RemoveInv
  <1>10. CASE /\ http_service_session_remove(s, [r EXCEPT !.pending_resolutions = @ + 1], c1)
              /\ dns' = [dns EXCEPT ![s] = {"NAME"}]
              /\ UNCHANGED fault
    <2>1. DnsBecomes(s, {"NAME"})
      BY <1>5, <1>10 DEF DnsBecomes, TypeOK
    <2> DEFINE r1 == [r EXCEPT !.pending_resolutions = @ + 1]
    <2>2. http_service_session_remove(s, r1, c1) /\ fault' = fault
      BY <1>10
    <2> HIDE DEF c1, r1
    <2>3. QED
      BY <1>7, <1>8, <2>1, <2>2, RemoveInv
  <1>11. CASE /\ Continue(s, r2, hs, c2)
              /\ dns' = [dns EXCEPT ![s] = Upstream] /\ UNCHANGED fault
    <2>1. DnsBecomes(s, Upstream)
      BY <1>11 DEF DnsBecomes, TypeOK
    <2>2. /\ hc.state = "HTTP_MESSAGE_COMPLETE" /\ hc.out = FALSE
          /\ hc.io = http[s]["CLIENT"].io /\ hc.cb = http[s]["CLIENT"].cb \ {"read"}
      <3>1. Ran(s, "CLIENT", "read") \in HttpRecord
        BY RanType, StateNames DEF TypeOK, Fields
      <3>2. http[s]["CLIENT"].out \in BOOLEAN
        BY <1>1, <1>3 DEF HttpRecord
      <3>3. QED
        BY <1>1, <1>6, <3>1, <3>2, RanFields DEF HttpRecord
    <2>3. /\ r2.state = "RESOLVING_WEBSERVER_DOMAINS" /\ r2.replied = {} /\ r2.strings = {}
          /\ r2.pending_resolutions = 2 /\ r2.pending_connections = 0
          /\ r2.pending_replies = 0
      <3>1. r.pending_resolutions = 0 /\ r.pending_connections = 0 /\ r.pending_replies = 0
        BY <1>3, <1>5, <1>6 DEF CounterInv, Count
      <3>2. r2 = [r EXCEPT !.state = "RESOLVING_WEBSERVER_DOMAINS", !.pending_resolutions = 0 + 2]
        BY <3>1
      <3>3. QED
        BY <1>3, <1>5, <1>6, <3>1, <3>2 DEF SessionRecord
    <2>4. /\ hs["CLIENT"] = hc /\ \A i \in Upstream : hs[i] = http[s][i]
      BY <1>3 DEF Upstream, Idx
    <2> HIDE DEF hc, hs, r2, c2
    <2>5. ChannelsIn(hs) = {} /\ WaitingIn(hs) = {}
      BY <1>5, <1>6, <2>4 DEF ChannelsIn, WaitingIn
    <2>6. ChannelInv(hs)
      BY <1>3, <2>2, <2>4 DEF ChannelInv
    <2>7. PhaseInv(r2, hs, Upstream)
      BY <2>3, <2>5 DEF PhaseInv
    <2>8. CounterInv(r2, hs, Upstream)
      BY <2>3, <2>5 DEF CounterInv, Count, Upstream
    <2>9. ClientInv(r2, hs["CLIENT"])
      <3>1. UNION {Strings(i) : i \in {}} = {} /\ Upstream # {}
        BY DEF Upstream
      <3>2. QED
        BY <2>2, <2>3, <2>4, <3>1 DEF ClientInv
    <2>10. OneSessionInv("live", r2, hs, c2, Upstream)
      BY <1>7, <2>3, <2>6, <2>7, <2>8, <2>9 DEF OneSessionInv
    <2>11. QED
      BY <1>2, <1>11, <2>1, <2>10, ContinueInv
  <1>12. CASE /\ Fails(s, r, reference_weak_dec(c1), "ERROR_RESOLVING_DOMAIN")
              /\ dns' = [dns EXCEPT ![s] = {}] /\ fault' = "late_write"
    <2>1. RefInv("live", reference_weak_dec(c1), {"NAME"} \ {"NAME"})
      BY <1>7, <1>8, RefWeakDec
    <2>2. {"NAME"} \ {"NAME"} = {}
      OBVIOUS
    <2>3. DnsBecomes(s, {})
      BY <1>12 DEF DnsBecomes, TypeOK
    <2> HIDE DEF c1
    <2>4. QED
      BY <1>5, <1>8, <1>12, <2>1, <2>2, <2>3, RemoveInv DEF Fails
  <1>13. QED
    BY <1>9, <1>10, <1>11, <1>12 DEF read_cb_client_complete, client_msg_complete

(* A request is sent: its channel leaves the waiting ones. *)
LEMMA RequestInv ==
    ASSUME TypeOK, NEW s \in Sessions, InvAt(s), NEW i \in Upstream, http_request(s, i)
    PROVE  InvAt(s)'
  <1> DEFINE r == [sess[s] EXCEPT !.pending_connections = @ - 1]
             rr == [r EXCEPT !.pending_replies = @ + 1]
             hh == [Ran(s, i, "connected") EXCEPT !.out = TRUE]
             h == [http[s] EXCEPT ![i] = hh]
  <1>1. Due(s, i, "connected") /\ i \in Idx /\ UNCHANGED dns
    BY StateNames DEF http_request
  <1>2. mem[s] = "live" /\ "connected" \in http[s][i].cb
    BY <1>1, DueLive
  <1>3. /\ ChannelInv(http[s]) /\ PhaseInv(sess[s], http[s], dns[s])
        /\ CounterInv(sess[s], http[s], dns[s]) /\ ClientInv(sess[s], http[s]["CLIENT"])
        /\ cell[s] = NoCell <=> sess[s].state = "PARSING_CLIENT_REQUEST"
        /\ http[s] \in [Idx -> HttpRecord] /\ sess[s] \in SessionRecord
        /\ RefInv("live", cell[s], dns[s])
    BY <1>2, LiveInv DEF TypeOK
  <1>4. CASE http_service_session_remove(s, [r EXCEPT !.state = "ERROR_REQUESTING_FROM_WS"], cell[s])
    BY <1>1, <1>2, <1>4, RemoveLive
  <1>5. CASE Continue(s, rr, h, cell[s])
    <2>1. /\ hh.io = http[s][i].io /\ hh.cb = http[s][i].cb \ {"connected"}
          /\ http[s][i].io \notin {"null", "connecting", "refused"}
      <3>1. Ran(s, i, "connected") \in HttpRecord
        BY <1>1, RanType, StateNames DEF TypeOK, Fields
      <3>2. http[s][i].io \notin {"null", "connecting", "refused"}
        BY <1>2, <1>3 DEF ChannelInv
      <3>3. QED
        BY <1>1, <3>1, <3>2, RanFields DEF HttpRecord
    <2>2. /\ h["CLIENT"] = http[s]["CLIENT"] /\ h[i] = hh
          /\ \A j \in Upstream \ {i} : h[j] = http[s][j]
      BY <1>3 DEF Upstream, Idx
    <2> HIDE DEF hh, h
    <2>3. ChannelInv(h)
      BY <1>3, <2>1, <2>2 DEF ChannelInv
    <2>4. /\ ChannelsIn(h) = ChannelsIn(http[s]) /\ WaitingIn(h) = WaitingIn(http[s]) \ {i}
          /\ i \in WaitingIn(http[s]) /\ i \in ChannelsIn(http[s])
      BY <1>2, <2>1, <2>2 DEF ChannelsIn, WaitingIn
    <2>5. /\ rr.state = sess[s].state /\ rr.replied = sess[s].replied
          /\ rr.strings = sess[s].strings
          /\ rr.pending_resolutions = sess[s].pending_resolutions
          /\ rr.pending_connections = sess[s].pending_connections - 1
          /\ rr.pending_replies = sess[s].pending_replies + 1
      BY <1>3 DEF SessionRecord
    <2> HIDE DEF rr
    <2>6. CounterInv(rr, h, dns[s])
      <3>1. ChannelsIn(h) \ WaitingIn(h)
               = (ChannelsIn(http[s]) \ WaitingIn(http[s])) \cup {i}
        <4>1. ASSUME NEW cs, NEW ws, i \in cs PROVE cs \ (ws \ {i}) = (cs \ ws) \cup {i}
          BY <4>1
        <4> QED
          BY <2>4, <4>1
      <3>2. Count(WaitingIn(h)) = Count(WaitingIn(http[s])) - 1
        <4> DEFINE ws == WaitingIn(http[s])
        <4>1. ws \in SUBSET Upstream /\ i \in ws /\ WaitingIn(h) = ws \ {i}
          BY <2>4 DEF WaitingIn
        <4> HIDE DEF ws
        <4>2. Count(ws \ {i}) = Count(ws) - 1
          BY <4>1, CountLaws
        <4> QED
          BY <4>1, <4>2 DEF ws
      <3>3. i \in Upstream \ (ChannelsIn(http[s]) \ WaitingIn(http[s]))
        BY <2>4
      <3>4. Count(ChannelsIn(h) \ WaitingIn(h))
               = Count(ChannelsIn(http[s]) \ WaitingIn(http[s])) + 1
        BY <3>1, <3>3, CountLaws DEF ChannelsIn
      <3>5. QED
        BY <1>3, <2>5, <3>2, <3>4 DEF CounterInv
    <2>7. PhaseInv(rr, h, dns[s])
      BY <1>3, <2>4, <2>5 DEF PhaseInv
    <2>8. ClientInv(rr, h["CLIENT"])
      BY <1>3, <2>2, <2>5 DEF ClientInv
    <2>9. OneSessionInv("live", rr, h, cell[s], dns[s])
      BY <1>3, <2>3, <2>5, <2>6, <2>7, <2>8 DEF OneSessionInv
    <2>10. QED
      BY <1>1, <1>2, <1>5, <2>9, DnsUnchanged, ContinueInv
  <1>6. QED
    BY <1>4, <1>5 DEF http_request, Fails

(* A resolution ends: its session is gone, or is removed, or connects.     *)
LEMMA DnsInv ==
    ASSUME TypeOK, fault = "none", NEW s \in Sessions, InvAt(s), NEW i \in Upstream,
           dnsname_resolved_cb(s, i)
    PROVE  InvAt(s)' /\ fault' \in {"none", "double_free"}
  <1> DEFINE c == reference_weak_dec(cell[s])
             r == [sess[s] EXCEPT !.pending_resolutions = @ - 1]
             D == dns[s] \ {i}
  <1>1. /\ i \in dns[s] /\ dns[s] \in SUBSET Upstream /\ D \in SUBSET Upstream
        /\ mem[s] \in {"none", "live", "freed"}
    BY DEF dnsname_resolved_cb, TypeOK
  <1>2. RefInv(mem[s], cell[s], dns[s])
    BY DEF InvAt, OneSessionInv
  <1>3. /\ mem[s] # "none" /\ cell[s].st = "live" /\ (reference_get(cell[s]) <=> mem[s] = "live")
        /\ RefInv(mem[s], c, D) /\ (mem[s] = "live" => c # NoCell)
    BY <1>1, <1>2, RefWeakDec
  <1>4. ~BadReference(s)
    BY <1>3 DEF BadReference
  <1>5. DnsBecomes(s, D)
    BY DEF DnsBecomes, dnsname_resolved_cb, TypeOK
  <1>6. CASE /\ ~reference_get(cell[s])
             /\ cell' = [cell EXCEPT ![s] = c] /\ UNCHANGED <<mem, sess, http, fault>>
    <2>1. cell'[s] = c /\ dns'[s] = D
      BY <1>5, <1>6 DEF DnsBecomes, TypeOK
    <2>2. mem[s] = "freed" /\ http[s] = [j \in Idx |-> NoHttp]
      BY <1>1, <1>3, <1>6 DEF InvAt, OneSessionInv
    <2> HIDE DEF c, D
    <2>3. OneSessionInv(mem'[s], sess'[s], http'[s], cell'[s], dns'[s])
      BY <1>3, <1>6, <2>1, <2>2 DEF OneSessionInv
    <2>4. QED
      BY <1>6, <2>3, OneMoves
  <1>7. CASE /\ reference_get(cell[s]) /\ Fails(s, sess[s], c, "ERROR_RESOLVING_DOMAIN")
             /\ UNCHANGED fault
    BY <1>1, <1>3, <1>5, <1>7, RemoveInv DEF Fails
  <1>8. CASE /\ reference_get(cell[s]) /\ Fails(s, r, c, "ERROR_CONNECTING_TO_WS")
             /\ fault' \in {fault, "double_free"}
    BY <1>1, <1>3, <1>5, <1>8, RemoveInv DEF Fails
  <1>9. CASE /\ reference_get(cell[s])
             /\ Continue(s, [r EXCEPT !.pending_connections = @ + 1],
                         [http[s] EXCEPT ![i] = http_session_new("connecting")], c)
             /\ fault' = IF http[s][i].io = "null" THEN fault ELSE "lost_channel"
    <2> DEFINE rr == [r EXCEPT !.pending_connections = @ + 1]
               h == [http[s] EXCEPT ![i] = http_session_new("connecting")]
    <2>1. mem[s] = "live"
      BY <1>3, <1>9
    <2>2. /\ ChannelInv(http[s]) /\ PhaseInv(sess[s], http[s], dns[s])
          /\ CounterInv(sess[s], http[s], dns[s]) /\ ClientInv(sess[s], http[s]["CLIENT"])
          /\ http[s] \in [Idx -> HttpRecord] /\ sess[s] \in SessionRecord
      BY <2>1, LiveInv DEF TypeOK
    <2>3. /\ h["CLIENT"] = http[s]["CLIENT"]
          /\ h[i].io = "connecting" /\ h[i].cb = {}
          /\ \A j \in Upstream \ {i} : h[j] = http[s][j]
      BY <2>2 DEF Upstream, Idx, http_session_new, NoHttp
    <2>4. /\ rr.state = sess[s].state /\ rr.replied = sess[s].replied
          /\ rr.strings = sess[s].strings
          /\ rr.pending_resolutions = sess[s].pending_resolutions - 1
          /\ rr.pending_connections = sess[s].pending_connections + 1
          /\ rr.pending_replies = sess[s].pending_replies
      BY <2>2 DEF SessionRecord
    <2>5. Continue(s, rr, h, c)
      BY <1>9
    <2> HIDE DEF rr, h
    <2>6. i \notin ChannelsIn(http[s]) /\ i \notin WaitingIn(http[s])
      <3>1. i \notin ChannelsIn(http[s])
        BY <1>1, <2>2 DEF PhaseInv
      <3>2. http[s][i].io = "null"
        BY <1>1, <3>1 DEF ChannelsIn
      <3>3. ChannelInv(http[s])
        BY <2>2
      <3>4. http[s][i].cb = {}
        BY <1>1, <3>2, <3>3 DEF ChannelInv
      <3>5. QED
        BY <3>1, <3>2, <3>4 DEF WaitingIn
    <2>15. fault' = "none"
      BY <1>1, <1>9, <2>6 DEF ChannelsIn
    <2>7. /\ ChannelsIn(h) = ChannelsIn(http[s]) \cup {i}
          /\ WaitingIn(h) = WaitingIn(http[s]) \cup {i}
      BY <2>3 DEF ChannelsIn, WaitingIn
    <2>8. ChannelInv(h)
      BY <2>2, <2>3 DEF ChannelInv
    <2>9. PhaseInv(rr, h, D)
      BY <1>1, <2>2, <2>4, <2>6, <2>7 DEF PhaseInv
    <2>10. CounterInv(rr, h, D)
      <3>1. Count(D) = Count(dns[s]) - 1
        BY <1>1, CountLaws
      <3>2. Count(WaitingIn(h)) = Count(WaitingIn(http[s])) + 1
        <4> DEFINE ws == WaitingIn(http[s])
        <4>1. ws \in SUBSET Upstream /\ i \in Upstream \ ws /\ WaitingIn(h) = ws \cup {i}
          BY <2>6, <2>7 DEF WaitingIn
        <4> HIDE DEF ws
        <4>2. Count(ws \cup {i}) = Count(ws) + 1
          BY <4>1, CountLaws
        <4> QED
          BY <4>1, <4>2 DEF ws
      <3>3. ChannelsIn(h) \ WaitingIn(h) = ChannelsIn(http[s]) \ WaitingIn(http[s])
        BY <2>6, <2>7
      <3>4. QED
        BY <2>2, <2>4, <3>1, <3>2, <3>3 DEF CounterInv
    <2>11. ClientInv(rr, h["CLIENT"])
      BY <2>2, <2>3, <2>4 DEF ClientInv
    <2>12. rr.state # "PARSING_CLIENT_REQUEST"
      BY <1>1, <2>2, <2>4 DEF PhaseInv
    <2> HIDE DEF c, D
    <2>13. OneSessionInv("live", rr, h, c, D)
      BY <1>3, <2>1, <2>8, <2>9, <2>10, <2>11, <2>12 DEF OneSessionInv
    <2>14. QED
      BY <1>5, <2>1, <2>5, <2>13, <2>15, ContinueInv
  <1>10. QED
    BY <1>4, <1>6, <1>7, <1>8, <1>9 DEF dnsname_resolved_cb, AnswerFor, http_server_connect

(* A reply is complete: its channel is freed, and the client is answered   *)
(* if it was the second; then no string is missing.                        *)
LEMMA ResponseInv ==
    ASSUME TypeOK, fault = "none", NEW s \in Sessions, InvAt(s), NEW i \in Upstream,
           read_cb_upstream_complete(s, i)
    PROVE  InvAt(s)' /\ fault' = "none"
  <1> DEFINE r0 == [sess[s] EXCEPT !.pending_replies = @ - 1]
             r == Keep(r0, i)
             h == [http[s] EXCEPT ![i] = NoHttp]
             rr == [r EXCEPT !.state = "CLIENT_RESPONSE", !.strings = {}]
             hh == [h EXCEPT !["CLIENT"].out = TRUE]
  <1>1. Due(s, i, "read") /\ i \in Idx /\ UNCHANGED dns
    BY StateNames DEF read_cb_upstream_complete, Parses
  <1>2. mem[s] = "live" /\ "read" \in http[s][i].cb
    BY <1>1, DueLive
  <1>3. /\ ChannelInv(http[s]) /\ PhaseInv(sess[s], http[s], dns[s])
        /\ CounterInv(sess[s], http[s], dns[s]) /\ ClientInv(sess[s], http[s]["CLIENT"])
        /\ cell[s] = NoCell <=> sess[s].state = "PARSING_CLIENT_REQUEST"
        /\ http[s] \in [Idx -> HttpRecord] /\ sess[s] \in SessionRecord
        /\ RefInv("live", cell[s], dns[s]) /\ dns[s] \in SUBSET Upstream
    BY <1>2, LiveInv DEF TypeOK
  <1>4. i \in ChannelsIn(http[s]) /\ i \notin WaitingIn(http[s])
    <2>1. http[s][i].io \notin {"null", "connecting", "refused"}
      BY <1>2, <1>3 DEF ChannelInv
    <2>2. "connected" \notin http[s][i].cb
      BY <1>1 DEF Due, RunsBefore
    <2>3. QED
      BY <2>1, <2>2 DEF ChannelsIn, WaitingIn
  <1>5. /\ sess[s].state = "RESOLVING_WEBSERVER_DOMAINS" /\ i \notin sess[s].replied
        /\ i \notin dns[s] /\ sess[s].replied # Upstream
    <2>1. i \notin sess[s].replied /\ i \notin dns[s] /\ sess[s].state # "PARSING_CLIENT_REQUEST"
      BY <1>3, <1>4 DEF PhaseInv
    <2>2. QED
      BY <1>3, <2>1 DEF ClientInv
  <1>6. /\ r.state = sess[s].state /\ r.replied = sess[s].replied \cup {i}
        /\ r.strings = sess[s].strings \cup Strings(i)
        /\ r.pending_resolutions = sess[s].pending_resolutions
        /\ r.pending_connections = sess[s].pending_connections
        /\ r.pending_replies = sess[s].pending_replies - 1
        /\ rr.state = "CLIENT_RESPONSE" /\ rr.replied = r.replied /\ rr.strings = {}
        /\ rr.pending_resolutions = r.pending_resolutions
        /\ rr.pending_connections = r.pending_connections
        /\ rr.pending_replies = r.pending_replies
    <2>1. r = [sess[s] EXCEPT !.pending_replies = sess[s].pending_replies - 1,
                              !.replied = sess[s].replied \cup {i},
                              !.strings = sess[s].strings \cup Strings(i)]
      BY <1>3 DEF Keep, SessionRecord
    <2>2. QED
      BY <1>3, <2>1 DEF SessionRecord
  <1>7. r.strings = UNION {Strings(j) : j \in r.replied}
    BY <1>3, <1>5, <1>6 DEF ClientInv
  <1>8. r.replied = Upstream => r.strings = AllStrings
    BY <1>7 DEF Upstream, Strings, AllStrings
  <1>9. /\ h["CLIENT"] = http[s]["CLIENT"] /\ h[i] = NoHttp
        /\ \A j \in Upstream \ {i} : h[j] = http[s][j]
        /\ hh["CLIENT"] = [http[s]["CLIENT"] EXCEPT !.out = TRUE]
        /\ \A j \in Upstream : hh[j] = h[j]
    BY <1>3 DEF Upstream, Idx
  <1> DEFINE hc == [http[s]["CLIENT"] EXCEPT !.out = TRUE]
  <1>10. /\ hc.out /\ hc.io = http[s]["CLIENT"].io /\ hc.cb = http[s]["CLIENT"].cb
         /\ hc.state = http[s]["CLIENT"].state
    <2>1. http[s]["CLIENT"] \in HttpRecord
      BY <1>3, StateNames
    <2>2. QED
      BY <2>1 DEF HttpRecord
  <1>11. \/ Fails(s, r0, cell[s], "ERROR_CLIENT_RESPONSE") /\ UNCHANGED fault
         \/ r.replied # Upstream /\ Continue(s, r, h, cell[s]) /\ UNCHANGED fault
         \/ /\ r.replied = Upstream
            /\ fault' = IF r.strings # AllStrings THEN "null_deref" ELSE fault
            /\ \/ Fails(s, r, cell[s], "ERROR_CLIENT_RESPONSE")
               \/ Continue(s, rr, hh, cell[s])
    BY DEF read_cb_upstream_complete, http_response, Reply, http_client_response, Respond
  <1> HIDE DEF r0, r, h, rr, hh, hc
  <1>12. fault' = "none"
    BY <1>8, <1>11
  <1>13. CASE \/ Fails(s, r0, cell[s], "ERROR_CLIENT_RESPONSE")
              \/ Fails(s, r, cell[s], "ERROR_CLIENT_RESPONSE")
    BY <1>1, <1>2, <1>12, <1>13, RemoveLive DEF Fails
  <1>14. /\ ChannelsIn(h) = ChannelsIn(http[s]) \ {i} /\ WaitingIn(h) = WaitingIn(http[s])
         /\ ChannelsIn(hh) = ChannelsIn(h) /\ WaitingIn(hh) = WaitingIn(h)
    BY <1>4, <1>9 DEF ChannelsIn, WaitingIn, NoHttp
  <1>15. /\ CounterInv(r, h, dns[s]) /\ CounterInv(rr, hh, dns[s])
    <2>1. ChannelsIn(h) \ WaitingIn(h) = (ChannelsIn(http[s]) \ WaitingIn(http[s])) \ {i}
      BY <1>14
    <2>2. Count(ChannelsIn(h) \ WaitingIn(h))
             = Count(ChannelsIn(http[s]) \ WaitingIn(http[s])) - 1
      BY <1>4, <2>1, CountLaws DEF ChannelsIn
    <2>3. QED
      BY <1>3, <1>6, <1>14, <2>2 DEF CounterInv
  <1>16. PhaseInv(r, h, dns[s]) /\ PhaseInv(rr, hh, dns[s])
    BY <1>3, <1>4, <1>5, <1>6, <1>14 DEF PhaseInv
  <1>17. ChannelInv(h) /\ ChannelInv(hh)
    BY <1>3, <1>9, <1>10 DEF ChannelInv, NoHttp, hc
  <1>18. cell[s] # NoCell
    BY <1>3, <1>5
  <1>19. CASE r.replied # Upstream /\ Continue(s, r, h, cell[s])
    <2>1. ClientInv(r, h["CLIENT"])
      BY <1>3, <1>5, <1>6, <1>7, <1>9, <1>19 DEF ClientInv
    <2>2. OneSessionInv("live", r, h, cell[s], dns[s])
      BY <1>3, <1>5, <1>6, <1>15, <1>16, <1>17, <1>18, <2>1 DEF OneSessionInv
    <2>3. QED
      BY <1>1, <1>2, <1>12, <1>19, <2>2, DnsUnchanged, ContinueInv
  <1>20. CASE r.replied = Upstream /\ Continue(s, rr, hh, cell[s])
    <2>1. ClientInv(rr, hc)
      BY <1>3, <1>5, <1>6, <1>10, <1>20 DEF ClientInv
    <2>2. hh["CLIENT"] = hc
      BY <1>9 DEF hc
    <2>3. OneSessionInv("live", rr, hh, cell[s], dns[s])
      BY <1>3, <1>6, <1>15, <1>16, <1>17, <1>18, <2>1, <2>2 DEF OneSessionInv
    <2>4. QED
      BY <1>1, <1>2, <1>12, <1>20, <2>3, DnsUnchanged, ContinueInv
  <1>21. QED
    BY <1>11, <1>12, <1>13, <1>19, <1>20

(* The common form of the environment's steps: the connection goes from    *)
(* one state to another and a callback becomes due.                        *)
Allowed(h, io, e, out) ==
    /\ \/ h.io = "connecting" /\ io = "open" /\ e = "connected"
       \/ h.io = "connecting" /\ io = "refused" /\ e = "error"
       \/ /\ h.io \in {"open", "halfclosed"} /\ e # "connected"
          /\ io \in {"open", "halfclosed", "dead"} /\ (io = "dead" => e = "error")
    /\ out = h.out \/ (e = "write" /\ ~out)

EnvironmentStep(s, i, io, e, out) ==
    /\ http' = [http EXCEPT ![s] = [http[s] EXCEPT ![i] =
                   [http[s][i] EXCEPT !.io = io, !.out = out, !.cb = @ \cup {e}]]]
    /\ UNCHANGED <<mem, sess, cell, dns>>
    /\ Allowed(http[s][i], io, e, out)

LEMMA EnvironmentForm ==
    ASSUME TypeOK, NEW s \in Sessions, NEW i \in Idx, Environment(s, i)
    PROVE  \E io, e : \E out \in BOOLEAN : EnvironmentStep(s, i, io, e, out)
  <1> DEFINE o == http[s][i].out
  <1>0. /\ http \in [Sessions -> [Idx -> HttpRecord]] /\ http[s][i] \in HttpRecord
        /\ o \in BOOLEAN
    BY DEF TypeOK, HttpRecord
  <1>1. ASSUME NEW io, NEW e, Channel(s, i, io, e), Allowed(http[s][i], io, e, o)
        PROVE  EnvironmentStep(s, i, io, e, o)
    BY <1>0, <1>1 DEF Channel, HttpRecord, EnvironmentStep
  <1>2. CASE Connected(s, i)
    <2>1. EnvironmentStep(s, i, "open", "connected", o)
      BY <1>0, <1>1, <1>2 DEF Connected, Allowed
    <2>2. QED
      BY <1>0, <2>1
  <1>3. CASE ConnectionLost(s, i)
    <2>1. EnvironmentStep(s, i, "refused", "error", o) \/ EnvironmentStep(s, i, "dead", "error", o)
      BY <1>0, <1>1, <1>3 DEF ConnectionLost, Allowed
    <2>2. QED
      BY <1>0, <2>1
  <1>4. CASE PeerCloses(s, i)
    <2>1. EnvironmentStep(s, i, "halfclosed", "eof", o)
      BY <1>0, <1>1, <1>4 DEF PeerCloses, Allowed
    <2>2. QED
      BY <1>0, <2>1
  <1>5. CASE Readable(s, i)
    <2>1. EnvironmentStep(s, i, "open", "read", o)
      BY <1>0, <1>1, <1>5 DEF Readable, Allowed
    <2>2. QED
      BY <1>0, <2>1
  <1>6. CASE Flushed(s, i)
    <2>1. http' = [http EXCEPT ![s] = [http[s] EXCEPT ![i] =
             [http[s][i] EXCEPT !.io = http[s][i].io, !.out = FALSE, !.cb = @ \cup {"write"}]]]
      BY <1>0, <1>6 DEF Flushed, HttpRecord
    <2>2. Allowed(http[s][i], http[s][i].io, "write", FALSE)
      BY <1>6 DEF Flushed, Allowed
    <2>3. EnvironmentStep(s, i, http[s][i].io, "write", FALSE)
      BY <1>6, <2>1, <2>2 DEF Flushed, EnvironmentStep
    <2>4. QED
      BY <2>3
  <1>7. QED
    BY <1>2, <1>3, <1>4, <1>5, <1>6 DEF Environment

LEMMA EnvironmentInv ==
    ASSUME TypeOK, NEW s \in Sessions, InvAt(s), NEW i \in Idx, Environment(s, i)
    PROVE  InvAt(s)'
  <1>1. PICK io, e : \E out \in BOOLEAN : EnvironmentStep(s, i, io, e, out)
    BY EnvironmentForm
  <1>2. PICK out \in BOOLEAN : EnvironmentStep(s, i, io, e, out)
    BY <1>1
  <1>3. /\ http' = [http EXCEPT ![s] = [http[s] EXCEPT ![i] =
                     [http[s][i] EXCEPT !.io = io, !.out = out, !.cb = @ \cup {e}]]]
        /\ UNCHANGED <<mem, sess, cell, dns>>
        /\ \/ http[s][i].io = "connecting" /\ io = "open" /\ e = "connected"
           \/ http[s][i].io = "connecting" /\ io = "refused" /\ e = "error"
           \/ /\ http[s][i].io \in {"open", "halfclosed"} /\ e # "connected"
              /\ io \in {"open", "halfclosed", "dead"} /\ (io = "dead" => e = "error")
        /\ out = http[s][i].out \/ (e = "write" /\ ~out)
    BY <1>2 DEF EnvironmentStep, Allowed
  <1> DEFINE hh == [http[s][i] EXCEPT !.io = io, !.out = out, !.cb = @ \cup {e}]
             h == [http[s] EXCEPT ![i] = hh]
  <1>4. mem[s] = "live"
    BY <1>3, OnlyLive
  <1>5. /\ ChannelInv(http[s]) /\ ClientInv(sess[s], http[s]["CLIENT"])
        /\ OneSessionInv("live", sess[s], http[s], cell[s], dns[s])
        /\ http[s] \in [Idx -> HttpRecord] /\ http[s][i] \in HttpRecord
    BY <1>4, LiveInv
  <1>6. /\ hh.io = io /\ hh.out = out /\ hh.cb = http[s][i].cb \cup {e}
        /\ hh.state = http[s][i].state
    BY <1>5 DEF HttpRecord
  <1>7. /\ mem'[s] = "live" /\ sess'[s] = sess[s] /\ http'[s] = h
        /\ cell'[s] = cell[s] /\ dns'[s] = dns[s]
    BY <1>3, <1>4 DEF TypeOK
  <1>8. OneSessionInv("live", sess[s], h, cell[s], dns[s])
    <2> HIDE DEF hh
    <2>1. CASE i \in Upstream
      <3>1. http[s][i].io = "connecting" => http[s][i].cb = {}
        BY <1>5, <2>1 DEF ChannelInv
      <3>2. hh.io \notin {"null", "connecting"} /\ http[s][i].io \notin {"null", "refused"}
        BY <1>3, <1>6
      <3>3. hh.io = "refused" => hh.cb = {"error"}
        BY <1>3, <1>6, <3>1
      <3>4. hh.io \in {"connecting", "refused"} \/ "connected" \in hh.cb
              <=> http[s][i].io \in {"connecting", "refused"} \/ "connected" \in http[s][i].cb
        BY <1>3, <1>6, <3>1
      <3>5. QED
        BY <1>5, <2>1, <3>2, <3>3, <3>4, ChannelStep
    <2>2. CASE i = "CLIENT"
      <3>1. http[s][i].io # "connecting" /\ "connected" \notin http[s][i].cb
        BY <1>5, <2>2 DEF ChannelInv
      <3>2. /\ hh.io \in {"open", "halfclosed", "dead"} /\ (hh.io = "dead" => "error" \in hh.cb)
            /\ "connected" \notin hh.cb
        BY <1>3, <1>6, <3>1
      <3>3. ClientInv(sess[s], hh)
        <4>2. sess[s].state = "CLIENT_RESPONSE" => hh.out \/ hh.cb \cap {"write", "error"} # {}
          BY <1>3, <1>5, <1>6, <2>2 DEF ClientInv
        <4>3. hh.out => sess[s].state = "CLIENT_RESPONSE"
          BY <1>3, <1>5, <1>6, <2>2 DEF ClientInv
        <4>4. QED
          BY <1>5, <1>6, <2>2, <4>2, <4>3 DEF ClientInv
      <3>4. QED
        BY <1>5, <2>2, <3>2, <3>3, ClientStep
    <2>3. QED
      BY <2>1, <2>2 DEF Idx
  <1>9. QED
    BY <1>7, <1>8, OneMoves

-----------------------------------------------------------------------------
(* From one session to all: a step of one leaves the others alone.         *)

StepOf(s) ==
    \/ accept_cb(s) \/ read_cb_client_complete(s)
    \/ \E i \in Idx : Callbacks(s, i) \/ Environment(s, i)
    \/ \E i \in Upstream : UpstreamCallbacks(s, i)

SameFields(t) ==
    mem'[t] = mem[t] /\ sess'[t] = sess[t] /\ http'[t] = http[t] /\ cell'[t] = cell[t]
SameRest(t) == dns'[t] = dns[t] /\ again'[t] = again[t] /\ lost'[t] = lost[t]

LEMMA PieceFrame ==
    ASSUME TypeOK, NEW s \in Sessions, NEW t \in Sessions, t # s
    PROVE  /\ \A r, c : http_service_session_remove(s, r, c) => SameFields(t)
           /\ \A r, h, c : Continue(s, r, h, c) => SameFields(t)
           /\ \A r, c, state : Fails(s, r, c, state) => SameFields(t)
           /\ \A i, h : CloseOrContinue(s, i, h) => SameFields(t)
           /\ \A i, c : AnswerFor(s, i, c) => SameFields(t)
           /\ \A i : http_response(s, i) => SameFields(t)
           /\ \A h : client_msg_complete(s, h) => SameFields(t) /\ dns'[t] = dns[t]
  <1>1. \A r, c : http_service_session_remove(s, r, c) => SameFields(t)
    BY DEF http_service_session_remove, SameFields, TypeOK
  <1>2. \A r, h, c : Continue(s, r, h, c) => SameFields(t)
    BY DEF Continue, SameFields, TypeOK
  <1>3. \A r, c, state : Fails(s, r, c, state) => SameFields(t)
    BY <1>1 DEF Fails
  <1>4. \A i, h : CloseOrContinue(s, i, h) => SameFields(t)
    BY <1>1, <1>2 DEF CloseOrContinue, client_ready_to_close
  <1>5. \A i, c : AnswerFor(s, i, c) => SameFields(t)
    BY <1>2, <1>3 DEF AnswerFor, http_server_connect
  <1>6. \A i : http_response(s, i) => SameFields(t)
    BY <1>2, <1>3 DEF http_response, Reply, http_client_response, Respond
  <1>7. \A h : client_msg_complete(s, h) => SameFields(t) /\ dns'[t] = dns[t]
    BY <1>1, <1>2, <1>3 DEF client_msg_complete, TypeOK
  <1>8. QED
    BY <1>1, <1>2, <1>3, <1>4, <1>5, <1>6, <1>7

LEMMA Frame ==
    ASSUME TypeOK, NEW s \in Sessions, NEW t \in Sessions, t # s, StepOf(s)
    PROVE  SameFields(t) /\ SameRest(t)
  <1>1. CASE accept_cb(s)
    BY <1>1 DEF accept_cb, SameFields, SameRest, TypeOK
  <1>2. CASE read_cb_client_complete(s)
    <2>1. SameFields(t) /\ dns'[t] = dns[t]
      BY <1>2, PieceFrame DEF read_cb_client_complete
    <2>2. again'[t] = again[t] /\ lost'[t] = lost[t]
      BY <1>2 DEF read_cb_client_complete, ReferenceLost, TypeOK
    <2>3. QED
      BY <2>1, <2>2 DEF SameRest
  <1>3. ASSUME NEW i \in Idx, Callbacks(s, i) PROVE SameFields(t) /\ SameRest(t)
    <2>1. SameRest(t)
      BY <1>3 DEF Callbacks, read_cb_closes, read_cb_partial, read_cb_error, write_cb,
                  event_cb_error, event_cb_eof, SameRest
    <2>2. SameFields(t)
      BY <1>3, PieceFrame DEF Callbacks, read_cb_closes, read_cb_partial, read_cb_error,
                              write_cb, event_cb_error, event_cb_eof
    <2>3. QED
      BY <2>1, <2>2
  <1>4. ASSUME NEW i \in Idx, Environment(s, i) PROVE SameFields(t) /\ SameRest(t)
    BY <1>4 DEF Environment, Channel, Connected, ConnectionLost, Readable, PeerCloses, Flushed,
                SameFields, SameRest, TypeOK
  <1>5. ASSUME NEW i \in Upstream, UpstreamCallbacks(s, i) PROVE SameFields(t) /\ SameRest(t)
    <2>1. CASE dnsname_resolved_cb(s, i)
      <3>1. SameFields(t)
        <4>1. CASE \E c : AnswerFor(s, i, c)
          BY <4>1, PieceFrame
        <4>2. CASE UNCHANGED <<mem, sess, http, cell>>
          BY <4>2 DEF SameFields
        <4>3. CASE /\ cell' = [cell EXCEPT ![s] = reference_weak_dec(cell[s])]
                   /\ UNCHANGED <<mem, sess, http>>
          BY <4>3 DEF SameFields, TypeOK
        <4>4. QED
          BY <2>1, <4>1, <4>2, <4>3 DEF dnsname_resolved_cb
      <3>2. SameRest(t)
        BY <2>1 DEF dnsname_resolved_cb, SameRest, TypeOK
      <3>3. QED
        BY <3>1, <3>2
    <2>2. CASE lost_request_resolved(s, i)
      <3>1. SameFields(t)
        BY <2>2, PieceFrame DEF lost_request_resolved, SameFields
      <3>2. SameRest(t)
        BY <2>2 DEF lost_request_resolved, SameRest, TypeOK
      <3>3. QED
        BY <3>1, <3>2
    <2>3. CASE http_request(s, i) \/ read_cb_upstream_complete(s, i)
      <3>1. SameFields(t)
        BY <2>3, PieceFrame DEF http_request, read_cb_upstream_complete
      <3>2. SameRest(t)
        BY <2>3 DEF http_request, read_cb_upstream_complete, SameRest
      <3>3. QED
        BY <3>1, <3>2
    <2>4. QED
      BY <1>5, <2>1, <2>2, <2>3 DEF UpstreamCallbacks
  <1>6. QED
    BY <1>1, <1>2, <1>3, <1>4, <1>5 DEF StepOf

(* Requests are lost, and a request taken again, in these steps only.      *)
LEMMA LostSteps ==
    ASSUME TypeOK, NEW s \in Sessions, StepOf(s)
    PROVE  \/ UNCHANGED <<again, lost>>
           \/ /\ read_cb_client_complete(s) /\ again'[s] = again[s] + 1
              /\ http[s]["CLIENT"].state = "HTTP_MESSAGE_COMPLETE"
           \/ UNCHANGED again /\ \E i \in Upstream : lost_request_resolved(s, i)
  <1>1. CASE accept_cb(s)
    BY <1>1 DEF accept_cb
  <1>2. CASE read_cb_client_complete(s)
    BY <1>2 DEF read_cb_client_complete, ReferenceLost, TypeOK
  <1>3. ASSUME NEW i \in Idx, Callbacks(s, i) PROVE UNCHANGED <<again, lost>>
    BY <1>3 DEF Callbacks, read_cb_closes, read_cb_partial, read_cb_error, write_cb,
                event_cb_error, event_cb_eof
  <1>4. ASSUME NEW i \in Idx, Environment(s, i) PROVE UNCHANGED <<again, lost>>
    BY <1>4 DEF Environment, Channel, Connected, ConnectionLost, Readable, PeerCloses, Flushed
  <1>5. ASSUME NEW i \in Upstream, UpstreamCallbacks(s, i), ~lost_request_resolved(s, i)
        PROVE  UNCHANGED <<again, lost>>
    BY <1>5 DEF UpstreamCallbacks, dnsname_resolved_cb, http_request, read_cb_upstream_complete
  <1>6. ASSUME NEW i \in Upstream, lost_request_resolved(s, i) PROVE UNCHANGED again
    BY <1>6 DEF lost_request_resolved
  <1>7. QED
    BY <1>1, <1>2, <1>3, <1>4, <1>5, <1>6 DEF StepOf

(* A request once taken again stays so. *)
LEMMA AgainGrows ==
    ASSUME TypeOK, NEW s \in Sessions, StepOf(s), TakenOnce(s)'
    PROVE  TakenOnce(s)
  <1>1. again[s] \in Nat
    BY DEF TypeOK
  <1>2. again'[s] = again[s] \/ again'[s] = again[s] + 1
    BY LostSteps
  <1>3. again'[s] = 0
    BY DEF TakenOnce
  <1>4. QED
    BY <1>1, <1>2, <1>3 DEF TakenOnce

LEMMA InvInit == Init => IInv
  <1> SUFFICES ASSUME Init PROVE IInv
    OBVIOUS
  <1>1. TypeOK
    BY TypeInit
  <1>2. ASSUME NEW s \in Sessions PROVE InvAt(s) /\ NoneLost(s)
    BY DEF Init, InvAt, OneSessionInv, RefInv, NoneLost
  <1>3. QED
    BY <1>1, <1>2 DEF IInv, OnceInv, Init, NoFault

Harmless == fault' \notin {"null_deref", "use_after_free", "lost_channel"}

(* A step of a session whose request has been taken once, and not again.   *)
LEMMA OnceStep ==
    ASSUME IInv, fault = "none", NEW s \in Sessions, StepOf(s), TakenOnce(s), TakenOnce(s)'
    PROVE  InvAt(s)' /\ NoneLost(s)' /\ Harmless
  <1>0. TypeOK /\ InvAt(s) /\ NoneLost(s)
    BY DEF IInv, OnceInv
  <1>1. /\ UNCHANGED <<again, lost>>
        /\ read_cb_client_complete(s) => http[s]["CLIENT"].state # "HTTP_MESSAGE_COMPLETE"
        /\ \A i \in Upstream : ~lost_request_resolved(s, i)
    <2>1. \A i \in Upstream : ~lost_request_resolved(s, i)
      BY <1>0 DEF lost_request_resolved, NoneLost
    <2>2. again'[s] # again[s] + 1
      BY DEF TakenOnce
    <2>3. UNCHANGED <<again, lost>>
      BY <1>0, <2>1, <2>2, LostSteps
    <2>4. read_cb_client_complete(s) => http[s]["CLIENT"].state # "HTTP_MESSAGE_COMPLETE"
      BY <1>0, <2>2 DEF read_cb_client_complete, ReferenceLost, TypeOK
    <2>5. QED
      BY <2>1, <2>3, <2>4
  <1>2. NoneLost(s)'
    BY <1>0, <1>1 DEF NoneLost
  <1>3. CASE accept_cb(s)
    BY <1>0, <1>2, <1>3, AcceptInv DEF accept_cb, Harmless
  <1>4. CASE read_cb_client_complete(s)
    BY <1>0, <1>1, <1>2, <1>4, ClientCompleteInv DEF Harmless
  <1>5. ASSUME NEW i \in Idx, Callbacks(s, i) PROVE InvAt(s)' /\ Harmless
    <2>1. fault' = fault
      BY <1>5 DEF Callbacks, read_cb_closes, read_cb_partial, read_cb_error, write_cb,
                  event_cb_error, event_cb_eof
    <2>2. QED
      BY <1>0, <1>5, <2>1, CallbacksInv DEF Harmless
  <1>6. ASSUME NEW i \in Idx, Environment(s, i) PROVE InvAt(s)' /\ Harmless
    <2>1. fault' = fault
      BY <1>6 DEF Environment, Channel, Connected, ConnectionLost, Readable, PeerCloses, Flushed
    <2>2. QED
      BY <1>0, <1>6, <2>1, EnvironmentInv DEF Harmless
  <1>7. ASSUME NEW i \in Upstream, UpstreamCallbacks(s, i) PROVE InvAt(s)' /\ Harmless
    <2>1. CASE dnsname_resolved_cb(s, i)
      BY <1>0, <2>1, DnsInv DEF Harmless
    <2>2. CASE http_request(s, i)
      BY <1>0, <2>2, RequestInv DEF http_request, Harmless
    <2>3. CASE read_cb_upstream_complete(s, i)
      BY <1>0, <2>3, ResponseInv DEF Harmless
    <2>4. QED
      BY <1>1, <1>7, <2>1, <2>2, <2>3 DEF UpstreamCallbacks
  <1>8. QED
    BY <1>2, <1>3, <1>4, <1>5, <1>6, <1>7 DEF StepOf

LEMMA InvNext == IInv /\ [Next]_vars => IInv'
  <1> SUFFICES ASSUME IInv, [Next]_vars PROVE IInv'
    OBVIOUS
  <1>0. TypeOK /\ (\A s \in Sessions : OnceInv(s)) /\ NoFault
    BY DEF IInv
  <1>1. TypeOK'
    BY <1>0, TypeNext
  <1>2. CASE Next
    <2>1. fault = "none"
      BY <1>2 DEF Next, Runs
    <2>2. PICK s \in Sessions : StepOf(s)
      BY <1>2 DEF Next, StepOf
    <2>3. TakenOnce(s)' => InvAt(s)' /\ NoneLost(s)' /\ Harmless
      BY <1>0, <2>1, <2>2, AgainGrows, OnceStep
    <2>4. NoFault'
      <3>1. Harmless \/ ~TakenOnce(s)'
        BY <2>3
      <3>2. QED
        BY <3>1 DEF NoFault, Harmless
    <2>5. ASSUME NEW t \in Sessions PROVE OnceInv(t)'
      <3>1. CASE t = s
        BY <2>3, <3>1 DEF OnceInv
      <3>2. CASE t # s
        <4>1. SameFields(t) /\ SameRest(t)
          BY <1>0, <2>2, <3>2, Frame
        <4>2. OnceInv(t)
          BY <1>0
        <4>3. TakenOnce(t)' = TakenOnce(t) /\ InvAt(t)' = InvAt(t) /\ NoneLost(t)' = NoneLost(t)
          BY <4>1 DEF SameFields, SameRest, TakenOnce, InvAt, NoneLost
        <4>4. QED
          BY <4>2, <4>3 DEF OnceInv
      <3>3. QED
        BY <3>1, <3>2
    <2>6. QED
      BY <1>1, <2>4, <2>5 DEF IInv
  <1>3. CASE UNCHANGED vars
    BY <1>0, <1>1, <1>3 DEF vars, IInv, OnceInv, TakenOnce, InvAt, NoneLost, NoFault
  <1>4. QED
    BY <1>2, <1>3

-----------------------------------------------------------------------------
(* The theorems, for every client, and every data it sends.                *)

(* What the invariant says of one live session. *)
LEMMA IInvLive ==
    ASSUME IInv, NEW s \in Sessions, LiveOnce(s)
    PROVE  CountersAgreeOf(s) /\ UpstreamPhaseOf(s) /\ ResponseCompleteOf(s) /\ NoOrphanOf(s)
  <1>0. InvAt(s) /\ TypeOK /\ mem[s] = "live"
    BY DEF IInv, OnceInv, LiveOnce
  <1>1. /\ ChannelInv(http[s]) /\ PhaseInv(sess[s], http[s], dns[s])
        /\ CounterInv(sess[s], http[s], dns[s]) /\ ClientInv(sess[s], http[s]["CLIENT"])
    BY <1>0, LiveInv
  <1>2. Channels(s) = ChannelsIn(http[s]) /\ Waiting(s) = WaitingIn(http[s])
    BY DEF Channels, Waiting, ChannelsIn, WaitingIn
  <1>3. CountersAgreeOf(s)
    BY <1>1, <1>2 DEF CountersAgreeOf, CounterInv
  <1>4. UpstreamPhaseOf(s)
    BY <1>1, <1>2 DEF UpstreamPhaseOf, PhaseInv
  <1>5. ResponseCompleteOf(s)
    BY <1>1 DEF ResponseCompleteOf, ClientInv
  <1>6. NoOrphanOf(s)
    BY <1>1 DEF NoOrphanOf, ClientInv, ChannelInv
  <1>7. QED
    BY <1>3, <1>4, <1>5, <1>6

LEMMA IInvImplies ==
    IInv => /\ NoFault /\ RefSafe
            /\ CountersAgree /\ ResponseComplete /\ NoOrphan
  <1> SUFFICES ASSUME IInv
               PROVE  /\ NoFault /\ RefSafe
                      /\ CountersAgree /\ ResponseComplete /\ NoOrphan
    OBVIOUS
  <1>1. NoFault
    BY DEF IInv, NoFault
  <1>2. ASSUME NEW s \in Sessions, TakenOnce(s) PROVE RefSafeOf(s) /\ NoLeakOf(s) /\ NoneLost(s)
    <2>0. InvAt(s) /\ NoneLost(s)
      BY <1>2 DEF IInv, OnceInv
    <2>1. RefInv(mem[s], cell[s], dns[s]) /\ mem[s] \in {"none", "live", "freed"}
      BY <2>0 DEF IInv, InvAt, OneSessionInv, TypeOK
    <2>2. CASE mem[s] = "none"
      BY <2>0, <2>1, <2>2 DEF RefInv, RefSafeOf, NoLeakOf
    <2>3. CASE mem[s] = "live"
      BY <2>0, <2>1, <2>3 DEF RefInv, RefSafeOf, NoLeakOf
    <2>4. CASE mem[s] = "freed"
      BY <2>0, <2>1, <2>4 DEF RefInv, RefSafeOf, NoLeakOf
    <2>5. QED
      BY <2>1, <2>2, <2>3, <2>4
  <1>3. RefSafe
    BY <1>2 DEF RefSafe
  <1>4. CountersAgree /\ ResponseComplete /\ NoOrphan
    BY IInvLive DEF CountersAgree, ResponseComplete, NoOrphan
  <1>5. QED
    BY <1>1, <1>3, <1>4

LEMMA IInvAlways == Spec => []IInv
  <1>1. QED
    BY InvInit, InvNext, PTL DEF Spec

(* No order of answers, data, errors and closings makes a callback use a   *)
(* freed session, a freed reference or a string that is still NULL, as     *)
(* long as no session has taken its request again (session.c:564 and the   *)
(* flags of session.c:49-50, which are never reset).                       *)
THEOREM MemorySafe == Spec => []NoFault
  BY IInvAlways, IInvImplies, PTL

(* A request in flight always finds its reference, and finds through it    *)
(* the session exactly while that lives; both go with their last holder.   *)
THEOREM ReferenceProtocol == Spec => []RefSafe
  BY IInvAlways, IInvImplies, PTL

(* Each upstream is in exactly one stage of its exchange, and the counters *)
(* of the session agree with the stages.                                   *)
THEOREM Bookkeeping == Spec => []CountersAgree
  BY IInvAlways, IInvImplies, PTL

(* session.c:177-209: the client is answered exactly when both upstreams   *)
(* have replied, and with the strings of both.                             *)
THEOREM AnswerComplete == Spec => []ResponseComplete
  BY IInvAlways, IInvImplies, PTL

(* http_session.c:278-298: an answered session always has output under way *)
(* or a callback ahead that removes it; none is left open with nothing to  *)
(* close it.                                                               *)
THEOREM AnsweredIsClosed == Spec => []NoOrphan
  BY IInvAlways, IInvImplies, PTL

-----------------------------------------------------------------------------
(* The action property: how an answered session may be freed.              *)

(* Nothing is left to run for an answered session but its client's         *)
(* callbacks.                                                              *)
LEMMA AnsweredQuiet ==
    ASSUME IInv, NEW s \in Sessions, LiveOnce(s), http[s]["CLIENT"].out
    PROVE  /\ dns[s] = {} /\ NoneLost(s) /\ \A i \in Upstream : http[s][i].cb = {}
           /\ http[s]["CLIENT"].state = "HTTP_MESSAGE_COMPLETE"
  <1>0. InvAt(s) /\ NoneLost(s) /\ TypeOK /\ mem[s] = "live"
    BY DEF IInv, OnceInv, LiveOnce
  <1>1. /\ ChannelInv(http[s]) /\ PhaseInv(sess[s], http[s], dns[s])
        /\ ClientInv(sess[s], http[s]["CLIENT"]) /\ dns[s] \in SUBSET Upstream
    BY <1>0, LiveInv
  <1>2. http[s]["CLIENT"].state = "HTTP_MESSAGE_COMPLETE" /\ sess[s].replied = Upstream
    BY <1>1 DEF ClientInv
  <1>3. dns[s] = {} /\ ChannelsIn(http[s]) = {}
    BY <1>1, <1>2 DEF PhaseInv, ChannelsIn
  <1>4. \A i \in Upstream : http[s][i].cb = {}
    BY <1>1, <1>3 DEF ChannelsIn, ChannelInv
  <1>5. QED
    BY <1>0, <1>2, <1>3, <1>4

(* A callback that closes a channel closes the client's. *)
LEMMA CloseKeeps ==
    ASSUME TypeOK, NEW s \in Sessions, NEW i \in Idx, NEW h, Freed(s), CloseOrContinue(s, i, h)
    PROVE  i = "CLIENT" /\ channel_should_close(h)
  BY DEF TypeOK, Freed, CloseOrContinue, Continue

LEMMA ResponseKept ==
    ASSUME IInv, Next, NEW s \in Sessions, Freed(s), http[s]["CLIENT"].out, TakenOnce(s)'
    PROVE  "error" \in http[s]["CLIENT"].cb
  <1>0. TypeOK /\ mem[s] = "live" /\ mem'[s] = "freed"
    BY DEF IInv, Freed
  <1>1. StepOf(s)
    <2>1. PICK t \in Sessions : StepOf(t)
      BY DEF Next, StepOf
    <2>2. t = s
      BY <1>0, <2>1, Frame DEF SameFields
    <2>3. QED
      BY <2>1, <2>2
  <1>2. TakenOnce(s) /\ LiveOnce(s)
    BY <1>0, <1>1, AgainGrows DEF LiveOnce
  <1>3. /\ dns[s] = {} /\ NoneLost(s) /\ \A i \in Upstream : http[s][i].cb = {}
        /\ http[s]["CLIENT"].state = "HTTP_MESSAGE_COMPLETE"
    BY <1>2, AnsweredQuiet
  <1>4. ~accept_cb(s)
    BY <1>0 DEF accept_cb
  <1>5. ~read_cb_client_complete(s)
    BY <1>0, <1>2, <1>3 DEF read_cb_client_complete, ReferenceLost, TakenOnce, TypeOK
  <1>6. ASSUME NEW i \in Idx PROVE ~Environment(s, i)
    BY <1>0 DEF Environment, Channel, Connected, ConnectionLost, Readable, PeerCloses, Flushed
  <1>7. ASSUME NEW i \in Upstream PROVE ~UpstreamCallbacks(s, i)
    BY <1>3 DEF UpstreamCallbacks, dnsname_resolved_cb, lost_request_resolved, http_request,
                read_cb_upstream_complete, Parses, Due, NoneLost
  <1>8. ASSUME NEW i \in Idx, Callbacks(s, i) PROVE "error" \in http[s]["CLIENT"].cb
    <2>1. CASE read_cb_closes(s, i)
      <3>1. i = "CLIENT" /\ channel_should_close(http[s]["CLIENT"])
        BY <1>0, <2>1, CloseKeeps DEF read_cb_closes
      <3>2. QED
        BY <1>3, <3>1 DEF channel_should_close
    <2>2. CASE read_cb_partial(s, i)
      BY <1>0, <2>2 DEF read_cb_partial, Continue
    <2>3. CASE read_cb_error(s, i)
      BY <1>3, <2>3 DEF read_cb_error, Parses, Due, Idx
    <2>4. CASE event_cb_error(s, i)
      BY <1>3, <2>4 DEF event_cb_error, Due, Idx
    <2>5. CASE write_cb(s, i)
      <3>1. i = "CLIENT" /\ channel_should_close(Ran(s, "CLIENT", "write"))
        BY <1>0, <2>5, CloseKeeps DEF write_cb
      <3>2. QED
        BY <1>0, <1>3, <3>1, RanFields, StateNames DEF channel_should_close
    <2>6. CASE event_cb_eof(s, i)
      <3> DEFINE h == [Ran(s, "CLIENT", "eof") EXCEPT !.eof = TRUE]
      <3>1. i = "CLIENT" /\ channel_should_close(h)
        BY <1>0, <2>6, CloseKeeps DEF event_cb_eof
      <3>2. Ran(s, "CLIENT", "eof") \in HttpRecord
        BY <1>0, RanType, StateNames DEF TypeOK, Fields
      <3>3. h.state = http[s]["CLIENT"].state /\ h.out = http[s]["CLIENT"].out
        BY <1>0, <3>2, RanFields, StateNames DEF HttpRecord
      <3>4. QED
        BY <1>3, <3>1, <3>3 DEF channel_should_close
    <2>7. QED
      BY <1>8, <2>1, <2>2, <2>3, <2>4, <2>5, <2>6 DEF Callbacks
  <1>9. QED
    BY <1>1, <1>4, <1>5, <1>6, <1>7, <1>8 DEF StepOf

(* A session with output for its client is freed only when its connection  *)
(* has failed, or when data behind the request makes it take that again.   *)
THEOREM NeverDiscarded == Spec => ResponseNotDiscarded
  <1>1. ASSUME IInv, Next, NEW s \in Sessions, Freed(s), http[s]["CLIENT"].out
        PROVE  "error" \in http[s]["CLIENT"].cb \/ again'[s] > 0
    <2>1. again'[s] \in Nat
      <3>1. TypeOK'
        BY <1>1, TypeNext DEF IInv
      <3>2. QED
        BY <3>1 DEF TypeOK
    <2>2. CASE again'[s] = 0
      <3>1. TakenOnce(s)'
        BY <2>2 DEF TakenOnce
      <3>2. QED
        BY <1>1, <3>1, ResponseKept
    <2>3. CASE again'[s] # 0
      BY <2>1, <2>3
    <2>4. QED
      BY <2>2, <2>3
  <1>2. IInv /\ [Next]_vars =>
           [\A s \in Sessions :
              Freed(s) /\ http[s]["CLIENT"].out
                 => "error" \in http[s]["CLIENT"].cb \/ again'[s] > 0]_vars
    BY <1>1
  <1>3. QED
    BY <1>2, IInvAlways, PTL DEF Spec, ResponseNotDiscarded

=============================================================================
