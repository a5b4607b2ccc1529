------------------------ MODULE JokeResponseProofs -------------------------
(***************************************************************************)
(* Proofs about JokeResponse, for all texts and tokens: joke_create fills  *)
(* the block it has allocated to the last byte and no further, what it     *)
(* writes is the text with every token replaced, two calls in a row        *)
(* replace both tokens as one would, and each string is freed by whoever   *)
(* owns it.                                                                *)
(*                                                                         *)
(* Both loops look for the next token, the definition of the result goes   *)
(* letter by letter.  What ties them is the function from each position of *)
(* the joke to what the text from there on becomes: its length is what the *)
(* first loop has still to count, its value what the second has to write.  *)
(***************************************************************************)
EXTENDS JokeResponse, SequenceTheorems, WellFoundedInduction, TLAPS

(* Induction without an operator: a set of numbers has a least one.        *)
LEMMA Least ==
    ASSUME NEW S \in SUBSET Nat, S # {}
    PROVE  Min(S) \in S /\ \A k \in S : Min(S) <= k
<1> DEFINE R == {ss \in Nat \X Nat : ss[1] < ss[2]}
<1>1. IsWellFoundedOn(R, Nat)
    BY NatLessThanWellFounded DEF OpToRel
<1>2. PICK m \in S : \A k \in S : ~(<<k, m>> \in R)
    BY <1>1, WFMin
<1>3. ASSUME NEW k \in S PROVE m <= k
    <2>1. <<k, m>> \notin R /\ k \in Nat /\ m \in Nat
        BY <1>2
    <2>2. <<k, m>> \in Nat \X Nat
        BY <2>1
    <2>3. ~(<<k, m>>[1] < <<k, m>>[2])
        BY <2>1, <2>2
    <2> QED BY <2>1, <2>3
<1> QED BY <1>3 DEF Min

-----------------------------------------------------------------------------
(* What a text becomes, from each of its positions on.                      *)

Hits(text, W, k) == {w \in W : MatchesAt(text, k, w[1])}

RestOf(text, W, r, k) ==
    IF k > Len(text) THEN <<>>
    ELSE IF Hits(text, W, k) = {} THEN <<text[k]>> \o r[k + 1]
    ELSE LET w == CHOOSE w \in Hits(text, W, k) : TRUE IN w[2] \o r[k + Len(w[1])]

Rewrites(r, text, W) ==
    /\ r \in [1..Len(text) + 1 -> Seq(Letter)]
    /\ \A k \in 1..Len(text) + 1 : r[k] = RestOf(text, W, r, k)

(* A text, and what is to stand for which tokens. *)
Texts(text, W) ==
    /\ text \in Seq(Letter)
    /\ \A w \in W : w[1] \in Seq(Letter) /\ w[2] \in Seq(Letter) /\ w[1] # <<>>

LEMMA TextFacts ==
    ASSUME NEW text, NEW W, Texts(text, W)
    PROVE  /\ Len(text) \in Nat /\ \A k \in 1..Len(text) : text[k] \in Letter
           /\ \A w \in W : Len(w[1]) \in Nat \ {0} /\ Len(w[2]) \in Nat
BY LenProperties, EmptySeq, ElementOfSeq DEF Texts

(* A token found ends inside the text. *)
LEMMA HitEnds ==
    ASSUME NEW text, NEW W, Texts(text, W), NEW k \in 1..Len(text), Hits(text, W, k) # {}
    PROVE  LET w == CHOOSE w \in Hits(text, W, k) : TRUE
           IN  /\ w \in W /\ MatchesAt(text, k, w[1])
               /\ k + Len(w[1]) \in k + 1..Len(text) + 1
<1> DEFINE w == CHOOSE w \in Hits(text, W, k) : TRUE
<1>1. w \in Hits(text, W, k)
    OBVIOUS
<1>2. w \in W /\ MatchesAt(text, k, w[1])
    BY <1>1 DEF Hits
<1> HIDE DEF w
<1>3. k + Len(w[1]) \in k + 1..Len(text) + 1
    <2>1. k + Len(w[1]) - 1 <= Len(text)
        BY <1>2 DEF MatchesAt
    <2>2. Len(w[1]) \in Nat \ {0} /\ Len(text) \in Nat
        BY <1>2, TextFacts
    <2> QED BY <2>1, <2>2
<1> QED BY <1>2, <1>3 DEF w

(* The rest depends on what follows only. *)
LEMMA SameRest ==
    ASSUME NEW text, NEW W, Texts(text, W), NEW k \in 1..Len(text) + 1, NEW r, NEW s,
           \A m \in k + 1..Len(text) + 1 : r[m] = s[m]
    PROVE  RestOf(text, W, r, k) = RestOf(text, W, s, k)
<1>1. CASE k > Len(text)
    BY <1>1 DEF RestOf
<1>2. CASE ~(k > Len(text))
    <2>1. k \in 1..Len(text) /\ k + 1 \in k + 1..Len(text) + 1
        BY <1>2, TextFacts
    <2>2. CASE Hits(text, W, k) = {}
        BY <1>2, <2>1, <2>2 DEF RestOf
    <2>3. CASE Hits(text, W, k) # {}
        <3> DEFINE w == CHOOSE w \in Hits(text, W, k) : TRUE
        <3>1. k + Len(w[1]) \in k + 1..Len(text) + 1
            BY <2>1, <2>3, HitEnds
        <3>2. r[k + Len(w[1])] = s[k + Len(w[1])]
            BY <3>1
        <3> QED BY <1>2, <2>3, <3>2 DEF RestOf
    <2> QED BY <2>2, <2>3
<1> QED BY <1>1, <1>2

LEMMA RestIsText ==
    ASSUME NEW text, NEW W, Texts(text, W), NEW k \in 1..Len(text) + 1, NEW r,
           \A m \in k + 1..Len(text) + 1 : r[m] \in Seq(Letter)
    PROVE  RestOf(text, W, r, k) \in Seq(Letter)
<1>1. CASE k > Len(text)
    BY <1>1, EmptySeq DEF RestOf
<1>2. CASE ~(k > Len(text))
    <2>1. k \in 1..Len(text) /\ k + 1 \in k + 1..Len(text) + 1
        BY <1>2, TextFacts
    <2>2. CASE Hits(text, W, k) = {}
        <3>1. <<text[k]>> \in Seq(Letter) /\ r[k + 1] \in Seq(Letter)
            BY <2>1, TextFacts
        <3>2. <<text[k]>> \o r[k + 1] \in Seq(Letter)
            BY <3>1, ConcatProperties
        <3> QED BY <1>2, <2>2, <3>2 DEF RestOf
    <2>3. CASE Hits(text, W, k) # {}
        <3> DEFINE w == CHOOSE w \in Hits(text, W, k) : TRUE
        <3>1. w \in W /\ k + Len(w[1]) \in k + 1..Len(text) + 1
            BY <2>1, <2>3, HitEnds
        <3>2. w[2] \in Seq(Letter) /\ r[k + Len(w[1])] \in Seq(Letter)
            BY <3>1 DEF Texts
        <3>3. w[2] \o r[k + Len(w[1])] \in Seq(Letter)
            <4> HIDE DEF w
            <4> QED BY <3>2, ConcatProperties
        <3> QED BY <1>2, <2>3, <3>3 DEF RestOf
    <2> QED BY <2>2, <2>3
<1> QED BY <1>1, <1>2

(* Such a function exists behind each position, from the last to the first. *)
LEMMA RewriteExists ==
    ASSUME NEW text, NEW W, Texts(text, W)
    PROVE  \E r : Rewrites(r, text, W)
<1> DEFINE L == Len(text)
           Behind(j, r) == /\ r \in [j..L + 1 -> Seq(Letter)]
                           /\ \A k \in j..L + 1 : r[k] = RestOf(text, W, r, k)
           Missing == {d \in 0..L + 1 : ~ \E r : Behind(L + 2 - d, r)}
<1>0. L \in Nat
    BY TextFacts
<1>1. Missing = {}
    <2> SUFFICES ASSUME Missing # {} PROVE FALSE
        OBVIOUS
    <2>1. PICK d \in Missing : \A e \in Missing : d <= e
        <3>1. Missing \in SUBSET Nat
            BY <1>0
        <3> HIDE DEF Missing
        <3> QED BY <3>1, Least
    <2>2. d \in 0..L + 1 /\ ~ \E r : Behind(L + 2 - d, r)
        BY <2>1
    <2>3. CASE d = 0
        <3>1. L + 2 - d = L + 2 /\ L + 2..L + 1 = {}
            BY <1>0, <2>3
        <3>2. Behind(L + 2, [k \in L + 2..L + 1 |-> <<>>])
            BY <3>1
        <3> QED BY <2>2, <3>1, <3>2
    <2>4. CASE d # 0
        <3> DEFINE j == L + 2 - d
        <3>1. /\ d - 1 \in 0..L + 1 /\ ~(d <= d - 1) /\ L + 2 - (d - 1) = j + 1 /\ j \in 1..L + 1
              /\ \A k \in j..L + 1 : /\ k = j \/ k \in j + 1..L + 1
                                     /\ k \in 1..L + 1 /\ k + 1..L + 1 \subseteq j + 1..L + 1
            BY <1>0, <2>2, <2>4
        <3>2. d - 1 \notin Missing
            BY <2>1, <3>1
        <3>3. PICK s : Behind(j + 1, s)
            BY <3>1, <3>2
        <3> DEFINE r == [k \in j..L + 1 |-> IF k = j THEN RestOf(text, W, s, j) ELSE s[k]]
        <3>4. \A k \in j + 1..L + 1 : /\ r[k] = s[k] /\ s[k] \in Seq(Letter)
                                      /\ s[k] = RestOf(text, W, s, k)
            <4>1. \A k \in j + 1..L + 1 : k \in j..L + 1 /\ k # j
                BY <1>0, <3>1
            <4> HIDE DEF j
            <4> QED BY <3>3, <4>1
        <3>5. RestOf(text, W, s, j) \in Seq(Letter)
            <4> HIDE DEF j
            <4> QED BY <3>1, <3>4, RestIsText
        <3>6. r \in [j..L + 1 -> Seq(Letter)]
            <4> HIDE DEF j
            <4> QED BY <3>1, <3>4, <3>5
        <3>7. \A k \in j..L + 1 : r[k] = RestOf(text, W, s, k)
            <4> HIDE DEF j
            <4> QED BY <3>1, <3>4
        <3>8. \A k \in j..L + 1 : RestOf(text, W, r, k) = RestOf(text, W, s, k)
            <4> HIDE DEF j, r
            <4> QED BY <3>1, <3>4, SameRest
        <3>9. Behind(j, r)
            <4> HIDE DEF j, r
            <4> QED BY <3>6, <3>7, <3>8
        <3> QED BY <2>2, <3>9 DEF j
    <2> QED BY <2>3, <2>4
<1>2. L + 1 \in 0..L + 1 /\ L + 2 - (L + 1) = 1
    BY <1>0
<1>3. \E r : Behind(1, r)
    BY <1>1, <1>2
<1> QED BY <1>3 DEF Rewrites

(* And there is only one.                                                   *)
Defines(r, text, W) == r = [k \in 1..Len(text) + 1 |-> RestOf(text, W, r, k)]

LEMMA OneRewriting ==
    ASSUME NEW text, NEW W, Texts(text, W), NEW r, Defines(r, text, W), NEW s, Defines(s, text, W)
    PROVE  r = s
<1> DEFINE L == Len(text)
           Apiece == {d \in 0..L : r[L + 1 - d] # s[L + 1 - d]}
<1>0. /\ L \in Nat
      /\ \A k \in 1..L + 1 : r[k] = RestOf(text, W, r, k) /\ s[k] = RestOf(text, W, s, k)
    BY TextFacts DEF Defines
<1>1. Apiece = {}
    <2> SUFFICES ASSUME Apiece # {} PROVE FALSE
        OBVIOUS
    <2>1. PICK d \in Apiece : \A e \in Apiece : d <= e
        <3>1. Apiece \in SUBSET Nat
            BY <1>0
        <3> HIDE DEF Apiece
        <3> QED BY <3>1, Least
    <2> DEFINE j == L + 1 - d
    <2>2. d \in 0..L /\ j \in 1..L + 1 /\ r[j] # s[j]
        BY <1>0, <2>1
    <2>3. \A k \in j + 1..L + 1 : r[k] = s[k]
        <3> SUFFICES ASSUME NEW k \in j + 1..L + 1, r[k] # s[k] PROVE FALSE
            OBVIOUS
        <3>1. L + 1 - k \in 0..L /\ L + 1 - (L + 1 - k) = k /\ ~(d <= L + 1 - k)
            BY <1>0, <2>2
        <3>2. L + 1 - k \in Apiece
            BY <3>1
        <3> QED BY <2>1, <3>1, <3>2
    <2> HIDE DEF j
    <2>4. RestOf(text, W, r, j) = RestOf(text, W, s, j)
        BY <2>2, <2>3, SameRest
    <2> QED BY <1>0, <2>2, <2>4
<1>2. \A k \in 1..L + 1 : L + 1 - k \in 0..L /\ L + 1 - (L + 1 - k) = k
    BY <1>0
<1>3. \A k \in 1..L + 1 : r[k] = s[k]
    BY <1>1, <1>2
<1>4. \A k \in 1..L + 1 : RestOf(text, W, r, k) = RestOf(text, W, s, k)
    BY <1>0, <1>3
<1> QED BY <1>4 DEF Defines

(* Replaced is the value of such a function at the first position.          *)
LEMMA ReplacedIs ==
    ASSUME NEW text, NEW W, Texts(text, W)
    PROVE  /\ \E r : Rewrites(r, text, W)
           /\ \A r : Rewrites(r, text, W) => r[1] = Replaced(text, W)
<1>1. \E r : Rewrites(r, text, W)
    BY RewriteExists
<1>2. ASSUME NEW s, Rewrites(s, text, W) PROVE s[1] = Replaced(text, W)
    <2> DEFINE R == CHOOSE r : Defines(r, text, W)
    <2>1. Defines(s, text, W)
        BY <1>2 DEF Rewrites, Defines
    <2>2. Defines(R, text, W)
        BY <2>1
    <2>3. R = s
        <3> HIDE DEF R
        <3> QED BY <2>1, <2>2, OneRewriting
    <2>4. Replaced(text, W) = R[1]
        BY DEF Replaced, Defines, RestOf, Hits
    <2> QED BY <2>3, <2>4
<1> QED BY <1>1, <1>2

(* One token and what stands for it. *)
LEMMA OneSwap ==
    ASSUME NEW text, NEW token, NEW with, NEW k, NEW r
    PROVE  /\ Hits(text, {<<token, with>>}, k) = {} <=> ~MatchesAt(text, k, token)
           /\ ~(k > Len(text)) /\ MatchesAt(text, k, token)
              => RestOf(text, {<<token, with>>}, r, k) = with \o r[k + Len(token)]
<1>1. CASE MatchesAt(text, k, token)
    <2>1. Hits(text, {<<token, with>>}, k) = {<<token, with>>}
        BY <1>1 DEF Hits
    <2>2. (CHOOSE w \in Hits(text, {<<token, with>>}, k) : TRUE) = <<token, with>>
        BY <2>1
    <2> DEFINE w == CHOOSE w \in Hits(text, {<<token, with>>}, k) : TRUE
    <2>3. ~(k > Len(text)) => RestOf(text, {<<token, with>>}, r, k) = w[2] \o r[k + Len(w[1])]
        BY <2>1 DEF RestOf
    <2>4. w = <<token, with>>
        BY <2>2
    <2> HIDE DEF w
    <2>5. w[1] = token /\ w[2] = with
        BY <2>4
    <2>6. Hits(text, {<<token, with>>}, k) # {}
        BY <2>1
    <2> QED BY <1>1, <2>3, <2>5, <2>6
<1>2. CASE ~MatchesAt(text, k, token)
    BY <1>2 DEF Hits
<1> QED BY <1>1, <1>2

LEMMA Associates == \A a, b, c \in Seq(Letter) : (a \o b) \o c = a \o (b \o c)
BY ConcatAssociative

(* Up to the next token a text stays as it is.                               *)
Skips(r, text, W) ==
    \A m \in 1..Len(text) + 1 : \A q \in 1..m :
       (\A k \in q..m - 1 : Hits(text, W, k) = {})
       => r[q] = SubSeq(text, q, m - 1) \o r[m]

LEMMA RewriteSkips ==
    ASSUME NEW text, NEW W, Texts(text, W), NEW r, Rewrites(r, text, W)
    PROVE  Skips(r, text, W)
<1> SUFFICES ASSUME NEW m \in 1..Len(text) + 1, NEW q \in 1..m,
                    \A k \in q..m - 1 : Hits(text, W, k) = {}
             PROVE  r[q] = SubSeq(text, q, m - 1) \o r[m]
    BY DEF Skips
<1> DEFINE L == Len(text)
           Wrong == {d \in 0..m - q : r[m - d] # SubSeq(text, m - d, m - 1) \o r[m]}
<1>0. L \in Nat /\ m \in Nat /\ q \in Nat /\ 1 <= q /\ q <= m /\ m <= L + 1
    BY TextFacts
<1>1. /\ \A k \in 1..L + 1 : r[k] \in Seq(Letter) /\ r[k] = RestOf(text, W, r, k)
      /\ \A k \in 1..L : text[k] \in Letter
    BY TextFacts DEF Rewrites
<1>2. Wrong = {}
    <2> SUFFICES ASSUME Wrong # {} PROVE FALSE
        OBVIOUS
    <2>1. PICK d \in Wrong : \A e \in Wrong : d <= e
        <3>1. Wrong \in SUBSET Nat
            BY <1>0
        <3> HIDE DEF Wrong
        <3> QED BY <3>1, Least
    <2>2. d \in 0..m - q /\ r[m - d] # SubSeq(text, m - d, m - 1) \o r[m]
        BY <2>1
    <2>3. CASE d = 0
        <3>1. m - d = m /\ m - 1 < m /\ m \in 1..L + 1 /\ m - 1 \in Int
            BY <1>0, <2>3
        <3>2. SubSeq(text, m, m - 1) = <<>>
            BY <1>0, <3>1, SubSeqEmpty
        <3>3. <<>> \o r[m] = r[m]
            BY <1>1, <3>1, ConcatEmptySeq
        <3> QED BY <2>2, <3>1, <3>2, <3>3
    <2>4. CASE d # 0
        <3>1. /\ m - d \in 1..L /\ m - d \in q..m - 1 /\ m - 1 \in m - d..L
              /\ d - 1 \in 0..m - q /\ ~(d <= d - 1) /\ m - (d - 1) = (m - d) + 1
            BY <1>0, <2>2, <2>4
        <3>2. r[(m - d) + 1] = SubSeq(text, (m - d) + 1, m - 1) \o r[m]
            BY <2>1, <3>1
        <3>3. r[m - d] = <<text[m - d]>> \o r[(m - d) + 1]
            <4>1. m - d \in 1..L + 1 /\ ~(m - d > L) /\ Hits(text, W, m - d) = {}
                BY <1>0, <3>1
            <4>2. r[m - d] = RestOf(text, W, r, m - d)
                BY <1>1, <4>1
            <4> QED BY <4>1, <4>2 DEF RestOf
        <3>4. SubSeq(text, m - d, m - 1) = <<text[m - d]>> \o SubSeq(text, (m - d) + 1, m - 1)
            BY <3>1, SubSeqRecursiveFirst DEF Texts
        <3>5. <<text[m - d]>> \in Seq(Letter)
            BY <1>1, <3>1
        <3>6. SubSeq(text, (m - d) + 1, m - 1) \in Seq(Letter)
            <4>1. \A k \in (m - d) + 1..m - 1 : text[k] \in Letter
                BY <1>0, <1>1, <3>1
            <4>2. (m - d) + 1 \in Int /\ m - 1 \in Int
                BY <1>0, <3>1
            <4> QED BY <4>1, <4>2, SubSeqProperties
        <3>7. r[m] \in Seq(Letter)
            BY <1>0, <1>1
        <3>8. (<<text[m - d]>> \o SubSeq(text, (m - d) + 1, m - 1)) \o r[m]
              = <<text[m - d]>> \o (SubSeq(text, (m - d) + 1, m - 1) \o r[m])
            BY <3>5, <3>6, <3>7, Associates
        <3> QED BY <2>2, <3>2, <3>3, <3>4, <3>8
    <2> QED BY <2>3, <2>4
<1>3. m - q \in 0..m - q /\ m - (m - q) = q
    BY <1>0
<1> QED BY <1>2, <1>3

-----------------------------------------------------------------------------
(* Two passes over a text.                                                   *)

(* What follows a part of a text becomes what it would become alone.         *)
LEMMA RestAlone ==
    ASSUME NEW a \in Seq(Letter), NEW x, NEW W, Texts(x, W),
           NEW r, Rewrites(r, a \o x, W)
    PROVE  r[Len(a) + 1] = Replaced(x, W)
<1> DEFINE A == Len(a)
           L == Len(x)
           y == a \o x
           q == [k \in 1..L + 1 |-> r[k + A]]
<1>1. /\ A \in Nat /\ L \in Nat /\ Len(y) = A + L /\ y \in Seq(Letter)
      /\ \A k \in 1..L : y[k + A] = x[k]
    <2>1. x \in Seq(Letter) /\ A \in Nat /\ L \in Nat
        BY LenProperties DEF Texts
    <2>2. /\ y \in Seq(Letter) /\ Len(y) = A + L
          /\ \A i \in 1..A + L : y[i] = IF i <= A THEN a[i] ELSE x[i - A]
        BY <2>1, ConcatProperties
    <2>3. \A k \in 1..L : k + A \in 1..A + L /\ ~(k + A <= A) /\ (k + A) - A = k
        BY <2>1
    <2> HIDE DEF A, L, y
    <2> QED BY <2>1, <2>2, <2>3
<1>2. /\ r \in [1..(A + L) + 1 -> Seq(Letter)]
      /\ \A k \in 1..(A + L) + 1 : r[k] = RestOf(y, W, r, k)
    BY <1>1 DEF Rewrites
<1> HIDE DEF A, L, y
<1>3. \A k \in 1..L + 1 : k + A \in 1..(A + L) + 1
    BY <1>1
<1>4. q \in [1..L + 1 -> Seq(Letter)]
    BY <1>2, <1>3
<1>5. ASSUME NEW k \in 1..L PROVE Hits(y, W, k + A) = Hits(x, W, k)
    <2> SUFFICES ASSUME NEW w \in W
                 PROVE  MatchesAt(y, k + A, w[1]) <=> MatchesAt(x, k, w[1])
        BY DEF Hits
    <2>1. Len(w[1]) \in Nat \ {0}
        BY TextFacts
    <2>2. k + A + Len(w[1]) - 1 <= Len(y) <=> k + Len(w[1]) - 1 <= L
        <3> DEFINE u == Len(w[1])
                   v == Len(y)
        <3>1. u \in Nat /\ v = A + L
            BY <1>1, <2>1
        <3> HIDE DEF u, v
        <3>2. k + A + u - 1 <= v <=> k + u - 1 <= L
            BY <1>1, <3>1
        <3> QED BY <3>2 DEF u, v
    <2>3. ASSUME k + Len(w[1]) - 1 <= L, NEW j \in 1..Len(w[1])
          PROVE  y[k + A + j - 1] = x[k + j - 1]
        <3>1. k + j - 1 \in 1..L /\ (k + j - 1) + A = k + A + j - 1
            BY <1>1, <2>1, <2>3
        <3>2. y[(k + j - 1) + A] = x[k + j - 1]
            BY <1>1, <3>1
        <3> QED BY <3>1, <3>2
    <2> QED BY <2>2, <2>3 DEF MatchesAt, L
<1>6. ASSUME NEW k \in 1..L + 1 PROVE q[k] = RestOf(x, W, q, k)
    <2>1. q[k] = RestOf(y, W, r, k + A)
        BY <1>2, <1>3
    <2>2. CASE k > L
        <3>1. k + A > Len(y) /\ k > Len(x)
            BY <1>1, <2>2 DEF L
        <3> QED BY <2>1, <3>1 DEF RestOf
    <2>3. CASE ~(k > L)
        <3>1. k \in 1..L /\ ~(k + A > Len(y)) /\ ~(k > Len(x)) /\ k + 1 \in 1..L + 1
            BY <1>1, <2>3 DEF L
        <3>2. y[k + A] = x[k] /\ q[k + 1] = r[(k + A) + 1]
            <4>1. (k + 1) + A = (k + A) + 1
                BY <1>1
            <4> QED BY <1>1, <3>1, <4>1
        <3>3. CASE Hits(x, W, k) = {}
            BY <1>5, <2>1, <3>1, <3>2, <3>3 DEF RestOf
        <3>4. CASE Hits(x, W, k) # {}
            <4> DEFINE w == CHOOSE w \in Hits(x, W, k) : TRUE
            <4>1. w \in W /\ k + Len(w[1]) \in k + 1..L + 1
                BY <3>1, <3>4, HitEnds DEF L
            <4>2. RestOf(x, W, q, k) = w[2] \o q[k + Len(w[1])]
                BY <3>1, <3>4 DEF RestOf
            <4>3. RestOf(y, W, r, k + A) = w[2] \o r[(k + A) + Len(w[1])]
                BY <1>5, <3>1, <3>4 DEF RestOf
            <4> HIDE DEF w
            <4>4. k + Len(w[1]) \in 1..L + 1 /\ (k + Len(w[1])) + A = (k + A) + Len(w[1])
                <5> DEFINE u == Len(w[1])
                <5>1. u \in Nat
                    BY <4>1, TextFacts
                <5>2. k + u \in k + 1..L + 1
                    BY <4>1
                <5> HIDE DEF u
                <5>3. k + u \in 1..L + 1 /\ (k + u) + A = (k + A) + u
                    BY <1>1, <3>1, <5>1, <5>2
                <5> QED BY <5>3 DEF u
            <4>5. q[k + Len(w[1])] = r[(k + A) + Len(w[1])]
                BY <4>4
            <4> QED BY <2>1, <4>2, <4>3, <4>5
        <3> QED BY <3>3, <3>4
    <2> QED BY <2>2, <2>3
<1>7. Rewrites(q, x, W)
    <2> HIDE DEF q
    <2> QED BY <1>4, <1>6 DEF Rewrites, L
<1>8. q[1] = Replaced(x, W)
    <2> HIDE DEF q
    <2> QED BY <1>7, ReplacedIs
<1>9. 1 \in 1..L + 1 /\ 1 + A = A + 1
    BY <1>1
<1> QED BY <1>8, <1>9 DEF A

(* A part without a token stays as it is.                                    *)
LEMMA ReplacedBehind ==
    ASSUME NEW a \in Seq(Letter), NEW x, NEW W, Texts(x, W),
           \A k \in 1..Len(a) : Hits(a \o x, W, k) = {}
    PROVE  Replaced(a \o x, W) = a \o Replaced(x, W)
<1>1. x \in Seq(Letter) /\ Len(a) \in Nat /\ Len(x) \in Nat
    BY LenProperties DEF Texts
<1>2. /\ Len(a \o x) = Len(a) + Len(x) /\ a \o x \in Seq(Letter)
      /\ \A k \in 1..Len(a) + Len(x) : (a \o x)[k] = IF k <= Len(a) THEN a[k] ELSE x[k - Len(a)]
    BY <1>1, ConcatProperties
<1>3. Texts(a \o x, W)
    BY <1>2 DEF Texts
<1>4. PICK r : Rewrites(r, a \o x, W) /\ r[1] = Replaced(a \o x, W)
    BY <1>3, ReplacedIs
<1>5. Skips(r, a \o x, W)
    BY <1>3, <1>4, RewriteSkips
<1>6. r[1] = SubSeq(a \o x, 1, Len(a)) \o r[Len(a) + 1]
    <2>1. /\ Len(a) + 1 \in 1..Len(a \o x) + 1 /\ 1 \in 1..Len(a) + 1
          /\ (Len(a) + 1) - 1 = Len(a)
        BY <1>1, <1>2
    <2> QED BY <1>5, <2>1 DEF Skips
<1>7. SubSeq(a \o x, 1, Len(a)) = a
    <2> DEFINE b == SubSeq(a \o x, 1, Len(a))
    <2>1. \A k \in 1..Len(a) : (a \o x)[k] = a[k] /\ a[k] \in Letter
        <3>1. \A k \in 1..Len(a) : k \in 1..Len(a) + Len(x) /\ k <= Len(a)
            BY <1>1
        <3>2. \A k \in 1..Len(a) : a[k] \in Letter
            BY ElementOfSeq
        <3> QED BY <1>2, <3>1, <3>2
    <2>2. /\ b \in Seq(Letter) /\ Len(b) = IF 1 <= Len(a) THEN Len(a) - 1 + 1 ELSE 0
          /\ \A k \in 1..Len(a) - 1 + 1 : b[k] = (a \o x)[1 + k - 1]
        <3>1. 1 \in Int /\ Len(a) \in Int /\ \A k \in 1..Len(a) : (a \o x)[k] \in Letter
            BY <1>1, <2>1
        <3> QED BY <3>1, SubSeqProperties
    <2> HIDE DEF b
    <2>3. Len(b) = Len(a)
        BY <1>1, <2>2
    <2>4. \A k \in 1..Len(b) : b[k] = a[k]
        <3>1. \A k \in 1..Len(b) : k \in 1..Len(a) - 1 + 1 /\ 1 + k - 1 = k /\ k \in 1..Len(a)
            BY <1>1, <2>3
        <3> QED BY <2>1, <2>2, <3>1
    <2>5. b = a
        BY <2>2, <2>3, <2>4, SeqEqual
    <2> QED BY <2>5 DEF b
<1>8. r[Len(a) + 1] = Replaced(x, W)
    BY <1>4, RestAlone
<1> QED BY <1>4, <1>6, <1>7, <1>8

(* A token at the front is replaced. *)
LEMMA ReplacedHit ==
    ASSUME NEW token, NEW with, NEW x, Texts(x, {<<token, with>>})
    PROVE  Replaced(token \o x, {<<token, with>>}) = with \o Replaced(x, {<<token, with>>})
<1> DEFINE W == {<<token, with>>}
           y == token \o x
<1>1. /\ x \in Seq(Letter) /\ token \in Seq(Letter) /\ with \in Seq(Letter)
      /\ Len(token) \in Nat \ {0} /\ Len(x) \in Nat
    <2>1. token \in Seq(Letter) /\ with \in Seq(Letter) /\ token # <<>> /\ x \in Seq(Letter)
        BY DEF Texts
    <2> QED BY <2>1, LenProperties, EmptySeq
<1>2. /\ y \in Seq(Letter) /\ Len(y) = Len(token) + Len(x)
      /\ \A k \in 1..Len(token) + Len(x) : y[k] = IF k <= Len(token) THEN token[k] ELSE x[k - Len(token)]
    BY <1>1, ConcatProperties
<1> HIDE DEF y
<1>3. Texts(y, W)
    BY <1>2 DEF Texts
<1>4. PICK r : Rewrites(r, y, W) /\ r[1] = Replaced(y, W)
    BY <1>3, ReplacedIs
<1>5. MatchesAt(y, 1, token)
    <2>1. \A k \in 1..Len(token) : k \in 1..Len(token) + Len(x) /\ k <= Len(token) /\ 1 + k - 1 = k
        BY <1>1
    <2>2. 1 + Len(token) - 1 <= Len(y)
        BY <1>1, <1>2
    <2> QED BY <1>2, <2>1, <2>2 DEF MatchesAt
<1>6. r[1] = with \o r[1 + Len(token)]
    <2>1. 1 \in 1..Len(y) + 1 /\ ~(1 > Len(y))
        BY <1>1, <1>2
    <2>2. r[1] = RestOf(y, W, r, 1)
        BY <1>4, <2>1 DEF Rewrites
    <2> QED BY <1>5, <2>1, <2>2, OneSwap
<1>7. r[Len(token) + 1] = Replaced(x, W)
    BY <1>1, <1>4, RestAlone DEF y
<1>8. 1 + Len(token) = Len(token) + 1
    BY <1>1
<1> QED BY <1>4, <1>6, <1>7, <1>8 DEF y

LEMMA ReplacedNothing ==
    ASSUME NEW W, Texts(<<>>, W)
    PROVE  Replaced(<<>>, W) = <<>>
<1>1. PICK r : Rewrites(r, <<>>, W) /\ r[1] = Replaced(<<>>, W)
    BY ReplacedIs
<1>2. Len(<<>>) = 0
    BY EmptySeq
<1>3. r[1] = RestOf(<<>>, W, r, 1)
    BY <1>1, <1>2 DEF Rewrites
<1> QED BY <1>1, <1>2, <1>3 DEF RestOf

(* Where the surname's token is, that of the name does not begin.            *)
LEMMA NoNameInside ==
    ASSUME TokensApart, NEW text, NEW k \in Nat, MatchesAt(text, k, SurnameToken),
           NEW m \in k..k + Len(SurnameToken) - 1
    PROVE  ~MatchesAt(text, m, NameToken)
<1> SUFFICES ASSUME MatchesAt(text, m, NameToken) PROVE FALSE
    OBVIOUS
<1> DEFINE S == Len(SurnameToken)
           j == m - k
<1>1. S \in Nat /\ Len(NameToken) \in Nat
    BY JokeResponseAssumption, LenProperties
<1>2. j \in 0..S - 1 /\ m = k + j /\ j \in Nat
    BY <1>1
<1>3. PICK i \in 1..Len(NameToken) : i + j <= S /\ NameToken[i] # SurnameToken[i + j]
    BY <1>2 DEF TokensApart
<1>4. text[m + i - 1] = NameToken[i]
    BY DEF MatchesAt
<1>5. i + j \in 1..S /\ k + (i + j) - 1 = m + i - 1
    BY <1>1, <1>2, <1>3
<1>6. text[k + (i + j) - 1] = SurnameToken[i + j]
    BY <1>5 DEF MatchesAt
<1> QED BY <1>3, <1>4, <1>5, <1>6

(* No token reaches into the name that has been put in.                      *)
LEMMA NotInName ==
    ASSUME NEW name \in Seq(Letter), NameApart(name),
           NEW a \in Seq(Letter), NEW x \in Seq(Letter),
           NEW k \in 1..Len(a) + Len(name), k + Len(SurnameToken) > Len(a) + 1
    PROVE  ~MatchesAt(a \o (name \o x), k, SurnameToken)
<1> SUFFICES ASSUME MatchesAt(a \o (name \o x), k, SurnameToken) PROVE FALSE
    OBVIOUS
<1> DEFINE A == Len(a)
           S == Len(SurnameToken)
           d == k - A - 1
           y == a \o (name \o x)
<1>1. /\ A \in Nat /\ Len(x) \in Nat /\ Len(name) \in Nat /\ S \in Nat
      /\ SurnameToken \in Seq(Letter)
    BY JokeResponseAssumption, LenProperties
<1>2. /\ name \o x \in Seq(Letter) /\ Len(name \o x) = Len(name) + Len(x)
      /\ \A i \in 1..Len(name) + Len(x) :
            (name \o x)[i] = IF i <= Len(name) THEN name[i] ELSE x[i - Len(name)]
    BY ConcatProperties
<1>3. \A i \in 1..A + Len(name \o x) : y[i] = IF i <= A THEN a[i] ELSE (name \o x)[i - A]
    BY <1>2, ConcatProperties
<1>4. d \in 1 - S..Len(name) - 1
    BY <1>1
<1>5. PICK j \in 1..S : j + d \in 1..Len(name) /\ name[j + d] # SurnameToken[j]
    BY <1>4 DEF NameApart
<1>6. /\ k + j - 1 \in 1..A + Len(name \o x) /\ ~(k + j - 1 <= A) /\ k + j - 1 - A = j + d
      /\ j + d \in 1..Len(name) + Len(x) /\ j + d <= Len(name)
    BY <1>1, <1>2, <1>5
<1> DEFINE q == name \o x
           pos == k + j - 1
           off == j + d
<1>7. y[pos] = name[off]
    <2>1. \A i \in 1..A + Len(q) : y[i] = IF i <= A THEN a[i] ELSE q[i - A]
        BY <1>3
    <2>2. \A i \in 1..Len(name) + Len(x) : q[i] = IF i <= Len(name) THEN name[i] ELSE x[i - Len(name)]
        BY <1>2
    <2>3. /\ pos \in 1..A + Len(q) /\ ~(pos <= A) /\ pos - A = off
          /\ off \in 1..Len(name) + Len(x) /\ off <= Len(name)
        BY <1>6
    <2> HIDE DEF y, A, q, pos, off
    <2>4. y[pos] = q[pos - A]
        BY <2>1, <2>3
    <2>5. q[off] = name[off]
        BY <2>2, <2>3
    <2> QED BY <2>3, <2>4, <2>5
<1>8. y[pos] = SurnameToken[j]
    BY <1>5 DEF MatchesAt
<1> QED BY <1>5, <1>7, <1>8

(* Where neither token is, the first pass leaves nothing to the second.      *)
LEMMA NothingNew ==
    ASSUME NEW text, NEW name, Texts(text, {<<NameToken, name>>}),
           NEW r, Rewrites(r, text, {<<NameToken, name>>}),
           name # <<>>, NameApart(name),
           NEW k \in 1..Len(text), ~MatchesAt(text, k, SurnameToken)
    PROVE  ~MatchesAt(r[k], 1, SurnameToken)
<1> SUFFICES ASSUME MatchesAt(r[k], 1, SurnameToken) PROVE FALSE
    OBVIOUS
<1> DEFINE L == Len(text)
           S == Len(SurnameToken)
           W == {<<NameToken, name>>}
           Found == {m \in k..L : MatchesAt(text, m, NameToken) /\ m < k + S}
<1>1. /\ L \in Nat /\ S \in Nat \ {0} /\ Len(NameToken) \in Nat \ {0}
      /\ text \in Seq(Letter) /\ name \in Seq(Letter)
      /\ \A m \in 1..L : text[m] \in Letter
    BY JokeResponseAssumption, LenProperties, EmptySeq, TextFacts DEF Texts
<1>2. /\ \A m \in 1..L + 1 : r[m] \in Seq(Letter) /\ r[m] = RestOf(text, W, r, m)
      /\ Skips(r, text, W)
    BY RewriteSkips DEF Rewrites
<1>3. /\ S <= Len(r[k]) /\ \A j \in 1..S : r[k][j] = SurnameToken[j]
    <2>1. 1 + S - 1 <= Len(r[k]) /\ \A j \in 1..S : r[k][1 + j - 1] = SurnameToken[j]
        BY DEF MatchesAt
    <2>2. \A j \in 1..S : 1 + j - 1 = j
        BY <1>1
    <2> QED BY <1>1, <2>1, <2>2
<1>4. ASSUME NEW e \in k..L + 1, \A m \in k..e - 1 : ~MatchesAt(text, m, NameToken)
      PROVE  /\ SubSeq(text, k, e - 1) \in Seq(Letter) /\ Len(SubSeq(text, k, e - 1)) = e - k
             /\ \A j \in 1..e - k : SubSeq(text, k, e - 1)[j] = text[k + j - 1]
             /\ r[k] = SubSeq(text, k, e - 1) \o r[e]
    <2>1. k \in Int /\ e - 1 \in Int /\ \A m \in k..e - 1 : text[m] \in Letter
        BY <1>1
    <2>2. /\ SubSeq(text, k, e - 1) \in Seq(Letter)
          /\ Len(SubSeq(text, k, e - 1)) = IF k <= e - 1 THEN (e - 1) - k + 1 ELSE 0
          /\ \A j \in 1..(e - 1) - k + 1 : SubSeq(text, k, e - 1)[j] = text[k + j - 1]
        BY <2>1, SubSeqProperties
    <2>3. (IF k <= e - 1 THEN (e - 1) - k + 1 ELSE 0) = e - k /\ (e - 1) - k + 1 = e - k
        BY <1>1
    <2>4. e \in 1..L + 1 /\ k \in 1..e /\ \A m \in k..e - 1 : Hits(text, W, m) = {}
        <3>1. \A m \in k..e - 1 : Hits(text, W, m) = {}
            BY <1>4, OneSwap
        <3>2. k \in 1..L /\ e \in k..L + 1
            OBVIOUS
        <3>3. e \in 1..L + 1 /\ k \in 1..e
            BY <1>1, <3>2
        <3> QED BY <3>1, <3>3
    <2>5. r[k] = SubSeq(text, k, e - 1) \o r[e]
        BY <1>2, <2>4 DEF Skips
    <2> QED BY <2>2, <2>3, <2>5
<1>5. CASE Found = {}
    <2>1. \A m \in k..L : m < k + S => ~MatchesAt(text, m, NameToken)
        BY <1>5
    <2>2. CASE k + S <= L + 1
        <3> DEFINE a == SubSeq(text, k, (k + S) - 1)
        <3>1. k + S \in k..L + 1 /\ \A m \in k..(k + S) - 1 : m \in k..L /\ m < k + S
            BY <1>1, <2>2
        <3>2. /\ a \in Seq(Letter) /\ Len(a) = (k + S) - k /\ r[k] = a \o r[k + S]
              /\ \A j \in 1..(k + S) - k : a[j] = text[k + j - 1]
            BY <1>4, <2>1, <3>1
        <3>3. r[k + S] \in Seq(Letter) /\ (k + S) - k = S /\ k + S - 1 <= L
            BY <1>1, <1>2, <3>1, <2>2
        <3> HIDE DEF a
        <3>4. \A j \in 1..S : r[k][j] = a[j]
            <4>1. \A j \in 1..S + Len(r[k + S]) :
                     (a \o r[k + S])[j] = IF j <= S THEN a[j] ELSE r[k + S][j - S]
                BY <3>2, <3>3, ConcatProperties
            <4>2. Len(r[k + S]) \in Nat
                BY <3>3, LenProperties
            <4>3. \A j \in 1..S : j \in 1..S + Len(r[k + S]) /\ j <= S
                BY <1>1, <4>2
            <4> QED BY <3>2, <4>1, <4>3
        <3>5. \A j \in 1..S : text[k + j - 1] = SurnameToken[j]
            BY <1>3, <3>2, <3>3, <3>4
        <3> QED BY <3>3, <3>5 DEF MatchesAt
    <2>3. CASE ~(k + S <= L + 1)
        <3>1. L + 1 \in k..L + 1 /\ \A m \in k..(L + 1) - 1 : m \in k..L /\ m < k + S
            BY <1>1, <2>3
        <3>2. r[k] = SubSeq(text, k, (L + 1) - 1) \o r[L + 1]
              /\ SubSeq(text, k, (L + 1) - 1) \in Seq(Letter)
              /\ Len(SubSeq(text, k, (L + 1) - 1)) = (L + 1) - k
            BY <1>4, <2>1, <3>1
        <3>3. r[L + 1] = <<>>
            <4>1. L + 1 \in 1..L + 1 /\ L + 1 > L
                BY <1>1
            <4> QED BY <1>2, <4>1 DEF RestOf
        <3>4. Len(r[k]) = (L + 1) - k
            BY <3>2, <3>3, ConcatEmptySeq
        <3> QED BY <1>1, <1>3, <2>3, <3>4
    <2> QED BY <2>2, <2>3
<1>6. CASE Found # {}
    <2> DEFINE m == Min(Found)
    <2>1. m \in Found /\ \A f \in Found : m <= f
        <3>1. Found \in SUBSET Nat
            BY <1>1
        <3> HIDE DEF Found
        <3> QED BY <1>6, <3>1, Least
    <2> HIDE DEF m
    <2>2. m \in k..L /\ MatchesAt(text, m, NameToken) /\ m < k + S
        BY <2>1
    <2>3. \A f \in k..m - 1 : ~MatchesAt(text, f, NameToken)
        <3> SUFFICES ASSUME NEW f \in k..m - 1, MatchesAt(text, f, NameToken) PROVE FALSE
            OBVIOUS
        <3>1. f \in k..L /\ f < k + S /\ ~(m <= f)
            BY <1>1, <2>2
        <3> QED BY <2>1, <3>1
    <2> DEFINE a == SubSeq(text, k, m - 1)
    <2>4. a \in Seq(Letter) /\ Len(a) = m - k /\ r[k] = a \o r[m]
        <3>1. m \in k..L + 1
            BY <1>1, <2>2
        <3> QED BY <1>4, <2>3, <3>1
    <2>5. r[m] = name \o r[m + Len(NameToken)] /\ r[m + Len(NameToken)] \in Seq(Letter)
        <3>1. m \in 1..L + 1 /\ ~(m > L)
            BY <1>1, <2>2
        <3>2. r[m] = name \o r[m + Len(NameToken)]
            BY <1>2, <2>2, <3>1, OneSwap
        <3>3. m + Len(NameToken) \in 1..L + 1
            BY <1>1, <2>2 DEF MatchesAt
        <3> QED BY <1>2, <3>2, <3>3
    <2> HIDE DEF a
    <2>6. 1 \in 1..Len(a) + Len(name) /\ 1 + S > Len(a) + 1
        <3>1. Len(name) \in Nat \ {0}
            BY <1>1, EmptySeq
        <3> QED BY <1>1, <2>2, <2>4, <3>1
    <2>7. ~MatchesAt(a \o (name \o r[m + Len(NameToken)]), 1, SurnameToken)
        BY <1>1, <2>4, <2>5, <2>6, NotInName
    <2> QED BY <2>4, <2>5, <2>7
<1> QED BY <1>5, <1>6

(* For a text one pass for both tokens is what two passes make of it.        *)
LEMMA TwoPasses ==
    ASSUME TokensApart, NEW text \in Seq(Letter), NEW name \in Seq(Letter), name # <<>>,
           NameApart(name), NEW surname \in Seq(Letter)
    PROVE  Replaced(Replaced(text, {<<NameToken, name>>}), {<<SurnameToken, surname>>})
           = Replaced(text, {<<NameToken, name>>, <<SurnameToken, surname>>})
<1> DEFINE L == Len(text)
           N == Len(NameToken)
           S == Len(SurnameToken)
           W1 == {<<NameToken, name>>}
           W2 == {<<SurnameToken, surname>>}
           B == {<<NameToken, name>>, <<SurnameToken, surname>>}
<1>1. /\ L \in Nat /\ N \in Nat \ {0} /\ S \in Nat \ {0}
      /\ NameToken \in Seq(Letter) /\ NameToken # <<>>
      /\ SurnameToken \in Seq(Letter) /\ SurnameToken # <<>>
      /\ \A k \in 1..L : text[k] \in Letter
    BY JokeResponseAssumption, LenProperties, EmptySeq, ElementOfSeq
<1>2. /\ Texts(text, W1) /\ Texts(text, B)
      /\ \A x \in Seq(Letter) : Texts(x, W2)
    BY <1>1 DEF Texts
<1>3. PICK r : Rewrites(r, text, W1) /\ r[1] = Replaced(text, W1)
    BY <1>2, ReplacedIs
<1>4. PICK b : Rewrites(b, text, B) /\ b[1] = Replaced(text, B)
    BY <1>2, ReplacedIs
<1>5. /\ \A k \in 1..L + 1 : r[k] \in Seq(Letter) /\ r[k] = RestOf(text, W1, r, k)
      /\ \A k \in 1..L + 1 : b[k] = RestOf(text, B, b, k)
    BY <1>3, <1>4 DEF Rewrites
<1>6. ASSUME NEW k \in 1..L + 1, \A m \in k + 1..L + 1 : Replaced(r[m], W2) = b[m]
      PROVE  Replaced(r[k], W2) = b[k]
    <2>1. CASE k = L + 1
        <3>1. k > L
            BY <1>1, <2>1
        <3>2. r[k] = <<>> /\ b[k] = <<>>
            BY <1>5, <3>1 DEF RestOf
        <3>3. Texts(<<>>, W2)
            BY <1>2, EmptySeq
        <3> QED BY <3>2, <3>3, ReplacedNothing
    <2>2. CASE k # L + 1 /\ MatchesAt(text, k, NameToken)
        <3>1. k \in 1..L /\ ~(k > L) /\ k + N \in k + 1..L + 1 /\ k + N \in 1..L + 1
            BY <1>1, <2>2 DEF MatchesAt
        <3>2. r[k] = name \o r[k + N] /\ r[k + N] \in Seq(Letter)
            BY <1>5, <2>2, <3>1, OneSwap
        <3>3. b[k] = name \o b[k + N]
            <4>1. ~MatchesAt(text, k, SurnameToken)
                <5>1. k \in Nat /\ k \in k..k + Len(SurnameToken) - 1
                    BY <1>1
                <5> QED BY <2>2, <5>1, NoNameInside
            <4>2. Hits(text, B, k) = {<<NameToken, name>>}
                BY <2>2, <4>1 DEF Hits
            <4> DEFINE w == CHOOSE w \in Hits(text, B, k) : TRUE
            <4>3. w = <<NameToken, name>>
                BY <4>2
            <4>4. RestOf(text, B, b, k) = w[2] \o b[k + Len(w[1])]
                BY <3>1, <4>2 DEF RestOf
            <4> HIDE DEF w
            <4>5. w[1] = NameToken /\ w[2] = name
                BY <4>3
            <4> QED BY <1>5, <4>4, <4>5
        <3>4. ASSUME NEW j \in 1..Len(name) PROVE Hits(name \o r[k + N], W2, j) = {}
            <4>1. <<>> \in Seq(Letter) /\ Len(<<>>) = 0 /\ Len(name) \in Nat
                BY EmptySeq, LenProperties
            <4>2. j \in 1..Len(<<>>) + Len(name) /\ j + Len(SurnameToken) > Len(<<>>) + 1
                BY <1>1, <4>1
            <4>3. ~MatchesAt(<<>> \o (name \o r[k + N]), j, SurnameToken)
                BY <3>2, <4>1, <4>2, NotInName
            <4>4. name \o r[k + N] \in Seq(Letter)
                BY <1>5, <3>1, <3>2
            <4>5. <<>> \o (name \o r[k + N]) = name \o r[k + N]
                BY <4>4, ConcatEmptySeq
            <4> QED BY <4>3, <4>5, OneSwap
        <3>5. Replaced(name \o r[k + N], W2) = name \o Replaced(r[k + N], W2)
            <4> DEFINE x == r[k + N]
            <4>1. x \in Seq(Letter) /\ \A j \in 1..Len(name) : Hits(name \o x, W2, j) = {}
                BY <3>2, <3>4
            <4>2. Texts(x, W2)
                BY <1>2, <4>1
            <4> HIDE DEF x, W2
            <4>3. Replaced(name \o x, W2) = name \o Replaced(x, W2)
                BY <4>1, <4>2, ReplacedBehind
            <4> QED BY <4>3 DEF x
        <3> QED BY <1>6, <3>1, <3>2, <3>3, <3>5
    <2>3. CASE k # L + 1 /\ ~MatchesAt(text, k, NameToken) /\ MatchesAt(text, k, SurnameToken)
        <3>1. k \in 1..L /\ ~(k > L) /\ k + S \in k + 1..L + 1 /\ k + S \in 1..L + 1
            BY <1>1, <2>3 DEF MatchesAt
        <3>2. b[k] = surname \o b[k + S]
            <4>1. Hits(text, B, k) = {<<SurnameToken, surname>>}
                BY <2>3 DEF Hits
            <4> DEFINE w == CHOOSE w \in Hits(text, B, k) : TRUE
            <4>2. w = <<SurnameToken, surname>>
                BY <4>1
            <4>3. RestOf(text, B, b, k) = w[2] \o b[k + Len(w[1])]
                BY <3>1, <4>1 DEF RestOf
            <4> HIDE DEF w
            <4>4. w[1] = SurnameToken /\ w[2] = surname
                BY <4>2
            <4> QED BY <1>5, <4>3, <4>4
        <3>3. r[k] = SubSeq(text, k, (k + S) - 1) \o r[k + S]
            <4>1. \A m \in k..(k + S) - 1 : Hits(text, W1, m) = {}
                <5>1. \A m \in k..k + Len(SurnameToken) - 1 : ~MatchesAt(text, m, NameToken)
                    BY <2>3, NoNameInside
                <5>2. (k + S) - 1 = k + Len(SurnameToken) - 1
                    BY <1>1
                <5> QED BY <5>1, <5>2, OneSwap
            <4>2. Skips(r, text, W1) /\ k \in 1..k + S
                BY <1>1, <1>2, <1>3, RewriteSkips
            <4> QED BY <3>1, <4>1, <4>2 DEF Skips
        <3>4. SubSeq(text, k, (k + S) - 1) = SurnameToken
            <4> DEFINE a == SubSeq(text, k, (k + S) - 1)
            <4>1. k \in Int /\ (k + S) - 1 \in Int /\ \A m \in k..(k + S) - 1 : text[m] \in Letter
                BY <1>1, <3>1
            <4>2. /\ a \in Seq(Letter)
                  /\ Len(a) = IF k <= (k + S) - 1 THEN (k + S) - 1 - k + 1 ELSE 0
                  /\ \A j \in 1..(k + S) - 1 - k + 1 : a[j] = text[k + j - 1]
                BY <4>1, SubSeqProperties
            <4> HIDE DEF a
            <4>3. Len(a) = S /\ \A j \in 1..S : a[j] = text[k + j - 1]
                <5>1. (k + S) - 1 - k + 1 = S /\ k <= (k + S) - 1
                    BY <1>1
                <5> QED BY <4>2, <5>1
            <4>4. \A j \in 1..Len(a) : a[j] = SurnameToken[j]
                BY <2>3, <4>3 DEF MatchesAt
            <4>5. a = SurnameToken
                BY <1>1, <4>2, <4>3, <4>4, SeqEqual
            <4> QED BY <4>5 DEF a
        <3>5. Texts(r[k + S], W2)
            BY <1>2, <1>5, <3>1
        <3>6. Replaced(SurnameToken \o r[k + S], W2) = surname \o Replaced(r[k + S], W2)
            BY <3>5, ReplacedHit
        <3> QED BY <1>6, <3>1, <3>2, <3>3, <3>4, <3>6
    <2>4. CASE k # L + 1 /\ ~MatchesAt(text, k, NameToken) /\ ~MatchesAt(text, k, SurnameToken)
        <3>1. k \in 1..L /\ ~(k > L) /\ k + 1 \in k + 1..L + 1 /\ k + 1 \in 1..L + 1
            BY <1>1, <2>4
        <3>2. b[k] = <<text[k]>> \o b[k + 1]
            <4>1. Hits(text, B, k) = {}
                BY <2>4 DEF Hits
            <4> QED BY <1>5, <3>1, <4>1 DEF RestOf
        <3>3. r[k] = <<text[k]>> \o r[k + 1] /\ r[k + 1] \in Seq(Letter)
            <4>1. Hits(text, W1, k) = {}
                BY <2>4 DEF Hits
            <4> QED BY <1>5, <3>1, <4>1 DEF RestOf
        <3>4. <<text[k]>> \in Seq(Letter) /\ Len(<<text[k]>>) = 1
            BY <1>1, <3>1
        <3>5. ~MatchesAt(r[k], 1, SurnameToken)
            BY <1>2, <1>3, <2>4, <3>1, NothingNew
        <3>6. \A j \in 1..Len(<<text[k]>>) : Hits(<<text[k]>> \o r[k + 1], W2, j) = {}
            <4>1. \A j \in 1..Len(<<text[k]>>) : j = 1
                BY <3>4
            <4>2. Hits(r[k], W2, 1) = {}
                BY <3>5, OneSwap
            <4> QED BY <3>3, <4>1, <4>2
        <3>7. Replaced(<<text[k]>> \o r[k + 1], W2) = <<text[k]>> \o Replaced(r[k + 1], W2)
            <4> DEFINE x == r[k + 1]
                       c == <<text[k]>>
            <4>1. /\ x \in Seq(Letter) /\ c \in Seq(Letter)
                  /\ \A j \in 1..Len(c) : Hits(c \o x, W2, j) = {}
                BY <3>3, <3>4, <3>6
            <4>2. Texts(x, W2)
                BY <1>2, <4>1
            <4> HIDE DEF x, c, W2
            <4>3. Replaced(c \o x, W2) = c \o Replaced(x, W2)
                BY <4>1, <4>2, ReplacedBehind
            <4> QED BY <4>3 DEF x, c
        <3> QED BY <1>6, <3>1, <3>2, <3>3, <3>7
    <2> QED BY <2>1, <2>2, <2>3, <2>4
<1> DEFINE Wrong == {d \in 0..L : Replaced(r[L + 1 - d], W2) # b[L + 1 - d]}
<1>7. Wrong = {}
    <2> SUFFICES ASSUME Wrong # {} PROVE FALSE
        OBVIOUS
    <2>1. PICK d \in Wrong : \A e \in Wrong : d <= e
        <3>1. Wrong \in SUBSET Nat
            BY <1>1
        <3> HIDE DEF Wrong
        <3> QED BY <3>1, Least
    <2> DEFINE k == L + 1 - d
    <2>2. d \in 0..L /\ k \in 1..L + 1 /\ Replaced(r[k], W2) # b[k]
        BY <1>1, <2>1
    <2>3. \A m \in k + 1..L + 1 : Replaced(r[m], W2) = b[m]
        <3> SUFFICES ASSUME NEW m \in k + 1..L + 1, Replaced(r[m], W2) # b[m] PROVE FALSE
            OBVIOUS
        <3>1. L + 1 - m \in 0..L /\ L + 1 - (L + 1 - m) = m /\ ~(d <= L + 1 - m)
            BY <1>1, <2>2
        <3>2. L + 1 - m \in Wrong
            BY <3>1
        <3> QED BY <2>1, <3>1, <3>2
    <2> HIDE DEF k
    <2> QED BY <1>6, <2>2, <2>3
<1>8. L \in 0..L /\ L + 1 - L = 1
    BY <1>1
<1>9. Replaced(r[1], W2) = b[1]
    BY <1>7, <1>8
<1> QED BY <1>3, <1>4, <1>9

-----------------------------------------------------------------------------
(* The invariants.                                                           *)

(* What the call of joke_create replaces. *)
Swap == {<<Token, SessToken>>}

(* What joke_create has counted and written, beside what is still to come:   *)
(* r[k] is what the joke becomes from position k on.                         *)
Progress(r) ==
    /\ at = "count" =>
          /\ len + Len(r[n]) - (Len(joke) + 1 - n) = Len(r[1])
          /\ len >= Len(joke) + 1 - n
    /\ at = "copy" => len = Len(r[1]) + 1 /\ p \in 1..Len(joke) + 1 /\ new \o r[p] = r[1]
    /\ at = "created" => len = Len(r[1]) + 1 /\ new = r[1]

Created ==
    \E r : /\ Rewrites(r, joke, Swap)
           /\ r[1] = Replaced(joke, Swap)
           /\ Progress(r)

(* The strings that local variables hold: the new joke once it is allocated, *)
(* and beside it the one of the first call.                                  *)
Local ==
    CASE at \in {"copy", "created"} -> IF pass = 1 THEN {"first"} ELSE {"first", "second"}
      [] at \in {"count", "no_memory"} -> IF pass = 1 THEN {} ELSE {"first"}
      [] at \in {"write", "output", "remove_lost", "over_lost"} -> {"second"}
      [] OTHER -> {}

Owned ==
    /\ block = [b \in Block |-> IF b \in fields \cup Local THEN 1 ELSE 0]
    /\ at \in {"count", "copy", "created", "no_memory"} =>
          fields = IF pass = 1 THEN Field ELSE {"surname"}
    /\ at \in {"write", "output", "remove_lost", "over", "over_lost"} => fields = {}
    /\ at \in {"write", "output"} => pass = 2

JokeInv == TypeOK /\ Owned /\ Created

LEMMA SwapTexts ==
    ASSUME reply \in [name : Names, surname : Surnames, joke : Jokes], joke \in Seq(Letter)
    PROVE  /\ Texts(joke, Swap) /\ joke \in Seq(Letter)
           /\ Token \in Seq(Letter) /\ SessToken \in Seq(Letter)
           /\ Len(joke) \in Nat /\ Len(Token) \in Nat \ {0} /\ Len(SessToken) \in Nat
<1>1. reply.name \in Names /\ reply.surname \in Surnames
    OBVIOUS
<1>2. Token \in Seq(Letter) /\ Token # <<>> /\ SessToken \in Seq(Letter)
    BY <1>1, JokeResponseAssumption DEF Token, SessToken
<1>3. Texts(joke, Swap)
    BY <1>2 DEF Texts, Swap
<1>4. Len(joke) \in Nat /\ Len(Token) \in Nat \ {0} /\ Len(SessToken) \in Nat
    BY <1>2, LenProperties, EmptySeq
<1> QED BY <1>2, <1>3, <1>4

LEMMA JokeTexts ==
    ASSUME TypeOK
    PROVE  /\ Texts(joke, Swap) /\ joke \in Seq(Letter)
           /\ Token \in Seq(Letter) /\ SessToken \in Seq(Letter)
           /\ Len(joke) \in Nat /\ Len(Token) \in Nat \ {0} /\ Len(SessToken) \in Nat
BY SwapTexts DEF TypeOK

(* The next token the loops find, and what the text becomes up to it.        *)
LEMMA NextToken ==
    ASSUME TypeOK, NEW r, Rewrites(r, joke, Swap), NEW from \in 1..Len(joke) + 1
    PROVE  /\ Matches(from) = {} =>
                 /\ r[from] = SubSeq(joke, from, Len(joke))
                 /\ Len(r[from]) = Len(joke) + 1 - from
           /\ Matches(from) # {} =>
                 /\ strstr(from) \in from..Len(joke)
                 /\ strstr(from) + Len(Token) \in 1..Len(joke) + 1
                 /\ SubSeq(joke, from, strstr(from) - 1) \in Seq(Letter)
                 /\ r[from] = SubSeq(joke, from, strstr(from) - 1)
                              \o (SessToken \o r[strstr(from) + Len(Token)])
                 /\ Len(r[from]) = (strstr(from) - from)
                                   + (Len(SessToken) + Len(r[strstr(from) + Len(Token)]))
<1> DEFINE L == Len(joke)
<1>0. /\ Texts(joke, Swap) /\ L \in Nat /\ Len(Token) \in Nat \ {0}
      /\ Len(SessToken) \in Nat /\ joke \in Seq(Letter) /\ SessToken \in Seq(Letter)
      /\ \A k \in 1..L : joke[k] \in Letter
    BY JokeTexts, TextFacts
<1>1. \A k \in 1..L + 1 : /\ r[k] \in Seq(Letter) /\ Len(r[k]) \in Nat
                          /\ r[k] = RestOf(joke, Swap, r, k)
    BY LenProperties DEF Rewrites
<1>2. ASSUME NEW e \in from - 1..L PROVE /\ SubSeq(joke, from, e) \in Seq(Letter)
                                         /\ Len(SubSeq(joke, from, e)) = e - from + 1
    <2>1. from \in Int /\ e \in Int /\ \A k \in from..e : joke[k] \in Letter
        BY <1>0
    <2> QED BY <1>2, <2>1, SubSeqProperties
<1>6. Skips(r, joke, Swap)
    BY <1>0, RewriteSkips
<1>3. ASSUME Matches(from) = {}
      PROVE  r[from] = SubSeq(joke, from, L) /\ Len(r[from]) = L + 1 - from
    <2>1. \A k \in from..(L + 1) - 1 : ~MatchesAt(joke, k, Token)
        BY <1>0, <1>3 DEF Matches
    <2>2. L + 1 \in 1..L + 1 /\ from \in 1..L + 1 /\ (L + 1) - 1 = L /\ L \in from - 1..L
        BY <1>0
    <2>3. r[from] = SubSeq(joke, from, (L + 1) - 1) \o r[L + 1]
        <3>1. \A k \in from..(L + 1) - 1 : Hits(joke, Swap, k) = {}
            BY <2>1, OneSwap DEF Swap
        <3> QED BY <1>6, <2>2, <3>1 DEF Skips
    <2>4. r[L + 1] = <<>>
        <3>1. L + 1 > L /\ r[L + 1] = RestOf(joke, Swap, r, L + 1)
            BY <1>0, <1>1, <2>2
        <3> QED BY <3>1 DEF RestOf
    <2>5. r[from] = SubSeq(joke, from, L)
        BY <1>2, <2>2, <2>3, <2>4, ConcatEmptySeq
    <2> QED BY <1>0, <1>2, <2>2, <2>5
<1> DEFINE s == strstr(from)
<1>4. ASSUME Matches(from) # {}
      PROVE  /\ s \in from..L /\ s + Len(Token) \in 1..L + 1 /\ MatchesAt(joke, s, Token)
             /\ \A k \in from..s - 1 : ~MatchesAt(joke, k, Token)
    <2>1. Matches(from) \in SUBSET Nat
        BY DEF Matches
    <2>2. s \in Matches(from) /\ \A k \in Matches(from) : s <= k
        BY <1>4, <2>1, Least DEF strstr
    <2>3. s \in from..L /\ MatchesAt(joke, s, Token)
        BY <2>2 DEF Matches
    <2>4. s + Len(Token) \in 1..L + 1
        BY <1>0, <2>3 DEF MatchesAt
    <2>5. \A k \in from..s - 1 : k \in from..L /\ ~(s <= k)
        BY <1>0, <2>3
    <2>6. \A k \in from..s - 1 : ~MatchesAt(joke, k, Token)
        BY <2>2, <2>5 DEF Matches
    <2> QED BY <2>3, <2>4, <2>6
<1> HIDE DEF s
<1>5. ASSUME Matches(from) # {}
      PROVE  /\ SubSeq(joke, from, s - 1) \in Seq(Letter)
             /\ r[from] = SubSeq(joke, from, s - 1) \o (SessToken \o r[s + Len(Token)])
             /\ Len(r[from]) = (s - from) + (Len(SessToken) + Len(r[s + Len(Token)]))
    <2>0. s \in Nat /\ from \in Nat /\ s \in 1..L + 1 /\ from \in 1..s /\ s - 1 \in from - 1..L /\ ~(s > L)
        BY <1>0, <1>4, <1>5
    <2>1. r[from] = SubSeq(joke, from, s - 1) \o r[s]
        <3>1. \A k \in from..s - 1 : Hits(joke, Swap, k) = {}
            BY <1>4, <1>5, OneSwap DEF Swap
        <3> QED BY <1>6, <2>0, <3>1 DEF Skips
    <2>2. r[s] = SessToken \o r[s + Len(Token)]
        BY <1>1, <1>4, <1>5, <2>0, OneSwap DEF Swap
    <2>3. r[s + Len(Token)] \in Seq(Letter) /\ Len(r[s + Len(Token)]) \in Nat
        BY <1>1, <1>4, <1>5
    <2>4. SubSeq(joke, from, s - 1) \in Seq(Letter) /\ Len(SubSeq(joke, from, s - 1)) = s - from
        BY <1>2, <2>0
    <2>5. /\ SessToken \o r[s + Len(Token)] \in Seq(Letter)
          /\ Len(SessToken \o r[s + Len(Token)]) = Len(SessToken) + Len(r[s + Len(Token)])
        BY <1>0, <2>3, ConcatProperties
    <2>6. Len(r[from]) = Len(SubSeq(joke, from, s - 1)) + Len(r[s])
        BY <2>1, <2>2, <2>4, <2>5, ConcatProperties
    <2>7. Len(r[from]) = (s - from) + (Len(SessToken) + Len(r[s + Len(Token)]))
        <3>1. Len(r[s]) = Len(SessToken) + Len(r[s + Len(Token)])
            BY <2>2, <2>5
        <3>2. Len(r[from]) = (s - from) + Len(r[s])
            BY <2>4, <2>6
        <3>3. Len(r[s]) \in Nat
            BY <1>1, <2>0
        <3> QED BY <1>0, <2>0, <2>3, <3>1, <3>2, <3>3
    <2> QED BY <2>1, <2>2, <2>4, <2>7
<1> QED BY <1>3, <1>4, <1>5 DEF s

-----------------------------------------------------------------------------
(* The steps of joke_create.                                                 *)

(* In one call of joke_create the texts stay what they are.                  *)
SameCall == UNCHANGED <<reply, pass, joke>>

LEMMA CreatedGoesOn ==
    ASSUME Created, SameCall,
           \A r : Rewrites(r, joke, Swap) /\ Progress(r) => Progress(r)'
    PROVE  Created'
<1>1. PICK r : /\ Rewrites(r, joke, Swap) /\ Progress(r)
               /\ r[1] = Replaced(joke, Swap)
    BY DEF Created
<1>2. Progress(r)'
    BY <1>1
<1>3. Swap' = Swap /\ joke' = joke
    BY DEF SameCall, Swap, Token, SessToken
<1> QED BY <1>1, <1>2, <1>3 DEF Created

LEMMA CountMatchStep ==
    ASSUME JokeInv, CountMatch
    PROVE  JokeInv'
<1>1. /\ at = "count" /\ Matches(n) # {} /\ SameCall
      /\ len' = len - Len(Token) + Len(SessToken) /\ n' = strstr(n) + Len(Token)
      /\ UNCHANGED <<fields, block, at, p, new>>
    BY DEF CountMatch, SameCall
<1>2. /\ TypeOK /\ Owned /\ Created
    BY DEF JokeInv
<1>3. /\ Len(joke) \in Nat /\ Len(Token) \in Nat \ {0} /\ Len(SessToken) \in Nat
      /\ n \in 1..Len(joke) + 1 /\ n \in Nat /\ len \in Nat
    BY <1>2, JokeTexts DEF TypeOK
<1>4. ASSUME NEW r, Rewrites(r, joke, Swap), Progress(r)
      PROVE  Progress(r)' /\ n' \in 1..Len(joke) + 1 /\ len' \in Nat
    <2>1. /\ strstr(n) \in n..Len(joke) /\ n' \in 1..Len(joke) + 1
          /\ Len(r[n]) = (strstr(n) - n) + (Len(SessToken) + Len(r[n']))
        BY <1>1, <1>2, <1>3, <1>4, NextToken
    <2>2. \A k \in 1..Len(joke) + 1 : Len(r[k]) \in Nat
        BY <1>4, LenProperties DEF Rewrites
    <2>3. len + Len(r[n]) - (Len(joke) + 1 - n) = Len(r[1]) /\ len >= Len(joke) + 1 - n
        BY <1>1, <1>4 DEF Progress
    <2>4. Len(r[n']) \in Nat /\ Len(r[n]) \in Nat /\ strstr(n) \in Nat /\ n' \in Nat
        BY <1>3, <2>1, <2>2
    <2>5. /\ len' >= Len(joke) + 1 - n' /\ len' \in Nat
          /\ len' + Len(r[n']) - (Len(joke) + 1 - n') = len + Len(r[n]) - (Len(joke) + 1 - n)
        <3> DEFINE a == Len(SessToken)
                   b == Len(r[n'])
                   c == Len(r[n])
                   d == Len(Token)
                   e == Len(joke)
                   m == strstr(n)
        <3>1. /\ a \in Nat /\ b \in Nat /\ c \in Nat /\ d \in Nat /\ e \in Nat /\ m \in Nat
              /\ c = (m - n) + (a + b) /\ len' = len - d + a /\ n' = m + d
              /\ n <= m /\ m + d <= e + 1 /\ len >= e + 1 - n
            BY <1>1, <1>3, <2>1, <2>3, <2>4
        <3>2. /\ len - d + a >= e + 1 - (m + d) /\ len - d + a \in Nat
              /\ (len - d + a) + b - (e + 1 - (m + d)) = len + c - (e + 1 - n)
            <4> HIDE DEF a, b, c, d, e, m
            <4> QED BY <1>3, <3>1
        <3> QED BY <3>1, <3>2
    <2> QED BY <1>1, <2>1, <2>3, <2>5 DEF Progress, SameCall
<1>5. Created'
    BY <1>1, <1>2, <1>4, CreatedGoesOn
<1>6. PICK r : Rewrites(r, joke, Swap) /\ Progress(r)
    BY <1>2 DEF Created
<1>7. TypeOK'
    BY <1>1, <1>2, <1>4, <1>6 DEF TypeOK, SameCall
<1>8. Owned'
    BY <1>1, <1>2 DEF Owned, Local, SameCall
<1> QED BY <1>5, <1>7, <1>8 DEF JokeInv

LEMMA CountEndsStep ==
    ASSUME JokeInv, CountEnds
    PROVE  JokeInv'
<1>1. /\ at = "count" /\ Matches(n) = {} /\ SameCall /\ len' = len + 1 /\ p' = 1 /\ new' = <<>>
      /\ UNCHANGED <<fields, n>>
      /\ \/ at' = "copy" /\ block' = [block EXCEPT ![NewBlock] = 1]
         \/ at' = "no_memory" /\ UNCHANGED block
    BY DEF CountEnds, SameCall
<1>2. TypeOK /\ Owned /\ Created
    BY DEF JokeInv
<1>3. /\ Len(joke) \in Nat /\ n \in 1..Len(joke) + 1 /\ n \in Nat /\ len \in Nat
    BY <1>2, JokeTexts DEF TypeOK
<1>4. ASSUME NEW r, Rewrites(r, joke, Swap), Progress(r)
      PROVE  Progress(r)'
    <2>1. Len(r[n]) = Len(joke) + 1 - n
        BY <1>1, <1>2, <1>3, <1>4, NextToken
    <2>2. len + Len(r[n]) - (Len(joke) + 1 - n) = Len(r[1])
        BY <1>1, <1>4 DEF Progress
    <2>3. len = Len(r[1])
        BY <1>3, <2>1, <2>2
    <2>4. 1 \in 1..Len(joke) + 1 /\ r[1] \in Seq(Letter)
        BY <1>3, <1>4 DEF Rewrites
    <2>5. <<>> \o r[1] = r[1]
        BY <2>4, ConcatEmptySeq
    <2> QED BY <1>1, <2>3, <2>4, <2>5 DEF Progress, SameCall
<1>5. Created'
    BY <1>1, <1>2, <1>4, CreatedGoesOn
<1>6. block' \in [Block -> 0..1]
    BY <1>1, <1>2 DEF TypeOK
<1>7. TypeOK'
    BY <1>1, <1>2, <1>3, <1>6, EmptySeq DEF TypeOK, SameCall
<1>8. Owned'
    <2>1. CASE at' = "copy" /\ block' = [block EXCEPT ![NewBlock] = 1]
        <3>1. Local' = Local \cup {NewBlock} /\ NewBlock \in Block
            BY <1>1, <1>2, <2>1 DEF Local, NewBlock, SameCall, TypeOK, Block
        <3>2. block' = [b \in Block |-> IF b \in fields' \cup Local' THEN 1 ELSE 0]
            BY <1>1, <1>2, <2>1, <3>1 DEF Owned
        <3> QED BY <1>1, <1>2, <2>1, <3>2 DEF Owned, SameCall
    <2>2. CASE at' = "no_memory" /\ UNCHANGED block
        <3>1. Local' = Local
            BY <1>1, <2>2 DEF Local, SameCall
        <3> QED BY <1>1, <1>2, <2>2, <3>1 DEF Owned, SameCall
    <2> QED BY <1>1, <2>1, <2>2
<1> QED BY <1>5, <1>7, <1>8 DEF JokeInv

LEMMA CopyMatchStep ==
    ASSUME JokeInv, CopyMatch
    PROVE  JokeInv'
<1> DEFINE s == strstr(p)
           part == SubSeq(joke, p, s - 1)
           q == s + Len(Token)
<1>1. /\ at = "copy" /\ Matches(p) # {} /\ SameCall
      /\ new' = new \o part \o SessToken /\ p' = q
      /\ UNCHANGED <<fields, block, at, n, len>>
    BY DEF CopyMatch, SameCall
<1>2. TypeOK /\ Owned /\ Created
    BY DEF JokeInv
<1>3. SessToken \in Seq(Letter) /\ new \in Seq(Letter) /\ Len(joke) \in Nat
    BY <1>2, JokeTexts DEF TypeOK
<1>4. ASSUME NEW r, Rewrites(r, joke, Swap), Progress(r)
      PROVE  Progress(r)' /\ p' \in 1..Len(joke) + 1 /\ new' \in Seq(Letter)
    <2>1. len = Len(r[1]) + 1 /\ p \in 1..Len(joke) + 1 /\ new \o r[p] = r[1]
        BY <1>1, <1>4 DEF Progress
    <2>2. q \in 1..Len(joke) + 1 /\ part \in Seq(Letter) /\ r[p] = part \o (SessToken \o r[q])
        BY <1>1, <1>2, <1>4, <2>1, NextToken
    <2>3. r[q] \in Seq(Letter)
        BY <1>4, <2>2 DEF Rewrites
    <2> HIDE DEF part, q
    <2>4. new \o part \in Seq(Letter) /\ SessToken \o r[q] \in Seq(Letter)
        BY <1>3, <2>2, <2>3, ConcatProperties
    <2>5. (new \o part) \o SessToken \in Seq(Letter)
        BY <1>3, <2>4, ConcatProperties
    <2>6. ((new \o part) \o SessToken) \o r[q] = (new \o part) \o (SessToken \o r[q])
        <3> DEFINE u == new \o part
        <3>1. u \in Seq(Letter)
            BY <2>4
        <3> HIDE DEF u
        <3>2. (u \o SessToken) \o r[q] = u \o (SessToken \o r[q])
            BY <1>3, <2>3, <3>1, Associates
        <3> QED BY <3>2 DEF u
    <2>7. (new \o part) \o (SessToken \o r[q]) = new \o (part \o (SessToken \o r[q]))
        BY <1>3, <2>2, <2>4, Associates
    <2>8. new' \o r[q] = r[1]
        BY <1>1, <2>1, <2>2, <2>6, <2>7
    <2> QED BY <1>1, <2>1, <2>2, <2>5, <2>8 DEF Progress, SameCall
<1>5. Created'
    BY <1>1, <1>2, <1>4, CreatedGoesOn
<1>6. PICK r : Rewrites(r, joke, Swap) /\ Progress(r)
    BY <1>2 DEF Created
<1>7. p' \in 1..Len(joke) + 1 /\ new' \in Seq(Letter)
    BY <1>4, <1>6
<1>8. TypeOK'
    <2> HIDE DEF part, q
    <2> QED BY <1>1, <1>2, <1>3, <1>7 DEF TypeOK, SameCall
<1>9. Owned'
    BY <1>1, <1>2 DEF Owned, Local, SameCall
<1> QED BY <1>5, <1>8, <1>9 DEF JokeInv

LEMMA CopyRestStep ==
    ASSUME JokeInv, CopyRest
    PROVE  JokeInv'
<1>1. /\ at = "copy" /\ Matches(p) = {} /\ SameCall /\ at' = "created"
      /\ new' = new \o SubSeq(joke, p, Len(joke))
      /\ UNCHANGED <<fields, block, n, len, p>>
    BY DEF CopyRest, SameCall
<1>2. TypeOK /\ Owned /\ Created
    BY DEF JokeInv
<1>3. ASSUME NEW r, Rewrites(r, joke, Swap), Progress(r)
      PROVE  Progress(r)' /\ new' \in Seq(Letter)
    <2>1. len = Len(r[1]) + 1 /\ p \in 1..Len(joke) + 1 /\ new \o r[p] = r[1]
        BY <1>1, <1>3 DEF Progress
    <2>2. r[p] = SubSeq(joke, p, Len(joke))
        BY <1>1, <1>2, <1>3, <2>1, NextToken
    <2>3. Len(joke) \in Nat
        BY <1>2, JokeTexts
    <2>4. r[1] \in Seq(Letter)
        BY <1>3, <2>3 DEF Rewrites
    <2> QED BY <1>1, <2>1, <2>2, <2>4 DEF Progress, SameCall
<1>4. Created'
    BY <1>1, <1>2, <1>3, CreatedGoesOn
<1>5. PICK r : Rewrites(r, joke, Swap) /\ Progress(r)
    BY <1>2 DEF Created
<1>6. TypeOK'
    BY <1>1, <1>2, <1>3, <1>5 DEF TypeOK, SameCall
<1>7. Owned'
    BY <1>1, <1>2 DEF Owned, Local, SameCall
<1> QED BY <1>4, <1>6, <1>7 DEF JokeInv

-----------------------------------------------------------------------------
(* client_response_create, http_response_write and the end.                  *)

(* Nothing is left to say of a call of joke_create that is over.             *)
LEMMA CreatedIsOver ==
    ASSUME TypeOK', at' \notin {"count", "copy", "created"}
    PROVE  Created'
<1>1. Texts(joke', Swap')
    <2>1. /\ reply'.name \in Names /\ reply'.surname \in Surnames /\ joke' \in Seq(Letter)
        BY DEF TypeOK
    <2>2. Token' \in Seq(Letter) /\ Token' # <<>> /\ SessToken' \in Seq(Letter)
        BY <2>1, JokeResponseAssumption DEF Token, SessToken
    <2> QED BY <2>1, <2>2 DEF Texts, Swap
<1>2. PICK r : /\ Rewrites(r, joke', Swap')
               /\ r[1] = Replaced(joke', Swap')
    BY <1>1, ReplacedIs
<1>3. Progress(r)'
    BY DEF Progress
<1> QED BY <1>2, <1>3 DEF Created

(* A call of joke_create begins: all of the text is still to be looked at.   *)
LEMMA CallBegins ==
    ASSUME TypeOK', at' = "count", n' = 1, len' = Len(joke')
    PROVE  Created'
<1>1. Texts(joke', Swap')
    <2>1. /\ reply'.name \in Names /\ reply'.surname \in Surnames /\ joke' \in Seq(Letter)
        BY DEF TypeOK
    <2>2. Token' \in Seq(Letter) /\ Token' # <<>> /\ SessToken' \in Seq(Letter)
        BY <2>1, JokeResponseAssumption DEF Token, SessToken
    <2> QED BY <2>1, <2>2 DEF Texts, Swap
<1>2. PICK r : /\ Rewrites(r, joke', Swap')
               /\ r[1] = Replaced(joke', Swap')
    BY <1>1, ReplacedIs
<1>3. Len(joke') \in Nat /\ Len(r[1]) \in Nat
    <2>1. Len(joke') \in Nat
        BY <1>1, TextFacts
    <2>2. r[1] \in Seq(Letter)
        BY <1>2, <2>1 DEF Rewrites
    <2> QED BY <2>1, <2>2, LenProperties
<1>4. Progress(r)'
    BY <1>3 DEF Progress
<1> QED BY <1>2, <1>4 DEF Created

LEMMA OwnedBlocks ==
    ASSUME Owned, NEW B \in SUBSET (fields \cup Local), Frees(B), fields \cup Local \subseteq Block
    PROVE  block' = [b \in Block |-> IF b \in (fields \cup Local) \ B THEN 1 ELSE 0]
<1>1. block = [b \in Block |-> IF b \in fields \cup Local THEN 1 ELSE 0]
    BY DEF Owned
<1>2. \A b \in Block : (IF b \in B THEN block[b] - 1 ELSE block[b])
                       = IF b \in (fields \cup Local) \ B THEN 1 ELSE 0
    BY <1>1
<1> QED BY <1>2 DEF Frees

(* The steps that leave the scan alone and go to a place without one.        *)
Leaves(a, F, B) ==
    /\ UNCHANGED <<reply, pass, joke, scanVars>>
    /\ at' = a /\ fields' = F
    /\ B \subseteq fields \cup Local /\ Frees(B)

LEMMA LeavesStep ==
    ASSUME JokeInv, NEW a \in {"write", "output", "remove", "remove_lost", "over", "over_lost"},
           NEW F \in SUBSET Field, NEW B, Leaves(a, F, B),
           F \cup Local' = (fields \cup Local) \ B,
           a # "remove" => F = {}, a \in {"write", "output"} => pass = 2
    PROVE  JokeInv'
<1>1. TypeOK /\ Owned
    BY DEF JokeInv
<1>2. fields \cup Local \subseteq Block
    BY <1>1 DEF TypeOK, Local, Block
<1>3. block' = [b \in Block |-> IF b \in F \cup Local' THEN 1 ELSE 0]
    BY <1>1, <1>2, OwnedBlocks DEF Leaves
<1>4. block' \in [Block -> 0..1]
    BY <1>3
<1>5. TypeOK'
    BY <1>1, <1>4 DEF Leaves, TypeOK, scanVars
<1>6. Owned'
    BY <1>3 DEF Leaves, Owned
<1>7. Created'
    BY <1>5, CreatedIsOver DEF Leaves
<1> QED BY <1>5, <1>6, <1>7 DEF JokeInv

LEMMA FirstCreatedStep ==
    ASSUME JokeInv, FirstCreated
    PROVE  JokeInv'
<1>1. /\ at = "created" /\ pass = 1 /\ Frees({"name", "joke"}) /\ fields' = fields \ {"name", "joke"}
      /\ pass' = 2 /\ joke' = new /\ at' = "count" /\ n' = 1 /\ len' = Len(new)
      /\ UNCHANGED <<reply, p, new>>
    BY DEF FirstCreated
<1>2. TypeOK /\ Owned
    BY DEF JokeInv
<1>3. fields = Field /\ Local = {"first"} /\ Local' = {"first"}
    BY <1>1, <1>2 DEF Owned, Local
<1>4. block' = [b \in Block |-> IF b \in fields' \cup Local' THEN 1 ELSE 0]
    <2>1. block' = [b \in Block |-> IF b \in (fields \cup Local) \ {"name", "joke"} THEN 1 ELSE 0]
        BY <1>1, <1>2, <1>3, OwnedBlocks DEF Field, Block
    <2>2. (fields \cup Local) \ {"name", "joke"} = fields' \cup Local'
        BY <1>1, <1>3
    <2> QED BY <2>1, <2>2
<1>5. TypeOK'
    <2>1. Len(new) \in Nat /\ new \in Seq(Letter)
        BY <1>2, LenProperties DEF TypeOK
    <2>2. block' \in [Block -> 0..1]
        BY <1>4
    <2>3. n' \in 1..Len(joke') + 1
        BY <1>1, <2>1
    <2> QED BY <1>1, <1>2, <2>1, <2>2, <2>3 DEF TypeOK
<1>6. Owned'
    BY <1>1, <1>3, <1>4 DEF Owned, Field
<1>7. Created'
    BY <1>1, <1>5, CallBegins
<1> QED BY <1>5, <1>6, <1>7 DEF JokeInv

LEMMA OtherSteps ==
    ASSUME JokeInv,
           \/ FirstFailed \/ SecondEnds \/ HeadersFail \/ ReferenceFails \/ Written
           \/ http_response_cleanup \/ session_free
    PROVE  JokeInv'
<1>0. TypeOK /\ Owned
    BY DEF JokeInv
<1>1. CASE FirstFailed
    <2>1. /\ at = "no_memory" /\ pass = 1 /\ fields = Field /\ Local = {} /\ Local' = {}
          /\ fields' = {"surname", "joke"}
        BY <1>0, <1>1 DEF FirstFailed, Owned, Local, Field
    <2>2. Leaves("remove", {"surname", "joke"}, {"name"})
        BY <1>1, <2>1 DEF FirstFailed, Leaves, Field
    <2> QED BY <2>1, <2>2, LeavesStep DEF Field
<1>2. CASE SecondEnds
    <2>1. fields = {"surname"} /\ fields' = {} /\ {"surname", "first"} \subseteq fields \cup Local
        BY <1>0, <1>2 DEF SecondEnds, Owned, Local
    <2>2. CASE at = "created"
        <3>1. Leaves("write", {}, {"surname", "first"})
            BY <1>2, <2>1, <2>2 DEF SecondEnds, Leaves
        <3>2. {} \cup Local' = (fields \cup Local) \ {"surname", "first"} /\ pass = 2
            BY <1>2, <2>1, <2>2 DEF SecondEnds, Local
        <3> QED BY <3>1, <3>2, LeavesStep
    <2>3. CASE at = "no_memory"
        <3>1. Leaves("remove", {}, {"surname", "first"})
            BY <1>2, <2>1, <2>3 DEF SecondEnds, Leaves
        <3>2. {} \cup Local' = (fields \cup Local) \ {"surname", "first"}
            BY <1>2, <2>1, <2>3 DEF SecondEnds, Local
        <3> QED BY <3>1, <3>2, LeavesStep
    <2> QED BY <1>2, <2>2, <2>3 DEF SecondEnds
<1>3. CASE HeadersFail \/ Written
    <2>1. at = "write" /\ fields = {} /\ pass = 2 /\ Local = {"second"} /\ block' = block
        BY <1>0, <1>3 DEF HeadersFail, Written, Owned, Local
    <2>2. Frees({})
        BY <1>0, <2>1 DEF Frees, TypeOK
    <2>3. PICK a \in {"remove_lost", "output"} : at' = a
        BY <1>3 DEF HeadersFail, Written
    <2>4. Leaves(a, {}, {}) /\ Local' = {"second"}
        BY <1>3, <2>1, <2>2, <2>3 DEF HeadersFail, Written, Leaves, Local
    <2> QED BY <2>1, <2>4, LeavesStep
<1>4. CASE ReferenceFails \/ http_response_cleanup
    <2>1. fields = {} /\ Local = {"second"} /\ Local' = {}
        BY <1>0, <1>4 DEF ReferenceFails, http_response_cleanup, Owned, Local
    <2>2. Leaves("remove", {}, {"second"})
        BY <1>4, <2>1 DEF ReferenceFails, http_response_cleanup, Leaves
    <2> QED BY <2>1, <2>2, LeavesStep
<1>5. CASE session_free
    <2>1. fields \subseteq Field
        BY <1>0 DEF TypeOK
    <2>2. CASE at = "remove"
        <3>1. Leaves("over", {}, fields) /\ Local = {} /\ Local' = {}
            BY <1>5, <2>2 DEF session_free, Leaves, Local
        <3> QED BY <3>1, LeavesStep
    <2>3. CASE at = "remove_lost"
        <3>1. /\ Leaves("over_lost", {}, fields) /\ Local = {"second"} /\ Local' = {"second"}
              /\ fields = {}
            BY <1>0, <1>5, <2>3 DEF session_free, Leaves, Local, Owned
        <3> QED BY <3>1, LeavesStep
    <2> QED BY <1>5, <2>2, <2>3 DEF session_free
<1> QED BY <1>1, <1>2, <1>3, <1>4, <1>5

LEMMA Starts == Init => JokeInv
<1> SUFFICES ASSUME Init PROVE JokeInv
    OBVIOUS
<1>1. /\ reply \in [name : Names, surname : Surnames, joke : Jokes] /\ fields = Field
      /\ block = [b \in Block |-> IF b \in Field THEN 1 ELSE 0]
      /\ pass = 1 /\ joke = reply.joke /\ at = "count"
      /\ n = 1 /\ len = Len(joke) /\ p = 1 /\ new = <<>>
    BY DEF Init
<1>2. joke \in Seq(Letter)
    <2>1. joke \in Jokes
        BY <1>1
    <2> QED BY <2>1, JokeResponseAssumption
<1>3. TypeOK
    <2>1. Len(joke) \in Nat /\ new \in Seq(Letter)
        BY <1>1, <1>2, LenProperties, EmptySeq
    <2>2. block \in [Block -> 0..1]
        BY <1>1
    <2> QED BY <1>1, <1>2, <2>1, <2>2 DEF TypeOK
<1>4. Owned
    <2>1. Local = {}
        BY <1>1 DEF Local
    <2> QED BY <1>1, <2>1 DEF Owned
<1>5. Created
    <2>1. Texts(joke, Swap)
        BY <1>3, JokeTexts
    <2>2. PICK r : /\ Rewrites(r, joke, Swap)
                   /\ r[1] = Replaced(joke, Swap)
        BY <2>1, ReplacedIs
    <2>3. Len(joke) \in Nat /\ Len(r[1]) \in Nat
        <3>1. Len(joke) \in Nat
            BY <1>2, LenProperties
        <3>2. r[1] \in Seq(Letter)
            BY <2>2, <3>1 DEF Rewrites
        <3> QED BY <3>1, <3>2, LenProperties
    <2>4. Progress(r)
        BY <1>1, <2>3 DEF Progress
    <2> QED BY <2>2, <2>4 DEF Created
<1> QED BY <1>3, <1>4, <1>5 DEF JokeInv

LEMMA EveryStep == JokeInv /\ [Next]_vars => JokeInv'
<1> SUFFICES ASSUME JokeInv, [Next]_vars PROVE JokeInv'
    OBVIOUS
<1>1. CASE UNCHANGED vars
    <2>1. TypeOK' /\ Owned'
        BY <1>1 DEF vars, JokeInv, TypeOK, Owned, Local
    <2>2. Created'
        <3>1. PICK r : /\ Rewrites(r, joke, Swap) /\ Progress(r)
                       /\ r[1] = Replaced(joke, Swap)
            BY DEF JokeInv, Created
        <3>2. Progress(r)' /\ Swap' = Swap /\ joke' = joke
            BY <1>1, <3>1 DEF vars, Progress, Swap, Token, SessToken
        <3> QED BY <3>1, <3>2 DEF Created
    <2> QED BY <2>1, <2>2 DEF JokeInv
<1>2. CASE CountMatch
    BY <1>2, CountMatchStep
<1>3. CASE CountEnds
    BY <1>3, CountEndsStep
<1>4. CASE CopyMatch
    BY <1>4, CopyMatchStep
<1>5. CASE CopyRest
    BY <1>5, CopyRestStep
<1>6. CASE FirstCreated
    BY <1>6, FirstCreatedStep
<1>7. CASE \/ FirstFailed \/ SecondEnds \/ HeadersFail \/ ReferenceFails \/ Written
           \/ http_response_cleanup \/ session_free
    BY <1>7, OtherSteps
<1> QED BY <1>1, <1>2, <1>3, <1>4, <1>5, <1>6, <1>7 DEF Next

LEMMA JokeInvAlways == Spec => []JokeInv
BY Starts, EveryStep, PTL DEF Spec

-----------------------------------------------------------------------------
(* The properties.                                                           *)

(* session.c:95-130: whatever the texts, the copy stays inside the block of  *)
(* the length the first loop has counted, and fills it to the last byte.     *)
THEOREM FillsItsBlock == Spec => []WithinBlock
<1>1. JokeInv => WithinBlock
    <2> SUFFICES ASSUME JokeInv PROVE WithinBlock
        OBVIOUS
    <2>1. TypeOK /\ Created
        BY DEF JokeInv
    <2>2. PICK r : Rewrites(r, joke, Swap) /\ Progress(r)
        BY <2>1 DEF Created
    <2>3. Len(joke) \in Nat /\ new \in Seq(Letter) /\ Len(new) \in Nat
        BY <2>1, LenProperties DEF TypeOK
    <2>4. \A k \in 1..Len(joke) + 1 : r[k] \in Seq(Letter) /\ Len(r[k]) \in Nat
        BY <2>2, LenProperties DEF Rewrites
    <2>5. ASSUME at = "copy" PROVE Len(new) + 1 <= len
        <3>1. len = Len(r[1]) + 1 /\ p \in 1..Len(joke) + 1 /\ new \o r[p] = r[1]
            BY <2>2, <2>5 DEF Progress
        <3>2. Len(r[1]) = Len(new) + Len(r[p])
            <4>1. r[p] \in Seq(Letter) /\ new \in Seq(Letter)
                BY <2>3, <2>4, <3>1
            <4>2. Len(new \o r[p]) = Len(new) + Len(r[p])
                BY <4>1, ConcatProperties
            <4> QED BY <3>1, <4>2
        <3> QED BY <2>3, <2>4, <3>1, <3>2
    <2>6. ASSUME at = "created" PROVE Len(new) + 1 = len
        BY <2>2, <2>3, <2>6 DEF Progress
    <2> QED BY <2>1, <2>5, <2>6 DEF WithinBlock
<1> QED BY <1>1, JokeInvAlways, PTL

(* session.c:109-125: whatever the texts, a call of joke_create replaces     *)
(* each token where it first matches, and leaves all else as it was.         *)
THEOREM ReplacesTokens == Spec => []TokenReplaced
<1>1. JokeInv => TokenReplaced
    BY DEF JokeInv, Created, Progress, Swap, TokenReplaced
<1> QED BY <1>1, JokeInvAlways, PTL

(* What each call of joke_create is given, and what client_response_create   *)
(* makes of the two.                                                         *)
PassesInv ==
    /\ joke = IF pass = 1 THEN reply.joke ELSE Replaced(reply.joke, {<<NameToken, reply.name>>})
    /\ at \in {"write", "output"} =>
          pass = 2 /\ new = Replaced(joke, {<<SurnameToken, reply.surname>>})

LEMMA PassesKept ==
    ASSUME JokeInv, PassesInv, [Next]_vars
    PROVE  PassesInv'
<1>1. at = "created" => new = Replaced(joke, Swap)
    BY DEF JokeInv, Created, Progress
<1>2. pass \in 1..2
    BY DEF JokeInv, TypeOK
<1>3. CASE FirstCreated
    <2>1. at = "created" /\ pass = 1 /\ pass' = 2 /\ joke' = new /\ at' = "count" /\ reply' = reply
        BY <1>3 DEF FirstCreated
    <2>2. Swap = {<<NameToken, reply.name>>}
        BY <2>1 DEF Swap, Token, SessToken
    <2> QED BY <1>1, <2>1, <2>2 DEF PassesInv
<1>4. CASE SecondEnds
    <2>1. /\ pass = 2 /\ at' \in {"write", "remove"} /\ (at' = "write" => at = "created")
          /\ UNCHANGED <<reply, pass, joke, new>>
        BY <1>4 DEF SecondEnds, scanVars
    <2>2. Swap = {<<SurnameToken, reply.surname>>}
        BY <2>1 DEF Swap, Token, SessToken
    <2> QED BY <1>1, <2>1, <2>2 DEF PassesInv
<1>5. CASE CountMatch \/ CountEnds \/ CopyMatch \/ CopyRest
    <2>1. UNCHANGED <<reply, pass, joke>> /\ at' \in {"count", "copy", "created", "no_memory"}
        BY <1>5 DEF CountMatch, CountEnds, CopyMatch, CopyRest
    <2> QED BY <2>1 DEF PassesInv
<1>6. CASE \/ FirstFailed \/ HeadersFail \/ ReferenceFails \/ Written
           \/ http_response_cleanup \/ session_free \/ UNCHANGED vars
    <2>1. /\ UNCHANGED <<reply, pass, joke, new>>
          /\ at' \in {"write", "output"} => at \in {"write", "output"}
        BY <1>6 DEF FirstFailed, HeadersFail, ReferenceFails, Written, http_response_cleanup,
                    session_free, scanVars, vars
    <2> QED BY <2>1 DEF PassesInv
<1> QED BY <1>3, <1>4, <1>5, <1>6 DEF Next

(* session.c:156-166: for every joke and surname, every pair of tokens and   *)
(* every name that keep apart as Apart says, the response is the client's    *)
(* joke with both tokens replaced, each where it stood.                      *)
THEOREM ReplacesBoth == Spec => []BothReplaced
<1>1. Init => PassesInv
    BY DEF Init, PassesInv
<1>2. JokeInv /\ PassesInv => BothReplaced
    <2> SUFFICES ASSUME JokeInv, PassesInv, at \in {"write", "output"}, Apart
                 PROVE  new = Replaced(reply.joke, {<<NameToken, reply.name>>,
                                                    <<SurnameToken, reply.surname>>})
        BY DEF BothReplaced
    <2>1. /\ new = Replaced(joke, {<<SurnameToken, reply.surname>>})
          /\ joke = Replaced(reply.joke, {<<NameToken, reply.name>>})
        BY DEF PassesInv
    <2>2. reply.name \in Seq(Letter) /\ reply.surname \in Seq(Letter) /\ reply.joke \in Seq(Letter)
        <3>1. reply.name \in Names /\ reply.surname \in Surnames /\ reply.joke \in Jokes
            BY DEF JokeInv, TypeOK
        <3> QED BY <3>1, JokeResponseAssumption
    <2> QED BY <2>1, <2>2, TwoPasses DEF Apart
<1> QED BY <1>1, <1>2, PassesKept, JokeInvAlways, PTL DEF Spec

(* session.c:158-172, 596-601, http_session.c:141-174: whatever fails, each  *)
(* string is freed by its owner and nobody else, and at the end all have     *)
(* been but a body that was not handed to the output buffer.                 *)
THEOREM FreedByOwner == Spec => []StringsOwned
<1>1. JokeInv => StringsOwned
    <2> SUFFICES ASSUME JokeInv PROVE StringsOwned
        OBVIOUS
    <2>1. TypeOK /\ Owned
        BY DEF JokeInv
    <2>2. \A b \in fields : block[b] = 1
        BY <2>1 DEF Owned, TypeOK, Field, Block
    <2>3. at = "over" => fields \cup Local = {}
        BY <2>1 DEF Owned, Local
    <2>4. at = "over_lost" => fields \cup Local = {"second"}
        BY <2>1 DEF Owned, Local
    <2> QED BY <2>1, <2>2, <2>3, <2>4 DEF StringsOwned, Owned
<1> QED BY <1>1, JokeInvAlways, PTL

=============================================================================
