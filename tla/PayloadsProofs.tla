----------------------------- MODULE PayloadsProofs ------------------------------
(***************************************************************************)
(* What the use cases of Payloads send, for any workers, nonces, network   *)
(* values, losses, predictions, revisions and faults: canonical texts      *)
(* denote the number they are made of, a bundle rests on one reading of    *)
(* the truth, and top-ups stay below the minimum.                          *)
(***************************************************************************)
EXTENDS Payloads, SequenceTheorems, TLAPS

-----------------------------------------------------------------------------
(* Decimals.                                                               *)

(* The fields of a decimal.                                                *)
LEMMA DecimalFields ==
    ASSUME NEW d \in Decimal
    PROVE  /\ d.finite = TRUE /\ d.neg \in BOOLEAN /\ d.digits \in Seq(Digit) /\ d.exponent \in Int
           /\ Len(d.digits) \in Nat /\ Len(d.digits) > 0
           /\ d.digits[1] # 0 \/ Len(d.digits) = 1
           /\ d = [finite |-> TRUE, neg |-> d.neg, digits |-> d.digits, exponent |-> d.exponent]
<1>1. /\ d \in [finite : {TRUE}, neg : BOOLEAN, digits : Seq(Digit), exponent : Int]
      /\ Coefficient(d.digits)
  BY DEF Decimal
<1>2. d.finite \in {TRUE} /\ d.neg \in BOOLEAN
  BY <1>1, Zenon
<1>3. d.digits \in Seq(Digit) /\ d.exponent \in Int
  BY <1>1
<1>4. Len(d.digits) \in Nat /\ Len(d.digits) > 0 /\ (d.digits[1] # 0 \/ Len(d.digits) = 1)
  BY <1>1, <1>3, LenProperties DEF Coefficient
<1>5. d = [finite |-> d.finite, neg |-> d.neg, digits |-> d.digits, exponent |-> d.exponent]
  BY <1>1
<1>6. d.finite = TRUE
  BY <1>2, Zenon
<1>7. d = [finite |-> TRUE, neg |-> d.neg, digits |-> d.digits, exponent |-> d.exponent]
  BY <1>5, <1>6, Zenon
<1> QED BY <1>2, <1>3, <1>4, <1>6, <1>7, Zenon

(* The digits of a concatenation.                                          *)
LEMMA Concatenation ==
    ASSUME NEW x \in Seq(Digit), NEW y \in Seq(Digit)
    PROVE  /\ x \o y \in Seq(Digit) /\ Len(x \o y) = Len(x) + Len(y)
           /\ \A i \in 1..(Len(x) + Len(y)) :
                  (x \o y)[i] = IF i <= Len(x) THEN x[i] ELSE y[i - Len(x)]
BY ConcatProperties

(* Zeros before a coefficient are stripped, and nothing of it is.          *)
LEMMA StripsPadding ==
    ASSUME NEW s \in Seq(Digit), NEW c \in Seq(Digit), Coefficient(c),
           NEW m \in Nat, Len(s) = m + Len(c),
           \A i \in 1..m : s[i] = 0, \A j \in 1..Len(c) : s[m + j] = c[j]
    PROVE  StripZeros(s) = c
<1> DEFINE significant == {i \in 1..Len(s) : s[i] # 0}
<1>1. Len(c) \in Nat /\ Len(c) > 0 /\ (c[1] # 0 \/ Len(c) = 1)
  BY LenProperties DEF Coefficient
<1>2. CASE c[1] = 0
  <2>1. Len(c) = 1
    BY <1>1, <1>2
  <2>2. significant = {}
    <3>1. ASSUME NEW i \in 1..Len(s) PROVE s[i] = 0
      <4>1. i \in 1..m \/ i = m + 1
        BY <2>1
      <4>2. s[m + 1] = c[1]
        BY <2>1
      <4> QED BY <1>2, <4>1, <4>2
    <3> QED BY <3>1
  <2>3. c = <<0>>
    BY <1>2, <2>1
  <2> QED BY <2>2, <2>3 DEF StripZeros
<1>3. CASE c[1] # 0
  <2>1. m + 1 \in significant /\ \A i \in significant : m + 1 <= i
    <3>1. m + 1 \in 1..Len(s) /\ s[m + 1] = c[1]
      BY <1>1
    <3>2. ASSUME NEW i \in significant PROVE m + 1 <= i
      <4>1. i \in 1..Len(s) /\ s[i] # 0
        OBVIOUS
      <4>2. i \notin 1..m
        BY <4>1
      <4> QED BY <4>1, <4>2
    <3> QED BY <1>3, <3>1, <3>2
  <2> DEFINE first == CHOOSE i \in significant : \A j \in significant : i <= j
  <2>2. first = m + 1
    <3>1. first \in significant /\ \A j \in significant : first <= j
      BY <2>1
    <3>2. first <= m + 1 /\ m + 1 <= first /\ first \in Int
      BY <2>1, <3>1
    <3> HIDE DEF first
    <3> QED BY <3>2
  <2>3. StripZeros(s) = SubSeq(s, first, Len(s))
    BY <2>1 DEF StripZeros
  <2> HIDE DEF first, significant
  <2>4. StripZeros(s) = SubSeq(s, m + 1, Len(s))
    BY <2>2, <2>3
  <2> DEFINE t == SubSeq(s, m + 1, Len(s))
  <2>5. /\ t \in Seq(Digit) /\ Len(t) = Len(c)
        /\ \A j \in 1..Len(c) : t[j] = s[m + j]
    BY <1>1
  <2> HIDE DEF t
  <2>6. t = c
    BY <2>5, SeqEqual
  <2> QED BY <2>4, <2>6 DEF t
<1> QED BY <1>2, <1>3

(* The plain form: the point stands where the exponent puts it.            *)
LEMMA PlainReadsBack ==
    ASSUME NEW d \in Decimal, d.exponent <= 0
    PROVE  /\ StripZeros(FmtF(d).whole \o FmtF(d).frac) = d.digits
           /\ Len(FmtF(d).frac) = -d.exponent
<1> DEFINE g == d.digits
           e == d.exponent
           n == Len(d.digits)
           p == n + e
<1>1. g \in Seq(Digit) /\ n \in Nat /\ n = Len(g) /\ n > 0 /\ e \in Int /\ Coefficient(g)
  BY DecimalFields DEF Decimal
<1>2. /\ FmtF(d).whole = IF e >= 0 THEN g \o Zeros(e)
                         ELSE IF p <= 0 THEN <<0>> ELSE SubSeq(g, 1, p)
      /\ FmtF(d).frac = IF e >= 0 THEN <<>>
                        ELSE IF p <= 0 THEN Zeros(-p) \o g ELSE SubSeq(g, p + 1, n)
  BY DEF FmtF
<1> HIDE DEF g, e, n
<1>3. CASE e = 0
  <2>1. Zeros(e) = <<>>
    BY <1>3 DEF Zeros
  <2>2. FmtF(d).whole = g /\ FmtF(d).frac = <<>>
    BY <1>1, <1>2, <1>3, <2>1
  <2>3. FmtF(d).whole \o FmtF(d).frac = g
    BY <1>1, <2>2
  <2>4. StripZeros(g) = g
    BY <1>1, StripsPadding
  <2>5. Len(FmtF(d).frac) = -e
    <3>1. Len(FmtF(d).frac) = 0
      BY <2>2
    <3>2. \A k, l \in Int : k + l = 0 => k = -l
      OBVIOUS
    <3>3. Len(FmtF(d).frac) + e = 0 /\ Len(FmtF(d).frac) \in Int
      BY <1>1, <1>3, <3>1
    <3> QED BY <1>1, <3>2, <3>3
  <2>6. Len(FmtF(d).frac) = -e /\ StripZeros(FmtF(d).whole \o FmtF(d).frac) = g
    BY <2>3, <2>4, <2>5, Zenon
  <2> QED BY <2>6, Zenon DEF g, e
<1>4. CASE e < 0 /\ p <= 0
  <2> DEFINE z == Zeros(-p)
             s == <<0>> \o (z \o g)
  <2>1. z \in Seq(Digit) /\ Len(z) = -p /\ \A i \in 1..(-p) : z[i] = 0
    BY <1>1, <1>4 DEF Zeros, Digit
  <2> HIDE DEF z
  <2>2. /\ z \o g \in Seq(Digit) /\ Len(z \o g) = n - p
        /\ \A i \in 1..(n - p) : (z \o g)[i] = IF i <= -p THEN z[i] ELSE g[i + p]
    <3>1. /\ z \o g \in Seq(Digit) /\ Len(z \o g) = Len(z) + Len(g)
          /\ \A i \in 1..(Len(z) + Len(g)) :
                 (z \o g)[i] = IF i <= Len(z) THEN z[i] ELSE g[i - Len(z)]
      BY <1>1, <2>1, Concatenation
    <3>2. Len(z) + Len(g) = n - p /\ \A i \in 1..(n - p) : i - Len(z) = i + p
      BY <1>1, <1>4, <2>1
    <3> QED BY <2>1, <3>1, <3>2
  <2>3. <<0>> \in Seq(Digit) /\ Len(<<0>>) = 1
    BY DEF Digit
  <2>4. /\ s \in Seq(Digit) /\ Len(s) = 1 + (n - p)
        /\ \A i \in 1..(1 + (n - p)) : s[i] = IF i <= 1 THEN <<0>>[i] ELSE (z \o g)[i - 1]
    BY <1>1, <1>4, <2>2, <2>3, Concatenation
  <2> DEFINE m == 1 - p
  <2>5. /\ m \in Nat /\ Len(s) = m + Len(g)
        /\ \A i \in 1..m : s[i] = 0
        /\ \A j \in 1..Len(g) : s[m + j] = g[j]
    <3>1. m \in Nat /\ Len(s) = m + Len(g)
      BY <1>1, <1>4, <2>4
    <3>2. ASSUME NEW i \in 1..m PROVE s[i] = 0
      <4>1. CASE i = 1
        BY <1>1, <1>4, <2>4, <4>1
      <4>2. CASE i > 1
        <5>1. i \in 1..(1 + (n - p)) /\ i - 1 \in 1..(n - p) /\ i - 1 <= -p /\ i - 1 \in 1..(-p)
          BY <1>1, <1>4, <4>2
        <5>2. s[i] = (z \o g)[i - 1]
          BY <2>4, <4>2, <5>1
        <5>3. (z \o g)[i - 1] = z[i - 1]
          BY <2>2, <5>1
        <5> QED BY <2>1, <5>1, <5>2, <5>3
      <4>3. i = 1 \/ i > 1
        BY <1>1, <1>4
      <4> QED BY <4>1, <4>2, <4>3, Zenon
    <3>3. ASSUME NEW j \in 1..Len(g) PROVE s[m + j] = g[j]
      <4>1. m + j \in 1..(1 + (n - p)) /\ ~(m + j <= 1) /\ m + j - 1 = j - p
        BY <1>1, <1>4
      <4>2. s[m + j] = (z \o g)[(m + j) - 1]
        <5> DEFINE k == m + j
        <5>1. k \in 1..(1 + (n - p)) /\ ~(k <= 1)
          BY <4>1
        <5> HIDE DEF k, m, s
        <5>2. s[k] = (z \o g)[k - 1]
          BY <2>4, <5>1
        <5> QED BY <5>2 DEF k
      <4>3. j - p \in 1..(n - p) /\ ~(j - p <= -p) /\ (j - p) + p = j
        BY <1>1, <1>4
      <4>4. (z \o g)[j - p] = g[(j - p) + p]
        <5> DEFINE k == j - p
        <5> HIDE DEF k
        <5>1. k \in 1..(n - p) /\ ~(k <= -p)
          BY <4>3 DEF k
        <5>2. (z \o g)[k] = g[k + p]
          BY <2>2, <5>1
        <5> QED BY <5>2 DEF k
      <4>5. (m + j) - 1 = j - p
        BY <1>1, <1>4
      <4>6. s[m + j] = (z \o g)[j - p]
        BY <4>2, <4>5, Zenon
      <4>7. (z \o g)[j - p] = g[j]
        BY <4>3, <4>4, Zenon
      <4> QED BY <4>6, <4>7, Zenon
    <3> QED BY <3>1, <3>2, <3>3
  <2>6. FmtF(d).whole = <<0>> /\ FmtF(d).frac = z \o g
    BY <1>1, <1>2, <1>4 DEF z
  <2> HIDE DEF s, m
  <2>7. StripZeros(s) = g
    BY <1>1, <2>4, <2>5, StripsPadding
  <2>8. Len(FmtF(d).frac) = -e
    BY <1>1, <1>4, <2>2, <2>6
  <2> QED BY <2>6, <2>7, <2>8 DEF s, g, e
<1>5. CASE e < 0 /\ p > 0
  <2> DEFINE a == SubSeq(g, 1, p)
             b == SubSeq(g, p + 1, n)
  <2>1. p \in 1..n
    BY <1>1, <1>5
  <2>2. a \in Seq(Digit) /\ Len(a) = p /\ \A i \in 1..p : a[i] = g[i]
    BY <1>1, <2>1
  <2>3. b \in Seq(Digit) /\ Len(b) = n - p /\ \A i \in 1..(n - p) : b[i] = g[p + i]
    BY <1>1, <2>1
  <2> HIDE DEF a, b
  <2>4. /\ a \o b \in Seq(Digit) /\ Len(a \o b) = n
        /\ \A i \in 1..n : (a \o b)[i] = IF i <= p THEN a[i] ELSE b[i - p]
    <3>1. /\ a \o b \in Seq(Digit) /\ Len(a \o b) = Len(a) + Len(b)
          /\ \A i \in 1..(Len(a) + Len(b)) :
                 (a \o b)[i] = IF i <= Len(a) THEN a[i] ELSE b[i - Len(a)]
      BY <2>2, <2>3, Concatenation
    <3>2. Len(a) + Len(b) = n
      BY <1>1, <2>1, <2>2, <2>3
    <3> QED BY <2>2, <3>1, <3>2
  <2>5. \A i \in 1..n : (a \o b)[i] = g[i]
    <3> SUFFICES ASSUME NEW i \in 1..n PROVE (a \o b)[i] = g[i]
      OBVIOUS
    <3>1. CASE i <= p
      BY <1>1, <2>1, <2>2, <2>4, <3>1
    <3>2. CASE i > p
      <4>1. i - p \in 1..(n - p) /\ p + (i - p) = i
        BY <1>1, <2>1, <3>2
      <4> QED BY <1>1, <2>1, <2>3, <2>4, <3>2, <4>1
    <3>3. i <= p \/ i > p
      BY <1>1
    <3> QED BY <3>1, <3>2, <3>3, Zenon
  <2>6. a \o b = g
    BY <1>1, <2>4, <2>5, SeqEqual
  <2>7. FmtF(d).whole = a /\ FmtF(d).frac = b
    BY <1>1, <1>2, <1>5 DEF a, b
  <2>8. StripZeros(g) = g
    BY <1>1, StripsPadding
  <2>9. Len(FmtF(d).frac) = -e
    BY <1>1, <2>3, <2>7
  <2> QED BY <2>6, <2>7, <2>8, <2>9 DEF g, e
<1>6. e <= 0
  BY DEF e
<1> QED BY <1>1, <1>3, <1>4, <1>5, <1>6

(* The scientific form: one digit before the point.                        *)
LEMMA ScientificReadsBack ==
    ASSUME NEW d \in Decimal
    PROVE  /\ StripZeros(FmtE(d).whole \o FmtE(d).frac) = d.digits
           /\ Len(FmtE(d).frac) = Len(d.digits) - 1
<1> DEFINE g == d.digits
<1>1. g \in Seq(Digit) /\ Len(g) \in Nat /\ Len(g) > 0 /\ Coefficient(g)
  BY DecimalFields DEF Decimal
<1>2. FmtE(d).whole = <<Head(g)>> /\ FmtE(d).frac = Tail(g)
  BY DEF FmtE
<1> HIDE DEF g
<1>3. g # <<>>
  BY <1>1
<1>4. Len(Tail(g)) = Len(g) - 1 /\ Head(g) \in Digit /\ Tail(g) \in Seq(Digit)
  BY <1>1, <1>3, HeadTailProperties
<1>5. <<Head(g)>> \o Tail(g) = g
  <2> DEFINE h == <<Head(g)>>
             t == Tail(g)
  <2>1. h \in Seq(Digit) /\ Len(h) = 1 /\ h[1] = g[1]
    BY <1>1, <1>4
  <2>2. t \in Seq(Digit) /\ Len(t) = Len(g) - 1 /\ \A i \in 1..(Len(g) - 1) : t[i] = g[i + 1]
    BY <1>1, <1>3, <1>4
  <2> HIDE DEF h, t
  <2>3. /\ h \o t \in Seq(Digit) /\ Len(h \o t) = Len(g)
        /\ \A i \in 1..Len(g) : (h \o t)[i] = IF i <= 1 THEN h[i] ELSE t[i - 1]
    <3>1. /\ h \o t \in Seq(Digit) /\ Len(h \o t) = Len(h) + Len(t)
          /\ \A i \in 1..(Len(h) + Len(t)) :
                 (h \o t)[i] = IF i <= Len(h) THEN h[i] ELSE t[i - Len(h)]
      BY <2>1, <2>2, Concatenation
    <3>2. Len(h) + Len(t) = Len(g)
      BY <1>1, <2>1, <2>2
    <3> QED BY <2>1, <3>1, <3>2
  <2>4. ASSUME NEW i \in 1..Len(g) PROVE (h \o t)[i] = g[i]
    <3>1. CASE i = 1
      BY <1>1, <2>1, <2>3, <3>1
    <3>2. CASE i > 1
      <4>1. i - 1 \in 1..(Len(g) - 1) /\ (i - 1) + 1 = i
        BY <1>1, <3>2
      <4> QED BY <1>1, <2>2, <2>3, <3>2, <4>1
    <3>3. i = 1 \/ i > 1
      BY <1>1
    <3> QED BY <3>1, <3>2, <3>3, Zenon
  <2>5. h \o t = g
    BY <1>1, <2>3, <2>4, SeqEqual
  <2> QED BY <2>5 DEF h, t
<1>6. StripZeros(g) = g
  BY <1>1, StripsPadding
<1> QED BY <1>2, <1>4, <1>5, <1>6 DEF g

(* The canonical text of a decimal denotes that very decimal, its trailing *)
(* zeros and the sign of its zero included, and is written of it again     *)
(* (canonicalize_dec).                                                     *)
THEOREM CanonicalReadsBack ==
    ASSUME NEW d \in Decimal
    PROVE  Parse(Canonical(d)) = d /\ ReadsBack(Canonical(d), d)
<1> DEFINE t == Canonical(d)
<1>1. /\ d.exponent \in Int /\ Len(d.digits) \in Nat
      /\ d = [finite |-> TRUE, neg |-> d.neg, digits |-> d.digits, exponent |-> d.exponent]
  BY DecimalFields, Zenon
<1>2. /\ StripZeros(t.whole \o t.frac) = d.digits
      /\ (IF t.exp = PlainForm THEN 0 ELSE t.exp[1]) - Len(t.frac) = d.exponent
  <2>1. CASE d.exponent <= 0 /\ Adjusted(d) >= AdjExponentLimit
    <3>1. t = FmtF(d)
      BY <2>1 DEF Canonical
    <3>2. t.exp = PlainForm
      BY <3>1 DEF FmtF
    <3> HIDE DEF t
    <3>3. StripZeros(t.whole \o t.frac) = d.digits /\ Len(t.frac) = -d.exponent
      BY <2>1, <3>1, PlainReadsBack
    <3> QED BY <1>1, <3>2, <3>3
  <2>2. CASE ~(d.exponent <= 0 /\ Adjusted(d) >= AdjExponentLimit)
    <3>1. t = FmtE(d)
      BY <2>2 DEF Canonical
    <3>2. t.exp = <<d.exponent + Len(d.digits) - 1>>
      BY <3>1 DEF FmtE
    <3> HIDE DEF t
    <3>3. StripZeros(t.whole \o t.frac) = d.digits /\ Len(t.frac) = Len(d.digits) - 1
      BY <3>1, ScientificReadsBack
    <3>4. t.exp # PlainForm /\ t.exp[1] = d.exponent + Len(d.digits) - 1
      BY <3>2 DEF PlainForm
    <3> QED BY <1>1, <3>3, <3>4
  <2> QED BY <2>1, <2>2
<1>3. t.neg = d.neg
  <2>1. FmtF(d).neg = d.neg
    BY Zenon DEF FmtF
  <2>2. FmtE(d).neg = d.neg
    BY Zenon DEF FmtE
  <2> QED BY <2>1, <2>2, Zenon DEF Canonical
<1>4. Parse(t) = [finite |-> TRUE, neg |-> d.neg, digits |-> d.digits, exponent |-> d.exponent]
  <2> HIDE DEF t
  <2> QED BY <1>2, <1>3, Zenon DEF Parse
<1>5. Parse(t) = d
  BY <1>1, <1>4, Zenon
<1> QED BY <1>5, Zenon DEF ReadsBack

-----------------------------------------------------------------------------
(* Types.                                                                  *)

Labels == {"new", "ready"} \cup Starting \cup Submitting

(* What each worker keeps.                                                 *)
Shape ==
    /\ pc \in [Workers -> Labels]
    /\ nonce \in [Workers -> Nonces \cup {0}]
    /\ delta \in [Workers -> 0..MinStake]
    /\ DOMAIN payload = Workers
    /\ answered \in [Workers -> SUBSET Nonces]
    /\ sanity_cache \subseteq Inferers
    /\ initialized \subseteq Workers /\ registered \subseteq Workers

(* What the await at which a worker is suspended says of it.               *)
Turn(w) ==
    /\ delta[w] # 0 <=> pc[w] = "topup"
    /\ payload[w] # Nothing => pc[w] \in {"sanity", "sent"}
    /\ nonce[w] # 0 <=> w \in initialized /\ pc[w] # "ready"
    /\ pc[w] \in {"new", "register"} => w \notin initialized
    /\ pc[w] \in {"ready", "predict", "sanity", "inferences", "truth", "sent"} => w \in initialized
    /\ pc[w] \in {"inferences", "truth", "stake", "topup"} => w \in Reputers
    /\ pc[w] = "sanity" => w \in Inferers /\ payload[w] \in Predictions

Turns == \A w \in Workers : Turn(w)

(* What the chain keeps, and what is counted.                              *)
ChainInv ==
    /\ stake \in [Reputers -> Nat] /\ late \in [Reputers -> Nat]
    /\ \A t \in limbo : t[1] \in Reputers /\ t[3] \in Nat
    /\ truth \in [Keys -> 0..MaxRevisions] /\ revisions \in 0..MaxRevisions
    /\ faults \in 0..MaxFaults /\ attempts \in 0..MaxAttempts

(* The cache holds a reading of its own key.                               *)
CacheInv ==
    gt_cache # Nothing =>
        \E k \in Keys, v \in 0..MaxRevisions : gt_cache = <<k, <<k, v>>>>

TypeInv == Shape /\ Turns /\ ChainInv /\ CacheInv

(* Zero is no nonce, and the kinds of worker are disjoint.                 *)
LEMMA Constants ==
    /\ 0 \notin Nonces
    /\ MinStake \in Nat /\ InitialStake \in Nat
    /\ MaxRevisions \in Nat /\ MaxFaults \in Nat /\ MaxAttempts \in Nat
    /\ \A w \in Inferers \cup Forecasters : w \in Workers /\ w \notin Reputers
    /\ \A w \in Reputers : w \in Workers
    /\ \A w \in Inferers : w \notin Forecasters
BY PayloadAssumption DEF Workers

(* A submission of a worker with a nonce is about a key.                   *)
LEMMA KeyOfNonce ==
    ASSUME NEW w \in Workers, nonce[w] \in Nonces
    PROVE  <<Topic[w], nonce[w]>> \in Keys
BY DEF Keys


(* No action of a worker disturbs what is kept of each of them.            *)
LEMMA TurnsKept ==
    ASSUME TypeInv, [Next]_vars
    PROVE  Shape' /\ Turns'
<1> USE Constants
<1> DEFINE Good == Shape' /\ Turns'
<1>0. Shape /\ Turns /\ stake \in [Reputers -> Nat]
  BY DEF TypeInv, ChainInv

<1> SUFFICES Good
  OBVIOUS
<1>1. ASSUME NEW w \in Workers, InitializeWorker(w) PROVE Good
  <2>1. Shape'
    BY <1>0, <1>1 DEF Shape, Turns, Turn, Labels, Starting, Submitting, InitializeWorker, Register, AfterStake, End, Goto, chain
  <2>2. Turns'
    BY <1>0, <1>1 DEF Shape, Turns, Turn, Labels, Starting, Submitting, InitializeWorker, Register, AfterStake, End, Goto, chain
  <2> QED BY <2>1, <2>2
<1>2. ASSUME NEW w \in Workers, InitializeReputer(w) PROVE Good
  <2>1. Shape'
    BY <1>0, <1>2 DEF Shape, Turns, Turn, Labels, Starting, Submitting, InitializeReputer, Register, MaybeStake, AfterStake, End, Goto, chain
  <2>2. Turns'
    BY <1>0, <1>2 DEF Shape, Turns, Turn, Labels, Starting, Submitting, InitializeReputer, Register, MaybeStake, AfterStake, End, Goto, chain
  <2> QED BY <2>1, <2>2
<1>3. ASSUME NEW w \in Workers, Registered(w) PROVE Good
  <2>1. Shape'
    BY <1>0, <1>3 DEF Shape, Turns, Turn, Labels, Starting, Submitting, Registered, MaybeStake, AfterStake, End, Goto, chain
  <2>2. Turns'
    BY <1>0, <1>3 DEF Shape, Turns, Turn, Labels, Starting, Submitting, Registered, MaybeStake, AfterStake, End, Goto, chain
  <2> QED BY <2>1, <2>2
<1>4. ASSUME NEW w \in Workers, StakeKnown(w) PROVE Good
  <2>1. Shape'
    BY <1>0, <1>4 DEF Shape, Turns, Turn, Labels, Starting, Submitting, StakeKnown, AddStake, TopUp, AfterStake, End, Goto, chain
  <2>2. Turns'
    BY <1>0, <1>4 DEF Shape, Turns, Turn, Labels, Starting, Submitting, StakeKnown, AddStake, TopUp, AfterStake, End, Goto, chain
  <2> QED BY <2>1, <2>2
<1>5. ASSUME NEW w \in Workers, StakeAdded(w) PROVE Good
  <2>1. Shape'
    BY <1>0, <1>5 DEF Shape, Turns, Turn, Labels, Starting, Submitting, StakeAdded, AfterStake, End, Goto, chain
  <2>2. Turns'
    BY <1>0, <1>5 DEF Shape, Turns, Turn, Labels, Starting, Submitting, StakeAdded, AfterStake, End, Goto, chain
  <2> QED BY <2>1, <2>2
<1>6. ASSUME NEW w \in Workers, Submit(w) PROVE Good
  <2>1. Shape'
    BY <1>0, <1>6 DEF Shape, Turns, Turn, Labels, Starting, Submitting, Submit, First, Goto, chain
  <2>2. Turns'
    BY <1>0, <1>6 DEF Shape, Turns, Turn, Labels, Starting, Submitting, Submit, First, Goto, chain
  <2> QED BY <2>1, <2>2
<1>7. ASSUME NEW w \in Workers, Predicted(w) PROVE Good
  <2>1. Shape'
    BY <1>0, <1>7 DEF Shape, Turns, Turn, Labels, Starting, Submitting, Predicted, Infer, Send, End, Goto, chain
  <2>2. Turns'
    BY <1>0, <1>7 DEF Shape, Turns, Turn, Labels, Starting, Submitting, Predicted, Infer, Send, End, Goto, chain
  <2> QED BY <2>1, <2>2
<1>8. ASSUME NEW w \in Workers, SanityChecked(w) PROVE Good
  <2>1. Shape'
    BY <1>0, <1>8 DEF Shape, Turns, Turn, Labels, Starting, Submitting, SanityChecked, Infer, Send, End, Goto, chain
  <2>2. Turns'
    BY <1>0, <1>8 DEF Shape, Turns, Turn, Labels, Starting, Submitting, SanityChecked, Infer, Send, End, Goto, chain
  <2> QED BY <2>1, <2>2
<1>9. ASSUME NEW w \in Workers, SanityExpires(w) PROVE Good
  <2>1. Shape'
    BY <1>0, <1>9 DEF Shape, Turns, Turn, Labels, Starting, Submitting, SanityExpires, local, chain
  <2>2. Turns'
    BY <1>0, <1>9 DEF Shape, Turns, Turn, Labels, Starting, Submitting, SanityExpires, local, chain
  <2> QED BY <2>1, <2>2
<1>10. ASSUME NEW w \in Workers, Forecasted(w) PROVE Good
  <2>1. Shape'
    BY <1>0, <1>10 DEF Shape, Turns, Turn, Labels, Starting, Submitting, Forecasted, Send, End, Goto, chain
  <2>2. Turns'
    BY <1>0, <1>10 DEF Shape, Turns, Turn, Labels, Starting, Submitting, Forecasted, Send, End, Goto, chain
  <2> QED BY <2>1, <2>2
<1>11. ASSUME NEW w \in Workers, InferencesKnown(w) PROVE Good
  <2>1. Shape'
    BY <1>0, <1>11 DEF Shape, Turns, Turn, Labels, Starting, Submitting, InferencesKnown, ComputeLosses, SendBundle, End, Goto, chain
  <2>2. Turns'
    BY <1>0, <1>11 DEF Shape, Turns, Turn, Labels, Starting, Submitting, InferencesKnown, ComputeLosses, SendBundle, End, Goto, chain
  <2> QED BY <2>1, <2>2
<1>12. ASSUME NEW w \in Workers, TruthKnown(w) PROVE Good
  <2>1. Shape'
    BY <1>0, <1>12 DEF Shape, Turns, Turn, Labels, Starting, Submitting, TruthKnown, ComputeLosses, SendBundle, End, Goto, chain
  <2>2. Turns'
    BY <1>0, <1>12 DEF Shape, Turns, Turn, Labels, Starting, Submitting, TruthKnown, ComputeLosses, SendBundle, End, Goto, chain
  <2> QED BY <2>1, <2>2
<1>13. ASSUME NEW w \in Workers, WorkerAnswered(w) PROVE Good
  <2>1. Shape'
    BY <1>0, <1>13 DEF Shape, Turns, Turn, Labels, Starting, Submitting, WorkerAnswered, AfterStake, Refused, End, Goto, chain
  <2>2. Turns'
    BY <1>0, <1>13 DEF Shape, Turns, Turn, Labels, Starting, Submitting, WorkerAnswered, AfterStake, Refused, End, Goto, chain
  <2> QED BY <2>1, <2>2
<1>14. ASSUME NEW w \in Workers, ReputerAnswered(w) PROVE Good
  <2>1. Shape'
    BY <1>0, <1>14 DEF Shape, Turns, Turn, Labels, Starting, Submitting, ReputerAnswered, MaybeStake, AfterStake, Refused, End, Goto, chain
  <2>2. Turns'
    BY <1>0, <1>14 DEF Shape, Turns, Turn, Labels, Starting, Submitting, ReputerAnswered, MaybeStake, AfterStake, Refused, End, Goto, chain
  <2> QED BY <2>1, <2>2
<1>15. ASSUME NEW w \in Workers, Cancel(w) PROVE Good
  <2>1. Shape'
    BY <1>0, <1>15 DEF Shape, Turns, Turn, Labels, Starting, Submitting, Cancel, End, Goto, chain
  <2>2. Turns'
    BY <1>0, <1>15 DEF Shape, Turns, Turn, Labels, Starting, Submitting, Cancel, End, Goto, chain
  <2> QED BY <2>1, <2>2
<1>16. ASSUME NEW w \in Workers, Rerun(w) PROVE Good
  <2>1. Shape'
    BY <1>0, <1>16 DEF Shape, Turns, Turn, Labels, Starting, Submitting, Rerun, Goto, local, chain
  <2>2. Turns'
    BY <1>0, <1>16 DEF Shape, Turns, Turn, Labels, Starting, Submitting, Rerun, Goto, local, chain
  <2> QED BY <2>1, <2>2
<1>17. ASSUME LateTopUp \/ Revise \/ UNCHANGED vars PROVE Good
  <2>1. UNCHANGED <<pc, local, sanity_cache, initialized, answered, registered>>
    BY <1>17 DEF LateTopUp, Revise, vars, chain
  <2> QED BY <1>0, <2>1 DEF Shape, Turns, Turn, local
<1> QED BY <1>1, <1>2, <1>3, <1>4, <1>5, <1>6, <1>7, <1>8, <1>9, <1>10, <1>11, <1>12, <1>13, <1>14, <1>15, <1>16, <1>17 DEF Next

(* Nor what the chain keeps, and what is read of it.                       *)
LEMMA ChainKept ==
    ASSUME TypeInv, [Next]_vars
    PROVE  ChainInv' /\ CacheInv'
<1> USE Constants
<1>0. Shape /\ Turns /\ ChainInv /\ CacheInv
  BY DEF TypeInv
<1> DEFINE Counted == faults' \in 0..MaxFaults /\ attempts' \in 0..MaxAttempts
<1>1. (UNCHANGED <<faults, attempts>>) \/ (Fault /\ UNCHANGED attempts) \/
      (attempts < MaxAttempts /\ attempts' = attempts + 1 /\ UNCHANGED faults) => Counted
  BY <1>0 DEF ChainInv, Fault
<1>2. ASSUME NEW w \in Workers, TruthKnown(w) PROVE ChainInv' /\ CacheInv'
  <2> DEFINE key == <<Topic[w], nonce[w]>>
  <2>1. key \in Keys
    BY <1>0, <1>2, KeyOfNonce DEF Shape, Turns, Turn, TruthKnown
  <2>2. truth[key] \in 0..MaxRevisions
    BY <1>0, <2>1 DEF ChainInv
  <2>3. gt_cache' = <<key, <<key, truth[key]>>>> \/ UNCHANGED gt_cache
    BY <1>2 DEF TruthKnown, CacheKey
  <2>4. CacheInv'
    BY <1>0, <2>1, <2>2, <2>3 DEF CacheInv
  <2>5. ChainInv'
    <3>1. UNCHANGED <<stake, limbo, late, truth, revisions, attempts>>
      BY <1>2, Zenon DEF TruthKnown, chain
    <3>2. (UNCHANGED faults) \/ Fault
      BY <1>2, Zenon DEF TruthKnown
    <3>3. Counted
      BY <1>1, <3>1, <3>2, Zenon
    <3> QED BY <1>0, <3>1, <3>3 DEF ChainInv
  <2> QED BY <2>4, <2>5
<1>3. ASSUME NEW w \in Workers, StakeAdded(w) PROVE ChainInv' /\ CacheInv'
  <2>1. w \in Reputers /\ delta[w] \in Nat
    BY <1>0, <1>3 DEF Shape, Turns, Turn, StakeAdded
  <2>2. stake' \in [Reputers -> Nat] /\ \A t \in limbo' : t[1] \in Reputers /\ t[3] \in Nat
    BY <1>0, <1>3, <2>1 DEF ChainInv, StakeAdded
  <2>3. Counted /\ UNCHANGED <<late, truth, revisions, gt_cache>>
    BY <1>0, <1>3 DEF ChainInv, StakeAdded, Fault
  <2> QED BY <1>0, <2>2, <2>3 DEF ChainInv, CacheInv
<1>4. ASSUME NEW w \in Workers, Cancel(w) PROVE ChainInv' /\ CacheInv'
  <2>1. \A t \in limbo' : t[1] \in Reputers /\ t[3] \in Nat
    <3>1. pc[w] = "topup" => w \in Reputers /\ delta[w] \in Nat
      BY <1>0 DEF Shape, Turns, Turn
    <3> QED BY <1>0, <1>4, <3>1 DEF ChainInv, Cancel
  <2>2. Counted /\ UNCHANGED <<stake, late, truth, revisions, gt_cache>>
    BY <1>0, <1>4 DEF ChainInv, Cancel, Fault
  <2> QED BY <1>0, <2>1, <2>2 DEF ChainInv, CacheInv
<1>5. ASSUME LateTopUp PROVE ChainInv' /\ CacheInv'
  <2> PICK t \in limbo :
           /\ limbo' = limbo \ {t}
           /\ stake' = [stake EXCEPT ![t[1]] = @ + t[3]]
           /\ late' = [late EXCEPT ![t[1]] = @ + t[3]]
           /\ UNCHANGED <<gt_cache, truth, revisions, faults, attempts>>
    BY <1>5 DEF LateTopUp
  <2>1. t[1] \in Reputers /\ t[3] \in Nat
    BY <1>0 DEF ChainInv
  <2> QED BY <1>0, <2>1 DEF ChainInv, CacheInv
<1>6. ASSUME Revise PROVE ChainInv' /\ CacheInv'
  <2>1. PICK k \in Keys : /\ revisions < MaxRevisions /\ revisions' = revisions + 1
                          /\ truth' = [truth EXCEPT ![k] = revisions + 1]
                          /\ UNCHANGED <<gt_cache, stake, limbo, late, faults, attempts>>
    BY <1>6 DEF Revise
  <2> QED BY <1>0, <2>1 DEF ChainInv, CacheInv
<1>7. ASSUME NEW w \in Workers, Submit(w) PROVE ChainInv' /\ CacheInv'
  BY <1>0, <1>7 DEF ChainInv, CacheInv, Submit, chain
<1>8. ASSUME NEW w \in Workers,
             \/ InitializeWorker(w) \/ InitializeReputer(w) \/ Registered(w) \/ StakeKnown(w)
             \/ Predicted(w) \/ SanityChecked(w) \/ SanityExpires(w) \/ Forecasted(w)
             \/ InferencesKnown(w) \/ WorkerAnswered(w) \/ ReputerAnswered(w) \/ Rerun(w)
      PROVE  ChainInv' /\ CacheInv'
  <2>1. UNCHANGED <<gt_cache, stake, limbo, late, truth, revisions, attempts>>
    BY <1>8, Zenon DEF InitializeWorker, InitializeReputer, Registered, StakeKnown, Predicted, SanityChecked,
          SanityExpires, Forecasted, InferencesKnown, WorkerAnswered, ReputerAnswered, Rerun, chain
  <2>2. (UNCHANGED faults) \/ Fault
    BY <1>8, Zenon DEF InitializeWorker, InitializeReputer, Registered, StakeKnown, Predicted, SanityChecked,
          SanityExpires, Forecasted, InferencesKnown, WorkerAnswered, ReputerAnswered, Rerun, Refused
  <2>3. Counted
    BY <1>1, <2>1, <2>2, Zenon
  <2> QED BY <1>0, <2>1, <2>3 DEF ChainInv, CacheInv
<1>9. CASE UNCHANGED vars
  BY <1>0, <1>9 DEF ChainInv, CacheInv, vars, chain
<1> QED BY <1>2, <1>3, <1>4, <1>5, <1>6, <1>7, <1>8, <1>9 DEF Next

(* The types hold at the start.                                            *)
LEMMA TypeAtStart == Init => TypeInv
<1> SUFFICES ASSUME Init PROVE TypeInv
  OBVIOUS
<1>1. Shape
  BY Constants DEF Init, Shape, Labels
<1>2. Turns
  BY Constants DEF Init, Turns, Turn, Nothing
<1>3. ChainInv
  BY Constants DEF Init, ChainInv
<1>4. CacheInv
  BY DEF Init, CacheInv
<1> QED BY <1>1, <1>2, <1>3, <1>4 DEF TypeInv

(* The types are an invariant.                                             *)
LEMMA TypeInvariant == Spec => []TypeInv
<1>1. TypeInv /\ [Next]_vars => TypeInv'
  BY TurnsKept, ChainKept DEF TypeInv
<1> QED BY <1>1, TypeAtStart, PTL DEF Spec

(* Every variable keeps to its type, and to what the await of its worker   *)
(* says of it.                                                             *)
THEOREM TypeCorrect == Spec => []TypeOK
<1>1. TypeInv => TypeOK
  <2> SUFFICES ASSUME TypeInv PROVE TypeOK
    OBVIOUS
  <2>1. Shape /\ Turns /\ ChainInv /\ CacheInv
    BY DEF TypeInv
  <2>2. gt_cache # Nothing => gt_cache[1] \in Keys
    BY <2>1 DEF CacheInv
  <2> QED BY <2>1, <2>2 DEF TypeOK, Shape, Turns, Turn, ChainInv, Labels
<1> QED BY <1>1, TypeInvariant, PTL

-----------------------------------------------------------------------------
(* The stake.                                                              *)

(* What of a reputer's stake was not added behind its back.                *)
Own(r) == stake[r] - late[r]

(* A top-up on its way does not lift it above the minimum.                 *)
TopUpInv == \A r \in Reputers :
    /\ Own(r) <= MinStake \/ Own(r) = InitialStake
    /\ delta[r] # 0 => Own(r) + delta[r] <= MinStake

(* A worker's step leaves Own and delta alone, clears delta, or is one of  *)
(* the two that matter.                                                    *)
LEMMA TopUpKept ==
    ASSUME TypeInv, TopUpInv, [Next]_vars
    PROVE  TopUpInv'
<1> USE Constants
<1>0. /\ stake \in [Reputers -> Nat] /\ late \in [Reputers -> Nat] /\ delta \in [Workers -> 0..MinStake]
      /\ \A t \in limbo : t[1] \in Reputers /\ t[3] \in Nat
      /\ \A w \in Workers : Turn(w)
  BY DEF TypeInv, Shape, ChainInv, Turns
<1>1. ASSUME NEW w \in Workers, StakeKnown(w) PROVE TopUpInv'
  <2>1. UNCHANGED <<stake, late>> /\ pc[w] = "stake"
    BY <1>1 DEF StakeKnown, chain
  <2>2. \/ w \in Reputers /\ delta' = [delta EXCEPT ![w] = MinStake - stake[w]]
        \/ UNCHANGED delta
    BY <1>0, <1>1, <2>1 DEF StakeKnown, AddStake, TopUp, Turn
  <2> QED BY <1>0, <2>1, <2>2 DEF TopUpInv, Own
<1>2. ASSUME NEW w \in Workers, StakeAdded(w) PROVE TopUpInv'
  <2>1. w \in Reputers /\ delta[w] # 0
    BY <1>0, <1>2 DEF StakeAdded, Turn
  <2>2. /\ UNCHANGED late /\ delta' = [delta EXCEPT ![w] = 0]
        /\ (UNCHANGED stake) \/ stake' = [stake EXCEPT ![w] = @ + delta[w]]
    BY <1>2 DEF StakeAdded
  <2> QED BY <1>0, <2>1, <2>2 DEF TopUpInv, Own
<1>3. ASSUME NEW w \in Workers, Cancel(w) PROVE TopUpInv'
  <2>1. UNCHANGED <<stake, late>> /\ delta' = [delta EXCEPT ![w] = 0]
    BY <1>3 DEF Cancel
  <2> QED BY <1>0, <2>1 DEF TopUpInv, Own
<1>4. ASSUME LateTopUp PROVE TopUpInv'
  <2> PICK t \in limbo :
           /\ stake' = [stake EXCEPT ![t[1]] = @ + t[3]]
           /\ late' = [late EXCEPT ![t[1]] = @ + t[3]]
           /\ UNCHANGED delta
    BY <1>4 DEF LateTopUp, local
  <2>1. t[1] \in Reputers /\ t[3] \in Nat
    BY <1>0
  <2>2. \A r \in Reputers : stake'[r] - late'[r] = stake[r] - late[r] /\ delta'[r] = delta[r]
    BY <1>0, <2>1
  <2> QED BY <2>2 DEF TopUpInv, Own
<1>5. ASSUME NEW w \in Workers,
             \/ InitializeWorker(w) \/ InitializeReputer(w) \/ Registered(w) \/ Submit(w)
             \/ Predicted(w) \/ SanityChecked(w) \/ SanityExpires(w) \/ Forecasted(w)
             \/ InferencesKnown(w) \/ TruthKnown(w) \/ WorkerAnswered(w) \/ ReputerAnswered(w) \/ Rerun(w)
      PROVE  UNCHANGED <<stake, late, delta>>
  BY <1>5, Zenon DEF InitializeWorker, InitializeReputer, Registered, Submit, Predicted, SanityChecked,
        SanityExpires, Forecasted, InferencesKnown, TruthKnown, WorkerAnswered, ReputerAnswered, Rerun, chain, local
<1>6. Revise \/ UNCHANGED vars => UNCHANGED <<stake, late, delta>>
  BY DEF Revise, vars, chain, local
<1>7. UNCHANGED <<stake, late, delta>> => TopUpInv'
  BY DEF TopUpInv, Own
<1> QED BY <1>1, <1>2, <1>3, <1>4, <1>5, <1>6, <1>7 DEF Next

(* A reputer's stake passes the minimum only by top-ups that were given up *)
(* and executed all the same (_maybe_stake).                               *)
THEOREM ToppedUpExactly == Spec => []TopUpExact
<1>1. Init => TopUpInv
  BY Constants DEF Init, TopUpInv, Own
<1>2. TypeInv /\ TopUpInv /\ [Next]_vars => TopUpInv'
  BY TopUpKept
<1>3. TopUpInv => TopUpExact
  BY DEF TopUpInv, TopUpExact, Own
<1> QED BY <1>1, <1>2, <1>3, TypeInvariant, PTL DEF Spec

-----------------------------------------------------------------------------
(* What is sent.                                                           *)

(* The numbers with a text are the decimals.                               *)
LEMMA FiniteNumber ==
    ASSUME NEW d \in Number, Finite(d)
    PROVE  d \in Decimal
<1>1. d # NotFinite
  <2> SUFFICES ASSUME d = NotFinite PROVE FALSE
    OBVIOUS
  <2>1. NotFinite.finite = FALSE
    BY Zenon DEF NotFinite
  <2> QED BY <2>1, Zenon DEF Finite
<1> QED BY <1>1, Zenon DEF Number

(* The texts of finite numbers read back.                                  *)
LEMMA TextsReadBack ==
    ASSUME NEW p, \A k \in DOMAIN p : p[k] \in Number, AllFinite(p)
    PROVE  \A k \in DOMAIN p : ReadsBack(Texts(p)[k], p[k])
<1> SUFFICES ASSUME NEW k \in DOMAIN p PROVE ReadsBack(Texts(p)[k], p[k])
  OBVIOUS
<1>1. p[k] \in Decimal
  BY FiniteNumber DEF AllFinite
<1>2. Texts(p)[k] = Canonical(p[k])
  BY DEF Texts
<1> QED BY <1>1, <1>2, CanonicalReadsBack, Zenon

(* Texts that are written again stay what they are.                        *)
LEMMA RewrittenReadBack ==
    ASSUME NEW p, \A k \in DOMAIN p : p[k] \in Number, AllFinite(p)
    PROVE  \A k \in DOMAIN p : ReadsBack(Rewritten(Texts(p))[k], p[k])
<1> SUFFICES ASSUME NEW k \in DOMAIN p PROVE ReadsBack(Rewritten(Texts(p))[k], p[k])
  OBVIOUS
<1> DEFINE t == Texts(p)
           q == [j \in DOMAIN t |-> Parse(t[j])]
<1>1. p[k] \in Decimal
  BY FiniteNumber DEF AllFinite
<1>2. DOMAIN t = DOMAIN p /\ t[k] = Canonical(p[k])
  BY DEF Texts
<1>3. Parse(t[k]) = p[k]
  BY <1>1, <1>2, CanonicalReadsBack, Zenon
<1> HIDE DEF t
<1>4. k \in DOMAIN q /\ q[k] = p[k]
  BY <1>2, <1>3
<1>5. Rewritten(t) = Texts(q)
  BY Zenon DEF Rewritten
<1> HIDE DEF q
<1>6. Texts(q)[k] = Canonical(q[k])
  BY <1>4 DEF Texts
<1>7. Rewritten(t)[k] = Canonical(p[k])
  BY <1>4, <1>5, <1>6, Zenon
<1> QED BY <1>1, <1>7, CanonicalReadsBack, Zenon DEF t

(* Every loss of a bundle stands in its place, as its canonical text.      *)
LossesOf(reading) == [s \in Slots |-> Loss(s, reading)]

LEMMA BundleReadsBack ==
    ASSUME NEW k \in Keys, NEW v \in 0..MaxRevisions, AllFinite(LossesOf(<<k, v>>)),
           NEW b, b = Bundle(<<k, v>>)
    PROVE  /\ \A s \in Slots : b.losses[s] = Loss(s, <<k, v>>)
           /\ \A s \in Values : ReadsBack(b.values[s], Loss(s, <<k, v>>))
           /\ \A s \in Withheld :
                  ReadsBack(b.one_out_inferer_forecaster_values[s[1]][s[2]], Loss(s, <<k, v>>))
<1> DEFINE loss == LossesOf(<<k, v>>)
           text == Texts(loss)
           pairs == [f \in {s[1] : s \in Withheld} |->
                        [i \in {s[2] : s \in {t \in Withheld : t[1] = f}} |-> text[<<f, i>>]]]
<1>1. DOMAIN loss = Slots /\ \A s \in Slots : loss[s] = Loss(s, <<k, v>>)
  BY DEF LossesOf
<1>2. \A s \in Slots : loss[s] \in Number
  BY <1>1, NumberAssumption
<1>3. \A s \in Slots : ReadsBack(text[s], loss[s])
  BY <1>1, <1>2, TextsReadBack
<1>4. b = [losses |-> loss, values |-> [s \in Values |-> text[s]],
           one_out_inferer_forecaster_values |-> pairs]
  BY Zenon DEF Bundle, LossesOf
<1>5. ASSUME NEW s \in Withheld PROVE pairs[s[1]][s[2]] = text[s]
  <2>1. s = <<s[1], s[2]>>
    BY NumberAssumption
  <2> HIDE DEF text
  <2> DEFINE f == s[1]
             i == s[2]
             row == [j \in {x[2] : x \in {t \in Withheld : t[1] = f}} |-> text[<<f, j>>]]
  <2>2. pairs[f] = row
    OBVIOUS
  <2>3. row[i] = text[<<f, i>>]
    OBVIOUS
  <2> QED BY <2>1, <2>2, <2>3
<1> HIDE DEF loss, text, pairs
<1>6. /\ b.losses = loss /\ b.values = [s \in Values |-> text[s]]
      /\ b.one_out_inferer_forecaster_values = pairs
  BY <1>4
<1>7. \A s \in Values : b.values[s] = text[s] /\ s \in Slots
  BY <1>6 DEF Slots
<1>8. \A s \in Withheld : s \in Slots
  BY DEF Slots
<1>9. \A s \in Slots : ReadsBack(text[s], Loss(s, <<k, v>>))
  BY <1>1, <1>3
<1> QED BY <1>1, <1>5, <1>6, <1>7, <1>8, <1>9

(* A reputer has sent the bundle of one reading of its own topic and       *)
(* nonce, another worker texts that read back.                             *)
OneReading(w) ==
    \E v \in 0..MaxRevisions :
        /\ AllFinite(LossesOf(<<<<Topic[w], nonce[w]>>, v>>))
        /\ payload[w] = Bundle(<<<<Topic[w], nonce[w]>>, v>>)

CanonicalTexts(w) ==
    \A k \in DOMAIN payload[w].values : ReadsBack(payload[w].texts[k], payload[w].values[k])

Sealed(w) == pc[w] = "sent" => IF w \in Reputers THEN OneReading(w) ELSE CanonicalTexts(w)

SealedInv == \A w \in Workers : Sealed(w)

(* Who does not send anything does not open what was sealed.               *)
LEMMA NothingOpened ==
    ASSUME SealedInv,
           \A v \in Workers : pc'[v] = "sent" =>
               pc[v] = "sent" /\ payload'[v] = payload[v] /\ nonce'[v] = nonce[v]
    PROVE  SealedInv'
BY Zenon DEF SealedInv, Sealed, OneReading, CanonicalTexts

(* The texts of what a worker sends read back.                             *)
LEMMA TextsSealed ==
    ASSUME Shape, SealedInv, NEW w \in Workers, w \notin Reputers, NEW values, NEW texts,
           Send(w, [values |-> values, texts |-> texts]),
           \A k \in DOMAIN values : ReadsBack(texts[k], values[k])
    PROVE  SealedInv'
<1>1. /\ pc' = [pc EXCEPT ![w] = "sent"]
      /\ payload' = [payload EXCEPT ![w] = [values |-> values, texts |-> texts]]
      /\ UNCHANGED nonce
  BY DEF Send, Goto
<1>2. CanonicalTexts(w)'
  <2> DEFINE body == [values |-> values, texts |-> texts]
  <2>1. payload'[w] = body
    BY <1>1 DEF Shape
  <2>2. body.values = values /\ body.texts = texts
    OBVIOUS
  <2> HIDE DEF body
  <2>3. payload'[w].values = values /\ payload'[w].texts = texts
    BY <2>1, <2>2, Zenon
  <2> QED BY <2>3, Zenon DEF CanonicalTexts
<1>3. ASSUME NEW v \in Workers, v # w PROVE Sealed(v)'
  <2>1. pc'[v] = pc[v] /\ payload'[v] = payload[v] /\ nonce'[v] = nonce[v]
    BY <1>1, <1>3 DEF Shape
  <2> QED BY <2>1, Zenon DEF SealedInv, Sealed, OneReading, CanonicalTexts
<1> QED BY <1>2, <1>3, Zenon DEF SealedInv, Sealed

(* The bundle of a reading is sealed as that.                              *)
LEMMA BundleSealed ==
    ASSUME Shape, SealedInv, NEW w \in Reputers, NEW v \in 0..MaxRevisions,
           SendBundle(w, <<<<Topic[w], nonce[w]>>, v>>),
           AllFinite(LossesOf(<<<<Topic[w], nonce[w]>>, v>>))
    PROVE  SealedInv'
<1> DEFINE b == Bundle(<<<<Topic[w], nonce[w]>>, v>>)
<1>1. pc' = [pc EXCEPT ![w] = "sent"] /\ payload' = [payload EXCEPT ![w] = b] /\ UNCHANGED nonce
  BY Zenon DEF SendBundle, Goto
<1>0. w \in Workers
  BY Constants
<1>2. OneReading(w)'
  <2> HIDE DEF b
  <2>1. payload'[w] = b /\ nonce'[w] = nonce[w]
    BY <1>0, <1>1 DEF Shape
  <2> QED BY <2>1, Zenon DEF OneReading, b
<1> HIDE DEF b
<1>3. ASSUME NEW u \in Workers, u # w PROVE Sealed(u)'
  <2>1. pc'[u] = pc[u] /\ payload'[u] = payload[u] /\ nonce'[u] = nonce[u]
    BY <1>1, <1>3 DEF Shape
  <2> QED BY <2>1, Zenon DEF SealedInv, Sealed, OneReading, CanonicalTexts
<1> QED BY <1>0, <1>2, <1>3, Zenon DEF SealedInv, Sealed

(* submit() that ends has sent nothing.                                    *)
LEMMA EndSealed ==
    ASSUME Shape, SealedInv, NEW w \in Workers, NEW marked, End(w, marked)
    PROVE  SealedInv'
<1>1. \A v \in Workers : pc'[v] = "sent" =>
          pc[v] = "sent" /\ payload'[v] = payload[v] /\ nonce'[v] = nonce[v]
  BY DEF Shape, End
<1> QED BY <1>1, NothingOpened

(* An inferer's prediction is sent as its texts, or not at all.            *)
LEMMA InferSealed ==
    ASSUME Shape, SealedInv, NEW w \in Workers, w \notin Reputers, NEW p \in Predictions, Infer(w, p)
    PROVE  SealedInv'
<1>1. CASE AllFinite(p)
  <2>1. Send(w, [values |-> p, texts |-> Texts(p)])
    BY <1>1, Zenon DEF Infer
  <2>2. \A k \in DOMAIN p : ReadsBack(Texts(p)[k], p[k])
    <3>1. \A k \in DOMAIN p : p[k] \in Number
      BY NumberAssumption
    <3> QED BY <1>1, <3>1, TextsReadBack
  <2> QED BY <2>1, <2>2, TextsSealed
<1>2. CASE ~AllFinite(p)
  <2>1. End(w, FALSE)
    BY <1>2, Zenon DEF Infer
  <2> QED BY <2>1, EndSealed
<1> QED BY <1>1, <1>2

(* Losses of a reading of the worker's own key are sent as its bundle, or  *)
(* not at all.                                                             *)
LEMMA LossesSealed ==
    ASSUME Shape, SealedInv, NEW w \in Reputers, NEW v \in 0..MaxRevisions,
           ComputeLosses(w, <<<<Topic[w], nonce[w]>>, v>>)
    PROVE  SealedInv'
<1> DEFINE reading == <<<<Topic[w], nonce[w]>>, v>>
<1>1. CASE AllFinite(LossesOf(reading))
  <2>1. SendBundle(w, reading)
    BY <1>1, Zenon DEF ComputeLosses, LossesOf
  <2> QED BY <1>1, <2>1, BundleSealed
<1>2. CASE ~AllFinite(LossesOf(reading))
  <2>1. End(w, TRUE)
    BY <1>2, Zenon DEF ComputeLosses, LossesOf
  <2>2. w \in Workers
    BY Constants
  <2> QED BY <2>1, <2>2, EndSealed
<1> QED BY <1>1, <1>2

(* Every step keeps the seals.                                             *)
LEMMA SealsKept ==
    ASSUME TypeInv, SealedInv, [Next]_vars
    PROVE  SealedInv'
<1>0. Shape /\ Turns /\ ChainInv /\ CacheInv
  BY DEF TypeInv
<1>1. ASSUME NEW w \in Workers, Predicted(w) PROVE SealedInv'
  <2>1. w \in Inferers /\ w \notin Reputers
    BY <1>1, Constants DEF Predicted
  <2>2. ASSUME NEW p \in Predictions, Goto(w, "sanity"), payload' = [payload EXCEPT ![w] = p], UNCHANGED nonce
        PROVE  SealedInv'
    <3>1. \A v \in Workers : pc'[v] = "sent" =>
              pc[v] = "sent" /\ payload'[v] = payload[v] /\ nonce'[v] = nonce[v]
      BY <1>0, <2>2 DEF Shape, Goto
    <3> QED BY <3>1, NothingOpened
  <2>3. ASSUME NEW p \in Predictions, Infer(w, p) PROVE SealedInv'
    BY <1>0, <2>1, <2>3, InferSealed
  <2>4. ASSUME End(w, TRUE) PROVE SealedInv'
    BY <1>0, <2>4, EndSealed
  <2> QED BY <1>1, <2>2, <2>3, <2>4, Zenon DEF Predicted
<1>2. ASSUME NEW w \in Workers, SanityChecked(w) PROVE SealedInv'
  <2>1. w \in Inferers /\ payload[w] \in Predictions /\ Infer(w, payload[w])
    BY <1>0, <1>2, Zenon DEF SanityChecked, Turns, Turn
  <2>2. w \notin Reputers
    BY <2>1, Constants
  <2> QED BY <1>0, <2>1, <2>2, InferSealed
<1>3. ASSUME NEW w \in Workers, Forecasted(w) PROVE SealedInv'
  <2>1. w \notin Reputers
    BY <1>3, Constants DEF Forecasted
  <2>2. ASSUME NEW f \in Forecasts, AllFinite(f), Send(w, [values |-> f, texts |-> Rewritten(Texts(f))])
        PROVE  SealedInv'
    <3>1. \A k \in DOMAIN f : f[k] \in Number
      BY NumberAssumption
    <3>2. \A k \in DOMAIN f : ReadsBack(Rewritten(Texts(f))[k], f[k])
      BY <2>2, <3>1, RewrittenReadBack
    <3> QED BY <1>0, <2>1, <2>2, <3>2, TextsSealed
  <2>3. ASSUME End(w, TRUE) PROVE SealedInv'
    BY <1>0, <2>3, EndSealed
  <2> QED BY <1>3, <2>2, <2>3, Zenon DEF Forecasted
<1>4. ASSUME NEW w \in Workers, InferencesKnown(w) PROVE SealedInv'
  <2>1. w \in Reputers
    BY <1>0, <1>4 DEF InferencesKnown, Turns, Turn
  <2>2. ASSUME Cached(w), ComputeLosses(w, gt_cache[2]) PROVE SealedInv'
    <3>1. PICK k \in Keys, v \in 0..MaxRevisions : gt_cache = <<k, <<k, v>>>>
      BY <1>0, <2>2 DEF CacheInv, Cached
    <3>2. gt_cache[2] = <<k, v>> /\ gt_cache[1] = k
      BY <3>1
    <3>3. k = <<Topic[w], nonce[w]>>
      BY <2>2, <3>2 DEF Cached, CacheKey
    <3>4. ComputeLosses(w, <<<<Topic[w], nonce[w]>>, v>>)
      BY <2>2, <3>2, <3>3, Zenon
    <3> QED BY <1>0, <2>1, <3>4, LossesSealed
  <2>3. ASSUME Goto(w, "truth"), UNCHANGED <<nonce, payload>> PROVE SealedInv'
    <3>1. \A v \in Workers : pc'[v] = "sent" =>
              pc[v] = "sent" /\ payload'[v] = payload[v] /\ nonce'[v] = nonce[v]
      BY <1>0, <2>3 DEF Shape, Goto
    <3> QED BY <3>1, NothingOpened
  <2>4. ASSUME End(w, TRUE) PROVE SealedInv'
    BY <1>0, <2>4, EndSealed
  <2> QED BY <1>4, <2>2, <2>3, <2>4, Zenon DEF InferencesKnown
<1>5. ASSUME NEW w \in Workers, TruthKnown(w) PROVE SealedInv'
  <2> DEFINE key == <<Topic[w], nonce[w]>>
  <2>1. w \in Reputers /\ key \in Keys
    BY <1>0, <1>5, KeyOfNonce DEF TruthKnown, Shape, Turns, Turn
  <2>2. truth[key] \in 0..MaxRevisions
    BY <1>0, <2>1 DEF ChainInv
  <2>3. ASSUME ComputeLosses(w, <<key, truth[key]>>) PROVE SealedInv'
    <3> DEFINE v == truth[key]
    <3>1. ComputeLosses(w, <<<<Topic[w], nonce[w]>>, v>>)
      BY <2>3
    <3> HIDE DEF v
    <3>2. v \in 0..MaxRevisions
      BY <2>2 DEF v
    <3> QED BY <1>0, <2>1, <3>1, <3>2, LossesSealed
  <2>4. ASSUME End(w, TRUE) PROVE SealedInv'
    BY <1>0, <2>4, EndSealed
  <2> QED BY <1>5, <2>3, <2>4, Zenon DEF TruthKnown
<1>6. ASSUME NEW w \in Workers,
             \/ InitializeWorker(w) \/ InitializeReputer(w) \/ Registered(w) \/ StakeKnown(w) \/ StakeAdded(w)
             \/ Submit(w) \/ SanityExpires(w) \/ WorkerAnswered(w) \/ ReputerAnswered(w)
             \/ Cancel(w) \/ Rerun(w)
      PROVE  SealedInv'
  <2>1. \A v \in Workers : pc'[v] = "sent" =>
            pc[v] = "sent" /\ payload'[v] = payload[v] /\ nonce'[v] = nonce[v]
    <3>1. /\ pc \in [Workers -> Labels] /\ nonce \in [Workers -> Nonces \cup {0}] /\ DOMAIN payload = Workers
      BY <1>0 DEF Shape
    <3>2. ASSUME InitializeWorker(w) PROVE \A v \in Workers : pc'[v] = "sent" =>
              pc[v] = "sent" /\ payload'[v] = payload[v] /\ nonce'[v] = nonce[v]
      BY <3>1, <3>2 DEF InitializeWorker, Register, AfterStake, End, Goto, First, local
    <3>3. ASSUME InitializeReputer(w) PROVE \A v \in Workers : pc'[v] = "sent" =>
              pc[v] = "sent" /\ payload'[v] = payload[v] /\ nonce'[v] = nonce[v]
      BY <3>1, <3>3 DEF InitializeReputer, Register, MaybeStake, AfterStake, End, Goto, First, local
    <3>4. ASSUME Registered(w) PROVE \A v \in Workers : pc'[v] = "sent" =>
              pc[v] = "sent" /\ payload'[v] = payload[v] /\ nonce'[v] = nonce[v]
      BY <3>1, <3>4 DEF Registered, MaybeStake, AfterStake, End, Goto, First, local
    <3>5. ASSUME StakeKnown(w) PROVE \A v \in Workers : pc'[v] = "sent" =>
              pc[v] = "sent" /\ payload'[v] = payload[v] /\ nonce'[v] = nonce[v]
      BY <3>1, <3>5 DEF StakeKnown, AddStake, TopUp, AfterStake, End, Goto, First, local
    <3>6. ASSUME StakeAdded(w) PROVE \A v \in Workers : pc'[v] = "sent" =>
              pc[v] = "sent" /\ payload'[v] = payload[v] /\ nonce'[v] = nonce[v]
      BY <3>1, <3>6 DEF StakeAdded, AfterStake, End, Goto, First, local
    <3>7. ASSUME Submit(w) PROVE \A v \in Workers : pc'[v] = "sent" =>
              pc[v] = "sent" /\ payload'[v] = payload[v] /\ nonce'[v] = nonce[v]
      BY <3>1, <3>7 DEF Submit, First, Goto, local
    <3>8. ASSUME WorkerAnswered(w) PROVE \A v \in Workers : pc'[v] = "sent" =>
              pc[v] = "sent" /\ payload'[v] = payload[v] /\ nonce'[v] = nonce[v]
      BY <3>1, <3>8 DEF WorkerAnswered, AfterStake, Refused, End, Goto, First, local
    <3>9. ASSUME ReputerAnswered(w) PROVE \A v \in Workers : pc'[v] = "sent" =>
              pc[v] = "sent" /\ payload'[v] = payload[v] /\ nonce'[v] = nonce[v]
      BY <3>1, <3>9 DEF ReputerAnswered, MaybeStake, AfterStake, Refused, End, Goto, First, local
    <3>10. ASSUME Cancel(w) PROVE \A v \in Workers : pc'[v] = "sent" =>
              pc[v] = "sent" /\ payload'[v] = payload[v] /\ nonce'[v] = nonce[v]
      BY <3>1, <3>10 DEF Cancel, End, Goto, First, local
    <3>11. ASSUME Rerun(w) PROVE \A v \in Workers : pc'[v] = "sent" =>
              pc[v] = "sent" /\ payload'[v] = payload[v] /\ nonce'[v] = nonce[v]
      BY <3>1, <3>11 DEF Rerun, Goto, First, local
    <3>12. ASSUME SanityExpires(w) PROVE UNCHANGED <<pc, payload, nonce>>
      BY <3>12, Zenon DEF SanityExpires, local
    <3> QED BY <1>6, <3>1, <3>2, <3>3, <3>4, <3>5, <3>6, <3>7, <3>8, <3>9, <3>10, <3>11, <3>12
  <2> QED BY <2>1, NothingOpened
<1>7. ASSUME LateTopUp \/ Revise \/ UNCHANGED vars PROVE SealedInv'
  <2>1. UNCHANGED <<pc, payload, nonce>>
    BY <1>7 DEF LateTopUp, Revise, vars, local
  <2>2. \A v \in Workers : pc'[v] = "sent" =>
            pc[v] = "sent" /\ payload'[v] = payload[v] /\ nonce'[v] = nonce[v]
    BY <2>1, Zenon
  <2> QED BY <2>2, NothingOpened
<1> QED BY <1>1, <1>2, <1>3, <1>4, <1>5, <1>6, <1>7 DEF Next

(* What is sent is sealed.                                                 *)
LEMMA SealedInvariant == Spec => [](TypeInv /\ SealedInv)
<1>1. Init => SealedInv
  BY Constants DEF Init, SealedInv, Sealed
<1>2. TypeInv /\ SealedInv /\ [Next]_vars => SealedInv'
  BY SealsKept
<1> QED BY <1>1, <1>2, TypeInvariant, PTL DEF Spec

(* The readings a sealed bundle may rest on.                               *)
LEMMA SealOfReputer ==
    ASSUME TypeInv, SealedInv, NEW w \in Reputers, pc[w] = "sent"
    PROVE  \E v \in 0..MaxRevisions :
               /\ \A s \in Slots : payload[w].losses[s] = Loss(s, <<<<Topic[w], nonce[w]>>, v>>)
               /\ \A s \in Values :
                      ReadsBack(payload[w].values[s], Loss(s, <<<<Topic[w], nonce[w]>>, v>>))
               /\ \A s \in Withheld :
                      ReadsBack(payload[w].one_out_inferer_forecaster_values[s[1]][s[2]],
                                Loss(s, <<<<Topic[w], nonce[w]>>, v>>))
<1>1. w \in Workers
  BY Constants
<1>2. OneReading(w)
  BY <1>1 DEF SealedInv, Sealed
<1>3. PICK v \in 0..MaxRevisions :
          /\ AllFinite(LossesOf(<<<<Topic[w], nonce[w]>>, v>>))
          /\ payload[w] = Bundle(<<<<Topic[w], nonce[w]>>, v>>)
  BY <1>2, Zenon DEF OneReading
<1>4. <<Topic[w], nonce[w]>> \in Keys
  <2>1. nonce[w] \in Nonces
    BY <1>1 DEF TypeInv, Shape, Turns, Turn
  <2> QED BY <1>1, <2>1, KeyOfNonce
<1> QED BY <1>3, <1>4, BundleReadsBack

(* All losses of a bundle come from one reading of the ground truth of the *)
(* bundle's own topic and nonce, each at the place of the value it judges  *)
(* (make_reputer_function and Reputer.submit).                             *)
THEOREM TruthPerBundle == Spec => []OneTruthPerBundle
<1>1. TypeInv /\ SealedInv => OneTruthPerBundle
  BY SealOfReputer, Zenon DEF OneTruthPerBundle, ReadsBack
<1> QED BY <1>1, SealedInvariant, PTL

(* Every text that is sent reads back as the decimal it was made of, and   *)
(* is written of that again (canonicalize_dec, insert_worker_payload and   *)
(* insert_reputer_payload).                                                *)
THEOREM TextsCanonical == Spec => []CanonicalText
<1>1. ASSUME TypeInv, SealedInv PROVE CanonicalText
  <2>1. ASSUME NEW w \in Reputers, pc[w] = "sent"
        PROVE  /\ \A s \in Values : ReadsBack(payload[w].values[s], payload[w].losses[s])
               /\ \A s \in Withheld :
                      ReadsBack(payload[w].one_out_inferer_forecaster_values[s[1]][s[2]],
                                payload[w].losses[s])
    <3>1. \A s \in Values \cup Withheld : s \in Slots
      BY DEF Slots
    <3>2. \A s \in Values : s \in Slots
      BY <3>1
    <3>3. \A s \in Withheld : s \in Slots
      BY <3>1
    <3> QED BY <1>1, <2>1, <3>2, <3>3, SealOfReputer, Zenon
  <2>2. ASSUME NEW w \in Workers, w \notin Reputers, pc[w] = "sent" PROVE CanonicalTexts(w)
    BY <1>1, <2>2 DEF SealedInv, Sealed
  <2> QED BY <2>1, <2>2, Zenon DEF CanonicalText, CanonicalTexts
<1> QED BY <1>1, SealedInvariant, PTL
=============================================================================
