---------------------------- MODULE ListTheorems ----------------------------
(* Facts about the lists of FskList.c, as sequences: what RemoveAt and        *)
(* InsertAt of SequencesExt leave of a list.                                  *)
EXTENDS Integers, Sequences, SequencesExt, SequenceTheorems, TLAPS

\* RemoveAt and InsertAt, element by element.
LEMMA RemoveAtElements ==
  ASSUME NEW S, NEW s \in Seq(S), NEW i \in 1 .. Len(s)
  PROVE  /\ RemoveAt(s, i) \in Seq(S)
         /\ DOMAIN RemoveAt(s, i) = 1 .. Len(s) - 1
         /\ \A k \in 1 .. Len(s) - 1 : RemoveAt(s, i)[k] = IF k < i THEN s[k] ELSE s[k + 1]
<1> DEFINE a == SubSeq(s, 1, i - 1)
           b == SubSeq(s, i + 1, Len(s))
<1>1. /\ a \in Seq(S) /\ Len(a) = i - 1
      /\ \A k \in 1 .. i - 1 : a[k] = s[k]
  OBVIOUS
<1>2. /\ b \in Seq(S) /\ Len(b) = Len(s) - i
      /\ \A k \in 1 .. Len(s) - i : b[k] = s[i + k]
  OBVIOUS
<1>3. RemoveAt(s, i) = a \o b
  BY DEF RemoveAt
<1> HIDE DEF a, b
<1>4. /\ a \o b \in Seq(S) /\ Len(a \o b) = Len(s) - 1
      /\ DOMAIN (a \o b) = 1 .. Len(s) - 1
      /\ \A k \in 1 .. Len(s) - 1 : (a \o b)[k] = IF k < i THEN a[k] ELSE b[k - (i - 1)]
  <2>1. /\ a \o b \in Seq(S) /\ Len(a \o b) = Len(a) + Len(b)
        /\ \A k \in 1 .. Len(a) + Len(b) : (a \o b)[k] = IF k <= Len(a) THEN a[k] ELSE b[k - Len(a)]
    BY ONLY <1>1, <1>2, ConcatProperties
  <2> QED BY <1>1, <1>2, <2>1
<1>5. \A k \in 1 .. Len(s) - 1 : (a \o b)[k] = IF k < i THEN s[k] ELSE s[k + 1]
  BY <1>1, <1>2, <1>4
<1> QED BY <1>3, <1>4, <1>5

LEMMA InsertAtElements ==
  ASSUME NEW S, NEW s \in Seq(S), NEW i \in 1 .. Len(s) + 1, NEW e \in S
  PROVE  /\ InsertAt(s, i, e) \in Seq(S)
         /\ DOMAIN InsertAt(s, i, e) = 1 .. Len(s) + 1
         /\ \A k \in 1 .. Len(s) + 1 :
              InsertAt(s, i, e)[k] = IF k < i THEN s[k] ELSE IF k = i THEN e ELSE s[k - 1]
<1> DEFINE a == SubSeq(s, 1, i - 1)
           b == SubSeq(s, i, Len(s))
           c == a \o <<e>>
<1>1. /\ a \in Seq(S) /\ Len(a) = i - 1
      /\ \A k \in 1 .. i - 1 : a[k] = s[k]
  OBVIOUS
<1>2. /\ b \in Seq(S) /\ Len(b) = Len(s) + 1 - i
      /\ \A k \in 1 .. Len(s) + 1 - i : b[k] = s[i + k - 1]
  OBVIOUS
<1>3. InsertAt(s, i, e) = c \o b
  BY DEF InsertAt
<1> HIDE DEF a, b
<1>4. /\ c \in Seq(S) /\ Len(c) = i
      /\ \A k \in 1 .. i : c[k] = IF k < i THEN a[k] ELSE e
  BY <1>1
<1> HIDE DEF c
<1>5. /\ c \o b \in Seq(S) /\ Len(c \o b) = Len(s) + 1
      /\ DOMAIN (c \o b) = 1 .. Len(s) + 1
      /\ \A k \in 1 .. Len(s) + 1 : (c \o b)[k] = IF k <= i THEN c[k] ELSE b[k - i]
  <2>1. /\ c \o b \in Seq(S) /\ Len(c \o b) = Len(c) + Len(b)
        /\ \A k \in 1 .. Len(c) + Len(b) : (c \o b)[k] = IF k <= Len(c) THEN c[k] ELSE b[k - Len(c)]
    BY ONLY <1>2, <1>4, ConcatProperties
  <2> QED BY <1>2, <1>4, <2>1
<1>6. \A k \in 1 .. Len(s) + 1 : (c \o b)[k] = IF k < i THEN s[k] ELSE IF k = i THEN e ELSE s[k - 1]
  BY <1>1, <1>2, <1>4, <1>5
<1> QED BY <1>3, <1>5, <1>6

\* FskListRemove takes one element and keeps the others.
LEMMA RemoveAtFacts ==
  ASSUME NEW S, NEW s \in Seq(S), NEW i \in 1 .. Len(s),
         \A j, k \in DOMAIN s : s[j] = s[k] => j = k
  PROVE  LET r == RemoveAt(s, i) IN
         /\ r \in Seq(S)
         /\ \A j, k \in DOMAIN r : r[j] = r[k] => j = k
         /\ \A e : (\E k \in DOMAIN r : r[k] = e) <=> (\E k \in DOMAIN s : s[k] = e) /\ e # s[i]
<1> DEFINE r == RemoveAt(s, i)
<1>1. /\ Len(s) \in Nat /\ DOMAIN s = 1 .. Len(s)
      /\ \A k \in 1 .. Len(s) : s[k] \in S
  OBVIOUS
<1>2. DOMAIN r = 1 .. Len(s) - 1 /\ \A k \in 1 .. Len(s) - 1 : r[k] = IF k < i THEN s[k] ELSE s[k + 1]
  BY RemoveAtElements
<1>4. r \in Seq(S)
  BY RemoveAtElements
<1>5. \A j, k \in DOMAIN r : r[j] = r[k] => j = k
  <2> DEFINE g(k) == IF k < i THEN k ELSE k + 1
  <2>1. \A k \in DOMAIN r : g(k) \in DOMAIN s /\ r[k] = s[g(k)]
    BY <1>1, <1>2
  <2>2. \A j, k \in DOMAIN r : g(j) = g(k) => j = k
    BY <1>1, <1>2
  <2> HIDE DEF g, r
  <2> QED BY <2>1, <2>2
<1>6. ASSUME NEW e PROVE (\E k \in DOMAIN r : r[k] = e) <=> (\E k \in DOMAIN s : s[k] = e) /\ e # s[i]
  <2>1. ASSUME NEW k \in DOMAIN r, r[k] = e PROVE (\E l \in DOMAIN s : s[l] = e) /\ e # s[i]
    <3>1. CASE k < i
      BY <3>1, <2>1, <1>1, <1>2
    <3>2. CASE ~(k < i)
      BY <3>2, <2>1, <1>1, <1>2
    <3> QED BY <3>1, <3>2
  <2>2. ASSUME NEW l \in DOMAIN s, s[l] = e, e # s[i] PROVE \E k \in DOMAIN r : r[k] = e
    <3>1. CASE l < i
      <4>1. l \in DOMAIN r /\ r[l] = e
        BY <3>1, <2>2, <1>1, <1>2
      <4> QED BY <4>1
    <3>2. CASE l > i
      <4>1. l - 1 \in DOMAIN r /\ r[l - 1] = e
        BY <3>2, <2>2, <1>1, <1>2
      <4> QED BY <4>1
    <3>3. l < i \/ l > i
      BY <2>2, <1>1
    <3> QED BY <3>1, <3>2, <3>3
  <2> QED BY <2>1, <2>2
<1> QED BY <1>4, <1>5, <1>6

=============================================================================
