---------------------------- MODULE SequenceFacts ----------------------------
(***************************************************************************)
(* Facts about the sequence operators the models are built from, for the   *)
(* proofs about lists: what is at each index after an element is taken out *)
(* of a list or put into it, and that Min picks the least index.           *)
(***************************************************************************)
EXTENDS Integers, SequencesExt, SequenceTheorems, WellFoundedInduction, TLAPS

(* A non-empty set of natural numbers has a least element, which Min picks. *)
LEMMA MinOfNats ==
    ASSUME NEW S \in SUBSET Nat, S # {}
    PROVE  Min(S) \in S /\ \A n \in S : Min(S) <= n
<1>1. PICK m \in S : \A n \in S : ~(<<n, m>> \in OpToRel(<, Nat))
  BY NatLessThanWellFounded, WFMin
<1>2. \A n \in S : ~(n < m)
  BY <1>1 DEF OpToRel
<1>3. \A n \in S : m <= n
  BY <1>2
<1> QED
  BY <1>3 DEF Min

(* The elements of a concatenation, index by index. *)
LEMMA ConcatFacts ==
    ASSUME NEW S, NEW a \in Seq(S), NEW b \in Seq(S)
    PROVE  /\ a \o b \in Seq(S)
           /\ Len(a \o b) = Len(a) + Len(b)
           /\ \A j \in 1 .. Len(a) : (a \o b)[j] = a[j]
           /\ \A j \in 1 .. Len(b) : (a \o b)[Len(a) + j] = b[j]
<1>1. Len(a) \in Nat /\ Len(b) \in Nat
  BY LenProperties
<1>2. /\ a \o b \in Seq(S)
      /\ Len(a \o b) = Len(a) + Len(b)
      /\ \A j \in 1 .. Len(a) + Len(b) :
            (a \o b)[j] = IF j <= Len(a) THEN a[j] ELSE b[j - Len(a)]
  BY ConcatProperties
<1>3. ASSUME NEW j \in 1 .. Len(a) PROVE (a \o b)[j] = a[j]
  <2>1. j \in 1 .. Len(a) + Len(b) /\ j <= Len(a)
    BY <1>1
  <2> QED
    BY <1>2, <2>1
<1>4. ASSUME NEW j \in 1 .. Len(b) PROVE (a \o b)[Len(a) + j] = b[j]
  <2>1. /\ Len(a) + j \in 1 .. Len(a) + Len(b) /\ ~(Len(a) + j <= Len(a))
        /\ (Len(a) + j) - Len(a) = j
    BY <1>1
  <2> QED
    BY <1>2, <2>1
<1> QED
  BY <1>2, <1>3, <1>4

(* Taking out the element at an index moves those behind it up by one. *)
LEMMA RemoveAtFacts ==
    ASSUME NEW S, NEW s \in Seq(S), NEW i \in 1 .. Len(s)
    PROVE  /\ RemoveAt(s, i) \in Seq(S)
           /\ Len(RemoveAt(s, i)) = Len(s) - 1
           /\ \A j \in 1 .. i - 1 : RemoveAt(s, i)[j] = s[j]
           /\ \A j \in i .. Len(s) - 1 : RemoveAt(s, i)[j] = s[j + 1]
<1> DEFINE a == SubSeq(s, 1, i - 1)
           b == SubSeq(s, i + 1, Len(s))
<1>1. Len(s) \in Nat /\ i \in Nat /\ \A j \in 1 .. Len(s) : s[j] \in S
  BY LenProperties, ElementOfSeq
<1>2. /\ a \in Seq(S) /\ Len(a) = i - 1
      /\ \A j \in 1 .. i - 1 : a[j] = s[j]
  BY <1>1, SubSeqProperties
<1>3. /\ b \in Seq(S) /\ Len(b) = Len(s) - i
      /\ \A j \in 1 .. Len(s) - i : b[j] = s[i + j]
  BY <1>1, SubSeqProperties
<1>r. RemoveAt(s, i) = a \o b
  BY DEF RemoveAt
<1> HIDE DEF a, b
<1>4. /\ a \o b \in Seq(S)
      /\ Len(a \o b) = Len(s) - 1
      /\ \A j \in 1 .. i - 1 : (a \o b)[j] = a[j]
      /\ \A j \in 1 .. Len(s) - i : (a \o b)[(i - 1) + j] = b[j]
  <2>1. /\ a \o b \in Seq(S)
        /\ Len(a \o b) = Len(a) + Len(b)
        /\ \A j \in 1 .. Len(a) : (a \o b)[j] = a[j]
        /\ \A j \in 1 .. Len(b) : (a \o b)[Len(a) + j] = b[j]
    <3>1. a \in Seq(S) /\ b \in Seq(S)
      BY <1>2, <1>3
    <3> QED
      BY <3>1, ConcatFacts
  <2>2. (i - 1) + (Len(s) - i) = Len(s) - 1
    BY <1>1
  <2> QED
    BY <1>2, <1>3, <2>1, <2>2
<1>5. ASSUME NEW j \in 1 .. i - 1 PROVE (a \o b)[j] = s[j]
  BY <1>2, <1>4
<1>6. ASSUME NEW j \in i .. Len(s) - 1 PROVE (a \o b)[j] = s[j + 1]
  <2>1. PICK m \in 1 .. Len(s) - i : m = j - (i - 1)
    BY <1>1
  <2>2. (i - 1) + m = j /\ i + m = j + 1
    BY <1>1, <2>1
  <2>3. (a \o b)[(i - 1) + m] = b[m] /\ b[m] = s[i + m]
    BY <1>3, <1>4
  <2> QED
    BY <2>2, <2>3
<1> QED
  BY <1>r, <1>4, <1>5, <1>6

(* Putting an element in at an index moves those from there on down by one. *)
LEMMA InsertAtFacts ==
    ASSUME NEW S, NEW s \in Seq(S), NEW e \in S, NEW i \in 1 .. Len(s) + 1
    PROVE  /\ InsertAt(s, i, e) \in Seq(S)
           /\ Len(InsertAt(s, i, e)) = Len(s) + 1
           /\ \A j \in 1 .. i - 1 : InsertAt(s, i, e)[j] = s[j]
           /\ InsertAt(s, i, e)[i] = e
           /\ \A j \in i .. Len(s) : InsertAt(s, i, e)[j + 1] = s[j]
<1> DEFINE a == SubSeq(s, 1, i - 1)
           b == SubSeq(s, i, Len(s))
           c == a \o <<e>>
<1>1. Len(s) \in Nat /\ i \in Nat /\ \A j \in 1 .. Len(s) : s[j] \in S
  BY LenProperties, ElementOfSeq
<1>2. /\ a \in Seq(S) /\ Len(a) = i - 1
      /\ \A j \in 1 .. i - 1 : a[j] = s[j]
  BY <1>1, SubSeqProperties
<1>3. /\ b \in Seq(S) /\ Len(b) = Len(s) - i + 1
      /\ \A j \in 1 .. Len(s) - i + 1 : b[j] = s[i + j - 1]
  BY <1>1, SubSeqProperties
<1>r. InsertAt(s, i, e) = c \o b
  BY DEF InsertAt
<1> HIDE DEF a, b
<1>4. <<e>> \in Seq(S) /\ Len(<<e>>) = 1 /\ <<e>>[1] = e
  OBVIOUS
<1>5. /\ c \in Seq(S)
      /\ Len(c) = i
      /\ \A j \in 1 .. i - 1 : c[j] = a[j]
      /\ \A j \in 1 .. 1 : c[(i - 1) + j] = <<e>>[j]
  <2>1. /\ c \in Seq(S)
        /\ Len(c) = Len(a) + Len(<<e>>)
        /\ \A j \in 1 .. Len(a) : c[j] = a[j]
        /\ \A j \in 1 .. Len(<<e>>) : c[Len(a) + j] = <<e>>[j]
    BY <1>2, <1>4, ConcatFacts
  <2>2. (i - 1) + 1 = i
    BY <1>1
  <2> QED
    BY <1>2, <1>4, <2>1, <2>2
<1>6. c[i] = e /\ \A j \in 1 .. i - 1 : c[j] = s[j]
  <2>1. c[(i - 1) + 1] = e /\ (i - 1) + 1 = i
    BY <1>1, <1>4, <1>5
  <2> QED
    BY <1>2, <1>5, <2>1
<1> HIDE DEF c
<1>7. /\ c \o b \in Seq(S)
      /\ Len(c \o b) = i + (Len(s) - i + 1)
      /\ \A j \in 1 .. i : (c \o b)[j] = c[j]
      /\ \A j \in 1 .. Len(s) - i + 1 : (c \o b)[i + j] = b[j]
  <2>1. /\ c \o b \in Seq(S)
        /\ Len(c \o b) = Len(c) + Len(b)
        /\ \A j \in 1 .. Len(c) : (c \o b)[j] = c[j]
        /\ \A j \in 1 .. Len(b) : (c \o b)[Len(c) + j] = b[j]
    <3>1. c \in Seq(S) /\ b \in Seq(S)
      BY <1>3, <1>5
    <3> QED
      BY <3>1, ConcatFacts
  <2>2. Len(c) = i /\ Len(b) = Len(s) - i + 1
    BY <1>3, <1>5
  <2> QED
    BY <2>1, <2>2
<1>8. Len(c \o b) = Len(s) + 1
  BY <1>1, <1>7
<1>9. ASSUME NEW j \in 1 .. i - 1 PROVE (c \o b)[j] = s[j]
  <2>1. j \in 1 .. i
    BY <1>1
  <2> QED
    BY <1>6, <1>7, <2>1
<1>10. (c \o b)[i] = e
  <2>1. i \in 1 .. i
    BY <1>1
  <2> QED
    BY <1>6, <1>7, <2>1
<1>11. ASSUME NEW j \in i .. Len(s) PROVE (c \o b)[j + 1] = s[j]
  <2>1. PICK m \in 1 .. Len(s) - i + 1 : m = j + 1 - i
    BY <1>1
  <2>2. i + m = j + 1 /\ i + m - 1 = j
    BY <1>1, <2>1
  <2>3. (c \o b)[i + m] = b[m] /\ b[m] = s[i + m - 1]
    BY <1>3, <1>7
  <2> QED
    BY <2>2, <2>3
<1> QED
  BY <1>r, <1>7, <1>8, <1>9, <1>10, <1>11

-----------------------------------------------------------------------------
(* No element occurs twice in a list. *)
NoRepeats(s) == \A i, j \in 1 .. Len(s) : s[i] = s[j] => i = j

(* Where each element of the shorter list was in the list itself. *)
LEMMA RemoveAtOrigin ==
    ASSUME NEW S, NEW s \in Seq(S), NEW i \in 1 .. Len(s)
    PROVE  \A j \in 1 .. Len(RemoveAt(s, i)) :
              \/ j < i /\ RemoveAt(s, i)[j] = s[j]
              \/ j >= i /\ j + 1 \in 1 .. Len(s) /\ RemoveAt(s, i)[j] = s[j + 1]
<1> DEFINE r == RemoveAt(s, i)
<1>1. Len(s) \in Nat /\ i \in Nat
  BY LenProperties
<1>2. /\ Len(r) = Len(s) - 1
      /\ \A j \in 1 .. i - 1 : r[j] = s[j]
      /\ \A j \in i .. Len(s) - 1 : r[j] = s[j + 1]
  BY RemoveAtFacts
<1> HIDE DEF r
<1>3. SUFFICES ASSUME NEW j \in 1 .. Len(r)
               PROVE  \/ j < i /\ r[j] = s[j]
                      \/ j >= i /\ j + 1 \in 1 .. Len(s) /\ r[j] = s[j + 1]
  BY DEF r
<1>4. CASE j < i
  <2>1. j \in 1 .. i - 1
    BY <1>1, <1>4
  <2> QED
    BY <1>2, <1>4, <2>1
<1>5. CASE j >= i
  <2>1. j \in i .. Len(s) - 1 /\ j + 1 \in 1 .. Len(s)
    BY <1>1, <1>2, <1>5
  <2> QED
    BY <1>2, <1>5, <2>1
<1> QED
  BY <1>1, <1>4, <1>5

(* Taking an element out of a list without repetitions removes it and only *)
(* it, and makes no repetition.                                            *)
LEMMA RemoveAtSet ==
    ASSUME NEW S, NEW s \in Seq(S), NEW i \in 1 .. Len(s), NoRepeats(s)
    PROVE  /\ RemoveAt(s, i) \in Seq(S)
           /\ NoRepeats(RemoveAt(s, i))
           /\ ToSet(RemoveAt(s, i)) = ToSet(s) \ {s[i]}
<1> DEFINE r == RemoveAt(s, i)
<1>1. Len(s) \in Nat /\ i \in Nat /\ DOMAIN s = 1 .. Len(s)
  BY LenProperties
<1>2. /\ r \in Seq(S)
      /\ Len(r) = Len(s) - 1
      /\ \A j \in 1 .. i - 1 : r[j] = s[j]
      /\ \A j \in i .. Len(s) - 1 : r[j] = s[j + 1]
      /\ \A j \in 1 .. Len(r) :
              \/ j < i /\ r[j] = s[j]
              \/ j >= i /\ j + 1 \in 1 .. Len(s) /\ r[j] = s[j + 1]
  BY RemoveAtFacts, RemoveAtOrigin
<1>3. DOMAIN r = 1 .. Len(r)
  BY <1>2, LenProperties
<1> HIDE DEF r
<1>4. NoRepeats(r)
  <2>1. SUFFICES ASSUME NEW j \in 1 .. Len(r), NEW m \in 1 .. Len(r), r[j] = r[m]
                 PROVE  j = m
    BY DEF NoRepeats
  <2>0. ASSUME NEW k \in 1 .. Len(r)
        PROVE  \E a \in 1 .. Len(s) : /\ r[k] = s[a]
                                      /\ (k < i /\ a = k) \/ (k >= i /\ a = k + 1)
    <3>1. CASE k < i
      <4>1. k \in 1 .. Len(s) /\ ~(k >= i)
        BY <1>1, <3>1
      <4> QED
        BY <1>2, <3>1, <4>1
    <3>2. CASE ~(k < i)
      <4>1. k >= i /\ k + 1 \in 1 .. Len(s) /\ r[k] = s[k + 1]
        BY <1>2, <3>2
      <4> QED
        BY <4>1
    <3> QED
      BY <3>1, <3>2
  <2>2. PICK a \in 1 .. Len(s) : r[j] = s[a] /\ ((j < i /\ a = j) \/ (j >= i /\ a = j + 1))
    BY <2>0
  <2>3. PICK b \in 1 .. Len(s) : r[m] = s[b] /\ ((m < i /\ b = m) \/ (m >= i /\ b = m + 1))
    BY <2>0
  <2>4. a = b
    BY <2>1, <2>2, <2>3 DEF NoRepeats
  <2> QED
    BY <1>1, <2>2, <2>3, <2>4
<1>5. ASSUME NEW x \in ToSet(r) PROVE x \in ToSet(s) \ {s[i]}
  <2>1. PICK j \in 1 .. Len(r) : r[j] = x
    BY <1>3 DEF ToSet
  <2>2. PICK a \in 1 .. Len(s) : r[j] = s[a] /\ a # i
    BY <1>1, <1>2
  <2>3. s[a] # s[i]
    BY <2>2 DEF NoRepeats
  <2> QED
    BY <1>1, <2>1, <2>2, <2>3 DEF ToSet
<1>6. ASSUME NEW x \in ToSet(s) \ {s[i]} PROVE x \in ToSet(r)
  <2>1. PICK a \in 1 .. Len(s) : s[a] = x /\ a # i
    BY <1>1 DEF ToSet
  <2>2. CASE a < i
    <3>1. a \in 1 .. Len(r) /\ a \in 1 .. i - 1
      BY <1>1, <1>2, <2>2
    <3> QED
      BY <1>2, <1>3, <2>1, <3>1 DEF ToSet
  <2>3. CASE a > i
    <3>1. PICK j \in i .. Len(s) - 1 : j + 1 = a
      BY <1>1, <2>3
    <3>2. j \in 1 .. Len(r)
      BY <1>1, <1>2, <3>1
    <3>3. r[j] = x
      BY <1>2, <2>1, <3>1
    <3> QED
      BY <1>3, <3>2, <3>3 DEF ToSet
  <2> QED
    BY <1>1, <2>1, <2>2, <2>3
<1> QED
  BY <1>2, <1>4, <1>5, <1>6 DEF r

(* Putting a new element into a list without repetitions adds it and only  *)
(* it, and makes no repetition.                                            *)
LEMMA InsertAtSet ==
    ASSUME NEW S, NEW s \in Seq(S), NEW e \in S, NEW i \in 1 .. Len(s) + 1,
           NoRepeats(s), e \notin ToSet(s)
    PROVE  /\ InsertAt(s, i, e) \in Seq(S)
           /\ NoRepeats(InsertAt(s, i, e))
           /\ ToSet(InsertAt(s, i, e)) = ToSet(s) \cup {e}
<1> DEFINE r == InsertAt(s, i, e)
<1>1. Len(s) \in Nat /\ i \in Nat /\ DOMAIN s = 1 .. Len(s)
  BY LenProperties
<1>2. /\ r \in Seq(S)
      /\ Len(r) = Len(s) + 1
      /\ \A j \in 1 .. i - 1 : r[j] = s[j]
      /\ r[i] = e
      /\ \A j \in i .. Len(s) : r[j + 1] = s[j]
  BY InsertAtFacts
<1>3. DOMAIN r = 1 .. Len(r)
  BY <1>2, LenProperties
<1> HIDE DEF r
<1>4. ASSUME NEW j \in 1 .. Len(r)
      PROVE  \/ j < i /\ j \in 1 .. Len(s) /\ r[j] = s[j]
             \/ j = i /\ r[j] = e
             \/ j > i /\ j - 1 \in 1 .. Len(s) /\ r[j] = s[j - 1]
  <2>1. CASE j < i
    <3>1. j \in 1 .. i - 1 /\ j \in 1 .. Len(s)
      BY <1>1, <2>1
    <3> QED
      BY <1>2, <2>1, <3>1
  <2>2. CASE j = i
    BY <1>2, <2>2
  <2>3. CASE j > i
    <3>1. PICK m \in i .. Len(s) : m = j - 1 /\ m + 1 = j /\ m \in 1 .. Len(s)
      BY <1>1, <1>2, <2>3
    <3> QED
      BY <1>2, <2>3, <3>1
  <2> QED
    BY <1>1, <2>1, <2>2, <2>3
<1>5. \A a \in 1 .. Len(s) : s[a] # e
  BY <1>1 DEF ToSet
<1>6. NoRepeats(r)
  <2>1. SUFFICES ASSUME NEW j \in 1 .. Len(r), NEW m \in 1 .. Len(r), r[j] = r[m]
                 PROVE  j = m
    BY DEF NoRepeats
  <2>2. CASE j = i
    <3>1. m # i => \E a \in 1 .. Len(s) : r[m] = s[a]
      BY <1>4
    <3> QED
      BY <1>2, <1>5, <2>1, <2>2, <3>1
  <2>3. CASE m = i
    <3>1. j # i => \E a \in 1 .. Len(s) : r[j] = s[a]
      BY <1>4
    <3> QED
      BY <1>2, <1>5, <2>1, <2>3, <3>1
  <2>4. CASE j # i /\ m # i
    <3>2. PICK a \in 1 .. Len(s) : r[j] = s[a] /\ ((j < i /\ a = j) \/ (j > i /\ a = j - 1))
      BY <1>1, <1>4, <2>4
    <3>3. PICK b \in 1 .. Len(s) : r[m] = s[b] /\ ((m < i /\ b = m) \/ (m > i /\ b = m - 1))
      BY <1>1, <1>4, <2>4
    <3>4. a = b
      BY <2>1, <3>2, <3>3 DEF NoRepeats
    <3> QED
      BY <1>1, <3>2, <3>3, <3>4
  <2> QED
    BY <2>2, <2>3, <2>4
<1>7. ASSUME NEW x \in ToSet(r) PROVE x \in ToSet(s) \cup {e}
  <2>1. PICK j \in 1 .. Len(r) : r[j] = x
    BY <1>3 DEF ToSet
  <2> QED
    BY <1>1, <1>4, <2>1 DEF ToSet
<1>8. ASSUME NEW x \in ToSet(s) \cup {e} PROVE x \in ToSet(r)
  <2>1. CASE x = e
    <3>1. i \in 1 .. Len(r)
      BY <1>1, <1>2
    <3> QED
      BY <1>2, <1>3, <2>1, <3>1 DEF ToSet
  <2>2. CASE x \in ToSet(s)
    <3>1. PICK a \in 1 .. Len(s) : s[a] = x
      BY <1>1, <2>2 DEF ToSet
    <3>2. CASE a < i
      <4>1. a \in 1 .. Len(r) /\ a \in 1 .. i - 1
        BY <1>1, <1>2, <3>2
      <4> QED
        BY <1>2, <1>3, <3>1, <4>1 DEF ToSet
    <3>3. CASE a >= i
      <4>1. a + 1 \in 1 .. Len(r) /\ a \in i .. Len(s)
        BY <1>1, <1>2, <3>3
      <4> QED
        BY <1>2, <1>3, <3>1, <4>1 DEF ToSet
    <3> QED
      BY <1>1, <3>2, <3>3
  <2> QED
    BY <2>1, <2>2
<1> QED
  BY <1>2, <1>6, <1>7, <1>8 DEF r

(* The same of an element that joins at the end. *)
LEMMA AppendSet ==
    ASSUME NEW S, NEW s \in Seq(S), NEW e \in S, NoRepeats(s), e \notin ToSet(s)
    PROVE  /\ Append(s, e) \in Seq(S)
           /\ NoRepeats(Append(s, e))
           /\ ToSet(Append(s, e)) = ToSet(s) \cup {e}
           /\ Append(s, e) # <<>>
<1> DEFINE r == Append(s, e)
<1>1. Len(s) \in Nat /\ DOMAIN s = 1 .. Len(s)
  BY LenProperties
<1>2. /\ r \in Seq(S)
      /\ Len(r) = Len(s) + 1
      /\ \A j \in 1 .. Len(s) : r[j] = s[j]
      /\ r[Len(s) + 1] = e
  BY AppendProperties
<1>3. DOMAIN r = 1 .. Len(r) /\ r # <<>>
  BY <1>2, LenProperties, AppendProperties
<1> HIDE DEF r
<1>4. \A a \in 1 .. Len(s) : s[a] # e
  BY <1>1 DEF ToSet
<1>5. \A j \in 1 .. Len(r) : j \in 1 .. Len(s) \/ j = Len(s) + 1
  BY <1>1, <1>2
<1>6. NoRepeats(r)
  BY <1>1, <1>2, <1>4, <1>5 DEF NoRepeats
<1>7. ToSet(r) = ToSet(s) \cup {e}
  <2>1. \A j \in 1 .. Len(s) : j \in 1 .. Len(r)
    BY <1>1, <1>2
  <2>2. Len(s) + 1 \in 1 .. Len(r)
    BY <1>1, <1>2
  <2> QED
    BY <1>1, <1>2, <1>3, <1>5, <2>1, <2>2 DEF ToSet
<1> QED
  BY <1>2, <1>3, <1>6, <1>7 DEF r

(* Tail drops the first element and moves the others up by one. *)
LEMMA TailFacts ==
    ASSUME NEW S, NEW s \in Seq(S), s # <<>>
    PROVE  /\ Head(s) = s[1] /\ Head(s) \in S /\ Tail(s) \in Seq(S)
           /\ Len(s) \in Nat \ {0} /\ Len(Tail(s)) = Len(s) - 1
           /\ \A j \in 1 .. Len(s) - 1 : Tail(s)[j] = s[j + 1]
  BY HeadTailProperties, LenProperties, EmptySeq

(* Taking the first element off a list without repetitions removes it and  *)
(* only it.                                                                *)
LEMMA TailSet ==
    ASSUME NEW S, NEW s \in Seq(S), s # <<>>, NoRepeats(s)
    PROVE  /\ Tail(s) \in Seq(S)
           /\ NoRepeats(Tail(s))
           /\ ToSet(Tail(s)) = ToSet(s) \ {Head(s)}
           /\ Head(s) \in ToSet(s)
<1> DEFINE r == Tail(s)
<1>1. /\ Head(s) = s[1] /\ r \in Seq(S)
      /\ Len(s) \in Nat \ {0} /\ Len(r) = Len(s) - 1
      /\ \A j \in 1 .. Len(s) - 1 : r[j] = s[j + 1]
  BY TailFacts
<1>2. DOMAIN s = 1 .. Len(s) /\ DOMAIN r = 1 .. Len(r)
  BY <1>1, LenProperties
<1> HIDE DEF r
<1>3. \A j \in 1 .. Len(r) : j + 1 \in 2 .. Len(s) /\ r[j] = s[j + 1]
  BY <1>1
<1>4. NoRepeats(r)
  <2>1. SUFFICES ASSUME NEW i \in 1 .. Len(r), NEW j \in 1 .. Len(r), r[i] = r[j]
                 PROVE  i = j
    BY DEF NoRepeats
  <2>2. i + 1 \in 1 .. Len(s) /\ j + 1 \in 1 .. Len(s) /\ s[i + 1] = s[j + 1]
    BY <1>1, <1>3, <2>1
  <2>3. i + 1 = j + 1
    BY <2>2 DEF NoRepeats
  <2> QED
    BY <2>3
<1>5. ASSUME NEW x \in ToSet(r) PROVE x \in ToSet(s) \ {Head(s)}
  <2>1. PICK j \in 1 .. Len(r) : r[j] = x
    BY <1>2 DEF ToSet
  <2>2. j + 1 \in 1 .. Len(s) /\ j + 1 # 1 /\ 1 \in 1 .. Len(s) /\ s[j + 1] = x
    BY <1>1, <1>3, <2>1
  <2>3. x # s[1]
    BY <2>2 DEF NoRepeats
  <2> QED
    BY <1>1, <1>2, <2>2, <2>3 DEF ToSet
<1>6. ASSUME NEW x \in ToSet(s) \ {Head(s)} PROVE x \in ToSet(r)
  <2>1. PICK i \in 1 .. Len(s) : s[i] = x /\ i # 1
    BY <1>1, <1>2 DEF ToSet
  <2>2. PICK j \in 1 .. Len(s) - 1 : j + 1 = i
    BY <1>1, <2>1
  <2>3. j \in 1 .. Len(r) /\ r[j] = x
    BY <1>1, <2>1, <2>2
  <2> QED
    BY <1>2, <2>3 DEF ToSet
<1>7. Head(s) \in ToSet(s)
  BY <1>1, <1>2 DEF ToSet
<1> QED
  BY <1>1, <1>4, <1>5, <1>6, <1>7 DEF r

(* An element appended to the second of two lists in a row.  *)
LEMMA ConcatAppend ==
    ASSUME NEW S, NEW a \in Seq(S), NEW b \in Seq(S), NEW e \in S
    PROVE  a \o Append(b, e) = Append(a \o b, e)
<1>1. <<e>> \in Seq(S) /\ a \o b \in Seq(S)
  BY ConcatProperties
<1>2. Append(b, e) = b \o <<e>> /\ Append(a \o b, e) = (a \o b) \o <<e>>
  BY <1>1, AppendIsConcat
<1> QED
  BY <1>1, <1>2, ConcatAssociative

(* The first element of the first of two lists in a row, and the rest. *)
LEMMA ConcatTail ==
    ASSUME NEW S, NEW a \in Seq(S), NEW b \in Seq(S), a # <<>>
    PROVE  a \o b # <<>> /\ Head(a \o b) = Head(a) /\ Tail(a \o b) = Tail(a) \o b
<1> DEFINE c == a \o b
           d == Tail(a) \o b
<1>1. /\ a[1] = Head(a) /\ Tail(a) \in Seq(S)
      /\ Len(a) \in Nat \ {0} /\ Len(b) \in Nat /\ Len(Tail(a)) = Len(a) - 1
      /\ \A j \in 1 .. Len(a) - 1 : Tail(a)[j] = a[j + 1]
  BY TailFacts, LenProperties
<1>2. /\ c \in Seq(S) /\ Len(c) = Len(a) + Len(b)
      /\ \A j \in 1 .. Len(a) : c[j] = a[j]
      /\ \A j \in 1 .. Len(b) : c[Len(a) + j] = b[j]
  BY ConcatFacts
<1>3. /\ d \in Seq(S) /\ Len(d) = Len(a) - 1 + Len(b)
      /\ \A j \in 1 .. Len(a) - 1 : d[j] = Tail(a)[j]
      /\ \A j \in 1 .. Len(b) : d[(Len(a) - 1) + j] = b[j]
  BY <1>1, ConcatFacts
<1> HIDE DEF c, d
<1>4. c # <<>>
  BY <1>1, <1>2, EmptySeq
<1>5. /\ c[1] = Head(c) /\ Tail(c) \in Seq(S) /\ Len(Tail(c)) = Len(c) - 1
      /\ \A j \in 1 .. Len(c) - 1 : Tail(c)[j] = c[j + 1]
  BY <1>2, <1>4, TailFacts
<1>6. Head(c) = Head(a)
  BY <1>1, <1>2, <1>5
<1>7. Len(Tail(c)) = Len(d)
  BY <1>1, <1>2, <1>3, <1>5
<1>8. ASSUME NEW j \in 1 .. Len(d) PROVE Tail(c)[j] = d[j]
  <2>i. Len(a) \in Int /\ Len(b) \in Int /\ j \in Int
    BY <1>1, <1>3
  <2>1. Tail(c)[j] = c[j + 1]
    BY <1>1, <1>2, <1>3, <1>5
  <2>2. CASE j < Len(a)
    <3>1. j \in 1 .. Len(a) - 1 /\ j + 1 \in 1 .. Len(a)
      BY <1>1, <2>2
    <3> QED
      BY <1>1, <1>2, <1>3, <2>1, <3>1
  <2>3. CASE j >= Len(a)
    <3>1. PICK m \in 1 .. Len(b) : (Len(a) - 1) + m = j /\ Len(a) + m = j + 1
      <4> DEFINE m == j - (Len(a) - 1)
      <4>1. m \in 1 .. Len(b)
        BY <1>1, <1>3, <2>3
      <4>2. (Len(a) - 1) + m = j
        BY <2>i
      <4>3. Len(a) + m = j + 1
        BY <2>i
      <4> HIDE DEF m
      <4> QED
        BY <4>1, <4>2, <4>3
    <3>2. d[(Len(a) - 1) + m] = b[m] /\ c[Len(a) + m] = b[m]
      BY <1>2, <1>3
    <3> QED
      BY <2>1, <3>1, <3>2
  <2>4. j < Len(a) \/ j >= Len(a)
    BY <2>i
  <2> QED
    BY <2>2, <2>3, <2>4
<1>9. Tail(c) = d
  BY <1>3, <1>5, <1>7, <1>8, SeqEqual
<1> QED
  BY <1>4, <1>6, <1>9 DEF c, d
(* The elements of two lists in a row. *)
LEMMA ConcatSet ==
    ASSUME NEW S, NEW a \in Seq(S), NEW b \in Seq(S)
    PROVE  ToSet(a \o b) = ToSet(a) \cup ToSet(b)
<1> DEFINE c == a \o b
<1>1. Len(a) \in Nat /\ Len(b) \in Nat /\ DOMAIN a = 1 .. Len(a) /\ DOMAIN b = 1 .. Len(b)
  BY LenProperties
<1>2. /\ c \in Seq(S) /\ Len(c) = Len(a) + Len(b)
      /\ \A j \in 1 .. Len(a) : c[j] = a[j]
      /\ \A j \in 1 .. Len(b) : c[Len(a) + j] = b[j]
  BY ConcatFacts
<1>3. DOMAIN c = 1 .. Len(c)
  BY <1>2, LenProperties
<1> HIDE DEF c
<1>4. \A j \in 1 .. Len(a) : j \in 1 .. Len(c)
  BY <1>1, <1>2
<1>5. \A j \in 1 .. Len(b) : Len(a) + j \in 1 .. Len(c)
  BY <1>1, <1>2
<1>6. ASSUME NEW j \in 1 .. Len(c) PROVE j \in 1 .. Len(a) \/ \E m \in 1 .. Len(b) : j = Len(a) + m
  <2>1. j \in Int /\ j >= 1 /\ j <= Len(a) + Len(b)
    BY <1>1, <1>2
  <2>2. CASE j <= Len(a)
    BY <1>1, <2>1, <2>2
  <2>3. CASE ~(j <= Len(a))
    <3> DEFINE m == j - Len(a)
    <3>1. m \in 1 .. Len(b)
      BY <1>1, <2>1, <2>3
    <3>2. j = Len(a) + m
      BY <1>1, <2>1
    <3> HIDE DEF m
    <3> QED
      BY <3>1, <3>2
  <2> QED
    BY <2>2, <2>3
<1>7. ASSUME NEW x \in ToSet(c) PROVE x \in ToSet(a) \cup ToSet(b)
  <2>1. PICK j \in 1 .. Len(c) : c[j] = x
    BY <1>3 DEF ToSet
  <2> QED
    BY <1>1, <1>2, <1>6, <2>1 DEF ToSet
<1>8. ASSUME NEW x \in ToSet(a) PROVE x \in ToSet(c)
  BY <1>1, <1>2, <1>3, <1>4 DEF ToSet
<1>9. ASSUME NEW x \in ToSet(b) PROVE x \in ToSet(c)
  BY <1>1, <1>2, <1>3, <1>5 DEF ToSet
<1> QED
  BY <1>7, <1>8, <1>9 DEF c
=============================================================================
