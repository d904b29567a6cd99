------------------------------- MODULE SeqFacts -------------------------------
(***************************************************************************)
(* Facts about the sequence operators that the models use and the theorem  *)
(* library does not state.                                                 *)
(***************************************************************************)
EXTENDS Naturals, Integers, Sequences, SequencesExt, SequenceTheorems, WellFoundedInduction, TLAPS

\* A non-empty set of naturals has a least element: what every "first index
\* such that" of the models rests on.
LEMMA LeastExists ==
    ASSUME NEW T \in SUBSET Nat, T # {}
    PROVE  \E m \in T : \A n \in T : m <= n
  <1>1. PICK m \in T : \A n \in T : ~(<<n, m>> \in OpToRel(<, Nat))
    BY NatLessThanWellFounded, WFMin
  <1>2. \A n \in T : ~(n < m)
    BY <1>1 DEF OpToRel
  <1> QED BY <1>2

\* InsertAt puts e at position p and moves what followed by one.
LEMMA InsertAtFacts ==
    ASSUME NEW S, NEW q \in Seq(S), NEW p \in 1 .. Len(q) + 1, NEW e \in S
    PROVE  /\ InsertAt(q, p, e) \in Seq(S)
           /\ Len(InsertAt(q, p, e)) = Len(q) + 1
           /\ \A j \in 1 .. Len(q) + 1 :
                InsertAt(q, p, e)[j] = IF j < p THEN q[j] ELSE IF j = p THEN e ELSE q[j - 1]
  <1> DEFINE front == SubSeq(q, 1, p - 1)
             back == SubSeq(q, p, Len(q))
  <1>1. /\ Len(q) \in Nat /\ p \in Nat
        /\ \A j \in 1 .. Len(q) : q[j] \in S
    BY LenProperties, ElementOfSeq
  <1>2. /\ front \in Seq(S) /\ Len(front) = p - 1
        /\ \A j \in 1 .. p - 1 : front[j] = q[j]
    <2>1. \A j \in 1 .. p - 1 : q[j] \in S
      BY <1>1
    <2>2. /\ front \in Seq(S) /\ Len(front) = IF 1 <= p - 1 THEN (p - 1) - 1 + 1 ELSE 0
          /\ \A j \in 1 .. (p - 1) - 1 + 1 : front[j] = q[1 + j - 1]
      BY <1>1, <2>1, SubSeqProperties
    <2> QED BY <1>1, <2>2
  <1>3. /\ back \in Seq(S) /\ Len(back) = Len(q) - p + 1
        /\ \A j \in 1 .. Len(q) - p + 1 : back[j] = q[p + j - 1]
    <2>1. \A j \in p .. Len(q) : q[j] \in S
      BY <1>1
    <2>2. /\ back \in Seq(S) /\ Len(back) = IF p <= Len(q) THEN Len(q) - p + 1 ELSE 0
          /\ \A j \in 1 .. Len(q) - p + 1 : back[j] = q[p + j - 1]
      BY <1>1, <2>1, SubSeqProperties
    <2> QED BY <1>1, <2>2
  <1> DEFINE head == front \o <<e>>
  <1>4. /\ <<e>> \in Seq(S) /\ Len(<<e>>) = 1 /\ <<e>>[1] = e
    OBVIOUS
  <1>5. /\ head \in Seq(S) /\ Len(head) = p
        /\ \A j \in 1 .. p : head[j] = IF j <= p - 1 THEN front[j] ELSE <<e>>[j - (p - 1)]
    <2>1. /\ head \in Seq(S) /\ Len(head) = Len(front) + Len(<<e>>)
          /\ \A j \in 1 .. Len(front) + Len(<<e>>) :
               head[j] = IF j <= Len(front) THEN front[j] ELSE <<e>>[j - Len(front)]
      BY <1>2, <1>4, ConcatProperties
    <2> HIDE DEF front, head
    <2> QED BY <1>1, <1>2, <1>4, <2>1
  <1> DEFINE all == head \o back
  <1>6. all = InsertAt(q, p, e)
    BY DEF InsertAt
  <1> HIDE DEF front, back, head
  <1>7. /\ all \in Seq(S) /\ Len(all) = Len(head) + Len(back)
        /\ \A j \in 1 .. Len(head) + Len(back) :
             all[j] = IF j <= Len(head) THEN head[j] ELSE back[j - Len(head)]
    BY <1>3, <1>5, ConcatProperties
  <1> HIDE DEF all
  <1>8. \A j \in 1 .. Len(q) + 1 :
          all[j] = IF j < p THEN q[j] ELSE IF j = p THEN e ELSE q[j - 1]
    <2> TAKE j \in 1 .. Len(q) + 1
    <2>1. CASE j < p
      BY <1>1, <1>2, <1>3, <1>5, <1>7, <2>1
    <2>2. CASE j = p
      BY <1>1, <1>3, <1>4, <1>5, <1>7, <2>2
    <2>3. CASE j > p
      <3>1. j - p \in 1 .. Len(q) - p + 1 /\ p + (j - p) - 1 = j - 1
        BY <1>1, <2>3
      <3>2. /\ j \in 1 .. Len(head) + Len(back) /\ ~(j <= Len(head))
            /\ Len(head) = p
        BY <1>1, <1>3, <1>5, <2>3
      <3>3. all[j] = back[j - p]
        BY <1>7, <3>2, Zenon
      <3> QED BY <1>1, <1>3, <2>3, <3>1, <3>3
    <2>4. j < p \/ j = p \/ j > p
      BY <1>1
    <2> QED BY <2>1, <2>2, <2>3, <2>4, Zenon
  <1>9. Len(all) = Len(q) + 1
    BY <1>1, <1>3, <1>5, <1>7
  <1> QED BY <1>6, <1>7, <1>8, <1>9, Zenon

\* RemoveAt takes out position p and closes the gap.
LEMMA RemoveAtFacts ==
    ASSUME NEW S, NEW q \in Seq(S), NEW p \in 1 .. Len(q)
    PROVE  /\ RemoveAt(q, p) \in Seq(S)
           /\ Len(RemoveAt(q, p)) = Len(q) - 1
           /\ \A j \in 1 .. Len(q) - 1 : RemoveAt(q, p)[j] = IF j < p THEN q[j] ELSE q[j + 1]
  <1> DEFINE front == SubSeq(q, 1, p - 1)
             back == SubSeq(q, p + 1, Len(q))
  <1>1. /\ Len(q) \in Nat /\ p \in Nat
        /\ \A j \in 1 .. Len(q) : q[j] \in S
    BY LenProperties, ElementOfSeq
  <1>2. /\ front \in Seq(S) /\ Len(front) = p - 1
        /\ \A j \in 1 .. p - 1 : front[j] = q[j]
    <2>1. \A j \in 1 .. p - 1 : q[j] \in S
      BY <1>1
    <2>2. /\ front \in Seq(S) /\ Len(front) = IF 1 <= p - 1 THEN (p - 1) - 1 + 1 ELSE 0
          /\ \A j \in 1 .. (p - 1) - 1 + 1 : front[j] = q[1 + j - 1]
      BY <1>1, <2>1, SubSeqProperties
    <2> QED BY <1>1, <2>2
  <1>3. /\ back \in Seq(S) /\ Len(back) = Len(q) - p
        /\ \A j \in 1 .. Len(q) - p : back[j] = q[p + j]
    <2>1. \A j \in p + 1 .. Len(q) : q[j] \in S
      BY <1>1
    <2>2. /\ back \in Seq(S) /\ Len(back) = IF p + 1 <= Len(q) THEN Len(q) - (p + 1) + 1 ELSE 0
          /\ \A j \in 1 .. Len(q) - (p + 1) + 1 : back[j] = q[(p + 1) + j - 1]
      BY <1>1, <2>1, SubSeqProperties
    <2> QED BY <1>1, <2>2
  <1> DEFINE all == front \o back
  <1>4. /\ all \in Seq(S) /\ Len(all) = Len(front) + Len(back)
        /\ \A j \in 1 .. Len(front) + Len(back) :
             all[j] = IF j <= Len(front) THEN front[j] ELSE back[j - Len(front)]
    BY <1>2, <1>3, ConcatProperties
  <1>5. all = RemoveAt(q, p)
    BY DEF RemoveAt
  <1> HIDE DEF front, back, all
  <1>6. \A j \in 1 .. Len(q) - 1 : all[j] = IF j < p THEN q[j] ELSE q[j + 1]
    <2> TAKE j \in 1 .. Len(q) - 1
    <2>1. /\ j \in 1 .. Len(front) + Len(back) /\ j \in Nat /\ Len(front) = p - 1
          /\ p \in Nat
      BY <1>1, <1>2, <1>3
    <2>2. all[j] = IF j <= Len(front) THEN front[j] ELSE back[j - Len(front)]
      BY <1>4, <2>1, Zenon
    <2>3. CASE j < p
      <3>1. j <= Len(front) /\ j \in 1 .. p - 1
        BY <2>1, <2>3
      <3> QED BY <1>2, <2>2, <2>3, <3>1, Zenon
    <2>4. CASE ~(j < p)
      <3>1. /\ ~(j <= Len(front)) /\ j - Len(front) \in 1 .. Len(q) - p
            /\ p + (j - Len(front)) = j + 1
        BY <1>1, <2>1, <2>4
      <3> QED BY <1>3, <2>2, <2>4, <3>1, Zenon
    <2> QED BY <2>3, <2>4, Zenon
  <1>7. Len(all) = Len(q) - 1
    BY <1>1, <1>2, <1>3, <1>4
  <1> QED BY <1>4, <1>5, <1>6, <1>7, Zenon
=============================================================================
