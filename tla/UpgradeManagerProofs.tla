------------------------ MODULE UpgradeManagerProofs ------------------------
(***************************************************************************)
(* Proofs about the upgrade with USB requests and checks of both kinds, for *)
(* any number of checks, requests, downloads and burns.  What makes it     *)
(* work is that one hand passes the upgrade on: while an image is received *)
(* there is at most one of a download, its message and its delayed         *)
(* message, while it is burnt at most one of a burn thread and its         *)
(* message, and otherwise neither.  That is so until the user has a prompt *)
(* before him while another image is received or burnt (Rival), which      *)
(* never happens to a box with one kind of checks.  The types, that checks *)
(* do not disturb an upgrade and that requesters are told hold always and  *)
(* in either mode.                                                         *)
(***************************************************************************)
EXTENDS UpgradeManager, Integers, SeqFacts, FiniteSetTheorems

\* The answer to a prompt that is open while an image is received or burnt
\* makes the code use objects it has deleted (README.md, Findings); a box with
\* one kind of checks never gets there.  With MIX_UPGRADE_MODE a NULL event is
\* reported, whatever else is done.
Rival == prompted # {} /\ m_state \in {"receive", "burn"}
OneKind == ~MixMode /\ \E k : Types = {k}

\* At most one, or none, of the messages in K is in q.
One(q, K) == \A i, j \in DOMAIN q : q[i] \in K /\ q[j] \in K => i = j
Free(q, K) == \A i \in DOMAIN q : q[i] \notin K

-----------------------------------------------------------------------------
(* Queues.                                                                 *)

\* What Without computes: its recursion has a solution.
Rec(q, gone, n, f) ==
    f = [i \in 0 .. n |->
           IF i = 0 THEN <<>> ELSE IF q[i] \in gone THEN f[i - 1] ELSE Append(f[i - 1], q[i])]

LEMMA RecExists ==
    ASSUME NEW q, NEW gone, NEW len \in Nat
    PROVE  \E f : Rec(q, gone, len, f)
  <1> DEFINE Bad == {n \in Nat : ~\E f : Rec(q, gone, n, f)}
  <1>1. SUFFICES ASSUME Bad # {} PROVE FALSE
    OBVIOUS
  <1>2. PICK n \in Bad : \A m \in Bad : n <= m
    <2>1. Bad \in SUBSET Nat
      OBVIOUS
    <2> HIDE DEF Bad
    <2> QED BY <1>1, <2>1, LeastExists, Zenon
  <1>3. n \in Nat /\ \A m \in Nat : m < n => \E f : Rec(q, gone, m, f)
    BY <1>2
  <1>4. CASE n = 0
    <2> DEFINE f == [i \in 0 .. n |-> <<>>]
    <2>1. Rec(q, gone, n, f)
      BY <1>4 DEF Rec
    <2> HIDE DEF f
    <2> QED BY <1>2, <2>1
  <1>5. CASE n # 0
    <2>1. n - 1 \in Nat /\ n - 1 < n
      BY <1>3, <1>5
    <2>2. PICK f : Rec(q, gone, n - 1, f)
      BY <1>3, <2>1
    <2> DEFINE last == IF q[n] \in gone THEN f[n - 1] ELSE Append(f[n - 1], q[n])
               g == [i \in 0 .. n |-> IF i = n THEN last ELSE f[i]]
    <2> HIDE DEF last
    <2>3. ASSUME NEW i \in 0 .. n
          PROVE  g[i] = IF i = 0 THEN <<>> ELSE IF q[i] \in gone THEN g[i - 1] ELSE Append(g[i - 1], q[i])
      <3>1. CASE i = n
        <4>1. g[i] = last /\ g[i - 1] = f[i - 1] /\ i # 0
          BY <1>3, <1>5, <3>1
        <4> QED BY <3>1, <4>1 DEF last
      <3>2. CASE i # n
        <4>1. i \in 0 .. n - 1 /\ g[i] = f[i] /\ (i # 0 => i - 1 \in 0 .. n /\ i - 1 # n /\ g[i - 1] = f[i - 1])
          BY <1>3, <3>2
        <4>2. f[i] = IF i = 0 THEN <<>> ELSE IF q[i] \in gone THEN f[i - 1] ELSE Append(f[i - 1], q[i])
          BY <2>2, <4>1 DEF Rec
        <4> HIDE DEF g
        <4> QED BY <4>1, <4>2
      <3> QED BY <3>1, <3>2
    <2>4. Rec(q, gone, n, g)
      <3>1. g = [i \in 0 .. n |-> g[i]]
        OBVIOUS
      <3> HIDE DEF g
      <3> QED BY <2>3, <3>1 DEF Rec
    <2> HIDE DEF g
    <2> QED BY <1>2, <2>4
  <1> QED BY <1>4, <1>5

LEMMA WithoutIs ==
    ASSUME NEW q, NEW gone, Len(q) \in Nat
    PROVE  \E f : Rec(q, gone, Len(q), f) /\ Without(q, gone) = f[Len(q)]
  <1> DEFINE f == CHOOSE f : Rec(q, gone, Len(q), f)
  <1>1. Rec(q, gone, Len(q), f)
    BY RecExists
  <1>2. Without(q, gone) = f[Len(q)]
    BY DEF Without, Rec
  <1> HIDE DEF f
  <1> QED BY <1>1, <1>2
LEMMA IndexFacts ==
    ASSUME NEW S, NEW q \in Seq(S)
    PROVE  /\ Len(q) \in Nat /\ DOMAIN q = 1 .. Len(q) /\ (q = <<>> <=> Len(q) = 0)
           /\ \A i \in 1 .. Len(q) : q[i] \in S
  <1>1. Len(q) \in Nat /\ DOMAIN q = 1 .. Len(q) /\ (q = <<>> <=> Len(q) = 0)
    BY LenProperties, EmptySeq
  <1> QED BY <1>1, ElementOfSeq

LEMMA AppendFacts ==
    ASSUME NEW S, NEW q \in Seq(S), NEW m \in S
    PROVE  /\ Append(q, m) \in Seq(S) /\ Append(q, m) # <<>> /\ Len(Append(q, m)) = Len(q) + 1
           /\ \A K : /\ m \notin K /\ Free(q, K) => Free(Append(q, m), K)
                     /\ m \notin K /\ One(q, K) => One(Append(q, m), K)
                     /\ Free(q, K) => One(Append(q, m), K)
                     /\ m \in K \/ ~Free(q, K) => ~Free(Append(q, m), K)
  <1> DEFINE r == Append(q, m)
  <1>1. /\ r \in Seq(S) /\ r # <<>> /\ Len(r) = Len(q) + 1 /\ r[Len(q) + 1] = m
        /\ \A i \in 1 .. Len(q) : r[i] = q[i]
    BY AppendProperties
  <1> HIDE DEF r
  <1>2. /\ Len(q) \in Nat /\ DOMAIN q = 1 .. Len(q) /\ DOMAIN r = 1 .. Len(q) + 1
    BY <1>1, LenProperties
  <1>3. ASSUME NEW i \in DOMAIN r
        PROVE  (i \in DOMAIN q /\ r[i] = q[i]) \/ (i = Len(q) + 1 /\ r[i] = m)
    BY <1>1, <1>2
  <1>4. ASSUME NEW i \in DOMAIN q
        PROVE  i \in DOMAIN r /\ r[i] = q[i]
    BY <1>1, <1>2
  <1>5. Len(q) + 1 \in DOMAIN r
    BY <1>2
  <1>6. ASSUME NEW K
        PROVE  /\ m \notin K /\ Free(q, K) => Free(r, K)
               /\ m \notin K /\ One(q, K) => One(r, K)
               /\ Free(q, K) => One(r, K)
               /\ m \in K \/ ~Free(q, K) => ~Free(r, K)
    <2>1. m \notin K /\ Free(q, K) => Free(r, K)
      BY <1>3 DEF Free
    <2>2. m \notin K /\ One(q, K) => One(r, K)
      BY <1>3 DEF One
    <2>3. Free(q, K) => One(r, K)
      BY <1>3 DEF Free, One
    <2>4. m \in K \/ ~Free(q, K) => ~Free(r, K)
      BY <1>1, <1>4, <1>5 DEF Free
    <2> QED BY <2>1, <2>2, <2>3, <2>4
  <1> QED BY <1>1, <1>6 DEF r

LEMMA TailFacts ==
    ASSUME NEW S, NEW q \in Seq(S), q # <<>>
    PROVE  /\ Tail(q) \in Seq(S)
           /\ \A K : /\ Free(q, K) => Free(Tail(q), K)
                     /\ One(q, K) => One(Tail(q), K)
                     /\ One(q, K) /\ Head(q) \in K => Free(Tail(q), K) /\ ~Free(q, K)
                     /\ Head(q) \notin K /\ ~Free(q, K) => ~Free(Tail(q), K)
  <1> DEFINE r == Tail(q)
  <1>1. /\ r \in Seq(S) /\ Len(r) = Len(q) - 1
        /\ \A i \in 1 .. Len(r) : r[i] = q[i + 1]
    BY HeadTailProperties
  <1>2. Head(q) = q[1]
    OBVIOUS
  <1> HIDE DEF r
  <1>3. /\ Len(q) \in Nat /\ Len(q) # 0 /\ DOMAIN q = 1 .. Len(q) /\ DOMAIN r = 1 .. Len(q) - 1
    BY <1>1, LenProperties, EmptySeq
  <1>4. ASSUME NEW i \in DOMAIN r
        PROVE  i + 1 \in DOMAIN q /\ i + 1 # 1 /\ i \in Int /\ r[i] = q[i + 1]
    BY <1>1, <1>3
  <1>5. ASSUME NEW i \in DOMAIN q
        PROVE  i = 1 \/ \E j \in DOMAIN r : r[j] = q[i]
    <2>1. CASE i # 1
      <3> DEFINE j == i - 1
      <3>1. j \in DOMAIN r /\ j \in Int /\ j + 1 = i
        BY <1>3, <2>1
      <3> HIDE DEF j
      <3> QED BY <1>4, <3>1
    <2> QED BY <2>1
  <1>6. 1 \in DOMAIN q
    BY <1>3
  <1>7. ASSUME NEW K
        PROVE  /\ Free(q, K) => Free(r, K)
               /\ One(q, K) => One(r, K)
               /\ One(q, K) /\ Head(q) \in K => Free(r, K) /\ ~Free(q, K)
               /\ Head(q) \notin K /\ ~Free(q, K) => ~Free(r, K)
    <2>1. Free(q, K) => Free(r, K)
      BY <1>4 DEF Free
    <2>2. One(q, K) => One(r, K)
      <3> SUFFICES ASSUME One(q, K), NEW i \in DOMAIN r, NEW j \in DOMAIN r, r[i] \in K, r[j] \in K
                   PROVE  i = j
        BY DEF One
      <3>1. i + 1 = j + 1
        BY <1>4 DEF One
      <3> QED BY <1>4, <3>1
    <2>3. One(q, K) /\ Head(q) \in K => Free(r, K) /\ ~Free(q, K)
      BY <1>2, <1>4, <1>6 DEF Free, One
    <2>4. Head(q) \notin K /\ ~Free(q, K) => ~Free(r, K)
      BY <1>2, <1>5 DEF Free
    <2> QED BY <2>1, <2>2, <2>3, <2>4
  <1> QED BY <1>1, <1>7 DEF r

\* What is left is some of what was there, no more often.
LEMMA WithoutFacts ==
    ASSUME NEW S, NEW q \in Seq(S), NEW gone
    PROVE  /\ Without(q, gone) \in Seq(S) /\ Len(Without(q, gone)) <= Len(q)
           /\ \A K : /\ Free(q, K) => Free(Without(q, gone), K)
                     /\ One(q, K) => One(Without(q, gone), K)
                     /\ ~Free(q, K) /\ K \cap gone = {} => ~Free(Without(q, gone), K)
           /\ Free(Without(q, gone), gone)
  <1>0. /\ Len(q) \in Nat /\ DOMAIN q = 1 .. Len(q) /\ \A i \in 1 .. Len(q) : q[i] \in S
    BY IndexFacts
  <1>1. PICK f : Rec(q, gone, Len(q), f) /\ Without(q, gone) = f[Len(q)]
    BY <1>0, WithoutIs
  <1> DEFINE Sound(n) ==
        /\ f[n] \in Seq(S) /\ Len(f[n]) <= n /\ Free(f[n], gone)
        /\ \A k \in DOMAIN f[n] : \E i \in 1 .. n : f[n][k] = q[i]
        /\ \A i \in 1 .. n : q[i] \notin gone => \E k \in DOMAIN f[n] : f[n][k] = q[i]
        /\ \A K : (\A i, j \in 1 .. n : q[i] \in K /\ q[j] \in K => i = j) => One(f[n], K)
  <1>2. Sound(0)
    <2>1. f[0] = <<>>
      BY <1>0, <1>1 DEF Rec
    <2>2. f[0] \in Seq(S) /\ Len(f[0]) = 0 /\ DOMAIN f[0] = {}
      BY <2>1, EmptySeq
    <2> QED BY <2>2 DEF Free, One
  <1>3. ASSUME NEW n \in 1 .. Len(q), Sound(n - 1)
        PROVE  Sound(n)
    <2>1. n \in Nat /\ n # 0 /\ n \in 0 .. Len(q) /\ n - 1 \in Nat /\ \A i \in 1 .. n - 1 : i \in 1 .. n
      BY <1>0
    <2>2. f[n] = IF q[n] \in gone THEN f[n - 1] ELSE Append(f[n - 1], q[n])
      BY <1>1, <2>1 DEF Rec
    <2> DEFINE g == f[n - 1]
    <2>3. /\ g \in Seq(S) /\ Len(g) <= n - 1 /\ Len(g) \in Nat /\ Free(g, gone)
          /\ \A k \in DOMAIN g : \E i \in 1 .. n - 1 : g[k] = q[i]
          /\ \A i \in 1 .. n - 1 : q[i] \notin gone => \E k \in DOMAIN g : g[k] = q[i]
          /\ \A K : (\A i, j \in 1 .. n - 1 : q[i] \in K /\ q[j] \in K => i = j) => One(g, K)
      BY <1>3, LenProperties
    <2> HIDE DEF g
    <2>4. q[n] \in S
      BY <1>0
    <2>5. CASE q[n] \in gone
      <3>1. f[n] = g
        BY <2>2, <2>5 DEF g
      <3>2. Len(g) <= n
        BY <2>1, <2>3
      <3>3. ASSUME NEW i \in 1 .. n, q[i] \notin gone
            PROVE  i \in 1 .. n - 1
        BY <2>1, <2>5, <3>3
      <3> QED BY <2>1, <2>3, <3>1, <3>2, <3>3
    <2>6. CASE q[n] \notin gone
      <3>1. f[n] = Append(g, q[n])
        BY <2>2, <2>6 DEF g
      <3>2. /\ f[n] \in Seq(S) /\ Len(f[n]) = Len(g) + 1
            /\ \A K : /\ q[n] \notin K /\ Free(g, K) => Free(f[n], K)
                      /\ q[n] \notin K /\ One(g, K) => One(f[n], K)
                      /\ Free(g, K) => One(f[n], K)
        BY <2>3, <2>4, <3>1, AppendFacts
      <3>3. ASSUME NEW k \in DOMAIN f[n]
            PROVE  \E i \in 1 .. n : f[n][k] = q[i]
        <4>1. f[n][Len(g) + 1] = q[n] /\ \A i \in 1 .. Len(g) : f[n][i] = g[i]
          BY <2>3, <2>4, <3>1, AppendProperties
        <4>2. DOMAIN f[n] = 1 .. Len(g) + 1 /\ DOMAIN g = 1 .. Len(g)
          BY <2>3, <3>2, LenProperties
        <4>3. CASE k = Len(g) + 1
          BY <2>1, <4>1, <4>3
        <4>4. CASE k \in DOMAIN g
          <5>1. PICK i \in 1 .. n - 1 : g[k] = q[i]
            BY <2>3, <4>4
          <5> QED BY <2>1, <4>1, <4>2, <4>4, <5>1
        <4> QED BY <2>3, <4>2, <4>3, <4>4
      <3>4. ASSUME NEW K, \A i, j \in 1 .. n : q[i] \in K /\ q[j] \in K => i = j
            PROVE  One(f[n], K)
        <4>1. \A i, j \in 1 .. n - 1 : q[i] \in K /\ q[j] \in K => i = j
          BY <2>1, <3>4
        <4>2. CASE q[n] \notin K
          BY <2>3, <3>2, <4>1, <4>2
        <4>3. CASE q[n] \in K
          <5>1. \A i \in 1 .. n - 1 : q[i] \notin K
            BY <2>1, <3>4, <4>3
          <5>2. Free(g, K)
            BY <2>3, <5>1 DEF Free
          <5> QED BY <3>2, <5>2
        <4> QED BY <4>2, <4>3
      <3>5. Len(f[n]) <= n
        BY <2>1, <2>3, <3>2
      <3>6. ASSUME NEW i \in 1 .. n, q[i] \notin gone
            PROVE  \E k \in DOMAIN f[n] : f[n][k] = q[i]
        <4>1. /\ f[n][Len(g) + 1] = q[n] /\ \A j \in 1 .. Len(g) : f[n][j] = g[j]
              /\ DOMAIN f[n] = 1 .. Len(g) + 1 /\ DOMAIN g = 1 .. Len(g)
          BY <2>3, <2>4, <3>1, <3>2, AppendProperties, LenProperties
        <4>2. CASE i = n
          <5>1. Len(g) + 1 \in DOMAIN f[n] /\ f[n][Len(g) + 1] = q[n]
            BY <2>3, <4>1
          <5> QED BY <4>2, <5>1
        <4>3. CASE i # n
          <5>1. i \in 1 .. n - 1
            BY <2>1, <4>3
          <5>2. PICK k \in DOMAIN g : g[k] = q[i]
            BY <2>3, <3>6, <5>1
          <5> QED BY <2>3, <4>1, <5>2
        <4> QED BY <4>2, <4>3
      <3> QED BY <2>3, <2>6, <3>2, <3>3, <3>4, <3>5, <3>6
    <2> QED BY <2>5, <2>6
  <1> HIDE DEF Sound
  <1>4. Sound(Len(q))
    <2> DEFINE Bad == {n \in 0 .. Len(q) : ~Sound(n)}
    <2>1. CASE Bad = {}
      BY <1>0, <2>1
    <2>2. CASE Bad # {}
      <3>1. Bad \in SUBSET Nat
        OBVIOUS
      <3>2. PICK n \in Bad : \A m \in Bad : n <= m
        <4> HIDE DEF Bad
        <4> QED BY <2>2, <3>1, LeastExists, Zenon
      <3>3. n # 0 /\ n \in 1 .. Len(q) /\ n - 1 \in 0 .. Len(q) /\ ~(n <= n - 1)
        BY <1>0, <1>2, <3>2
      <3>4. Sound(n - 1)
        BY <3>2, <3>3
      <3> QED BY <1>3, <3>2, <3>3, <3>4
    <2> QED BY <2>1, <2>2
  <1> QED BY <1>0, <1>1, <1>4 DEF Sound, Free, One

\* How many of the messages of q are m.
Places(q, m) == {i \in DOMAIN q : q[i] = m}
Count(q, m) == Cardinality(Places(q, m))

LEMMA CountFacts ==
    ASSUME NEW S, NEW q \in Seq(S), NEW m
    PROVE  IsFiniteSet(Places(q, m)) /\ Count(q, m) \in Nat
  <1>1. Len(q) \in Nat /\ DOMAIN q = 1 .. Len(q)
    BY IndexFacts
  <1>2. IsFiniteSet(1 .. Len(q))
    BY <1>1, FS_Interval
  <1>3. Places(q, m) \in SUBSET (1 .. Len(q))
    BY <1>1 DEF Places
  <1>4. IsFiniteSet(Places(q, m))
    BY <1>2, <1>3, FS_Subset
  <1> QED BY <1>4, FS_CardinalityType DEF Count

LEMMA CountAppend ==
    ASSUME NEW S, NEW q \in Seq(S), NEW e \in S, NEW m
    PROVE  Count(Append(q, e), m) = IF e = m THEN Count(q, m) + 1 ELSE Count(q, m)
  <1> DEFINE r == Append(q, e)
  <1>1. /\ r \in Seq(S) /\ Len(r) = Len(q) + 1 /\ r[Len(q) + 1] = e
        /\ \A i \in 1 .. Len(q) : r[i] = q[i]
    BY AppendProperties
  <1> HIDE DEF r
  <1>2. Len(q) \in Nat /\ DOMAIN q = 1 .. Len(q) /\ DOMAIN r = 1 .. Len(q) + 1
    BY <1>1, LenProperties
  <1>3. CASE e = m
    <2>1. Places(r, m) = Places(q, m) \cup {Len(q) + 1}
      BY <1>1, <1>2, <1>3 DEF Places
    <2>2. Len(q) + 1 \notin Places(q, m)
      BY <1>2 DEF Places
    <2> QED BY <1>3, <2>1, <2>2, CountFacts, FS_AddElement DEF Count, r
  <1>4. CASE e # m
    <2>1. Places(r, m) = Places(q, m)
      BY <1>1, <1>2, <1>4 DEF Places
    <2> QED BY <1>4, <2>1 DEF Count, r
  <1> QED BY <1>3, <1>4

LEMMA CountTail ==
    ASSUME NEW S, NEW q \in Seq(S), q # <<>>
    PROVE  Count(Tail(q), Head(q)) < Count(q, Head(q))
  <1>1. PICK m : m = Head(q)
    OBVIOUS
  <1>2. /\ Len(q) \in Nat /\ Len(q) > 0 /\ DOMAIN q = 1 .. Len(q) /\ q[1] = m
        /\ Tail(q) \in Seq(S) /\ DOMAIN Tail(q) = 1 .. Len(q) - 1
        /\ \A i \in 1 .. Len(q) - 1 : Tail(q)[i] = q[i + 1]
    BY <1>1, IndexFacts, HeadTailProperties, LenProperties
  <1>3. PICK T : T = Places(Tail(q), m)
    OBVIOUS
  <1>4. PICK H : H = Places(q, m) \ {1}
    OBVIOUS
  <1>5. 1 \in Places(q, m) /\ IsFiniteSet(H) /\ Cardinality(H) = Count(q, m) - 1 /\ Count(q, m) \in Nat
    <2>1. 1 \in Places(q, m)
      BY <1>2 DEF Places
    <2> QED BY <1>4, <2>1, CountFacts, FS_RemoveElement DEF Count
  <1>6. PICK f : f = [i \in T |-> i + 1]
    OBVIOUS
  <1>7. f \in Injection(T, H)
    <2>1. T \subseteq 1 .. Len(q) - 1 /\ \A i \in T : q[i + 1] = m /\ f[i] = i + 1
      BY <1>2, <1>3, <1>6 DEF Places
    <2>2. \A i \in T : f[i] \in H
      BY <1>2, <1>4, <2>1 DEF Places
    <2>3. \A i, j \in T : f[i] = f[j] => i = j
      BY <1>2, <2>1
    <2> QED BY <1>6, <2>2, <2>3 DEF Injection, IsInjective
  <1>8. Cardinality(T) <= Cardinality(H)
    BY <1>5, <1>7, FS_Injection
  <1>9. Cardinality(T) = Count(Tail(q), m) /\ Count(Tail(q), m) \in Nat
    BY <1>2, <1>3, CountFacts DEF Count
  <1> QED BY <1>1, <1>5, <1>8, <1>9

\* removeMessages leaves all that it is not to remove.
LEMMA CountWithout ==
    ASSUME NEW S, NEW q \in Seq(S), NEW gone, NEW m, m \notin gone
    PROVE  Count(Without(q, gone), m) = Count(q, m)
  <1>1. Len(q) \in Nat /\ DOMAIN q = 1 .. Len(q) /\ \A i \in 1 .. Len(q) : q[i] \in S
    BY IndexFacts
  <1>2. PICK f : Rec(q, gone, Len(q), f) /\ Without(q, gone) = f[Len(q)]
    BY <1>1, WithoutIs
  <1> DEFINE P(n) == {i \in 1 .. n : q[i] = m}
             Sound(n) == f[n] \in Seq(S) /\ IsFiniteSet(P(n)) /\ Count(f[n], m) = Cardinality(P(n))
  <1>3. Sound(0)
    <2>1. f[0] = <<>>
      BY <1>1, <1>2 DEF Rec
    <2>2. f[0] \in Seq(S) /\ DOMAIN f[0] = {} /\ P(0) = {}
      BY <2>1, EmptySeq
    <2>3. Places(f[0], m) = {}
      BY <2>2 DEF Places
    <2> QED BY <2>2, <2>3, FS_EmptySet DEF Count
  <1>4. ASSUME NEW n \in 1 .. Len(q), Sound(n - 1)
        PROVE  Sound(n)
    <2>1. n \in Nat /\ n # 0 /\ n \in 0 .. Len(q) /\ q[n] \in S
      BY <1>1
    <2>2. f[n] = IF q[n] \in gone THEN f[n - 1] ELSE Append(f[n - 1], q[n])
      BY <1>2, <2>1 DEF Rec
    <2>3. P(n) = IF q[n] = m THEN P(n - 1) \cup {n} ELSE P(n - 1)
      BY <2>1
    <2>4. n \notin P(n - 1)
      BY <2>1
    <2>5. PICK g : g = f[n - 1]
      OBVIOUS
    <2>6. PICK Q : Q = P(n - 1)
      OBVIOUS
    <2>7. g \in Seq(S) /\ IsFiniteSet(Q) /\ Count(g, m) = Cardinality(Q) /\ n \notin Q
      BY <1>4, <2>4, <2>5, <2>6
    <2>8. CASE q[n] \in gone
      <3>1. f[n] = g /\ P(n) = Q
        BY <2>2, <2>3, <2>5, <2>6, <2>8
      <3> QED BY <2>7, <3>1
    <2>9. CASE q[n] \notin gone
      <3>1. f[n] = Append(g, q[n]) /\ P(n) = IF q[n] = m THEN Q \cup {n} ELSE Q
        BY <2>2, <2>3, <2>5, <2>6, <2>9
      <3>2. f[n] \in Seq(S) /\ Count(f[n], m) = IF q[n] = m THEN Count(g, m) + 1 ELSE Count(g, m)
        BY <2>1, <2>7, <3>1, AppendFacts, CountAppend
      <3>3. /\ IsFiniteSet(P(n))
            /\ Cardinality(P(n)) = IF q[n] = m THEN Cardinality(Q) + 1 ELSE Cardinality(Q)
        <4> HIDE DEF P
        <4> QED BY <2>7, <3>1, FS_AddElement
      <3> QED BY <2>7, <3>2, <3>3
    <2> QED BY <2>8, <2>9
  <1>5. Sound(Len(q))
    <2> HIDE DEF Sound
    <2> DEFINE Bad == {n \in 0 .. Len(q) : ~Sound(n)}
    <2>1. CASE Bad = {}
      BY <1>1, <2>1
    <2>2. CASE Bad # {}
      <3>1. Bad \in SUBSET Nat
        OBVIOUS
      <3>2. PICK n \in Bad : \A k \in Bad : n <= k
        <4> HIDE DEF Bad
        <4> QED BY <2>2, <3>1, LeastExists, Zenon
      <3>3. n # 0 /\ n \in 1 .. Len(q) /\ n - 1 \in 0 .. Len(q) /\ ~(n <= n - 1)
        BY <1>1, <1>3, <3>2
      <3>4. Sound(n - 1)
        BY <3>2, <3>3
      <3> QED BY <1>4, <3>2, <3>3, <3>4
    <2> QED BY <2>1, <2>2
  <1>6. P(Len(q)) = Places(q, m)
    BY <1>1 DEF Places
  <1> QED BY <1>2, <1>5, <1>6 DEF Count

-----------------------------------------------------------------------------
(* Types.                                                                  *)

States == {"idle", "check", "wait", "receive", "burn"}
Verdicts == {"none", "idle", "working", "ok", "error", "selected", "finish"}
Threads == [tmpl : BOOLEAN, at : {"start", "burn", "ended", "done"}, ok : BOOLEAN]
Receivers == [src : Sources \cup {"none"}, state : {"none", "unset", "ok", "error"}]
Delayed == {"receive_end", "auto_upgrade"}

ManagerTypes ==
    /\ m_state \in States /\ m_source \in Sources \cup {"none"} /\ m_burner \in 0 .. Len(thread)
    /\ checkers \in Seq(Types) /\ check \in [Types -> Verdicts] /\ prompted \subseteq Types
SourceTypes == offers \in [Sources -> SUBSET Contents] /\ content \in [Sources -> Contents \cup {"none"}]
ReceiverTypes == receiver \in Receivers /\ sink \in [Sources -> BOOLEAN] /\ transfer \in [Sources -> Phases]
BurnerTypes == thread \in Seq(Threads) /\ g_burner \in 0 .. Len(thread)
QueueTypes == msgs \in Seq(Kinds) /\ later \in [Delayed -> Nat]
OutsideTypes ==
    /\ asked \subseteq Types /\ requester \in {"idle", "wait"} /\ budget \in 0 .. Budget
    /\ stuck \subseteq Causes
UTypes == ManagerTypes /\ SourceTypes /\ ReceiverTypes /\ BurnerTypes /\ QueueTypes /\ OutsideTypes

\* What startReceive leaves.
LEMMA StartedTypes ==
    ASSUME UTypes, NEW s \in Sources, NEW q \in Seq(Kinds), StartReceive(s, q)
    PROVE  ReceiverTypes' /\ msgs' \in Seq(Kinds) /\ stuck' \subseteq Causes
  <1>1. CASE Startable
    <2>1. /\ receiver' = [src |-> s, state |-> "unset"] /\ sink' = [Detached EXCEPT ![s] = TRUE]
          /\ \E p \in {"queued", "none"} : transfer' = [Cut EXCEPT ![s] = p]
          /\ msgs' = Purged(q) /\ stuck' \in {{}, {"unregistered"}}
      BY <1>1 DEF StartReceive, StartReceiveUnguarded
    <2>2. Detached \in [Sources -> BOOLEAN]
      BY DEF UTypes, ReceiverTypes, Detached
    <2>3. Cut \in [Sources -> Phases]
      BY DEF UTypes, ReceiverTypes, Cut, Phases
    <2>4. receiver' \in Receivers
      BY <2>1 DEF Receivers
    <2>5. sink' \in [Sources -> BOOLEAN] /\ transfer' \in [Sources -> Phases]
      BY <2>1, <2>2, <2>3 DEF Phases
    <2>6. msgs' \in Seq(Kinds)
      BY <2>1, WithoutFacts DEF Purged
    <2> QED BY <2>1, <2>4, <2>5, <2>6 DEF ReceiverTypes, Causes, NoData
  <1>2. CASE ~Startable
    BY <1>2 DEF StartReceive, receiving, UTypes, ReceiverTypes, OutsideTypes, Causes, NoBurn
  <1> QED BY <1>1, <1>2

LEMMA DestroyedTypes ==
    ASSUME UTypes, NEW q \in Seq(Kinds), NEW chk \in [Types -> Verdicts], OnDestroy(q, chk),
           prompted' \subseteq Types, UNCHANGED thread
    PROVE  ManagerTypes' /\ ReceiverTypes' /\ msgs' \in Seq(Kinds) /\ stuck' \subseteq Causes
  <1>1. /\ m_state' = "idle" /\ m_source' = "none" /\ m_burner' = 0 /\ stuck' = {}
        /\ receiver' = NoReceiver /\ sink' = Detached /\ transfer' = Cut
        /\ msgs' = Purged(q) /\ checkers' = Without(checkers, Doomed(chk))
        /\ check' = [t \in Types |-> IF t \in Doomed(chk) THEN "none" ELSE chk[t]]
    BY DEF OnDestroy
  <1>2. Detached \in [Sources -> BOOLEAN] /\ Cut \in [Sources -> Phases]
    BY DEF UTypes, ReceiverTypes, Detached, Cut, Phases
  <1>3. receiver' \in Receivers
    BY <1>1 DEF NoReceiver, Receivers
  <1>4. msgs' \in Seq(Kinds)
    BY <1>1, WithoutFacts DEF Purged
  <1>5. checkers' \in Seq(Types)
    BY <1>1, WithoutFacts DEF UTypes, ManagerTypes
  <1>6. check' \in [Types -> Verdicts]
    BY <1>1 DEF Verdicts
  <1>7. m_burner' \in 0 .. Len(thread')
    BY <1>1, IndexFacts DEF UTypes, BurnerTypes
  <1> QED
    BY <1>1, <1>2, <1>3, <1>4, <1>5, <1>6, <1>7 DEF UTypes, ManagerTypes, ReceiverTypes, States

LEMMA TypesInit == Init => UTypes
  <1> SUFFICES ASSUME Init PROVE UTypes
    OBVIOUS
  <1>1. <<>> \in Seq(Kinds) /\ <<>> \in Seq(Types) /\ <<>> \in Seq(Threads) /\ Len(<<>>) = 0
    BY EmptySeq
  <1>2. ManagerTypes
    BY <1>1 DEF Init, ManagerTypes, States, Verdicts
  <1>3. ReceiverTypes
    BY DEF Init, ReceiverTypes, NoReceiver, Receivers, Phases
  <1>4. BurnerTypes /\ QueueTypes
    BY <1>1 DEF Init, BurnerTypes, QueueTypes, Delayed
  <1>5. SourceTypes /\ OutsideTypes
    BY UpgradeConstants DEF Init, SourceTypes, OutsideTypes
  <1> QED BY <1>2, <1>3, <1>4, <1>5 DEF UTypes

LEMMA TypesOutside ==
    ASSUME UTypes,
           \/ \E t \in Types : Touch(t) \/ CheckAnswer(t)
           \/ Request \/ (\E k \in DOMAIN later : Due(k))
    PROVE  UTypes'
  <1> USE DEF UTypes
  <1>1. ASSUME NEW t \in Types, Touch(t)
        PROVE  UTypes'
    <2>1. /\ budget > 0 /\ budget' = budget - 1 /\ m_state' = "check" /\ checkers' = Append(checkers, t)
          /\ UNCHANGED <<m_source, m_burner, prompted, receiving, burning, later, requester, stuck>>
      BY <1>1 DEF Touch
    <2>2. checkers' \in Seq(Types)
      BY <2>1, AppendFacts DEF ManagerTypes
    <2>3. check' \in [Types -> Verdicts] /\ asked' \subseteq Types
      BY <1>1 DEF Touch, ManagerTypes, OutsideTypes, Verdicts
    <2>4. msgs' \in Seq(Kinds)
      <3>1. Append(msgs, "check_end") \in Seq(Kinds)
        BY AppendFacts DEF QueueTypes, Kinds
      <3>2. msgs' \in {msgs, Append(msgs, "check_end")}
        BY <1>1 DEF Touch
      <3> QED BY <3>1, <3>2 DEF QueueTypes
    <2>5. SourceTypes'
      BY <1>1 DEF Touch, SourceTypes, sources, Contents
    <2>6. budget' \in 0 .. Budget
      BY <2>1, UpgradeConstants DEF OutsideTypes
    <2> QED
      BY <2>1, <2>2, <2>3, <2>4, <2>5, <2>6
      DEF ManagerTypes, ReceiverTypes, BurnerTypes, QueueTypes, OutsideTypes, receiving, burning, States
  <1>2. ASSUME NEW t \in Types, CheckAnswer(t)
        PROVE  UTypes'
    <2>1. /\ asked' = asked \ {t}
          /\ UNCHANGED <<m_state, m_source, m_burner, checkers, prompted, content, receiving, burning,
                         later, requester, budget>>
      BY <1>2 DEF CheckAnswer
    <2>2. check' \in [Types -> Verdicts]
      BY <1>2 DEF CheckAnswer, ManagerTypes, Verdicts
    <2>3. msgs' \in Seq(Kinds)
      BY <1>2, AppendFacts DEF CheckAnswer, QueueTypes, Kinds
    <2>4. offers' \in [Sources -> SUBSET Contents]
      BY <1>2 DEF CheckAnswer, SourceTypes
    <2>5. stuck' \subseteq Causes
      BY <1>2 DEF CheckAnswer, OutsideTypes, Causes
    <2> QED
      BY <2>1, <2>2, <2>3, <2>4, <2>5
      DEF ManagerTypes, SourceTypes, ReceiverTypes, BurnerTypes, QueueTypes, OutsideTypes, receiving, burning
  <1>3. CASE Request
    <2>1. /\ budget > 0 /\ budget' = budget - 1 /\ requester' = "wait" /\ msgs' = Append(msgs, "request")
          /\ UNCHANGED <<manager, receiving, burning, later, asked, stuck>>
      BY <1>3 DEF Request
    <2>2. msgs' \in Seq(Kinds)
      BY <2>1, AppendFacts DEF QueueTypes, Kinds
    <2>3. SourceTypes'
      <3>1. PICK o \in SUBSET Contents \ {{}} :
              /\ offers' = [offers EXCEPT !["disk"] = o]
              /\ content' = [content EXCEPT !["disk"] = IF @ = "none" THEN First(o) ELSE @]
        BY <1>3 DEF Request
      <3>2. First(o) \in Contents
        BY DEF First, Contents
      <3> QED BY <3>1, <3>2 DEF SourceTypes
    <2>4. budget' \in 0 .. Budget
      BY <2>1, UpgradeConstants DEF OutsideTypes
    <2> QED
      BY <2>1, <2>2, <2>3, <2>4
      DEF manager, ManagerTypes, ReceiverTypes, BurnerTypes, QueueTypes, OutsideTypes, receiving, burning
  <1>4. ASSUME NEW k \in DOMAIN later, Due(k)
        PROVE  UTypes'
    <2>1. /\ later[k] > 0 /\ later' = [later EXCEPT ![k] = @ - 1] /\ msgs' = Append(msgs, k)
          /\ UNCHANGED <<manager, sources, receiving, burning, outside, stuck>>
      BY <1>4 DEF Due
    <2>2. k \in Delayed /\ k \in Kinds
      BY DEF QueueTypes, Delayed, Kinds
    <2>3. later' \in [Delayed -> Nat]
      BY <2>1, <2>2 DEF QueueTypes
    <2>4. msgs' \in Seq(Kinds)
      BY <2>1, <2>2, AppendFacts DEF QueueTypes
    <2> QED
      BY <2>1, <2>3, <2>4
      DEF manager, sources, ManagerTypes, SourceTypes, ReceiverTypes, BurnerTypes, QueueTypes, OutsideTypes,
          receiving, burning, outside
  <1> QED BY <1>1, <1>2, <1>3, <1>4

LEMMA TypesTransfer ==
    ASSUME UTypes, (\E s \in Sources : Transfer(s)) \/ TransferLost
    PROVE  UTypes'
  <1> USE DEF UTypes
  <1>1. UNCHANGED <<manager, sources, receiver, sink, burning, later, outside>>
    BY DEF Transfer, TransferBegin, Arrive, Finish, Call, TransferLost, TransferUnchanged
  <1>2. transfer' \in [Sources -> Phases]
    BY DEF Transfer, TransferBegin, Arrive, Finish, Call, TransferLost, ReceiverTypes, Phases, Sources
  <1>3. msgs' \in Seq(Kinds)
    BY AppendFacts DEF Transfer, TransferBegin, Arrive, Finish, Call, TransferLost, QueueTypes, Kinds
  <1>4. stuck' \subseteq Causes
    BY DEF Transfer, TransferBegin, Arrive, Finish, Call, TransferLost, OutsideTypes, Causes, NoData
  <1> QED
    BY <1>1, <1>2, <1>3, <1>4
    DEF manager, sources, ManagerTypes, SourceTypes, ReceiverTypes, BurnerTypes, QueueTypes, OutsideTypes,
        burning, outside

\* A burner's thread stays one of the threads.
LEMMA ThreadFacts ==
    ASSUME thread \in Seq(Threads), NEW b \in DOMAIN thread, NEW a \in {"start", "burn", "ended", "done"},
           NEW ok \in BOOLEAN
    PROVE  /\ [thread EXCEPT ![b].at = a] \in Seq(Threads)
           /\ [thread EXCEPT ![b].at = a, ![b].ok = ok] \in Seq(Threads)
           /\ DOMAIN [thread EXCEPT ![b].at = a] = DOMAIN thread
           /\ DOMAIN [thread EXCEPT ![b].at = a, ![b].ok = ok] = DOMAIN thread
           /\ Len([thread EXCEPT ![b].at = a]) = Len(thread)
           /\ Len([thread EXCEPT ![b].at = a, ![b].ok = ok]) = Len(thread)
           /\ \A c \in DOMAIN thread :
                /\ [thread EXCEPT ![b].at = a][c].at = IF c = b THEN a ELSE thread[c].at
                /\ [thread EXCEPT ![b].at = a, ![b].ok = ok][c].at = IF c = b THEN a ELSE thread[c].at
  <1>1. b \in 1 .. Len(thread) /\ DOMAIN thread = 1 .. Len(thread) /\ thread[b] \in Threads
    BY IndexFacts
  <1> DEFINE one == [thread[b] EXCEPT !.at = a]
             two == [thread[b] EXCEPT !.at = a, !.ok = ok]
  <1>2. one \in Threads /\ two \in Threads /\ one.at = a /\ two.at = a
    BY <1>1 DEF Threads
  <1>3. /\ [thread EXCEPT ![b].at = a] = [thread EXCEPT ![b] = one]
        /\ [thread EXCEPT ![b].at = a, ![b].ok = ok] = [thread EXCEPT ![b] = two]
    BY <1>1
  <1> HIDE DEF one, two
  <1>4. ASSUME NEW e \in Threads
        PROVE  /\ [thread EXCEPT ![b] = e] \in Seq(Threads) /\ Len([thread EXCEPT ![b] = e]) = Len(thread)
               /\ DOMAIN [thread EXCEPT ![b] = e] = DOMAIN thread
               /\ \A c \in DOMAIN thread : [thread EXCEPT ![b] = e][c] = IF c = b THEN e ELSE thread[c]
    BY <1>1, ExceptSeq
  <1> QED BY <1>2, <1>3, <1>4

LEMMA TypesBurn ==
    ASSUME UTypes, \E b \in DOMAIN thread : Burn(b)
    PROVE  UTypes'
  <1> USE DEF UTypes
  <1>1. UNCHANGED <<manager, sources, receiving, later, outside>>
    BY DEF Burn, BurnStart, BurnRun, BurnReset, BurnUnchanged
  <1>2. PICK b \in DOMAIN thread : Burn(b)
    OBVIOUS
  <1>3. b \in 1 .. Len(thread) /\ Len(thread) \in Nat
    BY IndexFacts DEF BurnerTypes
  <1>4. ASSUME NEW ok \in BOOLEAN, NEW a \in {"ended", "done"}, Burnt(b, ok, a)
        PROVE  BurnerTypes' /\ Len(thread') = Len(thread) /\ msgs' \in Seq(Kinds) /\ stuck' = stuck
    <2>1. thread' = [thread EXCEPT ![b].at = a, ![b].ok = ok] /\ msgs' = Append(msgs, "burn_end")
          /\ UNCHANGED <<g_burner, stuck>>
      BY <1>4 DEF Burnt
    <2>2. msgs' \in Seq(Kinds)
      BY <2>1, AppendFacts DEF QueueTypes, Kinds
    <2>3. thread' \in Seq(Threads) /\ Len(thread') = Len(thread)
      BY <2>1, ThreadFacts DEF BurnerTypes
    <2> QED BY <2>1, <2>2, <2>3 DEF BurnerTypes
  <1>5. ASSUME NEW a \in {"burn", "done"}, thread' = [thread EXCEPT ![b].at = a],
               g_burner' \in {g_burner, 0, b}, msgs' = msgs, stuck' \subseteq stuck \cup {"busy", "setting"}
        PROVE  BurnerTypes' /\ Len(thread') = Len(thread) /\ msgs' \in Seq(Kinds)
    <2>1. thread' \in Seq(Threads) /\ Len(thread') = Len(thread)
      BY <1>5, ThreadFacts DEF BurnerTypes
    <2> QED BY <1>3, <1>5, <2>1 DEF BurnerTypes, QueueTypes
  <1>6. /\ BurnerTypes' /\ Len(thread') = Len(thread) /\ msgs' \in Seq(Kinds)
        /\ stuck' \subseteq stuck \cup {"busy", "setting"}
    <2>1. CASE BurnStart(b)
      BY <1>5, <2>1 DEF BurnStart
    <2>2. CASE BurnReset(b)
      BY <1>5, <2>2 DEF BurnReset
    <2>3. CASE BurnRun(b)
      <3>1. CASE m_burner # b
        BY <2>3, <3>1 DEF BurnRun, BurnerTypes, QueueTypes
      <3>2. CASE m_burner = b
        BY <1>4, <1>5, <2>3, <3>2 DEF BurnRun
      <3> QED BY <3>1, <3>2
    <2> QED BY <1>2, <2>1, <2>2, <2>3 DEF Burn
  <1> QED
    BY <1>1, <1>6
    DEF manager, sources, ManagerTypes, SourceTypes, ReceiverTypes, QueueTypes, OutsideTypes,
        receiving, outside, Causes, NoBurn

LEMMA RestFacts ==
    ASSUME UTypes, NEW m, Pop(m)
    PROVE  Rest \in Seq(Kinds) /\ msgs \in Seq(Kinds) /\ msgs # <<>> /\ Head(msgs) = m
  BY TailFacts DEF UTypes, QueueTypes, Pop, Rest

\* responseEvent, called from the loop thread.
LEMMA RespondTypes ==
    ASSUME UTypes, NEW t \in Types, NEW yes \in BOOLEAN, NEW q \in Seq(Kinds), Respond(t, yes, q),
           prompted' \subseteq Types, UNCHANGED thread
    PROVE  ManagerTypes' /\ ReceiverTypes' /\ msgs' \in Seq(Kinds) /\ stuck' \subseteq Causes
  <1> USE DEF UTypes
  <1>1. CASE findChecker(t) /\ ~yes
    <2>1. OnDestroy(q, [check EXCEPT ![t] = "finish"]) /\ [check EXCEPT ![t] = "finish"] \in [Types -> Verdicts]
      BY <1>1 DEF Respond, ManagerTypes, Verdicts
    <2> QED BY <2>1, DestroyedTypes
  <1>2. CASE findChecker(t) /\ yes /\ check[t] # "idle"
    <2>1. /\ check' = [check EXCEPT ![t] = "finish"] /\ m_source' = t /\ m_state' = "receive"
          /\ StartReceive(t, q) /\ UNCHANGED <<m_burner, checkers>>
      BY <1>2 DEF Respond
    <2>2. ReceiverTypes' /\ msgs' \in Seq(Kinds) /\ stuck' \subseteq Causes
      BY <2>1, StartedTypes DEF Sources
    <2> QED BY <2>1, <2>2 DEF ManagerTypes, States, Verdicts, Sources
  <1>3. CASE ~findChecker(t) \/ (yes /\ check[t] = "idle")
    BY <1>3 DEF Respond, receiving, ManagerTypes, ReceiverTypes, OutsideTypes
  <1> QED BY <1>1, <1>2, <1>3

LEMMA BurnerEndedTypes ==
    ASSUME UTypes, NEW q \in Seq(Kinds), BurnerEnded(q)
    PROVE  UTypes'
  <1> USE DEF UTypes
  <1>1. CASE m_source = "none"
    BY <1>1 DEF BurnerEnded, Crash, manager, sources, ManagerTypes, SourceTypes, ReceiverTypes, BurnerTypes,
                QueueTypes, OutsideTypes, receiving, burning, outside
  <1>2. CASE m_source # "none"
    <2>1. OnDestroy(q, check) /\ UNCHANGED <<prompted, sources, burning, later, outside>>
      BY <1>2 DEF BurnerEnded
    <2>2. ManagerTypes' /\ ReceiverTypes' /\ msgs' \in Seq(Kinds) /\ stuck' \subseteq Causes
      BY <2>1, DestroyedTypes DEF ManagerTypes, burning
    <2> QED
      BY <2>1, <2>2 DEF sources, SourceTypes, BurnerTypes, QueueTypes, OutsideTypes, burning, outside
  <1> QED BY <1>1, <1>2

LEMMA FirstReadyFacts ==
    ASSUME UTypes, Ready # {}
    PROVE  FirstReady \in Types /\ check[FirstReady] \in {"ok", "error"} /\ findChecker(FirstReady)
  <1>1. /\ DOMAIN checkers = 1 .. Len(checkers) /\ Len(checkers) \in Nat
        /\ \A i \in 1 .. Len(checkers) : checkers[i] \in Types
    BY IndexFacts DEF UTypes, ManagerTypes
  <1>2. Ready \in SUBSET Nat
    BY <1>1 DEF Ready
  <1>3. \E i \in Ready : \A j \in Ready : i <= j
    BY <1>2, LeastExists, Zenon
  <1>4. FirstReady = checkers[CHOOSE i \in Ready : \A j \in Ready : i <= j]
    BY DEF FirstReady
  <1>5. (CHOOSE i \in Ready : \A j \in Ready : i <= j) \in Ready
    BY <1>3
  <1> QED BY <1>1, <1>4, <1>5 DEF Ready, findChecker

LEMMA TypesCheckEnd ==
    ASSUME UTypes, CheckEnd
    PROVE  UTypes'
  <1> USE DEF UTypes
  <1>1. Pop("check_end") /\ Rest \in Seq(Kinds)
    BY RestFacts DEF CheckEnd
  <1>2. ASSUME msgs' = Rest, check' \in [Types -> Verdicts],
               UNCHANGED <<m_state, m_source, m_burner, checkers, prompted, sources, receiving, burning,
                           later, outside, stuck>>
        PROVE  UTypes'
    BY <1>1, <1>2
    DEF sources, ManagerTypes, SourceTypes, ReceiverTypes, BurnerTypes, QueueTypes, OutsideTypes,
        receiving, burning, outside
  <1>3. CASE MixMode /\ m_state \notin {"receive", "burn"}
    <2>1. Crash("null")
      BY <1>3 DEF CheckEnd
    <2> QED
      BY <2>1
      DEF Crash, manager, sources, ManagerTypes, SourceTypes, ReceiverTypes, BurnerTypes, QueueTypes, OutsideTypes,
          receiving, burning, outside
  <1>4. CASE ~(MixMode /\ m_state \notin {"receive", "burn"}) /\ (MixMode \/ Ready = {})
    <2>1. msgs' = Rest /\ UNCHANGED <<manager, sources, receiving, burning, later, outside, stuck>>
      BY <1>4 DEF CheckEnd
    <2> QED BY <1>2, <2>1 DEF manager, ManagerTypes
  <1>5. CASE ~MixMode /\ Ready # {}
    <2>1. PICK t \in Types : t = FirstReady
      BY <1>5, FirstReadyFacts
    <2>2. PICK chk : chk = [check EXCEPT ![t] = "finish"]
      OBVIOUS
    <2>3. Judge(t, chk)
      BY <1>5, <2>1, <2>2 DEF CheckEnd
    <2>4. chk \in [Types -> Verdicts] /\ t \in Sources
      BY <2>2 DEF ManagerTypes, Verdicts, Sources
    <2>5. CASE m_state \in {"receive", "burn"}
      BY <1>2, <2>3, <2>4, <2>5 DEF Judge
    <2>6. CASE m_state \notin {"receive", "burn"} /\ Dismiss(t, chk)
      <3>1. CASE ~Early
        BY <1>2, <2>4, <2>6, <3>1 DEF Dismiss, ManagerTypes
      <3>2. CASE Early
        <4>1. OnDestroy(Rest, chk) /\ UNCHANGED <<prompted, sources, burning, later, outside>>
          BY <2>6, <3>2 DEF Dismiss
        <4>2. ManagerTypes' /\ ReceiverTypes' /\ msgs' \in Seq(Kinds) /\ stuck' \subseteq Causes
          BY <1>1, <2>4, <4>1, DestroyedTypes DEF ManagerTypes, burning
        <4> QED
          BY <4>1, <4>2 DEF sources, SourceTypes, BurnerTypes, QueueTypes, OutsideTypes, burning, outside
      <3> QED BY <3>1, <3>2
    <2>7. CASE Report(t, chk)
      <3>1. First(offers[t]) \in Contents
        BY DEF First, Contents
      <3>2. SourceTypes'
        BY <2>7, <3>1 DEF Report, SourceTypes
      <3>3. CASE StartReceive(t, Rest) /\ m_source' = t /\ m_state' = "receive" /\ check' = chk
                 /\ UNCHANGED <<m_burner, checkers, prompted, offers, burning, later, outside>>
        <4>1. ReceiverTypes' /\ msgs' \in Seq(Kinds) /\ stuck' \subseteq Causes
          BY <1>1, <2>4, <3>3, StartedTypes
        <4> QED
          BY <2>4, <3>2, <3>3, <4>1
          DEF States, ManagerTypes, BurnerTypes, QueueTypes, OutsideTypes, burning, outside
      <3>4. CASE /\ m_state' = "wait" /\ check' = [check EXCEPT ![t] = "selected"]
                 /\ prompted' = prompted \cup {t} /\ msgs' = Rest
                 /\ later' = [later EXCEPT !.auto_upgrade = IF AutoTimer /\ t = "soft" THEN @ + 1 ELSE @]
                 /\ UNCHANGED <<m_source, m_burner, checkers, offers, receiving, burning, outside, stuck>>
        <4>1. check' \in [Types -> Verdicts]
          BY <3>4 DEF ManagerTypes, Verdicts
        <4>2. later' \in [Delayed -> Nat]
          BY <3>4 DEF QueueTypes, Delayed
        <4> QED
          BY <1>1, <3>2, <3>4, <4>1, <4>2
          DEF States, ManagerTypes, ReceiverTypes, BurnerTypes, QueueTypes, OutsideTypes, receiving, burning, outside
      <3> QED BY <2>7, <3>3, <3>4 DEF Report
    <2> QED BY <2>3, <2>5, <2>6, <2>7 DEF Judge, CheckEndEager
  <1> QED BY <1>3, <1>4, <1>5

LEMMA TypesLoop ==
    ASSUME UTypes, ReceiverEnd \/ ReceiveEnd \/ BurnEnd \/ UpgradeRequest \/ AutoUpgrade
                   \/ (\E c \in {"logo", "setting"} : NextContent(c))
    PROVE  UTypes'
  <1> USE DEF UTypes
  <1>1. CASE ReceiverEnd
    <2>1. UNCHANGED <<manager, sources, sink, transfer, burning, outside, stuck>>
      BY <1>1 DEF ReceiverEnd
    <2>2. Rest \in Seq(Kinds)
      BY <1>1, RestFacts DEF ReceiverEnd
    <2>3. msgs' \in Seq(Kinds)
      BY <1>1, <2>2, AppendFacts DEF ReceiverEnd, Kinds
    <2>4. later' \in [Delayed -> Nat]
      BY <1>1 DEF ReceiverEnd, QueueTypes, Delayed
    <2>5. receiver' \in Receivers
      BY <1>1 DEF ReceiverEnd, ReceiverTypes, Receivers
    <2> QED
      BY <2>1, <2>3, <2>4, <2>5
      DEF manager, sources, ManagerTypes, SourceTypes, ReceiverTypes, BurnerTypes, QueueTypes, OutsideTypes,
          burning, outside
  <1>2. ASSUME NEW f, Crash(f)
        PROVE  UTypes'
    BY <1>2
    DEF Crash, manager, sources, ManagerTypes, SourceTypes, ReceiverTypes, BurnerTypes, QueueTypes, OutsideTypes,
        receiving, burning, outside
  <1>3. ASSUME msgs' \in Seq(Kinds), UNCHANGED <<manager, sources, receiving, burning, later, outside, stuck>>
        PROVE  UTypes'
    BY <1>3
    DEF manager, sources, ManagerTypes, SourceTypes, ReceiverTypes, BurnerTypes, QueueTypes, OutsideTypes,
        receiving, burning, outside
  <1>4. CASE ReceiveEnd
    <2>1. Rest \in Seq(Kinds)
      BY <1>4, RestFacts DEF ReceiveEnd
    <2>2. CASE BurnerEnded(Rest)
      BY <2>1, <2>2, BurnerEndedTypes
    <2>3. CASE StartBurner
      <3>1. PICK at \in {"start", "done"} :
              /\ thread' = Append(thread, [tmpl |-> m_source = "tmpl", at |-> at, ok |-> FALSE])
              /\ stuck' = IF at = "start" THEN stuck ELSE stuck \cup {"unborn"}
        BY <2>3 DEF StartBurner
      <3>2. PICK e \in Threads : thread' = Append(thread, e)
        <4>1. [tmpl |-> m_source = "tmpl", at |-> at, ok |-> FALSE] \in Threads
          BY <3>1 DEF Threads
        <4> QED BY <3>1, <4>1
      <3>4. /\ m_burner' = Len(thread) + 1 /\ m_state' = "burn" /\ msgs' = Rest
            /\ UNCHANGED <<m_source, checkers, check, prompted, sources, receiving, g_burner, later, outside>>
        BY <2>3 DEF StartBurner
      <3>5. stuck' \subseteq Causes
        BY <3>1 DEF OutsideTypes, Causes, NoBurn
      <3>3. thread' \in Seq(Threads) /\ Len(thread') = Len(thread) + 1 /\ Len(thread) \in Nat
        BY <3>2, AppendFacts, IndexFacts DEF BurnerTypes
      <3> QED
        BY <2>1, <3>3, <3>4, <3>5
        DEF States, sources, ManagerTypes, SourceTypes, ReceiverTypes, BurnerTypes, QueueTypes, OutsideTypes,
            receiving, outside
    <2> QED BY <1>2, <1>4, <2>2, <2>3 DEF ReceiveEnd
  <1>5. CASE BurnEnd
    <2>1. Rest \in Seq(Kinds)
      BY <1>5, RestFacts DEF BurnEnd
    <2>2. Append(Rest, "logo") \in Seq(Kinds) /\ Append(Rest, "setting") \in Seq(Kinds)
      BY <2>1, AppendFacts DEF Kinds
    <2> QED BY <1>3, <1>5, <2>1, <2>2, BurnerEndedTypes DEF BurnEnd
  <1>6. ASSUME NEW c \in {"logo", "setting"}, NextContent(c)
        PROVE  UTypes'
    <2>1. Rest \in Seq(Kinds)
      BY <1>6, RestFacts DEF NextContent
    <2>2. CASE m_source # "none" /\ c \in offers[m_source]
      <3>1. /\ content' = [content EXCEPT ![m_source] = c] /\ StartReceive(m_source, Rest)
            /\ UNCHANGED <<manager, offers, burning, later, outside>>
        BY <1>6, <2>2 DEF NextContent
      <3>2. m_source \in Sources
        BY <2>2 DEF ManagerTypes
      <3>3. ReceiverTypes' /\ msgs' \in Seq(Kinds) /\ stuck' \subseteq Causes
        BY <2>1, <3>1, <3>2, StartedTypes
      <3>4. SourceTypes'
        BY <3>1 DEF SourceTypes, Contents
      <3> QED
        BY <3>1, <3>3, <3>4 DEF manager, ManagerTypes, BurnerTypes, QueueTypes, OutsideTypes, burning, outside
    <2>3. Append(Rest, "setting") \in Seq(Kinds)
      BY <2>1, AppendFacts DEF Kinds
    <2> QED BY <1>3, <1>6, <2>1, <2>2, <2>3, BurnerEndedTypes DEF NextContent
  <1>7. CASE UpgradeRequest
    <2>1. RequestTaken /\ requester' = "idle"
      BY <1>7 DEF UpgradeRequest
    <2>2. /\ Rest \in Seq(Kinds)
          /\ UNCHANGED <<m_burner, checkers, prompted, sources, burning, later, asked, budget>>
      BY <2>1, RestFacts DEF RequestTaken
    <2>3. CASE Early
      <3>1. /\ check' = [t \in Types |-> IF m_state = "check" /\ findChecker(t) THEN "idle" ELSE check[t]]
            /\ m_source' = "disk" /\ m_state' = "receive" /\ StartReceive("disk", Rest)
        BY <2>1, <2>3 DEF RequestTaken
      <3>2. ReceiverTypes' /\ msgs' \in Seq(Kinds) /\ stuck' \subseteq Causes
        BY <2>2, <3>1, StartedTypes DEF Sources
      <3>3. check' \in [Types -> Verdicts]
        BY <3>1 DEF ManagerTypes, Verdicts
      <3> QED
        BY <2>1, <2>2, <3>1, <3>2, <3>3
        DEF sources, Sources, States, ManagerTypes, SourceTypes, BurnerTypes, QueueTypes, OutsideTypes, burning
    <2>4. CASE ~Early
      <3>1. msgs' = Rest /\ UNCHANGED <<m_state, m_source, check, receiving, stuck>>
        BY <2>1, <2>4 DEF RequestTaken
      <3> QED
        BY <2>1, <2>2, <3>1
        DEF sources, ManagerTypes, SourceTypes, ReceiverTypes, BurnerTypes, QueueTypes, OutsideTypes, burning,
            receiving
    <2> QED BY <2>3, <2>4
  <1>8. CASE AutoUpgrade
    <2>1. Rest \in Seq(Kinds) /\ UNCHANGED <<prompted, sources, burning, outside>>
      BY <1>8, RestFacts DEF AutoUpgrade
    <2>2. CASE m_source \in Types /\ later' = [later EXCEPT !.auto_upgrade = 0]
               /\ Respond(m_source, TRUE, Without(Rest, {"auto_upgrade"}))
      <3>1. Without(Rest, {"auto_upgrade"}) \in Seq(Kinds)
        BY <2>1, WithoutFacts
      <3>2. ManagerTypes' /\ ReceiverTypes' /\ msgs' \in Seq(Kinds) /\ stuck' \subseteq Causes
        BY <2>1, <2>2, <3>1, RespondTypes DEF ManagerTypes, burning
      <3>3. later' \in [Delayed -> Nat]
        BY <2>2 DEF QueueTypes, Delayed
      <3> QED
        BY <2>1, <3>2, <3>3
        DEF sources, SourceTypes, BurnerTypes, QueueTypes, OutsideTypes, burning, outside
    <2>3. CASE msgs' = Rest /\ UNCHANGED <<m_state, m_source, m_burner, checkers, check, receiving, later, stuck>>
      BY <1>3, <2>1, <2>3 DEF manager
    <2>4. CASE m_source = "disk" /\ Respond(m_source, TRUE, Without(Rest, {"auto_upgrade"}))
               /\ later' = [later EXCEPT !.auto_upgrade = 0]
      <3>1. ~findChecker("disk")
        BY IndexFacts, UpgradeConstants DEF findChecker, ManagerTypes
      <3>2. /\ msgs' = Without(Rest, {"auto_upgrade"})
            /\ UNCHANGED <<m_state, m_source, m_burner, checkers, check, receiving, stuck>>
        BY <2>4, <3>1 DEF Respond
      <3>3. msgs' \in Seq(Kinds)
        BY <2>1, <3>2, WithoutFacts
      <3>4. later' \in [Delayed -> Nat]
        BY <2>4 DEF QueueTypes, Delayed
      <3> QED
        BY <2>1, <3>2, <3>3, <3>4
        DEF sources, ManagerTypes, SourceTypes, ReceiverTypes, BurnerTypes, QueueTypes, OutsideTypes,
            burning, receiving, outside
    <2> QED BY <1>8, <2>2, <2>3, <2>4 DEF AutoUpgrade, ManagerTypes, Sources
  <1> QED BY <1>1, <1>4, <1>5, <1>6, <1>7, <1>8

LEMMA TypesAnswer ==
    ASSUME UTypes, NEW t \in Types, NEW yes \in BOOLEAN, Answer(t, yes)
    PROVE  UTypes'
  <1> USE DEF UTypes
  <1>1. /\ prompted' = prompted \ {t} /\ later' = [later EXCEPT !.auto_upgrade = 0]
        /\ Respond(t, yes, Without(msgs, {"auto_upgrade"})) /\ UNCHANGED <<sources, burning, outside>>
    BY DEF Answer
  <1>2. Without(msgs, {"auto_upgrade"}) \in Seq(Kinds)
    BY WithoutFacts DEF QueueTypes
  <1>3. ManagerTypes' /\ ReceiverTypes' /\ msgs' \in Seq(Kinds) /\ stuck' \subseteq Causes
    BY <1>1, <1>2, RespondTypes DEF ManagerTypes, burning
  <1>4. later' \in [Delayed -> Nat]
    BY <1>1 DEF QueueTypes, Delayed
  <1> QED
    BY <1>1, <1>3, <1>4
    DEF sources, SourceTypes, BurnerTypes, QueueTypes, OutsideTypes, burning, outside

LEMMA TypesStep ==
    ASSUME UTypes, [Next]_vars
    PROVE  UTypes'
  <1>1. CASE UNCHANGED vars
    BY <1>1
    DEF vars, manager, sources, UTypes, ManagerTypes, SourceTypes, ReceiverTypes, BurnerTypes, QueueTypes,
        OutsideTypes, receiving, burning, outside
  <1>2. CASE Environment
    BY <1>2, TypesOutside, TypesAnswer DEF Environment
  <1>3. CASE Loop
    BY <1>3, TypesCheckEnd, TypesLoop DEF Loop
  <1> QED BY <1>1, <1>2, <1>3, TypesTransfer, TypesBurn DEF Next

\* touchOffUpgradeCheck is the only one to add a checker, of a kind there is none of.
Distinct == \A t \in Types : One(checkers, {t})
Faults == {"none", "null", "dead", "twice", "stopped"}

LEMMA CheckersStep ==
    ASSUME [Next]_vars
    PROVE  /\ \/ checkers' = checkers
              \/ \E t \in Types : ~findChecker(t) /\ checkers' = Append(checkers, t)
              \/ \E gone : checkers' = Without(checkers, gone)
           /\ fault' \in Faults \cup {fault}
  <1> DEFINE Goal == /\ \/ checkers' = checkers
                        \/ \E t \in Types : ~findChecker(t) /\ checkers' = Append(checkers, t)
                        \/ \E gone : checkers' = Without(checkers, gone)
                     /\ fault' \in Faults \cup {fault}
  <1> SUFFICES Goal
    OBVIOUS
  <1>1. ASSUME checkers' = checkers, fault' \in Faults \cup {fault} PROVE Goal
    BY <1>1
  <1>2. ASSUME NEW q, NEW chk, OnDestroy(q, chk), fault' = fault PROVE Goal
    <2>1. \E gone : checkers' = Without(checkers, gone)
      BY <1>2 DEF OnDestroy
    <2> QED BY <1>2, <2>1
  <1>3. ASSUME NEW t \in Types, Touch(t) PROVE Goal
    <2>1. ~findChecker(t) /\ checkers' = Append(checkers, t) /\ fault' = fault
      BY <1>3 DEF Touch
    <2> QED BY <2>1
  <1> HIDE DEF Goal
  <1>4. ASSUME NEW s, NEW q, StartReceive(s, q) PROVE fault' \in Faults \cup {fault}
    BY <1>4 DEF StartReceive, StartReceiveUnguarded, Faults
  <1>5. ASSUME NEW t, NEW yes, NEW q, Respond(t, yes, q) PROVE Goal
    BY <1>1, <1>2, <1>4, <1>5 DEF Respond, Faults
  <1>6. ASSUME NEW q, BurnerEnded(q) PROVE Goal
    BY <1>1, <1>2, <1>6 DEF BurnerEnded, Crash, manager, Faults
  <1>7. CASE Environment
    BY <1>1, <1>3, <1>5, <1>7 DEF Environment, CheckAnswer, Answer, Request, Due, manager, Faults
  <1>8. ASSUME NEW t, NEW chk, Report(t, chk) \/ Dismiss(t, chk) PROVE Goal
    BY <1>1, <1>2, <1>4, <1>8 DEF Report, Dismiss
  <1>9. CASE CheckEnd
    BY <1>1, <1>8, <1>9 DEF CheckEnd, Judge, CheckEndEager, Crash, manager, Faults
  <1>10. CASE ReceiverEnd \/ ReceiveEnd \/ BurnEnd
    BY <1>1, <1>6, <1>10 DEF ReceiverEnd, ReceiveEnd, BurnEnd, StartBurner, Crash, manager, Faults
  <1>11. CASE (\E c \in {"logo", "setting"} : NextContent(c)) \/ UpgradeRequest \/ AutoUpgrade
    BY <1>1, <1>4, <1>5, <1>6, <1>11 DEF NextContent, UpgradeRequest, RequestTaken, AutoUpgrade, manager
  <1>12. CASE (\E s \in Sources : Transfer(s)) \/ TransferLost
    BY <1>1, <1>12
    DEF Transfer, TransferBegin, Arrive, Finish, Call, TransferLost, TransferUnchanged, manager, Faults
  <1>13. CASE \E b \in DOMAIN thread : Burn(b)
    BY <1>1, <1>13 DEF Burn, BurnStart, BurnRun, BurnReset, BurnUnchanged, Burnt, manager, Faults
  <1>14. CASE UNCHANGED vars
    BY <1>1, <1>14 DEF vars, manager
  <1> QED BY <1>7, <1>9, <1>10, <1>11, <1>12, <1>13, <1>14 DEF Next, Loop

LEMMA DistinctStep ==
    ASSUME UTypes, Distinct, fault \in Faults, [Next]_vars
    PROVE  Distinct' /\ fault' \in Faults
  <1>0. checkers \in Seq(Types)
    BY DEF UTypes, ManagerTypes
  <1>1. ASSUME checkers' = checkers PROVE Distinct'
    BY <1>1 DEF Distinct, One
  <1>2. ASSUME NEW t \in Types, ~findChecker(t), checkers' = Append(checkers, t)
        PROVE  Distinct'
    <2>1. Free(checkers, {t})
      BY <1>2 DEF findChecker, Free
    <2>2. ASSUME NEW u \in Types PROVE One(Append(checkers, t), {u})
      BY <1>0, <2>1, AppendFacts DEF Distinct
    <2> QED BY <1>2, <2>2 DEF Distinct
  <1>3. ASSUME NEW gone, checkers' = Without(checkers, gone)
        PROVE  Distinct'
    BY <1>0, <1>3, WithoutFacts DEF Distinct
  <1>4. fault' \in Faults
    BY CheckersStep
  <1>5. \/ checkers' = checkers
        \/ \E t \in Types : ~findChecker(t) /\ checkers' = Append(checkers, t)
        \/ \E gone : checkers' = Without(checkers, gone)
    BY CheckersStep
  <1> QED BY <1>1, <1>2, <1>3, <1>4, <1>5

LEMMA FewCheckers ==
    ASSUME UTypes, Distinct
    PROVE  Len(checkers) <= Cardinality(Types)
  <1>1. /\ checkers \in [1 .. Len(checkers) -> Types] /\ Len(checkers) \in Nat
        /\ DOMAIN checkers = 1 .. Len(checkers)
    BY IndexFacts, LenProperties DEF UTypes, ManagerTypes
  <1>2. checkers \in Injection(1 .. Len(checkers), Types)
    BY <1>1 DEF Distinct, One, Injection, IsInjective
  <1>3. IsFiniteSet(Types)
    <2>1. IsFiniteSet({"soft", "tmpl"})
      <3>1. IsFiniteSet({"soft"}) /\ {"soft", "tmpl"} = {"soft"} \cup {"tmpl"}
        BY FS_Singleton
      <3> QED BY <3>1, FS_AddElement
    <2> QED BY <2>1, UpgradeConstants, FS_Subset
  <1>4. Cardinality(1 .. Len(checkers)) = Len(checkers)
    <2>1. PICK n \in Nat : n = Len(checkers)
      BY <1>1
    <2>2. Cardinality(1 .. n) = IF 1 > n THEN 0 ELSE n - 1 + 1
      BY FS_Interval
    <2> QED BY <2>1, <2>2
  <1> QED BY <1>2, <1>3, <1>4, FS_Injection

-----------------------------------------------------------------------------
(* One hand passes the upgrade on.                                         *)

\* The messages about a download and those about a burn; an answered check.
Fetched == {"recv_end", "recv_error", "receive_end"}
Burned == {"burn_end", "logo", "setting"}
Checked == {"check_end"}
Ended == {"receive_end"}

AtWork(b) == thread[b].at \in {"start", "burn"}
Resting == \A b \in DOMAIN thread : ~AtWork(b)
Quiet == (\A s \in Sources : transfer[s] = "none") /\ Free(msgs, Fetched) /\ later["receive_end"] = 0

Between ==
    m_state \in {"idle", "check", "wait"} =>
        /\ m_source = "none" /\ m_burner = 0 /\ receiver = NoReceiver
        /\ Quiet /\ Resting /\ Free(msgs, Burned)
Receiving ==
    m_state = "receive" =>
        /\ m_source \in Sources /\ receiver.src = m_source
        /\ Resting /\ Free(msgs, Burned)
        /\ \A s \in Sources : transfer[s] # "none" =>
             s = m_source /\ transfer[s] # "stale" /\ Free(msgs, Fetched) /\ later["receive_end"] = 0
        /\ One(msgs, Fetched) /\ later["receive_end"] \in {0, 1}
        /\ later["receive_end"] = 1 => Free(msgs, Fetched)
        /\ later["receive_end"] = 1 \/ ~Free(msgs, Ended) => receiver.state \in {"ok", "error"}
Burning ==
    m_state = "burn" =>
        /\ m_source \in Sources /\ receiver.src = m_source /\ m_burner \in DOMAIN thread
        /\ Quiet /\ One(msgs, Burned)
        /\ \A b \in DOMAIN thread : AtWork(b) => b = m_burner /\ Free(msgs, Burned)
Sinks == \A s \in Sources : sink[s] <=> s = receiver.src
Hands == Between /\ Receiving /\ Burning /\ Sinks

\* A checker the user is asked about has what it found, one whose server is asked
\* has found nothing yet; a manager that waits has asked the user.
Prompts ==
    /\ \A t \in prompted : check[t] = "selected" /\ findChecker(t)
    /\ \A t \in asked : check[t] \in {"working", "idle"} /\ findChecker(t)
    /\ m_state = "wait" => prompted # {}

\* The one hand is there, unless what it should pass on has been forgotten.
NoAnswer == "check" \in stuck
Cold == stuck \cap NoData # {}
Dead == stuck \cap NoBurn # {}
Works ==
    /\ m_state = "check" =>
         NoAnswer \/ (\E t \in asked : check[t] # "idle") \/ (~Free(msgs, Checked) /\ Ready # {})
    /\ m_state = "receive" =>
         Cold \/ (\E s \in Sources : transfer[s] # "none") \/ later["receive_end"] = 1 \/ ~Free(msgs, Fetched)
    /\ m_state = "burn" => Dead \/ ~Resting \/ ~Free(msgs, Burned)

UInv == Hands /\ Prompts /\ Works /\ fault \in {"none", "stopped"}

\* r holds as many of the messages in K as q.
Same(q, r, K) == (Free(r, K) <=> Free(q, K)) /\ (One(q, K) => One(r, K))

LEMMA SameFacts ==
    ASSUME NEW q \in Seq(Kinds)
    PROVE  /\ \A K : Same(q, q, K)
           /\ \A m \in Kinds : \A K : m \notin K => Same(q, Append(q, m), K)
           /\ \A K : q # <<>> /\ Head(q) \notin K => Same(q, Tail(q), K)
           /\ \A gone, K : K \cap gone = {} => Same(q, Without(q, gone), K)
  <1>1. \A m \in Kinds : \A K : m \notin K => Same(q, Append(q, m), K)
    BY AppendFacts DEF Same
  <1>2. \A K : q # <<>> /\ Head(q) \notin K => Same(q, Tail(q), K)
    BY TailFacts DEF Same
  <1>3. \A gone, K : K \cap gone = {} => Same(q, Without(q, gone), K)
    BY WithoutFacts DEF Same
  <1> QED BY <1>1, <1>2, <1>3 DEF Same

\* Steps that concern neither the upgrade nor its messages.
LEMMA HandsKept ==
    ASSUME Hands, UNCHANGED <<m_state, m_source, m_burner, receiver, sink, transfer, thread>>,
           later'["receive_end"] = later["receive_end"],
           \A K \in {Fetched, Burned, Ended} : Same(msgs, msgs', K)
    PROVE  Hands'
  <1>1. /\ Free(msgs', Fetched) <=> Free(msgs, Fetched)
        /\ Free(msgs', Burned) <=> Free(msgs, Burned)
        /\ Free(msgs', Ended) <=> Free(msgs, Ended)
        /\ One(msgs, Fetched) => One(msgs', Fetched)
        /\ One(msgs, Burned) => One(msgs', Burned)
    BY DEF Same
  <1>2. Quiet' <=> Quiet
    BY <1>1 DEF Quiet
  <1>3. Resting' <=> Resting
    BY DEF Resting, AtWork
  <1>4. Between'
    BY <1>1, <1>2, <1>3 DEF Hands, Between
  <1>5. Receiving'
    BY <1>1, <1>3 DEF Hands, Receiving
  <1>6. Burning'
    BY <1>1, <1>2 DEF Hands, Burning, AtWork
  <1> QED BY <1>4, <1>5, <1>6 DEF Hands, Sinks

LEMMA PromptsKept ==
    ASSUME Prompts, UNCHANGED <<checkers, asked, prompted, check>>, m_state' = "wait" => m_state = "wait"
    PROVE  Prompts'
  BY DEF Prompts, findChecker

LEMMA WorksKept ==
    ASSUME Works, UNCHANGED <<m_state, checkers, check, asked, transfer, thread>>, stuck \subseteq stuck',
           later'["receive_end"] = later["receive_end"],
           \A K \in {Fetched, Burned, Checked} : Same(msgs, msgs', K)
    PROVE  Works'
  <1>1. (Resting' <=> Resting) /\ Ready' = Ready
    BY DEF Resting, AtWork, Ready
  <1>2. \A K \in {Fetched, Burned, Checked} : Free(msgs', K) <=> Free(msgs, K)
    BY DEF Same
  <1>3. m_state = "check" /\ ~NoAnswer =>
          (\E t \in asked : check[t] # "idle") \/ (~Free(msgs', Checked) /\ Ready # {})
    BY <1>2 DEF Works
  <1>4. (NoAnswer => NoAnswer') /\ (Cold => Cold') /\ (Dead => Dead')
    BY DEF NoAnswer, Cold, Dead
  <1> QED BY <1>1, <1>2, <1>3, <1>4 DEF Works

\* startReceive, from a state in which nobody is at work.
LEMMA Began ==
    ASSUME UTypes, Hands, m_state \in {"idle", "check", "wait"},
           NEW s \in Sources, NEW q \in Seq(Kinds), StartReceive(s, q), Free(q, Fetched), Free(q, Burned),
           m_state' = "receive", m_source' = s, UNCHANGED thread,
           later'["receive_end"] = later["receive_end"]
    PROVE  Hands' /\ Works' /\ fault' = fault /\ \A K : Free(q, K) => Free(msgs', K)
  <1>1. /\ receiver = NoReceiver /\ \A x \in Sources : transfer[x] = "none"
        /\ later["receive_end"] = 0 /\ Resting
    BY DEF Hands, Between, Quiet
  <1>2. /\ receiver' = [src |-> s, state |-> "unset"] /\ sink' = [Detached EXCEPT ![s] = TRUE]
        /\ msgs' = Purged(q)
        /\ fault' = IF transfer[s] = "none" THEN fault ELSE "twice"
    BY DEF StartReceive, StartReceiveUnguarded, Startable
  <1>3. fault' = fault
    BY <1>1, <1>2
  <1>0. \/ transfer' = [Cut EXCEPT ![s] = "queued"]
        \/ transfer' = [Cut EXCEPT ![s] = "none"] /\ stuck' = {"unregistered"}
    BY DEF StartReceive, StartReceiveUnguarded, Startable
  <1>4. /\ \A x \in Sources \ {s} : transfer'[x] = "none"
        /\ transfer'[s] = "queued" \/ (transfer'[s] = "none" /\ stuck' = {"unregistered"})
    <2>1. Cut = [x \in Sources |-> "none"]
      BY <1>1 DEF Cut
    <2> QED BY <1>0, <2>1
  <1>11. Works'
    BY <1>4 DEF Works, Cold, NoData
  <1>5. Sinks'
    <2>1. Detached = [x \in Sources |-> FALSE]
      BY <1>1 DEF Detached, Hands, Sinks
    <2> QED BY <1>2, <2>1 DEF Sinks
  <1>6. \A K : Free(q, K) => Free(msgs', K)
    BY <1>2, WithoutFacts DEF Purged
  <1>7. Free(msgs', Ended)
    <2>1. Free(q, Ended)
      BY DEF Free, Ended, Fetched
    <2> QED BY <1>6, <2>1
  <1>8. One(msgs', Fetched)
    BY <1>6 DEF One, Free
  <1>9. Resting'
    BY <1>1 DEF Resting, AtWork
  <1>10. Receiving'
    BY <1>1, <1>2, <1>4, <1>6, <1>7, <1>8, <1>9 DEF Receiving
  <1> QED BY <1>3, <1>5, <1>6, <1>10, <1>11 DEF Hands, Between, Burning

\* onDestroy, when the one hand has nothing left to pass on.
LEMMA Over ==
    ASSUME UTypes, Hands, NEW q \in Seq(Kinds), NEW chk, OnDestroy(q, chk),
           \A s \in Sources : transfer[s] = "none", Resting, UNCHANGED thread, later'["receive_end"] = 0,
           Free(q, Fetched), Free(q, Burned)
    PROVE  Hands' /\ m_state' = "idle" /\ msgs' = Purged(q)
  <1>1. /\ m_state' = "idle" /\ m_source' = "none" /\ m_burner' = 0
        /\ receiver' = NoReceiver /\ sink' = Detached /\ transfer' = Cut
        /\ msgs' = Purged(q)
    BY DEF OnDestroy
  <1>2. transfer' = [s \in Sources |-> "none"]
    BY <1>1 DEF Cut
  <1>3. Sinks'
    <2>1. \A s \in Sources : ~sink'[s]
      BY <1>1 DEF Detached, Hands, Sinks
    <2>2. "none" \notin Sources
      BY UpgradeConstants DEF Sources
    <2> QED BY <1>1, <2>1, <2>2 DEF Sinks, NoReceiver
  <1>4. Free(msgs', Fetched) /\ Free(msgs', Burned)
    BY <1>1, WithoutFacts DEF Purged
  <1>5. Resting'
    BY DEF Resting, AtWork
  <1> QED BY <1>1, <1>2, <1>3, <1>4, <1>5 DEF Hands, Between, Quiet, Receiving, Burning

LEMMA PromptsOver ==
    ASSUME UTypes, NEW q \in Seq(Kinds), NEW chk \in [Types -> Verdicts], OnDestroy(q, chk), UNCHANGED asked,
           prompted' \subseteq Types,
           \A t \in prompted' : chk[t] = "selected" /\ findChecker(t),
           \A t \in asked : chk[t] \in {"working", "idle"} /\ findChecker(t)
    PROVE  Prompts'
  <1>1. /\ m_state' = "idle" /\ checkers' = Without(checkers, Doomed(chk))
        /\ check' = [t \in Types |-> IF t \in Doomed(chk) THEN "none" ELSE chk[t]]
    BY DEF OnDestroy
  <1>2. ASSUME NEW t \in Types, findChecker(t), chk[t] # "finish"
        PROVE  check'[t] = chk[t] /\ findChecker(t)'
    <2>1. t \notin Doomed(chk)
      BY <1>2 DEF Doomed
    <2>2. ~Free(checkers, {t}) /\ checkers \in Seq(Types) /\ {t} \cap Doomed(chk) = {}
      BY <1>2, <2>1 DEF findChecker, Free, UTypes, ManagerTypes
    <2>3. ~Free(checkers', {t})
      BY <1>1, <2>2, WithoutFacts
    <2> QED BY <1>1, <2>1, <2>3 DEF findChecker, Free
  <1> QED BY <1>1, <1>2 DEF Prompts, UTypes, OutsideTypes

-----------------------------------------------------------------------------
(* What comes from outside the loop thread.                                *)

\* The server of a software check is asked; the template's checker answers itself.
LEMMA InvTouch ==
    ASSUME UTypes, UInv, NEW t \in Types, Touch(t)
    PROVE  UInv'
  <1>1. t \notin asked /\ t \notin prompted /\ m_state \in {"idle", "check"}
    BY DEF UInv, Prompts, Touch
  <1>2. /\ checkers' = Append(checkers, t) /\ m_state' = "check"
        /\ UNCHANGED <<m_source, m_burner, prompted, receiving, burning, later, stuck, fault>>
    BY DEF Touch
  <1>3. findChecker(t)' /\ (\A u \in Types : findChecker(u) => findChecker(u)')
        /\ \E i \in DOMAIN checkers' : checkers'[i] = t
    <2>1. checkers \in Seq(Types)
      BY DEF UTypes, ManagerTypes
    <2>2. DOMAIN checkers' = 1 .. Len(checkers) + 1 /\ DOMAIN checkers = 1 .. Len(checkers) /\ Len(checkers) \in Nat
          /\ checkers'[Len(checkers) + 1] = t /\ \A i \in 1 .. Len(checkers) : checkers'[i] = checkers[i]
      BY <1>2, <2>1, AppendProperties, LenProperties
    <2>3. Len(checkers) + 1 \in DOMAIN checkers' /\ \A i \in DOMAIN checkers : i \in DOMAIN checkers'
      BY <2>2
    <2> QED BY <2>2, <2>3 DEF findChecker
  <1>4. ASSUME \A u \in Types \ {t} : check'[u] = check[u], asked' \subseteq asked \cup {t},
               t \in asked' => check'[t] = "working"
        PROVE  Prompts'
    BY <1>1, <1>2, <1>3, <1>4 DEF UInv, Prompts, UTypes, ManagerTypes, OutsideTypes
  <1>5. CASE t = "soft"
    <2>1. msgs' = msgs /\ asked' = asked \cup {t} /\ check' = [check EXCEPT ![t] = "working"]
      BY <1>5 DEF Touch
    <2>2. Hands'
      BY <1>1, <1>2, <2>1
      DEF UInv, Hands, Between, Receiving, Burning, Sinks, Quiet, Resting, AtWork, receiving, burning
    <2>3. check'[t] = "working" /\ \A u \in Types \ {t} : check'[u] = check[u]
      BY <2>1 DEF UTypes, ManagerTypes
    <2>4. Prompts'
      BY <1>4, <2>1, <2>3
    <2>5. Works'
      BY <1>2, <2>1, <2>3 DEF Works
    <2> QED BY <1>2, <2>2, <2>4, <2>5 DEF UInv
  <1>6. CASE t # "soft"
    <2>1. /\ msgs' = Append(msgs, "check_end") /\ asked' = asked /\ check'[t] \in {"ok", "error"}
          /\ \A u \in Types \ {t} : check'[u] = check[u]
      BY <1>6 DEF Touch, UTypes, ManagerTypes
    <2>2. msgs \in Seq(Kinds) /\ "check_end" \in Kinds
      BY DEF UTypes, QueueTypes, Kinds
    <2>3. \A K \in {Fetched, Burned, Ended} : "check_end" \notin K /\ Same(msgs, msgs', K)
      <3>1. \A K \in {Fetched, Burned, Ended} : "check_end" \notin K
        BY DEF Fetched, Burned, Ended
      <3> QED BY <2>1, <2>2, <3>1, SameFacts
    <2>4. Hands'
      BY <1>1, <1>2, <2>3
      DEF UInv, Hands, Between, Receiving, Burning, Sinks, Quiet, Resting, AtWork, Same, receiving, burning
    <2>5. ~Free(msgs', Checked) /\ Ready' # {}
      <3>1. ~Free(msgs', Checked)
        BY <2>1, <2>2, AppendFacts DEF Checked
      <3>2. Ready' # {}
        BY <1>3, <2>1 DEF Ready
      <3> QED BY <3>1, <3>2
    <2>6. Prompts'
      BY <1>1, <1>4, <2>1
    <2>7. Works'
      BY <1>2, <2>5 DEF Works
    <2> QED BY <1>2, <2>4, <2>6, <2>7 DEF UInv
  <1> QED BY <1>5, <1>6

LEMMA InvCheckAnswer ==
    ASSUME UTypes, UInv, NEW t \in Types, CheckAnswer(t)
    PROVE  UInv'
  <1>1. t \in asked /\ t \notin prompted /\ findChecker(t) /\ check[t] \in {"working", "idle"}
    BY DEF UInv, Prompts, CheckAnswer
  <1>2. /\ asked' = asked \ {t}
        /\ UNCHANGED <<m_state, m_source, m_burner, checkers, prompted, receiving, burning, later>>
    BY DEF CheckAnswer
  <1>3. \/ check[t] = "idle" /\ fault' = "stopped" /\ UNCHANGED <<check, msgs, stuck>>
        \/ check' = [check EXCEPT ![t] = "ok"] /\ msgs' = Append(msgs, "check_end") /\ UNCHANGED <<stuck, fault>>
        \/ check' = [check EXCEPT ![t] = "error"] /\ msgs' = Append(msgs, "check_end") /\ UNCHANGED <<stuck, fault>>
        \/ stuck' = stuck \cup {"check"} /\ UNCHANGED <<check, msgs, fault>>
    BY DEF CheckAnswer
  <1>4. msgs \in Seq(Kinds) /\ "check_end" \in Kinds
    BY DEF UTypes, QueueTypes, Kinds
  <1>5. \A K \in {Fetched, Burned, Ended} : Same(msgs, msgs', K)
    <2>1. \A K \in {Fetched, Burned, Ended} : "check_end" \notin K
      BY DEF Fetched, Burned, Ended
    <2> QED BY <1>3, <1>4, <2>1, SameFacts
  <1>6. Hands'
    BY <1>2, <1>5, HandsKept DEF UInv, receiving, burning
  <1>7. \A u \in Types \ {t} : check'[u] = check[u]
    BY <1>3 DEF UTypes, ManagerTypes
  <1>8. Prompts'
    BY <1>1, <1>2, <1>7 DEF UInv, Prompts, findChecker, UTypes, ManagerTypes, OutsideTypes
  <1>9. Resting' <=> Resting
    BY <1>2 DEF Resting, AtWork, burning
  <1>10. CASE UNCHANGED <<check, msgs>> /\ fault' \in {fault, "stopped"} /\ stuck \subseteq stuck'
              /\ (check[t] = "idle" \/ NoAnswer')
    <2>1. Ready' = Ready
      BY <1>2, <1>10 DEF Ready
    <2>3. (NoAnswer => NoAnswer') /\ (Cold => Cold') /\ (Dead => Dead')
      BY <1>10 DEF NoAnswer, Cold, Dead
    <2>2. Works'
      BY <1>2, <1>9, <1>10, <2>1, <2>3 DEF UInv, Works, receiving
    <2> QED BY <1>6, <1>8, <1>10, <2>2 DEF UInv
  <1>11. CASE msgs' = Append(msgs, "check_end") /\ check'[t] \in {"ok", "error"} /\ UNCHANGED <<stuck, fault>>
    <2>1. ~Free(msgs', Checked)
      BY <1>4, <1>11, AppendFacts DEF Checked
    <2>2. Ready' # {}
      BY <1>1, <1>2, <1>11 DEF Ready, findChecker
    <2>3. Works'
      <3>1. (Free(msgs', Fetched) <=> Free(msgs, Fetched)) /\ (Free(msgs', Burned) <=> Free(msgs, Burned))
        BY <1>5 DEF Same
      <3> QED BY <1>2, <1>9, <1>11, <2>1, <2>2, <3>1 DEF UInv, Works, Cold, Dead, receiving
    <2> QED BY <1>6, <1>8, <1>11, <2>3 DEF UInv
  <1>12. CASE fault' = "stopped" /\ check[t] = "idle" /\ UNCHANGED <<check, msgs, stuck>>
    BY <1>10, <1>12
  <1>13. CASE stuck' = stuck \cup {"check"} /\ UNCHANGED <<check, msgs, fault>>
    BY <1>10, <1>13 DEF NoAnswer
  <1> QED BY <1>3, <1>11, <1>12, <1>13 DEF UTypes, ManagerTypes

\* Messages the one hand does not go by, and prompts that are answered by time.
LEMMA InvOther ==
    ASSUME UTypes, UInv, Request \/ (Due("auto_upgrade")) \/ AutoUpgrade
    PROVE  UInv'
  <1>1. msgs \in Seq(Kinds) /\ {"request", "auto_upgrade"} \subseteq Kinds
    BY DEF UTypes, QueueTypes, Kinds
  <1>2. \A K \in {Fetched, Burned, Ended, Checked} : "request" \notin K /\ "auto_upgrade" \notin K
    BY DEF Fetched, Burned, Ended, Checked
  <1>3. ASSUME NEW m \in {"request", "auto_upgrade"}, msgs' = Append(msgs, m),
               UNCHANGED <<manager, receiving, burning, asked, stuck, fault>>,
               later'["receive_end"] = later["receive_end"]
        PROVE  UInv'
    <2>1. \A K \in {Fetched, Burned, Ended, Checked} : Same(msgs, msgs', K)
      BY <1>1, <1>2, <1>3, SameFacts
    <2>2. Hands'
      BY <1>3, <2>1, HandsKept DEF UInv, manager, receiving, burning
    <2>3. Prompts'
      BY <1>3, PromptsKept DEF UInv, manager
    <2>4. Works'
      BY <1>3, <2>1, WorksKept DEF UInv, manager, receiving, burning
    <2> QED BY <1>3, <2>2, <2>3, <2>4 DEF UInv
  <1>4. CASE Request
    BY <1>3, <1>4 DEF Request
  <1>5. CASE Due("auto_upgrade")
    BY <1>3, <1>5 DEF Due, sources, outside, UTypes, QueueTypes, Delayed
  <1>6. CASE AutoUpgrade
    <2>1. ~(m_state \in {"idle", "check", "wait"} /\ m_source # "none")
      BY DEF UInv, Hands, Between
    <2>2. /\ msgs' = Rest /\ Pop("auto_upgrade")
          /\ UNCHANGED <<manager, receiving, burning, asked, later, stuck, fault>>
      BY <1>6, <2>1 DEF AutoUpgrade, manager, outside
    <2>3. \A K \in {Fetched, Burned, Ended, Checked} : Same(msgs, msgs', K)
      BY <1>1, <1>2, <2>2, SameFacts DEF Pop, Rest
    <2>4. Hands'
      BY <2>2, <2>3, HandsKept DEF UInv, manager, receiving, burning
    <2>5. Prompts'
      BY <2>2, PromptsKept DEF UInv, manager
    <2>6. Works'
      BY <2>2, <2>3, WorksKept DEF UInv, manager, receiving, burning
    <2> QED BY <2>2, <2>4, <2>5, <2>6 DEF UInv
  <1> QED BY <1>4, <1>5, <1>6

\* The 500 ms are over.
LEMMA InvDue ==
    ASSUME UTypes, UInv, Due("receive_end")
    PROVE  UInv'
  <1>1. /\ later["receive_end"] > 0 /\ later' = [later EXCEPT !["receive_end"] = @ - 1]
        /\ msgs' = Append(msgs, "receive_end")
        /\ UNCHANGED <<manager, receiving, burning, asked, stuck, fault>>
    BY DEF Due, outside
  <1>2. msgs \in Seq(Kinds) /\ "receive_end" \in Kinds /\ later \in [Delayed -> Nat] /\ "receive_end" \in Delayed
    BY DEF UTypes, QueueTypes, Kinds, Delayed
  <1>3. m_state = "receive"
    BY <1>1, <1>2 DEF UInv, Hands, Between, Burning, Quiet, UTypes, ManagerTypes, States
  <1>4. /\ later["receive_end"] = 1 /\ Free(msgs, Fetched) /\ \A s \in Sources : transfer[s] = "none"
        /\ receiver.state \in {"ok", "error"}
    BY <1>1, <1>2, <1>3 DEF UInv, Hands, Receiving
  <1>5. later'["receive_end"] = 0
    BY <1>1, <1>2, <1>4
  <1>6. One(msgs', Fetched) /\ ~Free(msgs', Fetched) /\ Same(msgs, msgs', Burned)
    <2>1. "receive_end" \in Fetched /\ "receive_end" \notin Burned
      BY DEF Fetched, Burned
    <2> QED BY <1>1, <1>2, <1>4, <2>1, AppendFacts, SameFacts
  <1>7. Hands'
    BY <1>1, <1>3, <1>4, <1>5, <1>6
    DEF UInv, Hands, Between, Receiving, Burning, Sinks, Resting, AtWork, Same, manager, receiving, burning
  <1>8. Prompts'
    BY <1>1, PromptsKept DEF UInv, manager
  <1>9. Works'
    BY <1>1, <1>3, <1>6 DEF Works, manager
  <1> QED BY <1>1, <1>7, <1>8, <1>9 DEF UInv

\* The user answers a question, no other having been left open before a download.
LEMMA InvAnswer ==
    ASSUME UTypes, UInv, ~Rival, ~Rival', NEW t \in Types, NEW yes \in BOOLEAN, Answer(t, yes)
    PROVE  UInv'
  <1> DEFINE q == Without(msgs, {"auto_upgrade"})
             chk == [check EXCEPT ![t] = "finish"]
  <1>1. /\ t \in Sources /\ t \in prompted /\ prompted' = prompted \ {t}
        /\ later'["receive_end"] = later["receive_end"]
        /\ Respond(t, yes, q) /\ UNCHANGED <<sources, burning, outside>>
    BY DEF Answer, UTypes, QueueTypes, Delayed, Sources
  <1>2. check[t] = "selected" /\ findChecker(t) /\ t \notin asked /\ m_state \in {"idle", "check", "wait"}
    BY <1>1 DEF UInv, Prompts, Rival, UTypes, ManagerTypes, States
  <1>3. /\ receiver = NoReceiver /\ m_burner = 0 /\ \A s \in Sources : transfer[s] = "none"
        /\ later["receive_end"] = 0 /\ Resting /\ Free(msgs, Fetched) /\ Free(msgs, Burned)
    BY <1>2 DEF UInv, Hands, Between, Quiet
  <1>4. q \in Seq(Kinds) /\ \A K : Free(msgs, K) => Free(q, K)
    BY WithoutFacts DEF UTypes, QueueTypes
  <1>5. chk \in [Types -> Verdicts] /\ \A u \in Types \ {t} : chk[u] = check[u]
    BY DEF UTypes, ManagerTypes, Verdicts
  <1>6. /\ \A u \in prompted' : u \in Types /\ chk[u] = "selected" /\ findChecker(u)
        /\ \A u \in asked : u \in Types /\ chk[u] \in {"working", "idle"} /\ findChecker(u)
    BY <1>1, <1>2, <1>5 DEF UInv, Prompts, UTypes, ManagerTypes, OutsideTypes
  <1> HIDE DEF q, chk
  <1>7. CASE yes
    <2>1. /\ check' = chk /\ m_source' = t /\ m_state' = "receive" /\ StartReceive(t, q)
          /\ UNCHANGED <<m_burner, checkers>>
      BY <1>1, <1>2, <1>7 DEF Respond, chk
    <2>2. Hands' /\ Works' /\ fault' = fault
      BY <1>1, <1>2, <1>3, <1>4, <2>1, Began DEF UInv, burning
    <2>3. Prompts'
      BY <1>1, <1>6, <2>1 DEF Prompts, Rival, findChecker, outside
    <2> QED BY <2>2, <2>3 DEF UInv
  <1>8. CASE ~yes
    <2>1. OnDestroy(q, chk) /\ fault' = fault
      BY <1>1, <1>2, <1>8 DEF Respond, chk
    <2>2. Hands' /\ m_state' = "idle"
      BY <1>1, <1>3, <1>4, <2>1, Over DEF UInv, burning
    <2>3. Prompts'
      BY <1>1, <1>4, <1>5, <1>6, <2>1, PromptsOver DEF outside
    <2>4. Works'
      BY <2>2 DEF Works
    <2> QED BY <2>1, <2>2, <2>3, <2>4 DEF UInv
  <1> QED BY <1>7, <1>8

-----------------------------------------------------------------------------
(* Downloads.                                                              *)

LEMMA InvTransfer ==
    ASSUME UTypes, UInv, NEW s \in Sources, Transfer(s) \/ (s = "disk" /\ TransferLost)
    PROVE  UInv'
  <1>1. /\ UNCHANGED <<manager, receiver, sink, burning, later, asked>> /\ stuck \subseteq stuck'
        /\ transfer[s] # "none"
    BY DEF Transfer, TransferBegin, Arrive, Finish, Call, TransferLost, TransferUnchanged, outside
  <1>2. m_state = "receive"
    BY <1>1 DEF UInv, Hands, Between, Burning, Quiet, UTypes, ManagerTypes, States
  <1>3. /\ s = m_source /\ transfer[s] # "stale" /\ Free(msgs, Fetched) /\ later["receive_end"] = 0
        /\ receiver.src = m_source /\ Resting /\ Free(msgs, Burned) /\ sink[s]
        /\ \A x \in Sources \ {s} : transfer[x] = "none"
    BY <1>1, <1>2 DEF UInv, Hands, Receiving, Sinks
  <1>4. /\ \A x \in Sources \ {s} : transfer'[x] = "none"
        /\ fault' = fault
        /\ \/ msgs' = msgs /\ transfer'[s] \notin {"none", "stale"}
           \/ msgs' = msgs /\ transfer'[s] = "none" /\ Cold'
           \/ transfer'[s] = "none" /\ \E m \in {"recv_end", "recv_error"} : msgs' = Append(msgs, m)
    <2>1. transfer \in [Sources -> Phases]
      BY DEF UTypes, ReceiverTypes
    <2>2. CASE TransferBegin(s) \/ Arrive(s)
      BY <1>3, <2>1, <2>2 DEF TransferBegin, Arrive
    <2>3. CASE \E r \in {"end", "error"} : Finish(s, r)
      BY <1>3, <2>1, <2>3 DEF Finish
    <2>4. CASE Call(s)
      BY <1>3, <2>1, <2>4 DEF Call
    <2>5. CASE s = "disk" /\ TransferLost
      BY <1>3, <2>1, <2>5 DEF TransferLost, Cold, NoData
    <2> QED BY <2>2, <2>3, <2>4, <2>5 DEF Transfer
  <1>5. msgs \in Seq(Kinds) /\ {"recv_end", "recv_error"} \subseteq Kinds
    BY DEF UTypes, QueueTypes, Kinds
  <1>6. \A m \in {"recv_end", "recv_error"} : m \in Fetched /\ m \notin Ended /\ m \notin Burned
    BY DEF Fetched, Ended, Burned
  <1>7. Same(msgs, msgs', Ended) /\ Same(msgs, msgs', Burned)
    BY <1>4, <1>5, <1>6, SameFacts
  <1>8. One(msgs', Fetched) /\ (transfer'[s] # "none" => Free(msgs', Fetched))
        /\ (transfer'[s] = "none" => Cold' \/ ~Free(msgs', Fetched))
    <2>1. CASE msgs' = msgs
      <3>1. One(msgs, Fetched)
        BY <1>3 DEF One, Free
      <3>2. transfer'[s] = "none" => Cold'
        <4>1. \A m \in {"recv_end", "recv_error"} : ~Free(Append(msgs, m), Fetched)
          BY <1>5, <1>6, AppendFacts
        <4> QED BY <1>3, <1>4, <2>1, <4>1
      <3> QED BY <1>3, <2>1, <3>1, <3>2
    <2>2. ASSUME NEW m \in {"recv_end", "recv_error"}, msgs' = Append(msgs, m), transfer'[s] = "none"
          PROVE  One(msgs', Fetched) /\ ~Free(msgs', Fetched)
      BY <1>3, <1>5, <1>6, <2>2, AppendFacts
    <2> QED BY <1>4, <2>1, <2>2
  <1>9. Resting'
    BY <1>1, <1>3 DEF Resting, AtWork, burning
  <1>10. Receiving'
    <2>1. ~Free(msgs', Ended) => ~Free(msgs, Ended)
      BY <1>7 DEF Same
    <2>2. ~Free(msgs, Ended) => receiver.state \in {"ok", "error"}
      BY <1>2 DEF UInv, Hands, Receiving
    <2>3. Free(msgs', Burned)
      BY <1>3, <1>7 DEF Same
    <2>4. transfer'[s] # "stale"
      BY <1>4
    <2> QED
      BY <1>1, <1>2, <1>3, <1>4, <1>8, <1>9, <2>1, <2>2, <2>3, <2>4 DEF Receiving, manager
  <1>11. Hands'
    BY <1>1, <1>2, <1>10 DEF UInv, Hands, Between, Burning, Sinks, manager
  <1>12. Prompts'
    BY <1>1, PromptsKept DEF UInv, manager
  <1>13. Works'
    BY <1>1, <1>2, <1>8 DEF Works, manager
  <1> QED BY <1>4, <1>11, <1>12, <1>13 DEF UInv

-----------------------------------------------------------------------------
(* Burns.                                                                  *)

LEMMA InvBurn ==
    ASSUME UTypes, UInv, NEW b \in DOMAIN thread, Burn(b)
    PROVE  UInv'
  <1>1. /\ UNCHANGED <<manager, sources, receiving, later, outside>>
        /\ thread \in Seq(Threads) /\ msgs \in Seq(Kinds) /\ "burn_end" \in Kinds
    BY DEF Burn, BurnStart, BurnRun, BurnReset, BurnUnchanged, UTypes, BurnerTypes, QueueTypes, Kinds
  \* A step of the thread that is no longer at work, or not yet over.
  <1>2. ASSUME msgs' = msgs, fault' = fault, stuck \subseteq stuck', DOMAIN thread' = DOMAIN thread,
               \A c \in DOMAIN thread : AtWork(c)' => AtWork(c), Dead' \/ (AtWork(b) => AtWork(b)'),
               \A c \in DOMAIN thread \ {b} : thread'[c].at = thread[c].at
        PROVE  UInv'
    <2>1. Resting => Resting'
      BY <1>2 DEF Resting
    <2>2. Quiet' <=> Quiet
      BY <1>1, <1>2 DEF Quiet, receiving
    <2>3. Hands'
      <3>1. Between'
        BY <1>1, <1>2, <2>1, <2>2 DEF UInv, Hands, Between, manager, receiving
      <3>2. Receiving'
        BY <1>1, <1>2, <2>1 DEF UInv, Hands, Receiving, manager, receiving
      <3>3. Burning'
        BY <1>1, <1>2, <2>2 DEF UInv, Hands, Burning, manager, receiving
      <3> QED BY <1>1, <3>1, <3>2, <3>3 DEF UInv, Hands, Sinks, receiving
    <2>4. Prompts'
      BY <1>1, PromptsKept DEF UInv, manager, outside
    <2>5. Works'
      <3>1. ~Dead' => (~Resting => ~Resting')
        <4>1. SUFFICES ASSUME ~Dead', NEW c \in DOMAIN thread, AtWork(c)
                       PROVE  AtWork(c)'
          BY <1>2 DEF Resting
        <4>2. CASE c = b
          BY <1>2, <4>1, <4>2
        <4>3. CASE c # b
          BY <1>2, <4>1, <4>3 DEF AtWork
        <4> QED BY <4>2, <4>3
      <3>2. Ready' = Ready
        BY <1>1 DEF Ready, manager
      <3>3. (NoAnswer => NoAnswer') /\ (Cold => Cold') /\ (Dead => Dead')
        BY <1>2 DEF NoAnswer, Cold, Dead
      <3> QED BY <1>1, <1>2, <3>1, <3>2, <3>3 DEF UInv, Works, manager, receiving, outside
    <2> QED BY <1>2, <2>3, <2>4, <2>5 DEF UInv
  <1>3. AtWork(b) => m_state = "burn" /\ b = m_burner /\ Free(msgs, Burned) /\ Quiet
    BY DEF UInv, Hands, Between, Receiving, Burning, Resting, UTypes, ManagerTypes, States
  <1>4. ASSUME NEW ok \in BOOLEAN, NEW a \in {"ended", "done"}, AtWork(b), Burnt(b, ok, a)
        PROVE  UInv'
    <2>1. /\ thread' = [thread EXCEPT ![b].at = a, ![b].ok = ok]
          /\ msgs' = Append(msgs, "burn_end")
          /\ UNCHANGED <<g_burner, stuck, fault>>
      BY <1>4 DEF Burnt
    <2>2. DOMAIN thread' = DOMAIN thread /\ \A c \in DOMAIN thread : thread'[c].at = IF c = b THEN a ELSE thread[c].at
      BY <1>1, <2>1, ThreadFacts
    <2>3. \A c \in DOMAIN thread' : ~AtWork(c)'
      BY <1>3, <1>4, <2>2 DEF AtWork, UInv, Hands, Burning
    <2>4. One(msgs', Burned) /\ ~Free(msgs', Burned) /\ Same(msgs, msgs', Fetched)
      <3>1. "burn_end" \in Burned /\ "burn_end" \notin Fetched
        BY DEF Burned, Fetched
      <3> QED BY <1>1, <1>3, <1>4, <2>1, <3>1, AppendFacts, SameFacts
    <2>5. Quiet'
      BY <1>1, <1>3, <1>4, <2>4 DEF Quiet, Same, receiving
    <2>6. Hands'
      BY <1>1, <1>3, <1>4, <2>2, <2>3, <2>4, <2>5
      DEF UInv, Hands, Between, Receiving, Burning, Sinks, manager, receiving
    <2>7. Prompts'
      BY <1>1, PromptsKept DEF UInv, manager, outside
    <2>8. Works'
      BY <1>1, <1>3, <1>4, <2>4 DEF Works, manager
    <2> QED BY <2>1, <2>6, <2>7, <2>8 DEF UInv
  <1>5. ASSUME NEW a \in {"burn", "done"}, thread' = [thread EXCEPT ![b].at = a], msgs' = msgs, fault' = fault,
               stuck \subseteq stuck', a = "burn" => AtWork(b), a = "done" => Dead' \/ ~AtWork(b)
        PROVE  UInv'
    <2>1. DOMAIN thread' = DOMAIN thread /\ \A c \in DOMAIN thread : thread'[c].at = IF c = b THEN a ELSE thread[c].at
      BY <1>1, <1>5, ThreadFacts
    <2> QED BY <1>2, <1>5, <2>1 DEF AtWork
  <1>6. CASE BurnStart(b)
    <2>1. AtWork(b)
      BY <1>6 DEF BurnStart, AtWork
    <2> QED BY <1>5, <1>6, <2>1 DEF BurnStart, Dead, NoBurn
  <1>7. CASE BurnReset(b)
    <2>1. ~AtWork(b)
      BY <1>7 DEF BurnReset, AtWork
    <2> QED BY <1>5, <1>7, <2>1 DEF BurnReset
  <1>8. CASE BurnRun(b)
    <2>1. AtWork(b) /\ m_burner = b
      BY <1>3, <1>8 DEF BurnRun, AtWork
    <2>2. \/ \E ok \in BOOLEAN, a \in {"ended", "done"} : Burnt(b, ok, a)
          \/ /\ thread' = [thread EXCEPT ![b].at = "done"] /\ stuck' = stuck \cup {"setting"}
             /\ UNCHANGED <<msgs, fault>>
      BY <1>8, <2>1 DEF BurnRun
    <2> QED BY <1>4, <1>5, <2>1, <2>2 DEF Dead, NoBurn
  <1> QED BY <1>6, <1>7, <1>8 DEF Burn

-----------------------------------------------------------------------------
(* The loop thread.                                                        *)

LEMMA InvCheckEnd ==
    ASSUME ~MixMode, UTypes, UInv, ~Rival', CheckEnd
    PROVE  UInv'
  <1>1. /\ Pop("check_end")
        /\ msgs \in Seq(Kinds) /\ Rest \in Seq(Kinds) /\ msgs # <<>> /\ Head(msgs) = "check_end"
    BY RestFacts DEF CheckEnd
  <1>2. \A K \in {Fetched, Burned, Ended} : Same(msgs, Rest, K)
    <2>1. \A K \in {Fetched, Burned, Ended} : "check_end" \notin K
      BY DEF Fetched, Burned, Ended
    <2> QED BY <1>1, <2>1, SameFacts DEF Rest
  <1>3. ASSUME msgs' = Rest, \A u \in prompted \cup asked : check'[u] = check[u],
               m_state = "check" => Ready = {} /\ check' = check,
               UNCHANGED <<m_state, m_source, m_burner, checkers, prompted, receiving, burning, later, outside, stuck,
                           fault>>
        PROVE  UInv'
    <2>1. Hands'
      BY <1>2, <1>3, HandsKept DEF UInv, receiving, burning
    <2>2. Prompts'
      BY <1>3 DEF UInv, Prompts, findChecker, outside
    <2>3. Works'
      <3>1. Resting' <=> Resting
        BY <1>3 DEF Resting, AtWork, burning
      <3>2. (Free(msgs', Fetched) <=> Free(msgs, Fetched)) /\ (Free(msgs', Burned) <=> Free(msgs, Burned))
        BY <1>2, <1>3 DEF Same
      <3> QED BY <1>3, <3>1, <3>2 DEF UInv, Works, NoAnswer, Cold, Dead, receiving, outside
    <2> QED BY <1>3, <2>1, <2>2, <2>3 DEF UInv
  <1>4. CASE Ready = {}
    BY <1>1, <1>3, <1>4 DEF CheckEnd, manager
  <1>5. CASE Ready # {}
    <2>1. PICK t \in Types : t = FirstReady
      BY <1>5, FirstReadyFacts
    <2> DEFINE chk == [check EXCEPT ![t] = "finish"]
    <2>2. Judge(t, chk) /\ check[t] \in {"ok", "error"} /\ t \in Sources
      BY <1>5, <2>1, FirstReadyFacts DEF CheckEnd, Sources
    <2>3. t \notin prompted /\ t \notin asked
      BY <2>2 DEF UInv, Prompts
    <2>4. /\ chk \in [Types -> Verdicts] /\ \A u \in Types \ {t} : chk[u] = check[u]
          /\ \A u \in prompted : chk[u] = "selected" /\ findChecker(u)
          /\ \A u \in asked : chk[u] \in {"working", "idle"} /\ findChecker(u)
          /\ prompted \subseteq Types /\ asked \subseteq Types
      BY <2>3 DEF UInv, Prompts, UTypes, ManagerTypes, OutsideTypes, Verdicts
    <2> HIDE DEF chk
    <2>5. CASE m_state \in {"receive", "burn"}
      BY <1>3, <2>2, <2>3, <2>4, <2>5 DEF Judge
    <2>6. CASE m_state \notin {"receive", "burn"}
      <3>1. m_state \in {"idle", "check", "wait"}
        BY <2>6 DEF UTypes, ManagerTypes, States
      <3>2. /\ receiver = NoReceiver /\ m_burner = 0 /\ \A s \in Sources : transfer[s] = "none"
            /\ later["receive_end"] = 0 /\ Resting /\ Free(Rest, Fetched) /\ Free(Rest, Burned)
        BY <1>2, <3>1 DEF UInv, Hands, Between, Quiet, Same
      <3>3. CASE Dismiss(t, chk) /\ Early
        <4>1. OnDestroy(Rest, chk) /\ UNCHANGED <<prompted, sources, burning, later, outside, fault>>
          BY <3>3 DEF Dismiss
        <4>2. Hands' /\ m_state' = "idle"
          BY <1>1, <3>2, <4>1, Over DEF UInv, burning
        <4>3. Prompts'
          BY <1>1, <2>4, <4>1, PromptsOver DEF outside
        <4>4. Works'
          BY <4>2 DEF Works
        <4> QED BY <4>1, <4>2, <4>3, <4>4 DEF UInv
      <3>4. CASE Dismiss(t, chk) /\ ~Early
        <4>1. m_state # "check"
          BY <3>4 DEF Early
        <4> QED BY <1>3, <2>3, <2>4, <3>4, <4>1 DEF Dismiss
      <3>5. CASE /\ m_source' = t /\ m_state' = "receive" /\ check' = chk /\ StartReceive(t, Rest)
                 /\ UNCHANGED <<m_burner, checkers, prompted, offers, burning, later, outside>>
        <4>1. Hands' /\ Works' /\ fault' = fault
          BY <1>1, <2>2, <3>1, <3>2, <3>5, Began DEF UInv, burning
        <4>2. Prompts'
          BY <2>4, <3>5 DEF Prompts, findChecker, outside
        <4> QED BY <4>1, <4>2 DEF UInv
      <3>6. CASE /\ m_state' = "wait" /\ check' = [check EXCEPT ![t] = "selected"]
                 /\ prompted' = prompted \cup {t} /\ msgs' = Rest
                 /\ later' = [later EXCEPT !.auto_upgrade = IF AutoTimer /\ t = "soft" THEN @ + 1 ELSE @]
                 /\ UNCHANGED <<m_source, m_burner, checkers, offers, receiving, burning, outside, stuck, fault>>
        <4>1. later'["receive_end"] = later["receive_end"]
          BY <3>6 DEF UTypes, QueueTypes, Delayed
        <4>2. Hands'
          BY <3>1, <3>2, <3>6, <4>1
          DEF UInv, Hands, Between, Receiving, Burning, Sinks, Quiet, Resting, AtWork, receiving, burning
        <4>3. Prompts'
          <5>1. check'[t] = "selected" /\ \A u \in Types \ {t} : check'[u] = check[u]
            BY <3>6 DEF UTypes, ManagerTypes
          <5>2. findChecker(t)
            BY <1>5, <2>1, FirstReadyFacts
          <5> QED BY <2>3, <2>4, <3>6, <5>1, <5>2 DEF UInv, Prompts, findChecker, outside
        <4>4. Works'
          BY <3>6 DEF Works
        <4> QED BY <3>6, <4>2, <4>3, <4>4 DEF UInv
      <3> QED BY <2>2, <2>6, <3>3, <3>4, <3>5, <3>6 DEF Judge, CheckEndEager, Report
    <2> QED BY <2>5, <2>6
  <1> QED BY <1>4, <1>5

LEMMA InvReceiverEnd ==
    ASSUME UTypes, UInv, ReceiverEnd
    PROVE  UInv'
  <1>1. PICK m \in {"recv_end", "recv_error"} :
          /\ Pop(m) /\ receiver'.src = receiver.src /\ receiver'.state \in {"ok", "error"}
          /\ \/ msgs' = Append(Rest, "receive_end") /\ UNCHANGED later
             \/ later' = [later EXCEPT !.receive_end = @ + 1] /\ msgs' = Rest
    BY DEF ReceiverEnd, UTypes, ReceiverTypes, Receivers
  <1>2. UNCHANGED <<manager, sources, sink, transfer, burning, outside, stuck, fault>>
    BY DEF ReceiverEnd
  <1>3. /\ msgs \in Seq(Kinds) /\ Rest \in Seq(Kinds) /\ msgs # <<>> /\ Head(msgs) = m
        /\ "receive_end" \in Kinds /\ later \in [Delayed -> Nat] /\ "receive_end" \in Delayed
    BY <1>1, RestFacts DEF UTypes, QueueTypes, Kinds, Delayed
  <1>4. /\ m \in Fetched /\ m \notin Ended /\ m \notin Burned
        /\ "receive_end" \in Fetched /\ "receive_end" \in Ended /\ "receive_end" \notin Burned
    BY DEF Fetched, Ended, Burned
  <1>5. ~Free(msgs, Fetched)
    BY <1>3, <1>4 DEF Free
  <1>6. m_state = "receive"
    BY <1>5 DEF UInv, Hands, Between, Burning, Quiet, UTypes, ManagerTypes, States
  <1>7. /\ One(msgs, Fetched) /\ Free(Rest, Fetched) /\ later["receive_end"] = 0
        /\ \A s \in Sources : transfer[s] = "none"
    BY <1>3, <1>4, <1>5, <1>6, TailFacts DEF UInv, Hands, Receiving, Rest
  <1>8. Same(msgs, msgs', Burned)
    <2>1. Same(msgs, Rest, Burned) /\ Same(Rest, Append(Rest, "receive_end"), Burned)
      BY <1>3, <1>4, SameFacts DEF Rest
    <2> QED BY <1>1, <2>1 DEF Same
  <1>9. /\ One(msgs', Fetched)
        /\ \/ later'["receive_end"] = 1 /\ Free(msgs', Fetched)
           \/ later'["receive_end"] = 0 /\ ~Free(msgs', Fetched)
    <2>1. One(Rest, Fetched) /\ One(Append(Rest, "receive_end"), Fetched) /\ ~Free(Append(Rest, "receive_end"), Fetched)
      <3>1. One(Rest, Fetched)
        BY <1>7 DEF One, Free
      <3> QED BY <1>3, <1>4, <1>7, <3>1, AppendFacts
    <2>2. [later EXCEPT !.receive_end = @ + 1]["receive_end"] = 1
      BY <1>3, <1>7
    <2> QED BY <1>1, <1>7, <2>1, <2>2
  <1>10. Resting'
    BY <1>2, <1>6 DEF UInv, Hands, Receiving, Resting, AtWork, burning
  <1>11. Hands'
    <2>1. Free(msgs', Burned)
      BY <1>6, <1>8 DEF UInv, Hands, Receiving, Same
    <2>2. Receiving'
      BY <1>1, <1>2, <1>6, <1>7, <1>9, <1>10, <2>1 DEF UInv, Hands, Receiving, manager
    <2> QED BY <1>1, <1>2, <1>6, <2>2 DEF UInv, Hands, Between, Burning, Sinks, manager
  <1>12. Prompts'
    BY <1>2, PromptsKept DEF UInv, manager, outside
  <1>13. Works'
    BY <1>2, <1>6, <1>9 DEF Works, manager
  <1> QED BY <1>2, <1>11, <1>12, <1>13 DEF UInv

LEMMA InvBurnerEnded ==
    ASSUME UTypes, UInv, ~Rival, m_state \in {"receive", "burn"}, NEW q \in Seq(Kinds), BurnerEnded(q),
           \A s \in Sources : transfer[s] = "none", Resting, later["receive_end"] = 0,
           Free(q, Fetched), Free(q, Burned)
    PROVE  UInv'
  <1>1. m_source # "none"
    <2>1. "none" \notin Sources
      BY UpgradeConstants DEF Sources
    <2> QED BY <2>1 DEF UInv, Hands, Receiving, Burning
  <1>2. OnDestroy(q, check) /\ UNCHANGED <<prompted, sources, burning, later, outside, fault>>
    BY <1>1 DEF BurnerEnded
  <1>3. Hands' /\ m_state' = "idle"
    BY <1>2, Over DEF UInv, burning
  <1>4. Prompts'
    <2>1. prompted = {} /\ check \in [Types -> Verdicts]
      BY DEF Rival, UTypes, ManagerTypes
    <2> QED BY <1>2, <2>1, PromptsOver DEF UInv, Prompts, outside
  <1>5. Works'
    BY <1>3 DEF Works
  <1> QED BY <1>2, <1>3, <1>4, <1>5 DEF UInv

LEMMA InvReceiveEnd ==
    ASSUME UTypes, UInv, ~Rival, ReceiveEnd
    PROVE  UInv'
  <1>1. /\ msgs \in Seq(Kinds) /\ Rest \in Seq(Kinds) /\ msgs # <<>> /\ Head(msgs) = "receive_end"
    BY RestFacts DEF ReceiveEnd
  <1>2. /\ "receive_end" \in Fetched /\ "receive_end" \in Ended
        /\ "receive_end" \notin Burned
    BY DEF Fetched, Ended, Burned
  <1>3. ~Free(msgs, Fetched) /\ ~Free(msgs, Ended)
    BY <1>1, <1>2 DEF Free
  <1>4. m_state = "receive"
    BY <1>3 DEF UInv, Hands, Between, Burning, Quiet, UTypes, ManagerTypes, States
  <1>5. /\ One(msgs, Fetched) /\ later["receive_end"] = 0 /\ Resting /\ Free(msgs, Burned)
        /\ m_source \in Sources /\ receiver.src = m_source /\ \A s \in Sources : transfer[s] = "none"
    BY <1>3, <1>4 DEF UInv, Hands, Receiving, UTypes, QueueTypes
  <1>6. Free(Rest, Fetched) /\ Free(Rest, Burned)
    BY <1>1, <1>2, <1>5, TailFacts, SameFacts DEF Rest
  <1>7. m_source # "none" /\ receiver # NoReceiver
    BY <1>5, UpgradeConstants DEF Sources, NoReceiver
  <1>8. CASE BurnerEnded(Rest)
    BY <1>1, <1>4, <1>5, <1>6, <1>8, InvBurnerEnded
  <1>9. CASE StartBurner
    <2>0. /\ m_burner' = Len(thread) + 1 /\ m_state' = "burn" /\ msgs' = Rest
          /\ UNCHANGED <<m_source, checkers, check, prompted, sources, receiving, g_burner, later, outside, fault>>
      BY <1>9 DEF StartBurner
    <2>2. PICK e \in Threads : thread' = Append(thread, e) /\ (e.at = "start" \/ Dead')
      <3>1. PICK at \in {"start", "done"} :
              /\ thread' = Append(thread, [tmpl |-> m_source = "tmpl", at |-> at, ok |-> FALSE])
              /\ stuck' = IF at = "start" THEN stuck ELSE stuck \cup {"unborn"}
        BY <1>9 DEF StartBurner
      <3> DEFINE e == [tmpl |-> m_source = "tmpl", at |-> at, ok |-> FALSE]
      <3>2. e \in Threads /\ e.at = at
        BY <3>1 DEF Threads
      <3>3. at = "start" \/ Dead'
        BY <3>1 DEF Dead, NoBurn
      <3>4. thread' = Append(thread, e)
        BY <3>1
      <3> HIDE DEF e
      <3> QED BY <3>2, <3>3, <3>4
    <2>1. thread' = Append(thread, e) /\ m_burner' = Len(thread) + 1 /\ m_state' = "burn" /\ msgs' = Rest
          /\ UNCHANGED <<m_source, checkers, check, prompted, sources, receiving, g_burner, later, outside, fault>>
      BY <2>0, <2>2
    <2>3. /\ Len(thread) \in Nat /\ DOMAIN thread = 1 .. Len(thread) /\ DOMAIN thread' = 1 .. Len(thread) + 1
          /\ thread'[Len(thread) + 1] = e /\ \A b \in 1 .. Len(thread) : thread'[b] = thread[b]
      <3>1. thread \in Seq(Threads)
        BY DEF UTypes, BurnerTypes
      <3> QED BY <2>1, <2>2, <3>1, AppendProperties, LenProperties
    <2>4. (AtWork(m_burner)' \/ Dead') /\ m_burner' \in DOMAIN thread'
      BY <2>1, <2>2, <2>3 DEF AtWork
    <2>5. \A b \in DOMAIN thread' : AtWork(b)' => b = m_burner'
      BY <1>5, <2>1, <2>3 DEF AtWork, Resting
    <2>6. Quiet'
      BY <1>5, <1>6, <2>1 DEF Quiet, receiving
    <2>7. One(Rest, Burned)
      BY <1>6 DEF One, Free
    <2>8. Hands'
      BY <1>5, <1>6, <2>1, <2>4, <2>5, <2>6, <2>7 DEF UInv, Hands, Between, Receiving, Burning, Sinks, receiving
    <2>9. Prompts'
      BY <2>1, PromptsKept DEF UInv, outside
    <2>10. Works'
      BY <2>1, <2>4 DEF Works, Resting
    <2> QED BY <2>1, <2>8, <2>9, <2>10 DEF UInv
  <1> QED BY <1>4, <1>7, <1>8, <1>9 DEF ReceiveEnd

\* burnEnd, and the steps from one content to the next.
LEMMA InvBurnEnd ==
    ASSUME UTypes, UInv, ~Rival, NEW m \in Burned, Pop(m), m = "burn_end" => BurnEnd,
           m # "burn_end" => NextContent(m)
    PROVE  UInv'
  <1>1. /\ msgs \in Seq(Kinds) /\ Rest \in Seq(Kinds) /\ msgs # <<>> /\ Head(msgs) = m
        /\ {"logo", "setting"} \subseteq Kinds
    BY RestFacts DEF Kinds
  <1>2. m \notin Fetched /\ m \notin Ended
    BY DEF Fetched, Burned, Ended
  <1>3. ~Free(msgs, Burned)
    BY <1>1 DEF Free
  <1>4. m_state = "burn"
    BY <1>3 DEF UInv, Hands, Between, Receiving, UTypes, ManagerTypes, States
  <1>5. /\ One(msgs, Burned) /\ Quiet /\ m_source \in Sources /\ Resting
    BY <1>3, <1>4 DEF UInv, Hands, Burning, Resting
  <1>6. Free(Rest, Burned) /\ Free(Rest, Fetched) /\ \A K \in {Fetched, Ended} : Same(msgs, Rest, K)
    BY <1>1, <1>2, <1>5, TailFacts, SameFacts DEF Rest, Quiet
  <1>7. CASE BurnerEnded(Rest)
    BY <1>1, <1>4, <1>5, <1>6, <1>7, InvBurnerEnded DEF Quiet
  \* The upgrade goes on, or is forgotten.
  <1>8. ASSUME \/ \E c \in {"logo", "setting"} : msgs' = Append(Rest, c)
               \/ msgs' = Rest /\ Dead',
               UNCHANGED <<manager, receiving, burning, later, outside, fault>>
        PROVE  UInv'
    <2>1. \A c \in {"logo", "setting"} : c \in Burned /\ c \notin Fetched /\ c \notin Ended
      BY DEF Burned, Fetched, Ended
    <2>2. \A K \in {Fetched, Ended} : Same(msgs, msgs', K)
      <3>1. \A c \in {"logo", "setting"}, K \in {Fetched, Ended} : Same(Rest, Append(Rest, c), K)
        BY <1>1, <2>1, SameFacts
      <3> QED BY <1>6, <1>8, <3>1 DEF Same
    <2>3. One(msgs', Burned) /\ (Dead' \/ ~Free(msgs', Burned))
      <3>1. One(Rest, Burned)
        BY <1>6 DEF One, Free
      <3>2. ASSUME NEW c \in {"logo", "setting"}, msgs' = Append(Rest, c)
            PROVE  One(msgs', Burned) /\ ~Free(msgs', Burned)
        BY <1>1, <1>6, <2>1, <3>2, AppendFacts
      <3> QED BY <1>8, <3>1, <3>2
    <2>4. Resting' /\ Quiet'
      BY <1>5, <1>8, <2>2 DEF Resting, AtWork, Quiet, Same, burning, receiving
    <2>5. Hands'
      BY <1>4, <1>8, <2>3, <2>4
      DEF UInv, Hands, Between, Receiving, Burning, Sinks, Resting, manager, receiving, burning
    <2>6. Prompts'
      BY <1>8, PromptsKept DEF UInv, manager, outside
    <2>7. Works'
      BY <1>4, <1>8, <2>3 DEF Works, manager
    <2> QED BY <1>8, <2>5, <2>6, <2>7 DEF UInv
  <1>9. CASE m = "burn_end"
    BY <1>7, <1>8, <1>9 DEF BurnEnd
  <1>10. CASE m # "burn_end"
    <2>1. CASE m_source # "none" /\ m \in offers[m_source]
      <3>1. msgs' = Rest /\ UNCHANGED <<receiving, fault>> /\ stuck' = stuck \cup {"refused"}
            /\ UNCHANGED <<manager, burning, later, outside>>
        BY <1>4, <1>10, <2>1 DEF NextContent, StartReceive, Startable
      <3> QED BY <1>8, <3>1 DEF Dead, NoBurn
    <2>2. CASE ~(m_source # "none" /\ m \in offers[m_source])
      BY <1>7, <1>8, <1>10, <2>2 DEF NextContent
    <2> QED BY <2>1, <2>2
  <1> QED BY <1>9, <1>10

LEMMA InvRequest ==
    ASSUME UTypes, UInv, ~Rival', UpgradeRequest
    PROVE  UInv'
  <1>1. /\ Pop("request") /\ UNCHANGED <<m_burner, checkers, prompted, burning, later, asked>>
        /\ msgs \in Seq(Kinds) /\ Rest \in Seq(Kinds) /\ msgs # <<>> /\ Head(msgs) = "request"
    BY RestFacts DEF UpgradeRequest, RequestTaken
  <1>2. \A K \in {Fetched, Burned, Ended, Checked} : Same(msgs, Rest, K)
    <2>1. \A K \in {Fetched, Burned, Ended, Checked} : "request" \notin K
      BY DEF Fetched, Burned, Ended, Checked
    <2> QED BY <1>1, <2>1, SameFacts DEF Rest
  <1>3. CASE Early
    <2>1. /\ m_state \in {"idle", "check"} /\ "disk" \in Sources
          /\ check' = [t \in Types |-> IF m_state = "check" /\ findChecker(t) THEN "idle" ELSE check[t]]
          /\ m_source' = "disk" /\ m_state' = "receive" /\ StartReceive("disk", Rest)
      BY <1>3 DEF UpgradeRequest, RequestTaken, Early, Sources
    <2>2. Free(Rest, Fetched) /\ Free(Rest, Burned)
      BY <1>2, <2>1 DEF UInv, Hands, Between, Quiet, Same
    <2>3. Hands' /\ Works' /\ fault' = fault
      BY <1>1, <2>1, <2>2, Began DEF UInv, burning
    <2>4. prompted' = {}
      BY <2>1 DEF Rival
    <2>5. \A t \in Types : check'[t] \in {check[t], "idle"}
      BY <2>1
    <2>6. Prompts'
      BY <1>1, <2>1, <2>4, <2>5 DEF UInv, Prompts, findChecker, UTypes, OutsideTypes
    <2> QED BY <2>3, <2>6 DEF UInv
  <1>4. CASE ~Early
    <2>1. msgs' = Rest /\ UNCHANGED <<m_state, m_source, check, receiving, stuck, fault>>
      BY <1>4 DEF UpgradeRequest, RequestTaken
    <2>2. Hands'
      BY <1>1, <1>2, <2>1, HandsKept DEF UInv, receiving, burning
    <2>3. Prompts'
      BY <1>1, <2>1, PromptsKept DEF UInv
    <2>4. Works'
      BY <1>1, <1>2, <2>1, WorksKept DEF UInv, receiving, burning
    <2> QED BY <1>1, <2>1, <2>2, <2>3, <2>4 DEF UInv
  <1> QED BY <1>3, <1>4

-----------------------------------------------------------------------------
(* The request and the thread that waits for its answer.                   *)

Asking == {"request"}
RequestIsQueued == (requester = "wait" <=> Pending("request")) /\ One(msgs, Asking)

\* What the handlers do to the queue takes no request out of it.
LEMMA Handled ==
    ASSUME NEW q \in Seq(Kinds)
    PROVE  /\ Same(q, q, Asking) /\ Same(q, Purged(q), Asking)
           /\ Same(q, Without(q, {"auto_upgrade"}), Asking)
           /\ Same(q, Purged(Without(q, {"auto_upgrade"})), Asking)
           /\ \A m \in Kinds \ Asking : Same(q, Append(q, m), Asking)
  <1>1. Asking \cap {"recv_end", "recv_error"} = {} /\ Asking \cap {"auto_upgrade"} = {}
    BY DEF Asking
  <1>2. \A p \in Seq(Kinds) : Same(p, Purged(p), Asking)
    BY <1>1, SameFacts DEF Purged
  <1>3. PICK r : r = Without(q, {"auto_upgrade"})
    OBVIOUS
  <1>4. r \in Seq(Kinds) /\ Same(q, r, Asking)
    BY <1>1, <1>3, SameFacts, WithoutFacts
  <1>5. Same(q, Purged(r), Asking)
    BY <1>2, <1>4 DEF Same
  <1>6. \A m \in Kinds \ Asking : Same(q, Append(q, m), Asking)
    BY SameFacts
  <1> QED BY <1>2, <1>3, <1>4, <1>5, <1>6, SameFacts

LEMMA RequestKept ==
    ASSUME UTypes, [Next]_vars, ~Request, ~UpgradeRequest
    PROVE  requester' = requester /\ Same(msgs, msgs', Asking)
  <1> DEFINE Goal == requester' = requester /\ Same(msgs, msgs', Asking)
  <1> SUFFICES Goal
    OBVIOUS
  <1>0. msgs \in Seq(Kinds)
    BY DEF UTypes, QueueTypes
  <1>1. ASSUME requester' = requester,
               \/ msgs' = msgs \/ msgs' = Without(msgs, {"auto_upgrade"})
               \/ msgs' = Purged(Without(msgs, {"auto_upgrade"}))
               \/ \E m \in Kinds \ Asking : msgs' = Append(msgs, m)
        PROVE  Goal
    BY <1>0, <1>1, Handled
  <1>2. ASSUME NEW e \in Kinds \ Asking, Pop(e), requester' = requester,
               \/ msgs' = msgs \/ msgs' = Rest \/ msgs' = Purged(Rest)
               \/ msgs' = Without(Rest, {"auto_upgrade"}) \/ msgs' = Purged(Without(Rest, {"auto_upgrade"}))
               \/ \E m \in Kinds \ Asking : msgs' = Append(Rest, m)
        PROVE  Goal
    <2>1. Rest \in Seq(Kinds) /\ Same(msgs, Rest, Asking)
      BY <1>0, <1>2, RestFacts, SameFacts DEF Rest, Pop
    <2>2. msgs' = msgs \/ Same(Rest, msgs', Asking)
      BY <1>2, <2>1, Handled
    <2>3. Same(msgs, msgs', Asking)
      BY <1>0, <2>1, <2>2, Handled DEF Same
    <2> QED BY <1>2, <2>3
  <1> HIDE DEF Goal
  <1>3. ASSUME NEW s, NEW q, StartReceive(s, q) PROVE msgs' \in {q, Purged(q)}
    BY <1>3 DEF StartReceive, StartReceiveUnguarded
  <1>4. ASSUME NEW t, NEW yes, NEW q, Respond(t, yes, q) PROVE msgs' \in {q, Purged(q)}
    BY <1>3, <1>4 DEF Respond, OnDestroy
  <1>5. ASSUME NEW q, BurnerEnded(q) PROVE requester' = requester /\ msgs' \in {msgs, Purged(q)}
    BY <1>5 DEF BurnerEnded, OnDestroy, Crash, outside
  <1>6. CASE Environment
    <2>1. ASSUME NEW t \in Types, Touch(t) PROVE Goal
      BY <1>1, <2>1 DEF Touch, Kinds, Asking
    <2>2. ASSUME NEW t \in Types, CheckAnswer(t) PROVE Goal
      BY <1>1, <2>2 DEF CheckAnswer, Kinds, Asking
    <2>3. ASSUME NEW t \in Types, NEW yes \in BOOLEAN, Answer(t, yes) PROVE Goal
      BY <1>1, <1>4, <2>3 DEF Answer, outside
    <2>4. ASSUME NEW k \in DOMAIN later, Due(k) PROVE Goal
      <3>1. k \in Kinds \ Asking
        BY DEF UTypes, QueueTypes, Delayed, Kinds, Asking
      <3> QED BY <1>1, <2>4, <3>1 DEF Due, outside
    <2> QED BY <1>6, <2>1, <2>2, <2>3, <2>4 DEF Environment
  <1>7. CASE CheckEnd
    <2>1. Pop("check_end") /\ "check_end" \in Kinds \ Asking
      BY <1>7 DEF CheckEnd, Kinds, Asking
    <2>2. ASSUME NEW t, NEW chk, Report(t, chk) \/ Dismiss(t, chk)
          PROVE  requester' = requester /\ msgs' \in {Rest, Purged(Rest)}
      BY <1>3, <2>2 DEF Report, Dismiss, OnDestroy, outside
    <2>3. requester' = requester /\ msgs' \in {msgs, Rest, Purged(Rest)}
      BY <1>7, <2>2 DEF CheckEnd, Judge, CheckEndEager, Crash, outside
    <2> QED BY <1>2, <2>1, <2>3
  <1>8. CASE ReceiverEnd
    <2>1. PICK e \in {"recv_end", "recv_error"} : Pop(e)
      BY <1>8 DEF ReceiverEnd
    <2>2. e \in Kinds \ Asking /\ "receive_end" \in Kinds \ Asking
      BY DEF Kinds, Asking
    <2> QED BY <1>2, <1>8, <2>1, <2>2 DEF ReceiverEnd, outside
  <1>9. CASE ReceiveEnd
    <2>1. Pop("receive_end") /\ "receive_end" \in Kinds \ Asking
      BY <1>9 DEF ReceiveEnd, Kinds, Asking
    <2>2. requester' = requester /\ msgs' \in {msgs, Rest, Purged(Rest)}
      BY <1>5, <1>9 DEF ReceiveEnd, StartBurner, Crash, outside
    <2> QED BY <1>2, <2>1, <2>2
  <1>10. CASE BurnEnd
    <2>1. Pop("burn_end") /\ {"burn_end", "logo", "setting"} \subseteq Kinds \ Asking
      BY <1>10 DEF BurnEnd, Kinds, Asking
    <2>2. /\ requester' = requester
          /\ msgs' \in {msgs, Purged(Rest)} \/ \E m \in {"logo", "setting"} : msgs' = Append(Rest, m)
      BY <1>5, <1>10 DEF BurnEnd, outside
    <2> QED BY <1>2, <2>1, <2>2
  <1>11. ASSUME NEW c \in {"logo", "setting"}, NextContent(c) PROVE Goal
    <2>1. Pop(c) /\ {"logo", "setting"} \subseteq Kinds \ Asking
      BY <1>11 DEF NextContent, Kinds, Asking
    <2>2. requester' = requester /\ (msgs' \in {msgs, Rest, Purged(Rest)} \/ msgs' = Append(Rest, "setting"))
      BY <1>3, <1>5, <1>11 DEF NextContent, outside
    <2> QED BY <1>2, <2>1, <2>2
  <1>12. CASE AutoUpgrade
    <2>1. Pop("auto_upgrade") /\ "auto_upgrade" \in Kinds \ Asking
      BY <1>12 DEF AutoUpgrade, Kinds, Asking
    <2>2. /\ requester' = requester
          /\ \/ msgs' = Rest \/ msgs' = Without(Rest, {"auto_upgrade"})
             \/ msgs' = Purged(Without(Rest, {"auto_upgrade"}))
      BY <1>4, <1>12 DEF AutoUpgrade, outside
    <2> QED BY <1>2, <2>1, <2>2
  <1>13. CASE (\E s \in Sources : Transfer(s)) \/ TransferLost
    <2>1. requester' = requester
      BY <1>13 DEF Transfer, TransferBegin, Arrive, Finish, Call, TransferLost, TransferUnchanged, outside
    <2>2. msgs' = msgs \/ \E m \in {"recv_end", "recv_error"} : msgs' = Append(msgs, m)
      BY <1>13 DEF Transfer, TransferBegin, Arrive, Finish, Call, TransferLost
    <2>3. {"recv_end", "recv_error"} \subseteq Kinds \ Asking
      BY DEF Kinds, Asking
    <2> QED BY <1>1, <2>1, <2>2, <2>3
  <1>14. CASE \E b \in DOMAIN thread : Burn(b)
    <2>1. requester' = requester /\ (msgs' = msgs \/ msgs' = Append(msgs, "burn_end"))
      BY <1>14 DEF Burn, BurnStart, BurnRun, BurnReset, BurnUnchanged, Burnt, outside
    <2>2. "burn_end" \in Kinds \ Asking
      BY DEF Kinds, Asking
    <2> QED BY <1>1, <2>1, <2>2
  <1>15. CASE UNCHANGED vars
    BY <1>1, <1>15 DEF vars, outside
  <1> QED
    BY <1>6, <1>7, <1>8, <1>9, <1>10, <1>11, <1>12, <1>13, <1>14, <1>15 DEF Next, Loop, Environment

LEMMA RequestStep ==
    ASSUME UTypes, RequestIsQueued, [Next]_vars
    PROVE  RequestIsQueued'
  <1>0. msgs \in Seq(Kinds) /\ "request" \in Kinds /\ "request" \in Asking
    BY DEF UTypes, QueueTypes, Kinds, Asking
  <1>1. (Pending("request") <=> ~Free(msgs, Asking)) /\ (Pending("request")' <=> ~Free(msgs', Asking))
    BY DEF Pending, Free, Asking
  <1>2. CASE Request
    <2>1. requester = "idle" /\ requester' = "wait" /\ msgs' = Append(msgs, "request")
      BY <1>2 DEF Request
    <2>2. Free(msgs, Asking)
      BY <1>1, <2>1 DEF RequestIsQueued
    <2>3. One(msgs', Asking) /\ ~Free(msgs', Asking)
      BY <1>0, <2>1, <2>2, AppendFacts
    <2>4. One(msgs, Asking)'
      BY <2>3 DEF One
    <2> QED BY <1>1, <2>1, <2>3, <2>4 DEF RequestIsQueued
  <1>3. CASE UpgradeRequest
    <2>1. Pop("request") /\ requester' = "idle" /\ msgs' \in {Rest, Purged(Rest)}
      BY <1>3 DEF UpgradeRequest, RequestTaken, StartReceive, StartReceiveUnguarded
    <2>2. Rest \in Seq(Kinds) /\ Free(Rest, Asking)
      BY <1>0, <2>1, RestFacts, TailFacts DEF RequestIsQueued, Rest, Pop
    <2>3. Free(msgs', Asking)
      BY <2>1, <2>2, Handled DEF Same
    <2>4. One(msgs, Asking)'
      BY <2>3 DEF One, Free
    <2> QED BY <1>1, <2>1, <2>3, <2>4 DEF RequestIsQueued
  <1>4. CASE ~Request /\ ~UpgradeRequest
    <2>1. requester' = requester /\ Same(msgs, msgs', Asking)
      BY <1>4, RequestKept
    <2>2. One(msgs, Asking)'
      BY <2>1 DEF Same, RequestIsQueued, One
    <2> QED BY <1>1, <2>1, <2>2 DEF Same, RequestIsQueued
  <1> QED BY <1>2, <1>3, <1>4

-----------------------------------------------------------------------------
(* The theorems.                                                           *)

LEMMA InvInit == Init => UInv
  <1> SUFFICES ASSUME Init PROVE UInv
    OBVIOUS
  <1>1. /\ msgs = <<>> /\ thread = <<>> /\ checkers = <<>> /\ m_state = "idle" /\ later["receive_end"] = 0
        /\ m_source = "none" /\ m_burner = 0 /\ receiver = NoReceiver /\ asked = {} /\ prompted = {}
        /\ fault = "none" /\ (\A s \in Sources : ~sink[s] /\ transfer[s] = "none")
    BY DEF Init
  <1>2. (\A K : Free(msgs, K) /\ One(msgs, K)) /\ Len(checkers) = 0 /\ DOMAIN thread = {}
    <2>1. DOMAIN <<>> = {} /\ Len(<<>>) = 0
      OBVIOUS
    <2> QED BY <1>1, <2>1 DEF Free, One
  <1>3. Hands
    <2>1. "none" \notin Sources
      BY UpgradeConstants DEF Sources
    <2> QED BY <1>1, <1>2, <2>1 DEF Hands, Between, Receiving, Burning, Sinks, Quiet, Resting, NoReceiver
  <1>4. Prompts /\ Works
    BY <1>1 DEF Prompts, Works
  <1> QED BY <1>1, <1>3, <1>4 DEF UInv

LEMMA InvStep ==
    ASSUME ~MixMode, UTypes, UInv, ~Rival, ~Rival', [Next]_vars
    PROVE  UInv'
  <1>1. CASE UNCHANGED vars
    <2>1. UNCHANGED <<manager, receiving, burning, msgs, later, outside, stuck, fault>>
      BY <1>1 DEF vars
    <2>2. \A K : Same(msgs, msgs', K)
      BY <2>1, SameFacts DEF UTypes, QueueTypes
    <2>3. Hands'
      BY <2>1, <2>2, HandsKept DEF UInv, manager, receiving, burning
    <2>4. Prompts'
      BY <2>1, PromptsKept DEF UInv, manager, outside
    <2>5. Works'
      BY <2>1, <2>2, WorksKept DEF UInv, manager, receiving, burning, outside
    <2> QED BY <2>1, <2>3, <2>4, <2>5 DEF UInv
  <1>2. CASE Environment
    <2>1. CASE \E k \in DOMAIN later : Due(k)
      BY <2>1, InvDue, InvOther DEF UTypes, QueueTypes, Delayed
    <2> QED BY <1>2, <2>1, InvTouch, InvCheckAnswer, InvAnswer, InvOther DEF Environment
  <1>3. CASE Loop
    <2>1. CASE BurnEnd
      BY <2>1, InvBurnEnd DEF BurnEnd, Burned
    <2>2. ASSUME NEW c \in {"logo", "setting"}, NextContent(c)
          PROVE  UInv'
      BY <2>2, InvBurnEnd DEF NextContent, Burned
    <2> QED
      BY <1>3, <2>1, <2>2, InvCheckEnd, InvReceiverEnd, InvReceiveEnd, InvRequest, InvOther DEF Loop
  <1>4. CASE TransferLost
    BY <1>4, InvTransfer DEF Sources
  <1> QED BY <1>1, <1>2, <1>3, <1>4, InvTransfer, InvBurn DEF Next

\* The inductive invariant: types, and the one hand that passes the upgrade on.
THEOREM UpgradeInvariant ==
    ASSUME ~MixMode
    PROVE  Spec /\ []~Rival => [](UTypes /\ UInv)
  <1>1. Init => UTypes /\ UInv
    BY TypesInit, InvInit
  <1>2. UTypes /\ UInv /\ ~Rival /\ (~Rival)' /\ [Next]_vars => (UTypes /\ UInv)'
    BY TypesStep, InvStep
  <1> QED BY <1>1, <1>2, PTL DEF Spec

\* Every variable has its type, whatever checkers there are and in either mode;
\* there is never more than one checker of a kind.
THEOREM UpgradeTypes == Spec => []TypeOK
  <1> DEFINE I == UTypes /\ Distinct /\ fault \in Faults
  <1>1. Init => I
    <2> SUFFICES ASSUME Init PROVE Distinct /\ fault \in Faults
      BY TypesInit
    <2> QED BY EmptySeq DEF Init, Distinct, One, Faults
  <1>2. I /\ [Next]_vars => I'
    BY TypesStep, DistinctStep
  <1>3. I => TypeOK
    BY FewCheckers
    DEF TypeOK, UTypes, ManagerTypes, SourceTypes, ReceiverTypes, BurnerTypes, QueueTypes, OutsideTypes,
        States, Verdicts, Threads, Receivers, Delayed, Faults
  <1> HIDE DEF I
  <1> QED BY <1>1, <1>2, <1>3, PTL DEF Spec

\* Nothing is used before it is there or after it has been deleted, but for the
\* late answer to a check that a USB request has stopped.
THEOREM UpgradeNoFault ==
    ASSUME ~MixMode
    PROVE  Spec /\ []~Rival => []NoFault
  <1>1. UInv => NoFault
    BY DEF UInv, NoFault
  <1> QED BY <1>1, UpgradeInvariant, PTL

\* A burn thread at work is the one of m_burner, and the manager is in UMS_BURN:
\* flash is never written by two threads.
THEOREM UpgradeBurns ==
    ASSUME ~MixMode
    PROVE  Spec /\ []~Rival => []BurnsUndisturbed
  <1>1. UTypes /\ UInv => BurnsUndisturbed
    BY DEF UTypes, UInv, ManagerTypes, States, Hands, Between, Receiving, Burning, Resting, AtWork, BurnsUndisturbed
  <1> QED BY <1>1, UpgradeInvariant, PTL

\* The UMMC_RECEIVE_END of a download, delayed or not, is there once, while the
\* manager waits for it and its receiver has ended.
THEOREM UpgradeReceiveEnds ==
    ASSUME ~MixMode
    PROVE  Spec /\ []~Rival => []EndsAreCurrent
  <1>1. UTypes /\ UInv => EndsAreCurrent
    <2> SUFFICES ASSUME UTypes, UInv PROVE EndsAreCurrent
      OBVIOUS
    <2> DEFINE I == {i \in DOMAIN msgs : msgs[i] = "receive_end"}
    <2>1. EndsAreCurrent <=>
            (Cardinality(I) + later["receive_end"] > 0 =>
               /\ Cardinality(I) + later["receive_end"] = 1
               /\ m_state = "receive" /\ receiver.state \in {"ok", "error"})
      BY DEF EndsAreCurrent
    <2>2. /\ Free(msgs, Fetched) => I = {}
          /\ Free(msgs, Ended) => I = {}
          /\ One(msgs, Fetched) => I = {} \/ \E i : I = {i}
      BY DEF Free, One, Fetched, Ended
    <2>3. (I = {} => Cardinality(I) = 0) /\ ((\E i : I = {i}) => Cardinality(I) = 1)
      BY FS_EmptySet, FS_Singleton
    <2> HIDE DEF I
    <2>4. CASE m_state = "receive"
      BY <2>1, <2>2, <2>3, <2>4 DEF UInv, Hands, Receiving
    <2>5. CASE m_state # "receive"
      BY <2>1, <2>2, <2>3, <2>5 DEF UTypes, ManagerTypes, States, UInv, Hands, Between, Burning, Quiet
    <2> QED BY <2>4, <2>5
  <1> QED BY <1>1, UpgradeInvariant, PTL

\* A download has the sink of the receiver that waits for it.
THEOREM UpgradeDownloads ==
    ASSUME ~MixMode
    PROVE  Spec /\ []~Rival => []DownloadsAreWatched
  <1>1. UTypes /\ UInv => DownloadsAreWatched
    BY DEF UTypes, ManagerTypes, States, UInv, Hands, Between, Receiving, Burning, Sinks, Quiet, DownloadsAreWatched
  <1> QED BY <1>1, UpgradeInvariant, PTL

\* A manager that is not idle is waiting for somebody, unless the upgrade is one
\* of those this code forgets.
THEOREM UpgradeWorks ==
    ASSUME ~MixMode
    PROVE  Spec /\ []~Rival => []SomebodyWorks
  <1>1. UTypes /\ UInv => SomebodyWorks
    <2> SUFFICES ASSUME UTypes, UInv, m_state # "idle" PROVE SomebodyWorks
      BY DEF SomebodyWorks
    <2>1. /\ ~Free(msgs, Checked) => Pending("check_end")
          /\ ~Free(msgs, Fetched) => \E m \in {"recv_end", "recv_error", "receive_end"} : Pending(m)
          /\ ~Free(msgs, Burned) => \E m \in {"burn_end", "logo", "setting"} : Pending(m)
      BY DEF Free, Pending, Checked, Fetched, Burned
    <2>2. CASE m_state = "check"
      BY <2>1, <2>2 DEF UInv, Works, NoAnswer, SomebodyWorks
    <2>3. CASE m_state = "wait"
      BY <2>3 DEF UInv, Prompts, SomebodyWorks
    <2>4. CASE m_state = "receive"
      BY <2>1, <2>4 DEF UInv, Works, Cold, SomebodyWorks
    <2>5. CASE m_state = "burn"
      BY <2>1, <2>5 DEF UInv, Works, Dead, Resting, AtWork, SomebodyWorks
    <2> QED BY <2>2, <2>3, <2>4, <2>5 DEF UTypes, ManagerTypes, States
  <1> QED BY <1>1, UpgradeInvariant, PTL

-----------------------------------------------------------------------------
(* A box with one kind of checks.                                          *)

\* Only a manager that waits has asked the user.
Lone == prompted # {} => m_state = "wait"

LEMMA LoneStep ==
    ASSUME OneKind, UTypes, UInv, Lone, [Next]_vars
    PROVE  Lone'
  <1>1. PICK k : Types = {k}
    BY DEF OneKind
  <1>2. m_state = "wait" => m_source = "none" /\ Free(msgs, Fetched) /\ Free(msgs, Burned)
    BY DEF UInv, Hands, Between, Quiet
  \* What is left to a manager that waits.
  <1>3. ASSUME prompted' = prompted, m_state = "wait" => m_state' = "wait"
        PROVE  Lone'
    BY <1>3 DEF Lone
  <1>4. ASSUME NEW t \in Types, NEW yes \in BOOLEAN, Answer(t, yes)
        PROVE  Lone'
    BY <1>1, <1>4 DEF Answer, Lone, UTypes, ManagerTypes
  <1>5. CASE CheckEnd
    <2>1. CASE Ready = {}
      BY <1>3, <1>5, <2>1 DEF CheckEnd, Crash, manager
    <2>2. CASE Ready # {}
      <3>1. FirstReady = k /\ check[k] \in {"ok", "error"}
        BY <1>1, <2>2, FirstReadyFacts
      <3>2. prompted = {} /\ m_state # "wait"
        BY <1>1, <3>1 DEF UInv, Prompts, UTypes, ManagerTypes
      <3>3. prompted' = prompted \/ m_state' = "wait"
        BY <1>5 DEF CheckEnd, Crash, manager, Judge, CheckEndEager, Dismiss, Report
      <3> QED BY <3>2, <3>3 DEF Lone
    <2> QED BY <2>1, <2>2
  <1>6. ASSUME NEW m \in Kinds, Pop(m), m_state = "wait"
        PROVE  m \notin Fetched /\ m \notin Burned
    BY <1>2, <1>6, RestFacts DEF Free
  <1>7. CASE ReceiverEnd \/ ReceiveEnd \/ BurnEnd \/ \E c \in {"logo", "setting"} : NextContent(c)
    <2>1. m_state # "wait"
      BY <1>6, <1>7 DEF ReceiverEnd, ReceiveEnd, BurnEnd, NextContent, Fetched, Burned, Kinds
    <2>2. prompted' = prompted
      BY <1>7 DEF ReceiverEnd, ReceiveEnd, BurnEnd, NextContent, BurnerEnded, StartBurner, Crash, manager
    <2> QED BY <1>3, <2>1, <2>2
  <1>8. CASE UpgradeRequest
    BY <1>3, <1>8 DEF UpgradeRequest, RequestTaken, Early
  <1>9. CASE AutoUpgrade
    BY <1>2, <1>3, <1>9 DEF AutoUpgrade
  <1>10. CASE \E t \in Types : Touch(t) \/ CheckAnswer(t)
    BY <1>3, <1>10 DEF Touch, CheckAnswer
  <1>11. CASE Request \/ (\E j \in DOMAIN later : Due(j)) \/ UNCHANGED vars
    BY <1>3, <1>11 DEF Request, Due, manager, vars
  <1>12. CASE (\E s \in Sources : Transfer(s)) \/ TransferLost
    BY <1>3, <1>12 DEF Transfer, TransferBegin, Arrive, Finish, Call, TransferLost, TransferUnchanged, manager
  <1>13. CASE \E b \in DOMAIN thread : Burn(b)
    BY <1>3, <1>13 DEF Burn, BurnStart, BurnRun, BurnReset, BurnUnchanged, manager
  <1> QED
    BY <1>4, <1>5, <1>7, <1>8, <1>9, <1>10, <1>11, <1>12, <1>13 DEF Next, Environment, Loop

\* No prompt is open while an image is received or burnt.
THEOREM OneKindHasNoRivals ==
    ASSUME OneKind
    PROVE  Spec => []~Rival
  <1> DEFINE I == UTypes /\ UInv /\ Lone
  <1>1. Init => I
    <2>1. Init => Lone
      BY DEF Init, Lone
    <2> QED BY <2>1, TypesInit, InvInit
  <1>2. I => ~Rival
    BY DEF Lone, Rival
  <1>3. I /\ [Next]_vars => I'
    <2> SUFFICES ASSUME I, [Next]_vars PROVE I'
      OBVIOUS
    <2>1. Lone' /\ ~Rival /\ ~MixMode
      BY <1>2, LoneStep DEF OneKind
    <2>2. ~Rival'
      BY <2>1 DEF Lone, Rival
    <2> QED BY <2>1, <2>2, TypesStep, InvStep
  <1> HIDE DEF I
  <1> QED BY <1>1, <1>2, <1>3, PTL DEF Spec

\* So a box that knows checks of one kind, software or template, uses no deleted
\* object, burns in one thread at a time, takes no end of a download for that of
\* another, downloads for nobody and waits for nothing.
THEOREM OneKindUpgrades ==
    ASSUME OneKind
    PROVE  Spec => [](NoFault /\ BurnsUndisturbed /\ EndsAreCurrent /\ DownloadsAreWatched /\ SomebodyWorks)
  <1>1. ~MixMode
    BY DEF OneKind
  <1> QED
    BY <1>1, OneKindHasNoRivals, UpgradeNoFault, UpgradeBurns, UpgradeReceiveEnds, UpgradeDownloads, UpgradeWorks, PTL

-----------------------------------------------------------------------------
(* Both kinds of checks, in either mode.                                   *)

\* The user's answer to a check is not taken for the end of another one.
LEMMA AnswerPopsNothing ==
    ASSUME UTypes, Pop("check_end"), NEW t \in Types, NEW yes \in BOOLEAN, Answer(t, yes)
    PROVE  msgs' # Rest
  <1>1. msgs \in Seq(Kinds) /\ msgs # <<>> /\ Head(msgs) = "check_end"
    BY DEF UTypes, QueueTypes, Pop
  <1>2. PICK q : q = Without(msgs, {"auto_upgrade"})
    OBVIOUS
  <1>3. q \in Seq(Kinds) /\ Count(q, "check_end") = Count(msgs, "check_end")
    BY <1>1, <1>2, WithoutFacts, CountWithout
  <1>4. Count(Purged(q), "check_end") = Count(msgs, "check_end")
    BY <1>3, CountWithout DEF Purged
  <1>5. msgs' \in {q, Purged(q)}
    <2>1. Respond(t, yes, q)
      BY <1>2 DEF Answer
    <2> QED BY <2>1 DEF Respond, StartReceive, StartReceiveUnguarded, OnDestroy
  <1>6. Count(Rest, "check_end") < Count(msgs, "check_end") /\ Count(msgs, "check_end") \in Nat
    BY <1>1, CountTail, CountFacts DEF Rest
  <1> QED BY <1>3, <1>4, <1>5, <1>6

\* A check that ends while an image is received or burnt changes nothing of it,
\* whatever checkers there are and in either mode.
THEOREM UpgradeUndisturbed == Spec => ChecksDoNotDisturb
  <1> DEFINE Undisturbed ==
        (m_state \in {"receive", "burn"} /\ Pop("check_end") /\ msgs' = Rest)
           => UNCHANGED <<m_state, m_source, m_burner, receiver, prompted>>
  <1>1. UTypes /\ [Next]_vars => Undisturbed
    <2> SUFFICES ASSUME UTypes, [Next]_vars, m_state \in {"receive", "burn"}, Pop("check_end"), msgs' = Rest
                 PROVE  UNCHANGED <<m_state, m_source, m_burner, receiver, prompted>>
      OBVIOUS
    <2>1. CASE UNCHANGED vars
      BY <2>1 DEF vars, manager, receiving
    <2>2. CASE Environment
      <3>1. \A t \in Types : ~Touch(t) /\ \A yes \in BOOLEAN : ~Answer(t, yes)
        BY AnswerPopsNothing DEF Touch
      <3> QED
        BY <2>2, <3>1 DEF Environment, CheckAnswer, Request, Due, manager, receiving
    <2>3. CASE Loop
      <3>1. CheckEnd
        BY <2>3
        DEF Loop, Pop, ReceiverEnd, ReceiveEnd, BurnEnd, NextContent, UpgradeRequest, RequestTaken, AutoUpgrade
      <3> QED BY <3>1 DEF CheckEnd, Judge, manager, receiving
    <2>4. CASE (\E s \in Sources : Transfer(s)) \/ TransferLost
      BY <2>4 DEF Transfer, TransferBegin, Arrive, Finish, Call, TransferLost, TransferUnchanged, manager
    <2>5. CASE \E b \in DOMAIN thread : Burn(b)
      BY <2>5 DEF Burn, BurnStart, BurnRun, BurnReset, BurnUnchanged, manager, receiving
    <2> QED BY <2>1, <2>2, <2>3, <2>4, <2>5 DEF Next
  <1>2. Spec => []UTypes
    BY TypesInit, TypesStep, PTL DEF Spec
  <1> QED BY <1>1, <1>2, PTL DEF Spec, ChecksDoNotDisturb

\* The thread of the USB detector waits exactly as long as its one request is in
\* the queue: no receiver or prompt that removes messages takes it away, and
\* whatever the manager is doing when it comes to it, the thread is told.
THEOREM RequestersAreTold == Spec => []RequestIsQueued
  <1>1. Init => UTypes /\ RequestIsQueued
    BY TypesInit, EmptySeq DEF Init, RequestIsQueued, Pending, One
  <1>2. UTypes /\ RequestIsQueued /\ [Next]_vars => (UTypes /\ RequestIsQueued)'
    BY TypesStep, RequestStep
  <1> QED BY <1>1, <1>2, PTL DEF Spec
=============================================================================
