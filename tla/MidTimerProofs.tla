---------------------------- MODULE MidTimerProofs ----------------------------
(***************************************************************************)
(* Proofs about MidTimer for every set of functions, arguments and clients *)
(* and every pool size: the safety properties that the TLC runs check, from*)
(* one inductive invariant.                                                *)
(***************************************************************************)
EXTENDS MidTimer, SeqFacts

Elems(q) == {q[j] : j \in DOMAIN q}

-----------------------------------------------------------------------------
(* The list operations.                                                    *)

\* The catch-up loop of msg_timer_queue ends beyond pClock when there is an
\* interval to add, and only ever moves the expiry forward.
LEMMA NormalisedFacts ==
    ASSUME NEW timer \in Timers, NEW t \in Nat
    PROVE  /\ Normalised(timer, t) \in Timers
           /\ Normalised(timer, t).key = timer.key
           /\ Normalised(timer, t).loops = timer.loops
           /\ Normalised(timer, t).intval = timer.intval
           /\ Normalised(timer, t).clock >= timer.clock
           /\ timer.intval > 0 => Normalised(timer, t).clock > t
  <1> DEFINE c == timer.clock
             v == timer.intval
             n == (t - c) \div v + 1
  <1>1. c \in Nat /\ v \in Nat /\ timer.key \in Keys /\ timer.loops \in Nat
    BY DEF Timers
  <1>2. CASE c <= t /\ v > 0
    <2>1. n \in Nat /\ n > 0 /\ c + v * n > t
      <3> HIDE DEF c, v
      <3>1. t - c \in Nat /\ v \in Nat /\ v > 0
        BY <1>1, <1>2
      <3> DEFINE d == t - c
      <3>2. \A x \in Nat, y \in Nat : y > 0 => /\ x \div y \in Nat
                                               /\ x < y * (x \div y) + y
        OBVIOUS
      <3>3. d \div v \in Nat /\ d < v * (d \div v) + v
        BY <3>1, <3>2
      <3>4. \A x, y \in Nat : y * (x + 1) = y * x + y
        OBVIOUS
      <3> QED BY <1>1, <3>1, <3>3, <3>4
    <2>2. Normalised(timer, t) = [timer EXCEPT !.clock = c + v * n]
      BY <1>2 DEF Normalised
    <2>3. v * n \in Nat
      <3> HIDE DEF v, n
      <3> QED BY <1>1, <2>1
    <2> HIDE DEF n
    <2> QED BY <1>1, <1>2, <2>1, <2>2, <2>3 DEF Timers
  <1>3. CASE ~(c <= t /\ v > 0)
    BY <1>1, <1>3 DEF Normalised, Timers
  <1> QED BY <1>2, <1>3

LEMMA ListElements ==
    ASSUME NEW q \in Seq(Timers)
    PROVE  /\ Len(q) \in Nat /\ DOMAIN q = 1 .. Len(q)
           /\ \A j \in 1 .. Len(q) :
                /\ q[j] \in Timers /\ q[j].key \in Keys /\ q[j].loops \in Nat
                /\ q[j].intval \in Nat /\ q[j].clock \in Nat
  <1>1. Len(q) \in Nat /\ DOMAIN q = 1 .. Len(q)
    BY LenProperties
  <1>2. \A j \in 1 .. Len(q) : q[j] \in Timers
    BY ElementOfSeq
  <1> QED BY <1>1, <1>2 DEF Timers

\* The second loop of msg_timer_queue finds a place in any list.
LEMMA PlaceExists ==
    ASSUME NEW q \in Seq(Timers), NEW timer \in Timers
    PROVE  \E p \in 1 .. Len(q) + 1 : IsPlace(q, timer, p)
  <1>1. /\ Len(q) \in Nat /\ timer.clock \in Nat
        /\ \A j \in 1 .. Len(q) : q[j].clock \in Nat
    BY ListElements DEF Timers
  <1> DEFINE Later == {j \in 1 .. Len(q) : q[j].clock > timer.clock}
  <1>2. CASE Later = {}
    <2>1. \A j \in 1 .. Len(q) : q[j].clock <= timer.clock
      BY <1>1, <1>2
    <2>2. IsPlace(q, timer, Len(q) + 1)
      BY <1>1, <2>1 DEF IsPlace
    <2> QED BY <1>1, <2>2
  <1>3. CASE Later # {}
    <2>0. Later \in SUBSET Nat
      OBVIOUS
    <2>1. PICK p \in Later : \A j \in Later : p <= j
      BY <1>3, <2>0, LeastExists, Zenon
    <2>2. IsPlace(q, timer, p)
      BY <1>1, <2>1 DEF IsPlace
    <2> QED BY <1>1, <2>1, <2>2
  <1> QED BY <1>2, <1>3

\* Insert puts the timer at such a place, and nothing else changes.
LEMMA InsertAtPlace ==
    ASSUME NEW q \in Seq(Timers), NEW timer \in Timers
    PROVE  \E p \in 1 .. Len(q) + 1 :
             /\ IsPlace(q, timer, p)
             /\ Insert(q, timer) \in Seq(Timers)
             /\ Len(Insert(q, timer)) = Len(q) + 1
             /\ Insert(q, timer)[p] = timer
             /\ \A j \in 1 .. Len(q) : j < p => Insert(q, timer)[j] = q[j]
             /\ \A j \in 1 .. Len(q) : j >= p => Insert(q, timer)[j + 1] = q[j]
  <1> DEFINE p == CHOOSE x \in 1 .. Len(q) + 1 : IsPlace(q, timer, x)
  <1>1. p \in 1 .. Len(q) + 1 /\ IsPlace(q, timer, p)
    BY PlaceExists
  <1>2. Insert(q, timer) = InsertAt(q, p, timer)
    BY DEF Insert
  <1>3. Len(q) \in Nat
    BY LenProperties
  <1> HIDE DEF p
  <1>4. /\ InsertAt(q, p, timer) \in Seq(Timers)
        /\ Len(InsertAt(q, p, timer)) = Len(q) + 1
        /\ \A j \in 1 .. Len(q) + 1 : InsertAt(q, p, timer)[j] =
             IF j < p THEN q[j] ELSE IF j = p THEN timer ELSE q[j - 1]
    BY <1>1, InsertAtFacts
  <1> DEFINE r == InsertAt(q, p, timer)
  <1> HIDE DEF r
  <1>5. /\ r[p] = timer
        /\ \A j \in 1 .. Len(q) : j < p => r[j] = q[j]
    BY <1>1, <1>3, <1>4 DEF r
  <1>6. \A j \in 1 .. Len(q) : j >= p => r[j + 1] = q[j]
    <2> SUFFICES ASSUME NEW j \in 1 .. Len(q), j >= p PROVE r[j + 1] = q[j]
      OBVIOUS
    <2>1. j + 1 \in 1 .. Len(q) + 1 /\ ~(j + 1 < p) /\ j + 1 # p /\ (j + 1) - 1 = j
      BY <1>1, <1>3
    <2>2. r[j + 1] = q[(j + 1) - 1]
      BY <1>4, <2>1, Zenon DEF r
    <2> QED BY <2>1, <2>2
  <1> QED BY <1>1, <1>2, <1>4, <1>5, <1>6, Zenon DEF r

LEMMA InsertFacts ==
    ASSUME NEW q \in Seq(Timers), NEW timer \in Timers,
           Ordered(q), ~Queued(q, {timer.key})
    PROVE  /\ Insert(q, timer) \in Seq(Timers)
           /\ Len(Insert(q, timer)) = Len(q) + 1
           /\ Ordered(Insert(q, timer))
           /\ Elems(Insert(q, timer)) = Elems(q) \cup {timer}
  <1> DEFINE r == Insert(q, timer)
  <1>1. PICK p \in 1 .. Len(q) + 1 :
             /\ IsPlace(q, timer, p)
             /\ r \in Seq(Timers)
             /\ Len(r) = Len(q) + 1
             /\ r[p] = timer
             /\ \A j \in 1 .. Len(q) : j < p => r[j] = q[j]
             /\ \A j \in 1 .. Len(q) : j >= p => r[j + 1] = q[j]
    BY InsertAtPlace
  <1> HIDE DEF r
  <1>2. /\ Len(q) \in Nat /\ timer.clock \in Nat
        /\ DOMAIN q = 1 .. Len(q) /\ DOMAIN r = 1 .. Len(q) + 1
        /\ \A j \in 1 .. Len(q) : q[j].clock \in Nat
    <2>1. Len(q) \in Nat /\ DOMAIN q = 1 .. Len(q) /\ \A j \in 1 .. Len(q) : q[j].clock \in Nat
      BY ListElements
    <2>2. DOMAIN r = 1 .. Len(r)
      BY <1>1, ListElements
    <2> QED BY <1>1, <2>1, <2>2 DEF Timers
  <1>3. \A j \in 1 .. Len(q) : q[j].key # timer.key
    BY <1>2 DEF Queued
  <1>4. \A j, h \in 1 .. Len(q) : j < h => q[j].clock <= q[h].clock /\ q[j].key # q[h].key
    BY <1>2 DEF Ordered
  <1>5. \A j \in 1 .. Len(q) : /\ j < p => q[j].clock <= timer.clock
                               /\ j >= p => q[j].clock > timer.clock
    <2> SUFFICES ASSUME NEW j \in 1 .. Len(q)
                 PROVE  /\ j < p => q[j].clock <= timer.clock
                        /\ j >= p => q[j].clock > timer.clock
      OBVIOUS
    <2>1. p \in Nat /\ (j >= p => p \in 1 .. Len(q))
      BY <1>2
    <2>2. j > p => q[p].clock <= q[j].clock
      BY <1>2, <1>4, <2>1
    <2>3. j >= p => q[p].clock > timer.clock
      BY <1>1, <1>2, <2>1 DEF IsPlace
    <2>4. j < p => q[j].clock <= timer.clock
      BY <1>1, <1>2 DEF IsPlace
    <2> QED BY <1>2, <2>1, <2>2, <2>3, <2>4
  <1> DEFINE Old(j) == IF j < p THEN j ELSE j - 1
  <1>6. \A j \in 1 .. Len(q) + 1 : j # p => Old(j) \in 1 .. Len(q) /\ r[j] = q[Old(j)]
    <2> SUFFICES ASSUME NEW j \in 1 .. Len(q) + 1, j # p
                 PROVE  Old(j) \in 1 .. Len(q) /\ r[j] = q[Old(j)]
      OBVIOUS
    <2>1. CASE j < p
      <3>1. j \in 1 .. Len(q)
        BY <1>2, <2>1
      <3> QED BY <1>1, <2>1, <3>1, Zenon
    <2>2. CASE ~(j < p)
      <3>1. j - 1 \in 1 .. Len(q) /\ j - 1 >= p /\ (j - 1) + 1 = j
        BY <1>2, <2>2
      <3>2. r[j] = q[j - 1]
        BY <1>1, <3>1
      <3> QED BY <2>2, <3>1, <3>2, Zenon
    <2> QED BY <2>1, <2>2
  <1>7. Ordered(r)
    <2> SUFFICES ASSUME NEW j \in 1 .. Len(q) + 1, NEW h \in 1 .. Len(q) + 1, j < h
                 PROVE  r[j].clock <= r[h].clock /\ r[j].key # r[h].key
      BY <1>2 DEF Ordered
    <2>1. CASE h = p
      <3>1. Old(j) \in 1 .. Len(q) /\ Old(j) < p /\ r[j] = q[Old(j)]
        BY <1>2, <1>6, <2>1
      <3> QED BY <1>1, <1>3, <1>5, <2>1, <3>1
    <2>2. CASE j = p
      <3>1. Old(h) \in 1 .. Len(q) /\ Old(h) >= p /\ r[h] = q[Old(h)]
        BY <1>2, <1>6, <2>2
      <3> HIDE DEF Old
      <3> QED BY <1>1, <1>2, <1>3, <1>5, <2>2, <3>1
    <2>3. CASE j # p /\ h # p
      <3>1. /\ Old(j) \in 1 .. Len(q) /\ r[j] = q[Old(j)]
            /\ Old(h) \in 1 .. Len(q) /\ r[h] = q[Old(h)]
        BY <1>6, <2>3
      <3>2. Old(j) < Old(h)
        BY <1>2, <2>3
      <3> HIDE DEF Old
      <3> QED BY <1>4, <3>1, <3>2
    <2> QED BY <2>1, <2>2, <2>3
  <1>8. Elems(r) = Elems(q) \cup {timer}
    <2>1. \A j \in 1 .. Len(q) + 1 : r[j] \in Elems(q) \cup {timer}
      <3> HIDE DEF Old
      <3> QED BY <1>1, <1>2, <1>6 DEF Elems
    <2>2. \A j \in 1 .. Len(q) : q[j] \in Elems(r)
      <3> TAKE j \in 1 .. Len(q)
      <3>1. CASE j < p
        <4>1. j \in 1 .. Len(q) + 1 /\ r[j] = q[j]
          BY <1>1, <1>2, <3>1
        <4> QED BY <1>2, <4>1 DEF Elems
      <3>2. CASE j >= p
        <4>1. j + 1 \in 1 .. Len(q) + 1 /\ r[j + 1] = q[j]
          BY <1>1, <1>2, <3>2
        <4> QED BY <1>2, <4>1 DEF Elems
      <3> QED BY <1>2, <3>1, <3>2
    <2>3. timer \in Elems(r)
      BY <1>1, <1>2 DEF Elems
    <2> QED BY <1>2, <2>1, <2>2, <2>3 DEF Elems
  <1> QED BY <1>1, <1>7, <1>8 DEF r

\* Dequeue takes one matching timer out of a list that has one.
LEMMA DequeueFacts ==
    ASSUME NEW q \in Seq(Timers), NEW ks, Ordered(q), Queued(q, ks)
    PROVE  /\ Dequeue(q, ks) \in Seq(Timers)
           /\ Len(q) \in Nat /\ Len(q) > 0
           /\ Len(Dequeue(q, ks)) = Len(q) - 1
           /\ Ordered(Dequeue(q, ks))
           /\ \E out \in Elems(q) : /\ out.key \in ks
                                    /\ Elems(Dequeue(q, ks)) = {e \in Elems(q) : e.key # out.key}
  <1> DEFINE r == Dequeue(q, ks)
             Match == {j \in DOMAIN q : q[j].key \in ks}
             p == First(q, ks)
  <1>1. Len(q) \in Nat /\ DOMAIN q = 1 .. Len(q)
        /\ \A j \in 1 .. Len(q) : q[j].clock \in Nat
    BY ListElements
  <1>2. PICK m \in Match : \A j \in Match : m <= j
    <2>1. Match \in SUBSET Nat /\ Match # {}
      BY <1>1 DEF Queued
    <2> QED BY <2>1, LeastExists
  <1>3. p \in 1 .. Len(q) /\ q[p].key \in ks
    <2>1. \A h \in 1 .. m - 1 : q[h].key \notin ks
      BY <1>1, <1>2
    <2> QED BY <1>1, <1>2, <2>1 DEF First
  <1>4. r = RemoveAt(q, p)
    BY DEF Dequeue
  <1> HIDE DEF p, r, Match
  <1>5. /\ r \in Seq(Timers) /\ Len(r) = Len(q) - 1 /\ DOMAIN r = 1 .. Len(q) - 1
        /\ \A j \in 1 .. Len(q) - 1 : r[j] = IF j < p THEN q[j] ELSE q[j + 1]
    <2>1. /\ RemoveAt(q, p) \in Seq(Timers) /\ Len(RemoveAt(q, p)) = Len(q) - 1
          /\ \A j \in 1 .. Len(q) - 1 : RemoveAt(q, p)[j] = IF j < p THEN q[j] ELSE q[j + 1]
      BY <1>3, RemoveAtFacts
    <2>2. DOMAIN r = 1 .. Len(r)
      BY <1>4, <2>1, LenProperties
    <2> QED BY <1>4, <2>1, <2>2
  <1> DEFINE Old(j) == IF j < p THEN j ELSE j + 1
  <1>6. \A j \in 1 .. Len(q) - 1 : /\ Old(j) \in 1 .. Len(q) /\ Old(j) # p
                                  /\ r[j] = q[Old(j)]
    <2> TAKE j \in 1 .. Len(q) - 1
    <2>1. Old(j) \in 1 .. Len(q) /\ Old(j) # p
      BY <1>1, <1>3
    <2>2. r[j] = q[Old(j)]
      BY <1>5, Zenon
    <2> QED BY <2>1, <2>2
  <1>7. \A j, h \in 1 .. Len(q) : /\ j < h => q[j].clock <= q[h].clock
                                  /\ j # h => q[j].key # q[h].key
    BY <1>1 DEF Ordered
  <1>8. \A j, h \in 1 .. Len(q) - 1 : j < h => Old(j) < Old(h)
    BY <1>1, <1>3
  <1> HIDE DEF Old
  <1>9. Ordered(r)
    <2> SUFFICES ASSUME NEW j \in 1 .. Len(q) - 1, NEW h \in 1 .. Len(q) - 1, j < h
                 PROVE  r[j].clock <= r[h].clock /\ r[j].key # r[h].key
      BY <1>5 DEF Ordered
    <2>1. PICK a \in 1 .. Len(q), b \in 1 .. Len(q) : r[j] = q[a] /\ r[h] = q[b] /\ a < b
      BY <1>6, <1>8
    <2>2. a # b
      BY <1>1, <2>1
    <2> QED BY <1>7, <2>1, <2>2
  <1>10. \A e \in Elems(r) : e \in Elems(q) /\ e.key # q[p].key
    <2> SUFFICES ASSUME NEW j \in 1 .. Len(q) - 1
                 PROVE  r[j] \in Elems(q) /\ r[j].key # q[p].key
      BY <1>5 DEF Elems
    <2> QED BY <1>1, <1>3, <1>6, <1>7 DEF Elems
  <1>11. \A e \in Elems(q) : e.key # q[p].key => e \in Elems(r)
    <2> SUFFICES ASSUME NEW j \in 1 .. Len(q), j # p
                 PROVE  q[j] \in Elems(r)
      BY <1>1 DEF Elems
    <2>1. CASE j < p
      <3>1. j \in 1 .. Len(q) - 1 /\ r[j] = q[j]
        BY <1>1, <1>3, <1>5, <2>1
      <3> QED BY <1>5, <3>1 DEF Elems
    <2>2. CASE j > p
      <3>1. j - 1 \in 1 .. Len(q) - 1 /\ ~(j - 1 < p) /\ (j - 1) + 1 = j
        BY <1>1, <1>3, <2>2
      <3>2. r[j - 1] = q[j]
        BY <1>5, <3>1
      <3> QED BY <1>5, <3>1, <3>2 DEF Elems
    <2> QED BY <1>1, <1>3, <2>1, <2>2
  <1>12. q[p] \in Elems(q)
    BY <1>1, <1>3 DEF Elems
  <1> QED BY <1>1, <1>3, <1>5, <1>9, <1>10, <1>11, <1>12 DEF r

LEMMA DequeueName ==
    ASSUME NEW q \in Seq(Timers), NEW k, Ordered(q), Queued(q, {k})
    PROVE  /\ Dequeue(q, {k}) \in Seq(Timers)
           /\ Len(q) \in Nat /\ Len(q) > 0
           /\ Len(Dequeue(q, {k})) = Len(q) - 1
           /\ Ordered(Dequeue(q, {k}))
           /\ Elems(Dequeue(q, {k})) = {e \in Elems(q) : e.key # k}
  <1>1. /\ Dequeue(q, {k}) \in Seq(Timers) /\ Len(q) \in Nat /\ Len(q) > 0
        /\ Len(Dequeue(q, {k})) = Len(q) - 1 /\ Ordered(Dequeue(q, {k}))
        /\ \E out \in Elems(q) : /\ out.key \in {k}
                                 /\ Elems(Dequeue(q, {k})) = {e \in Elems(q) : e.key # out.key}
    BY DequeueFacts
  <1>2. PICK out \in Elems(q) : /\ out.key \in {k}
                               /\ Elems(Dequeue(q, {k})) = {e \in Elems(q) : e.key # out.key}
    BY <1>1
  <1>3. out.key = k
    BY <1>2
  <1> QED BY <1>1, <1>2, <1>3

-----------------------------------------------------------------------------
(* The inductive invariant: what the properties need to survive each other's *)
(* steps.                                                                    *)

\* Only a one-shot timer has no interval, so whatever goes back to the list
\* moves beyond the instant being dealt with.
Elements == \A e \in Elems(queue) : e.intval > 0 \/ e.loops = 1

\* delete_all and the deal loop exclude each other.
Purging ==
    /\ purge # NoFunc => pc \notin {"collect", "dispatch"}
    /\ \A c, d \in Clients : api[c] = "purge" => purge # NoFunc /\ (api[d] = "purge" => c = d)

\* While the due timers are collected: those in the batch are no longer due,
\* and those still due, the first d of the list, fit in the batch's array.
Collected ==
    pc = "collect" =>
        /\ \A j \in DOMAIN deal, e \in Elems(queue) : e.key = deal[j] => e.clock > tClock
        /\ \E d \in 0 .. Len(queue) :
             /\ \A j \in DOMAIN queue : queue[j].clock <= tClock <=> j <= d
             /\ Len(deal) + d <= PoolSize

Wakes ==
    (/\ pc \in {"dispatch", "taken", "call", "select", "sleep"}
     /\ wake = 0 /\ \A c \in Clients : api[c] # "refresh")
    => \A e \in Elems(queue) : tClock + remain <= e.clock

Promised ==
    /\ \A e \in Elems(queue) : promise[e.key] # "none"
    /\ \A j \in DOMAIN deal : j >= i /\ deal[j] # NoKey => promise[deal[j]] # "none"

Periodic ==
    \A k \in Keys : promise[k] = "forever" =>
        (\E e \in Elems(queue) : e.key = k /\ e.loops = 0) \/ purge = k[1]

Late ==
    /\ pc # "collect" => \A e \in Elems(queue) : now <= e.clock + busy
    /\ pc \in {"collect", "dispatch", "taken", "call", "select"} => now <= tClock + busy
    /\ pc = "sleep" => deadline <= tClock + remain + busy

IInv ==
    /\ TypeOK /\ ListSound /\ BatchFits /\ Elements /\ Purging /\ Collected
    /\ Wakes /\ Promised /\ Periodic /\ Late

LEMMA InitIInv == Init => IInv
  <1> SUFFICES ASSUME Init PROVE IInv
    OBVIOUS
  <1> USE TimerConstants DEF Init
  <1>1. Elems(queue) = {} /\ DOMAIN queue = {} /\ DOMAIN deal = {} /\ Len(queue) = 0
    BY DEF Elems
  <1>2. TypeOK
    BY DEF TypeOK
  <1>3. ListSound /\ BatchFits
    BY <1>1 DEF ListSound, Ordered, BatchFits
  <1> QED BY <1>1, <1>2, <1>3
          DEF IInv, Elements, Purging, Collected, Wakes, Promised, Periodic, Late

-----------------------------------------------------------------------------
(* Steps that leave the list alone.                                         *)

\* A list that does not change keeps its elements and their order.
LEMMA SameList ==
    ASSUME UNCHANGED queue
    PROVE  Elems(queue)' = Elems(queue) /\ Ordered(queue)' = Ordered(queue)
  BY DEF Elems, Ordered

LEMMA RefreshStep ==
    ASSUME IInv, NEW c \in Clients, Refresh(c)
    PROVE  IInv'
  <1> USE TimerConstants DEF IInv, Refresh, threadVars
  <1>1. TypeOK' /\ wake' > 0
    BY DEF TypeOK
  <1>2. \A d \in Clients : api'[d] = "purge" => api[d] = "purge"
    BY DEF TypeOK
  <1>3. Purging'
    BY <1>2 DEF Purging, Collected
  <1>4. Wakes'
    BY <1>1 DEF Wakes
  <1> QED BY <1>1, <1>3, <1>4, SameList
          DEF ListSound, BatchFits, Elements, Collected, Promised, Periodic, Late

LEMMA DeleteAllBeginStep ==
    ASSUME IInv, NEW c \in Clients, NEW f \in Funcs, DeleteAllBegin(c, f)
    PROVE  IInv'
  <1> USE TimerConstants DEF IInv, DeleteAllBegin, threadVars
  <1>1. TypeOK'
    BY DEF TypeOK
  <1>2. Purging'
    BY DEF Purging, MutexFree, TypeOK
  <1>3. \A d \in Clients : api'[d] = "refresh" <=> api[d] = "refresh"
    BY DEF TypeOK
  <1>4. Wakes'
    BY <1>3, SameList DEF Wakes
  <1>5. Periodic'
    <2>1. \A k \in Keys : k[1] # NoFunc
      BY DEF Keys
    <2> QED BY <2>1, SameList DEF Periodic, MutexFree
  <1> QED BY <1>1, <1>2, <1>4, <1>5, SameList
          DEF ListSound, BatchFits, Elements, Collected, Promised, Late

\* What clearing entries of the batch preserves.
LEMMA CancelFacts ==
    ASSUME TypeOK, NEW ks
    PROVE  /\ Cancel(deal, ks) \in Seq(Keys \cup {NoKey})
           /\ Len(Cancel(deal, ks)) = Len(deal)
           /\ DOMAIN Cancel(deal, ks) = DOMAIN deal
           /\ \A j \in DOMAIN deal :
                /\ deal[j] \in ks => Cancel(deal, ks)[j] = NoKey
                /\ deal[j] \notin ks => Cancel(deal, ks)[j] = deal[j]
  <1>1. deal \in Seq(Keys \cup {NoKey}) /\ DOMAIN deal = 1 .. Len(deal) /\ Len(deal) \in Nat
    BY LenProperties DEF TypeOK
  <1>2. \A j \in 1 .. Len(deal) : deal[j] \in Keys \cup {NoKey}
    BY <1>1, ElementOfSeq
  <1>3. Cancel(deal, ks) \in [1 .. Len(deal) -> Keys \cup {NoKey}]
    BY <1>1, <1>2 DEF Cancel
  <1>4. Cancel(deal, ks) \in Seq(Keys \cup {NoKey}) /\ Len(Cancel(deal, ks)) = Len(deal)
    BY <1>1, <1>3
  <1>5. \A j \in DOMAIN deal :
                /\ deal[j] \in ks => Cancel(deal, ks)[j] = NoKey
                /\ deal[j] \notin ks => Cancel(deal, ks)[j] = deal[j]
    BY DEF Cancel
  <1> QED BY <1>1, <1>3, <1>4, <1>5

LEMMA DeleteAllEndStep ==
    ASSUME IInv, NEW c \in Clients, DeleteAllEnd(c)
    PROVE  IInv'
  <1> DEFINE ks == NamesOf(purge)
  <1> USE TimerConstants DEF IInv, DeleteAllEnd, threadVars
  <1>1. /\ deal' \in Seq(Keys \cup {NoKey}) /\ Len(deal') = Len(deal)
        /\ DOMAIN deal' = DOMAIN deal
        /\ \A j \in DOMAIN deal : /\ deal[j] \in ks => deal'[j] = NoKey
                                  /\ deal[j] \notin ks => deal'[j] = deal[j]
    BY CancelFacts
  <1>2. purge \in Funcs
    BY DEF Purging, TypeOK
  <1>3. ks \subseteq Keys
    BY <1>2 DEF NamesOf, Keys
  <1>4. \A e \in Elems(queue) : e.key \notin ks
    BY DEF Queued, Elems
  <1> HIDE DEF ks
  <1>5. /\ \A k \in Keys : k \notin ks => promise'[k] = promise[k]
        /\ \A k \in Keys : k \in ks => promise'[k] = "none"
        /\ promise' \in [Keys -> {"none", "finite", "forever"}]
    BY DEF TypeOK, ks
  <1>6. TypeOK'
    BY <1>1, <1>5 DEF TypeOK
  <1>7. BatchFits'
    BY <1>1 DEF BatchFits
  <1>8. Purging'
    BY DEF Purging, TypeOK
  <1>9. Collected'
    BY <1>2 DEF Purging, Collected
  <1>10. Wakes'
    <2>1. \A d \in Clients : api'[d] = "refresh" <=> api[d] = "refresh"
      BY DEF TypeOK
    <2> QED BY <2>1, SameList DEF Wakes
  <1>11. \A e \in Elems(queue) : e.key \in Keys
    BY ListElements DEF Elems, TypeOK
  <1>12. Promised'
    <2>1. \A j \in DOMAIN deal : deal[j] \in Keys \cup {NoKey}
      BY ElementOfSeq, LenProperties DEF TypeOK
    <2> QED BY <1>1, <1>4, <1>5, <1>11, <2>1, SameList DEF Promised
  <1>13. Periodic'
    <2> SUFFICES ASSUME NEW k \in Keys, promise'[k] = "forever"
                 PROVE  \E e \in Elems(queue) : e.key = k /\ e.loops = 0
      BY SameList DEF Periodic
    <2>1. k \notin ks /\ promise[k] = "forever"
      BY <1>5
    <2>2. purge # k[1]
      BY <2>1 DEF ks, NamesOf, Keys
    <2> QED BY <2>1, <2>2 DEF Periodic
  <1> QED BY <1>6, <1>7, <1>8, <1>9, <1>10, <1>12, <1>13, SameList
          DEF ListSound, Elements, Late

LEMMA DealBeginStep ==
    ASSUME IInv, DealBegin
    PROVE  IInv'
  <1> USE TimerConstants DEF IInv, DealBegin
  <1>1. TypeOK' /\ Len(deal') = 0 /\ DOMAIN deal' = {}
    BY DEF TypeOK
  <1>2. Purging' /\ Wakes' /\ BatchFits' /\ Promised' /\ Late'
    BY <1>1, SameList DEF Purging, Wakes, BatchFits, Promised, Late, MutexFree, TypeOK
  <1>3. Collected'
    <2> DEFINE Later == {j \in 1 .. Len(queue) : queue[j].clock > now}
    <2>1. /\ Len(queue) \in Nat /\ DOMAIN queue = 1 .. Len(queue) /\ now \in Nat
          /\ \A j \in 1 .. Len(queue) : queue[j].clock \in Nat
      BY ListElements DEF TypeOK
    <2>2. \A j, h \in 1 .. Len(queue) : j < h => queue[j].clock <= queue[h].clock
      BY <2>1 DEF ListSound, Ordered
    <2>3. Len(queue) <= PoolSize
      BY <2>1 DEF ListSound, TypeOK
    <2>4. \E d \in 0 .. Len(queue) : \A j \in 1 .. Len(queue) : queue[j].clock <= now <=> j <= d
      <3>1. CASE Later = {}
        <4>1. \A j \in 1 .. Len(queue) : queue[j].clock <= now <=> j <= Len(queue)
          BY <2>1, <3>1
        <4>2. Len(queue) \in 0 .. Len(queue)
          BY <2>1
        <4> QED BY <4>1, <4>2
      <3>2. CASE Later # {}
        <4>0. Later \in SUBSET Nat
          OBVIOUS
        <4>1. PICK p \in Later : \A j \in Later : p <= j
          BY <3>2, <4>0, LeastExists, Zenon
        <4>2. \A j \in 1 .. Len(queue) : queue[j].clock <= now <=> j <= p - 1
          <5> SUFFICES ASSUME NEW j \in 1 .. Len(queue)
                       PROVE  queue[j].clock <= now <=> j <= p - 1
            OBVIOUS
          <5>1. p > j => queue[j].clock <= now
            BY <2>1, <4>1
          <5>2. p <= j => queue[p].clock <= queue[j].clock
            BY <2>1, <2>2, <4>1
          <5> QED BY <2>1, <4>1, <5>1, <5>2
        <4>3. p - 1 \in 0 .. Len(queue)
          BY <2>1, <4>1
        <4> QED BY <4>2, <4>3
      <3> QED BY <3>1, <3>2
    <2>5. PICK d \in 0 .. Len(queue) : \A j \in 1 .. Len(queue) : queue[j].clock <= now <=> j <= d
      BY <2>4
    <2>6. Len(deal') + d <= PoolSize
      BY <1>1, <2>1, <2>3
    <2> QED BY <1>1, <2>1, <2>5, <2>6 DEF Collected
  <1> QED BY <1>1, <1>2, <1>3, SameList DEF ListSound, Elements, Periodic

LEMMA CollectDoneStep ==
    ASSUME IInv, CollectDone
    PROVE  IInv'
  <1> USE TimerConstants DEF IInv, CollectDone
  <1>1. /\ Len(queue) \in Nat /\ DOMAIN queue = 1 .. Len(queue) /\ now \in Nat /\ tClock \in Nat
        /\ \A j \in 1 .. Len(queue) : queue[j].clock \in Nat
    BY ListElements DEF TypeOK
  <1>2. \A e \in Elems(queue) : /\ queue # <<>> /\ e.clock \in Nat
                                /\ Head(queue).clock \in Nat /\ Head(queue).clock <= e.clock
    <2> SUFFICES ASSUME NEW j \in 1 .. Len(queue)
                 PROVE  /\ queue # <<>> /\ queue[j].clock \in Nat
                        /\ Head(queue).clock \in Nat /\ Head(queue).clock <= queue[j].clock
      BY <1>1 DEF Elems
    <2>1. queue # <<>> /\ Head(queue) = queue[1] /\ 1 \in 1 .. Len(queue)
      BY <1>1 DEF TypeOK
    <2> QED BY <1>1, <2>1 DEF ListSound, Ordered
  <1>3. \A e \in Elems(queue) : Head(queue).clock > tClock
    BY <1>1, <1>2 DEF Due
  <1>4. remain' \in Nat
    <2>1. CASE queue = <<>>
      BY <2>1 DEF Sleep
    <2>2. CASE queue # <<>>
      <3>1. Head(queue) = queue[1] /\ 1 \in 1 .. Len(queue)
        BY <1>1, <2>2 DEF TypeOK
      <3>2. Head(queue).clock \in Nat /\ Head(queue).clock > tClock
        BY <1>1, <2>2, <3>1 DEF Due
      <3> QED BY <1>1, <2>2, <3>2 DEF Sleep
    <2> QED BY <2>1, <2>2
  <1>5. TypeOK'
    BY <1>4 DEF TypeOK
  <1>6. \A e \in Elems(queue) : tClock + remain' <= e.clock
    <2> TAKE e \in Elems(queue)
    <2>1. remain' <= Head(queue).clock - tClock
      BY <1>1, <1>2, <1>3 DEF Sleep
    <2> QED BY <1>1, <1>2, <1>4, <2>1
  <1>7. Wakes'
    BY <1>6, SameList DEF Wakes
  <1>8. Late'
    <2>1. now <= tClock + busy /\ busy \in Nat
      BY DEF Late, TypeOK
    <2>2. \A e \in Elems(queue) : now <= e.clock + busy
      BY <1>1, <1>2, <1>3, <2>1
    <2> QED BY <2>1, <2>2, SameList DEF Late
  <1>9. Purging' /\ Collected'
    BY DEF Purging, Collected
  <1> QED BY <1>5, <1>7, <1>8, <1>9, SameList
          DEF ListSound, BatchFits, Elements, Promised, Periodic

\* The dispatch loop and the end of a round.
LEMMA DispatchStep ==
    ASSUME IInv, DispatchSkip \/ DispatchTake \/ DispatchCall \/ CallReturn \/ DispatchEnd
    PROVE  IInv'
  <1> USE TimerConstants DEF IInv, DispatchSkip, DispatchTake, DispatchCall, CallReturn, DispatchEnd
  <1>1. /\ UNCHANGED <<pool, queue, now, tClock, remain, deadline, wake, api, purge, promise, busy>>
        /\ pc \in {"dispatch", "taken", "call"} /\ pc' \in {"dispatch", "taken", "call", "select"}
    OBVIOUS
  <1>2. TypeOK'
    <2>1. (deal' = deal \/ deal' = <<>>) /\ (i' = i \/ i' = i + 1 \/ i' = 1)
      OBVIOUS
    <2>2. deal' \in Seq(Keys \cup {NoKey})
      BY <2>1, EmptySeq DEF TypeOK
    <2>3. i' \in Nat \ {0}
      BY <2>1 DEF TypeOK
    <2>4. taken' \in Keys \cup {NoKey} /\ (taken' # NoKey <=> pc' \in {"taken", "call"})
      <3>1. CASE DispatchTake
        <4>1. i \in 1 .. Len(deal) /\ deal \in Seq(Keys \cup {NoKey})
          BY <3>1, LenProperties DEF TypeOK
        <4>2. deal[i] \in Keys \cup {NoKey}
          BY <4>1, ElementOfSeq
        <4> QED BY <3>1, <4>2
      <3>2. CASE DispatchSkip \/ DispatchCall \/ CallReturn \/ DispatchEnd
        BY <3>2 DEF TypeOK
      <3> QED BY <3>1, <3>2
    <2> QED BY <1>1, <2>2, <2>3, <2>4 DEF TypeOK
  <1>3. BatchFits' /\ Promised'
    <2>1. CASE DispatchEnd
      BY <2>1, SameList DEF BatchFits, Promised
    <2>2. CASE DispatchSkip \/ DispatchTake \/ DispatchCall \/ CallReturn
      BY <2>2, SameList DEF BatchFits, Promised, TypeOK
    <2> QED BY <2>1, <2>2
  <1>4. Purging'
    BY DEF Purging, MutexFree
  <1>5. Wakes' /\ Late'
    BY <1>1, SameList DEF Wakes, Late
  <1>6. Collected'
    BY <1>1 DEF Collected
  <1> QED BY <1>1, <1>2, <1>3, <1>4, <1>5, <1>6, SameList DEF ListSound, Elements, Periodic

LEMMA SelectStep ==
    ASSUME IInv, SelectBegin \/ SelectReadable \/ SelectTimeout
    PROVE  IInv'
  <1> USE TimerConstants DEF IInv, SelectBegin, SelectReadable, SelectTimeout, NextRound
  <1>1. TypeOK'
    BY DEF TypeOK
  <1>2. /\ UNCHANGED <<pool, queue, deal, i, now, api, purge, promise, busy>>
        /\ pc' \in {"sleep", "deal"} /\ pc \in {"select", "sleep"}
    OBVIOUS
  <1>3. Wakes' /\ Late'
    <2>1. CASE SelectBegin
      BY <2>1, SameList DEF Wakes, Late, TypeOK
    <2>2. CASE SelectReadable \/ SelectTimeout
      BY <2>2, SameList DEF Wakes, Late
    <2> QED BY <2>1, <2>2
  <1> QED BY <1>1, <1>2, <1>3, SameList
          DEF ListSound, BatchFits, Elements, Purging, Collected, Promised, Periodic

LEMMA TickStep ==
    ASSUME IInv, Tick
    PROVE  IInv'
  <1> USE TimerConstants DEF IInv, Tick, threadVars
  <1>1. /\ now \in Nat /\ busy \in 0 .. MaxBusy /\ tClock \in Nat /\ remain \in Nat
        /\ deadline \in Nat
    BY DEF TypeOK
  <1>2. TypeOK'
    BY DEF TypeOK
  <1>3. \A e \in Elems(queue) : e.clock \in Nat
    BY ListElements DEF Elems, TypeOK
  <1>4. Late'
    <2>1. CASE Runnable
      BY <1>1, <1>3, <2>1, SameList DEF Late
    <2>2. CASE ~Runnable
      <3>1. pc = "sleep" /\ wake = 0 /\ now < deadline /\ \A c \in Clients : api[c] # "refresh"
        BY <1>1, <2>2 DEF Runnable, TypeOK
      <3>2. deadline <= tClock + remain + busy /\ \A e \in Elems(queue) : tClock + remain <= e.clock
        BY <3>1 DEF Late, Wakes
      <3>3. \A e \in Elems(queue) : now + 1 <= e.clock + busy
        BY <1>1, <1>3, <3>1, <3>2
      <3> QED BY <2>2, <3>1, <3>2, <3>3, SameList DEF Late
    <2> QED BY <2>1, <2>2
  <1> QED BY <1>2, <1>4, SameList
          DEF ListSound, BatchFits, Elements, Purging, Collected, Wakes, Promised, Periodic

-----------------------------------------------------------------------------
(* Steps that change the list.                                             *)

\* What a deletion leaves: timers that were there, minus one name.
LEMMA RemovalPreserves ==
    ASSUME IInv, NEW out \in Keys,
           queue' \in Seq(Timers), Ordered(queue)', Len(queue') = Len(queue) - 1, Len(queue) > 0,
           Elems(queue)' = {e \in Elems(queue) : e.key # out},
           pc \notin {"collect", "dispatch"}, pool' = pool + 1,
           UNCHANGED <<now, wake, purge, busy, pc, taken, tClock, remain, deadline, i>>
    PROVE  /\ pool' \in 0 .. PoolSize
           /\ ListSound' /\ Elements' /\ Collected' /\ Late'
           /\ \A k \in Keys \ {out} : (\E e \in Elems(queue) : e.key = k /\ e.loops = 0)
                                => \E e \in Elems(queue)' : e.key = k /\ e.loops = 0
  <1> USE TimerConstants DEF IInv
  <1>1. Len(queue) \in Nat
    BY ListElements DEF TypeOK
  <1>2. pool' \in 0 .. PoolSize /\ ListSound'
    <2>1. pool + Len(queue) = PoolSize /\ pool \in Nat
      BY DEF ListSound, TypeOK
    <2>2. pool' \in 0 .. PoolSize /\ pool' + Len(queue') = PoolSize
      BY <1>1, <2>1
    <2> QED BY <2>2 DEF ListSound, Ordered
  <1>3. Elements' /\ Collected' /\ Late'
    BY DEF Elements, Collected, Late
  <1> QED BY <1>2, <1>3

LEMMA DeleteStep ==
    ASSUME IInv, NEW c \in Clients, NEW k \in Keys, Delete(c, k)
    PROVE  IInv'
  <1> USE TimerConstants DEF IInv, Delete, threadVars
  <1>1. /\ deal' \in Seq(Keys \cup {NoKey}) /\ Len(deal') = Len(deal)
        /\ DOMAIN deal' = DOMAIN deal
        /\ \A j \in DOMAIN deal : /\ deal[j] = k => deal'[j] = NoKey
                                  /\ deal[j] # k => deal'[j] = deal[j]
    BY CancelFacts
  <1>2. /\ \A h \in Keys : h # k => promise'[h] = promise[h]
        /\ promise'[k] = "none"
        /\ promise' \in [Keys -> {"none", "finite", "forever"}]
    BY DEF TypeOK
  <1>3. \A e \in Elems(queue) : e.key \in Keys
    BY ListElements DEF Elems, TypeOK
  <1>4. \A j \in DOMAIN deal : deal[j] \in Keys \cup {NoKey}
    BY ElementOfSeq, LenProperties DEF TypeOK
  <1>5. /\ pool' \in 0 .. PoolSize /\ queue' \in Seq(Timers)
        /\ ListSound' /\ Elements' /\ Collected' /\ Late'
        /\ Elems(queue)' = {e \in Elems(queue) : e.key # k}
    <2>1. CASE Queued(queue, {k})
      <3>0. queue \in Seq(Timers) /\ Ordered(queue)
        BY DEF TypeOK, ListSound
      <3>1. /\ queue' \in Seq(Timers) /\ Len(queue) > 0 /\ Len(queue') = Len(queue) - 1
            /\ Ordered(queue') /\ Elems(queue') = {e \in Elems(queue) : e.key # k}
        BY <2>1, <3>0, DequeueName
      <3>2. Ordered(queue)' /\ Elems(queue)' = {e \in Elems(queue) : e.key # k}
        BY <3>1 DEF Ordered, Elems
      <3>3. pool' = pool + 1 /\ pc \notin {"collect", "dispatch"}
        BY <2>1 DEF Freed, MutexFree
      <3> QED BY <3>1, <3>2, <3>3, RemovalPreserves
    <2>2. CASE ~Queued(queue, {k})
      <3>1. UNCHANGED <<pool, queue>> /\ pc # "collect"
        BY <2>2 DEF Freed, Dequeue, MutexFree
      <3>2. Elems(queue) = {e \in Elems(queue) : e.key # k}
        BY <2>2 DEF Queued, Elems
      <3> QED BY <3>1, <3>2, SameList DEF TypeOK, ListSound, Elements, Collected, Late
    <2> QED BY <2>1, <2>2
  <1>6. TypeOK'
    BY <1>1, <1>2, <1>5 DEF TypeOK
  <1>7. BatchFits'
    BY <1>1 DEF BatchFits
  <1>8. Purging' /\ Wakes'
    BY <1>5 DEF Purging, Wakes
  <1>9. Promised'
    BY <1>1, <1>2, <1>3, <1>4, <1>5 DEF Promised
  <1>10. Periodic'
    BY <1>2, <1>5 DEF Periodic
  <1> QED BY <1>5, <1>6, <1>7, <1>8, <1>9, <1>10

LEMMA DeleteAllOneStep ==
    ASSUME IInv, DeleteAllOne
    PROVE  IInv'
  <1> USE TimerConstants DEF IInv, DeleteAllOne, threadVars
  <1>0. queue \in Seq(Timers) /\ Ordered(queue)
    BY DEF TypeOK, ListSound
  <1>1. /\ queue' \in Seq(Timers) /\ Len(queue) > 0 /\ Len(queue') = Len(queue) - 1
        /\ Ordered(queue')
        /\ \E out \in Elems(queue) : /\ out.key \in NamesOf(purge)
                                     /\ Elems(queue') = {e \in Elems(queue) : e.key # out.key}
    BY <1>0, DequeueFacts
  <1>2. PICK out \in Elems(queue) : /\ out.key \in NamesOf(purge)
                                    /\ Elems(queue)' = {e \in Elems(queue) : e.key # out.key}
    BY <1>1 DEF Elems
  <1>3. \A e \in Elems(queue) : e.key \in Keys
    BY ListElements DEF Elems, TypeOK
  <1>4. out.key \in Keys /\ out.key[1] = purge
    BY <1>2, <1>3 DEF NamesOf
  <1>5. pc \notin {"collect", "dispatch"}
    BY DEF Purging
  <1>6. /\ pool' \in 0 .. PoolSize
        /\ ListSound' /\ Elements' /\ Collected' /\ Late'
        /\ \A k \in Keys \ {out.key} : (\E e \in Elems(queue) : e.key = k /\ e.loops = 0)
                                => \E e \in Elems(queue)' : e.key = k /\ e.loops = 0
    <2>1. Ordered(queue)'
      BY <1>1 DEF Ordered
    <2> QED BY <1>1, <1>2, <1>4, <1>5, <2>1, RemovalPreserves
  <1>7. TypeOK'
    BY <1>1, <1>6 DEF TypeOK
  <1>8. Purging' /\ Wakes' /\ Promised' /\ BatchFits'
    BY <1>2 DEF Purging, Wakes, Promised, BatchFits
  <1>9. Periodic'
    BY <1>4, <1>6 DEF Periodic
  <1> QED BY <1>6, <1>7, <1>8, <1>9

LEMMA CreateStep ==
    ASSUME IInv, NEW c \in Clients, NEW k \in Keys, NEW intval \in Intervals, NEW loops \in Loops,
           Create(c, k, intval, loops)
    PROVE  IInv'
  <1> DEFINE rest == Dequeue(queue, {k})
             timer == [key |-> k, loops |-> loops, intval |-> intval, clock |-> now]
             armed == Normalised(timer, now)
  <1> USE TimerConstants DEF IInv, Create, threadVars
  <1>1. /\ Len(queue) \in Nat /\ now \in Nat /\ pool \in Nat
        /\ \A e \in Elems(queue) : e.key \in Keys /\ e.clock \in Nat
    BY ListElements DEF Elems, TypeOK
  <1>2. /\ rest \in Seq(Timers) /\ Ordered(rest)
        /\ Elems(rest) = {e \in Elems(queue) : e.key # k}
        /\ Len(rest) = IF Queued(queue, {k}) THEN Len(queue) - 1 ELSE Len(queue)
    <2>1. CASE Queued(queue, {k})
      <3>1. queue \in Seq(Timers) /\ Ordered(queue)
        BY DEF TypeOK, ListSound
      <3>2. /\ rest \in Seq(Timers) /\ Len(rest) = Len(queue) - 1 /\ Ordered(rest)
            /\ Elems(rest) = {e \in Elems(queue) : e.key # k}
        BY <2>1, <3>1, DequeueName
      <3> HIDE DEF rest
      <3> QED BY <2>1, <3>2
    <2>2. CASE ~Queued(queue, {k})
      <3>1. rest = queue
        BY <2>2 DEF Dequeue
      <3>2. Elems(queue) = {e \in Elems(queue) : e.key # k}
        BY <2>2 DEF Queued, Elems
      <3> HIDE DEF rest
      <3> QED BY <2>2, <3>1, <3>2 DEF TypeOK, ListSound
    <2> QED BY <2>1, <2>2
  <1>3. timer \in Timers
    BY <1>1 DEF Timers
  <1>4. /\ armed \in Timers /\ armed.key = k /\ armed.loops = loops /\ armed.intval = intval
        /\ armed.clock \in Nat /\ armed.clock >= now
    <2>1. timer.key = k /\ timer.loops = loops /\ timer.intval = intval /\ timer.clock = now
      OBVIOUS
    <2>2. /\ armed \in Timers /\ armed.key = timer.key /\ armed.loops = timer.loops
          /\ armed.intval = timer.intval /\ armed.clock >= timer.clock
      <3> HIDE DEF timer
      <3> QED BY <1>1, <1>3, NormalisedFacts
    <2>3. armed.clock \in Nat
      BY <2>2 DEF Timers
    <2> HIDE DEF timer, armed
    <2> QED BY <2>1, <2>2, <2>3
  <1>5. queue' = Insert(rest, armed)
    BY DEF Enqueue
  <1>6. /\ ~Queued(queue, {k}) => pool > 0
        /\ pool' = IF Queued(queue, {k}) THEN pool ELSE pool - 1
        /\ promise' = [promise EXCEPT ![k] = IF loops = 0 THEN "forever" ELSE "finite"]
        /\ api' = [api EXCEPT ![c] = "refresh"] /\ api[c] = "idle"
        /\ UNCHANGED <<deal, now, wake, purge, busy, i, pc, taken, tClock, remain, deadline>>
        /\ pc \notin {"collect", "dispatch"} /\ (intval = 0 => loops = 1)
    BY DEF MutexFree
  <1> HIDE DEF rest, timer, armed, Create
  <1>7. ~Queued(rest, {armed.key})
    BY <1>2, <1>4 DEF Queued, Elems
  <1>8. /\ queue' \in Seq(Timers) /\ Len(queue') = Len(rest) + 1 /\ Ordered(queue')
        /\ Elems(queue') = Elems(rest) \cup {armed}
    BY <1>2, <1>4, <1>5, <1>7, InsertFacts
  <1>9. /\ Ordered(queue)'
        /\ Elems(queue)' = {e \in Elems(queue) : e.key # k} \cup {armed}
    BY <1>2, <1>8 DEF Elems, Ordered
  <1>10. /\ \A h \in Keys : h # k => promise'[h] = promise[h]
         /\ promise'[k] = IF loops = 0 THEN "forever" ELSE "finite"
         /\ promise' \in [Keys -> {"none", "finite", "forever"}]
    BY <1>6 DEF TypeOK
  <1>11. /\ api'[c] = "refresh" /\ \A d \in Clients : d # c => api'[d] = api[d]
         /\ api' \in [Clients -> {"idle", "refresh", "purge"}]
    BY <1>6 DEF TypeOK
  <1>12. ListSound' /\ pool' \in 0 .. PoolSize
    <2>1. pool + Len(queue) = PoolSize
      BY DEF ListSound
    <2>2. pool' \in 0 .. PoolSize /\ pool' + Len(queue') = PoolSize
      BY <1>1, <1>2, <1>6, <1>8, <2>1
    <2> QED BY <1>9, <2>2 DEF ListSound, Ordered
  <1>13. TypeOK'
    BY <1>6, <1>8, <1>10, <1>11, <1>12 DEF TypeOK
  <1>14. Elements'
    BY <1>4, <1>6, <1>9 DEF Elements
  <1>15. Purging' /\ Wakes' /\ Collected' /\ BatchFits'
    BY <1>6, <1>11 DEF Purging, Wakes, Collected, BatchFits
  <1>16. Promised'
    <2>1. \A j \in DOMAIN deal : deal[j] \in Keys \cup {NoKey}
      BY ElementOfSeq, LenProperties DEF TypeOK
    <2> QED BY <1>1, <1>4, <1>6, <1>9, <1>10, <2>1 DEF Promised
  <1>17. Periodic'
    <2> SUFFICES ASSUME NEW h \in Keys, promise'[h] = "forever"
                 PROVE  (\E e \in Elems(queue)' : e.key = h /\ e.loops = 0) \/ purge = h[1]
      BY <1>6 DEF Periodic
    <2>1. CASE h = k
      BY <1>4, <1>9, <1>10, <2>1
    <2>2. CASE h # k
      BY <1>9, <1>10, <2>2 DEF Periodic
    <2> QED BY <2>1, <2>2
  <1>18. Late'
    <2>1. busy \in Nat
      BY DEF TypeOK
    <2> QED BY <1>1, <1>4, <1>6, <1>9, <2>1 DEF Late
  <1> QED BY <1>12, <1>13, <1>14, <1>15, <1>16, <1>17, <1>18

\* One due timer moves from the list to the batch, and back behind tClock if it
\* has to run again.
LEMMA CollectOneStep ==
    ASSUME IInv, CollectOne
    PROVE  IInv'
  <1> DEFINE timer == Head(queue)
             rest == Dequeue(queue, {timer.key})
             left == IF timer.loops = 0 THEN 0 ELSE timer.loops - 1
             back == [timer EXCEPT !.loops = left]
             armed == Normalised(back, tClock)
  <1> USE TimerConstants DEF IInv
  <1>1. /\ Len(queue) \in Nat /\ Len(queue) > 0 /\ DOMAIN queue = 1 .. Len(queue)
        /\ now \in Nat /\ tClock \in Nat /\ busy \in Nat /\ pool \in Nat
        /\ \A j \in 1 .. Len(queue) : queue[j] \in Timers /\ queue[j].clock \in Nat
        /\ \A e \in Elems(queue) : e \in Timers /\ e.key \in Keys /\ e.clock \in Nat
    <2>1. Len(queue) > 0
      BY EmptySeq DEF CollectOne, Due, TypeOK
    <2>2. /\ Len(queue) \in Nat /\ DOMAIN queue = 1 .. Len(queue)
          /\ \A j \in 1 .. Len(queue) : /\ queue[j] \in Timers /\ queue[j].key \in Keys
                                        /\ queue[j].clock \in Nat
      BY ListElements DEF TypeOK
    <2> QED BY <2>1, <2>2 DEF Elems, TypeOK
  <1>2. /\ timer = queue[1] /\ timer \in Elems(queue) /\ timer \in Timers
        /\ timer.key \in Keys /\ timer.loops \in Nat /\ timer.intval \in Nat
        /\ timer.clock <= tClock
    <2>1. timer = queue[1] /\ timer \in Elems(queue)
      BY <1>1 DEF Elems, TypeOK
    <2> QED BY <1>1, <2>1 DEF Timers, CollectOne, Due
  <1>3. /\ pc = "collect" /\ pc' = pc
        /\ deal' = Append(deal, timer.key)
        /\ queue' = IF timer.loops # 1 THEN Insert(rest, armed) ELSE rest
        /\ pool' = IF timer.loops # 1 THEN pool ELSE pool + 1
        /\ UNCHANGED <<now, wake, api, purge, promise, busy, i, taken, tClock, remain, deadline>>
    BY DEF CollectOne, GoesBack, Enqueue, threadVars
  <1>4. /\ back \in Timers /\ back.key = timer.key /\ back.intval = timer.intval
        /\ back.loops = left /\ left \in Nat /\ back.clock = timer.clock
    BY <1>2 DEF Timers
  <1>5. /\ armed \in Timers /\ armed.key = timer.key /\ armed.intval = timer.intval
        /\ armed.loops = left /\ armed.clock \in Nat
        /\ timer.loops # 1 => armed.clock > tClock /\ timer.intval > 0
    <2>1. timer.loops # 1 => timer.intval > 0
      BY <1>2 DEF Elements
    <2> HIDE DEF back, timer, left
    <2>2. /\ armed \in Timers /\ armed.key = back.key /\ armed.intval = back.intval
          /\ armed.loops = back.loops /\ (back.intval > 0 => armed.clock > tClock)
      BY <1>1, <1>4, NormalisedFacts
    <2>3. armed.clock \in Nat
      BY <2>2 DEF Timers
    <2> HIDE DEF armed
    <2> QED BY <1>4, <2>1, <2>2, <2>3
  <1>6. /\ rest \in Seq(Timers) /\ Ordered(rest) /\ Len(rest) = Len(queue) - 1
        /\ DOMAIN rest = 1 .. Len(queue) - 1
        /\ Elems(rest) = {e \in Elems(queue) : e.key # timer.key}
    <2>1. queue \in Seq(Timers) /\ Ordered(queue) /\ Queued(queue, {timer.key})
      BY <1>1, <1>2 DEF TypeOK, ListSound, Queued
    <2>2. /\ rest \in Seq(Timers) /\ Ordered(rest) /\ Len(rest) = Len(queue) - 1
          /\ Elems(rest) = {e \in Elems(queue) : e.key # timer.key}
      <3> HIDE DEF timer
      <3> QED BY <2>1, DequeueName
    <2> HIDE DEF rest
    <2>3. DOMAIN rest = 1 .. Len(rest)
      BY <2>2, LenProperties
    <2> QED BY <2>2, <2>3
  <1>7. \A j \in 1 .. Len(queue) - 1 : rest[j] = queue[j + 1]
    <2>1. Queued(queue, {timer.key})
      BY <1>1, <1>2 DEF Queued
    <2>2. First(queue, {timer.key}) = 1
      <3>1. \A j \in 1 .. Len(queue) : queue[j].key = timer.key => j = 1
        BY <1>1, <1>2 DEF ListSound, Ordered
      <3>2. 1 \in 1 .. Len(queue) /\ queue[1].key = timer.key
        BY <1>1, <1>2
      <3> HIDE DEF timer
      <3> QED BY <1>1, <3>1, <3>2 DEF First
    <2>3. rest = RemoveAt(queue, 1)
      BY <2>1, <2>2 DEF Dequeue
    <2>4. \A j \in 1 .. Len(queue) - 1 : RemoveAt(queue, 1)[j] = IF j < 1 THEN queue[j] ELSE queue[j + 1]
      <3>1. queue \in Seq(Timers) /\ 1 \in 1 .. Len(queue)
        BY <1>1 DEF TypeOK
      <3> QED BY <3>1, RemoveAtFacts
    <2> HIDE DEF rest
    <2> QED BY <1>1, <2>3, <2>4
  <1> HIDE DEF timer, rest, left, back, armed
  <1>8. ~Queued(rest, {armed.key})
    BY <1>5, <1>6 DEF Queued, Elems
  <1>9. timer.loops # 1 =>
          /\ queue' \in Seq(Timers) /\ Len(queue') = Len(rest) + 1 /\ Ordered(queue')
          /\ Elems(queue') = Elems(rest) \cup {armed}
    BY <1>3, <1>5, <1>6, <1>8, InsertFacts
  <1>10. /\ queue' \in Seq(Timers) /\ Ordered(queue)'
         /\ Len(queue') = IF timer.loops # 1 THEN Len(queue) ELSE Len(queue) - 1
         /\ Elems(queue)' = {e \in Elems(queue) : e.key # timer.key}
                              \cup (IF timer.loops # 1 THEN {armed} ELSE {})
    <2>1. CASE timer.loops # 1
      <3>1. Len(queue') = Len(queue)
        BY <1>1, <1>6, <1>9, <2>1
      <3> QED BY <1>6, <1>9, <2>1, <3>1 DEF Elems, Ordered
    <2>2. CASE timer.loops = 1
      BY <1>3, <1>6, <2>2 DEF Elems, Ordered
    <2> QED BY <2>1, <2>2
  <1>11. ListSound' /\ pool' \in 0 .. PoolSize
    <2>1. pool + Len(queue) = PoolSize
      BY DEF ListSound
    <2>2. pool' \in 0 .. PoolSize /\ pool' + Len(queue') = PoolSize
      <3>1. CASE timer.loops # 1
        <4>1. pool' = pool /\ Len(queue') = Len(queue)
          BY <1>3, <1>10, <3>1
        <4> QED BY <1>1, <2>1, <4>1
      <3>2. CASE timer.loops = 1
        <4>1. pool' = pool + 1 /\ Len(queue') = Len(queue) - 1
          BY <1>3, <1>10, <3>2
        <4> QED BY <1>1, <2>1, <4>1
      <3> QED BY <3>1, <3>2
    <2> QED BY <1>10, <2>2 DEF ListSound, Ordered
  <1>12. /\ deal \in Seq(Keys \cup {NoKey}) /\ Len(deal) \in Nat /\ DOMAIN deal = 1 .. Len(deal)
         /\ deal' \in Seq(Keys \cup {NoKey}) /\ Len(deal') = Len(deal) + 1
         /\ DOMAIN deal' = 1 .. Len(deal) + 1
         /\ \A j \in 1 .. Len(deal) : deal'[j] = deal[j]
         /\ deal'[Len(deal) + 1] = timer.key
    <2>1. deal \in Seq(Keys \cup {NoKey}) /\ timer.key \in Keys \cup {NoKey}
      BY <1>2 DEF TypeOK
    <2>2. Len(deal) \in Nat /\ DOMAIN deal = 1 .. Len(deal)
      BY <2>1, LenProperties
    <2>3. /\ deal' \in Seq(Keys \cup {NoKey}) /\ Len(deal') = Len(deal) + 1
          /\ \A j \in 1 .. Len(deal) : deal'[j] = deal[j]
          /\ deal'[Len(deal) + 1] = timer.key
      BY <1>3, <2>1, AppendProperties
    <2>4. DOMAIN deal' = 1 .. Len(deal')
      BY <2>3, LenProperties
    <2> QED BY <2>1, <2>2, <2>3, <2>4
  <1>13. TypeOK'
    BY <1>3, <1>10, <1>11, <1>12 DEF TypeOK
  <1>14. Elements'
    <2>1. timer.loops # 1 => armed.intval > 0
      BY <1>5
    <2> QED BY <1>3, <1>10, <2>1 DEF Elements
  <1>15. Purging' /\ Wakes' /\ Late'
    BY <1>3 DEF Purging, Wakes, Late
  <1>16. \A j \in 1 .. Len(deal) : deal[j] # timer.key
    <2>1. \A j \in DOMAIN deal, e \in Elems(queue) : e.key = deal[j] => e.clock > tClock
      BY <1>3 DEF Collected
    <2>2. ~(timer.clock > tClock)
      BY <1>1, <1>2
    <2> QED BY <1>2, <1>12, <2>1, <2>2
  <1>17. \E d \in 0 .. Len(queue') :
           /\ \A j \in DOMAIN queue' : queue'[j].clock <= tClock <=> j <= d
           /\ Len(deal') + d <= PoolSize
    <2>1. PICK d \in 0 .. Len(queue) :
            /\ \A j \in 1 .. Len(queue) : queue[j].clock <= tClock <=> j <= d
            /\ Len(deal) + d <= PoolSize
      BY <1>1, <1>3 DEF Collected
    <2>2. d > 0 /\ d \in Nat /\ d - 1 \in 0 .. Len(queue) - 1
      BY <1>1, <1>2, <2>1
    <2>3. Len(deal') + (d - 1) <= PoolSize
      BY <1>12, <2>1, <2>2
    <2>4. \A j \in 1 .. Len(queue) - 1 : rest[j].clock <= tClock <=> j <= d - 1
      <3> TAKE j \in 1 .. Len(queue) - 1
      <3>1. j + 1 \in 1 .. Len(queue) /\ rest[j] = queue[j + 1]
        BY <1>1, <1>7
      <3>2. queue[j + 1].clock <= tClock <=> j + 1 <= d
        BY <2>1, <3>1
      <3> QED BY <2>2, <3>1, <3>2
    <2>5. CASE timer.loops = 1
      <3>1. DOMAIN queue' = 1 .. Len(queue) - 1 /\ Len(queue') = Len(queue) - 1 /\ queue' = rest
        BY <1>3, <1>6, <2>5
      <3> QED BY <2>2, <2>3, <2>4, <3>1
    <2>6. CASE timer.loops # 1
      <3> DEFINE r == Insert(rest, armed)
      <3>0. PICK p \in 1 .. Len(rest) + 1 :
             /\ IsPlace(rest, armed, p)
             /\ r \in Seq(Timers)
             /\ Len(r) = Len(rest) + 1
             /\ r[p] = armed
             /\ \A j \in 1 .. Len(rest) : j < p => r[j] = rest[j]
             /\ \A j \in 1 .. Len(rest) : j >= p => r[j + 1] = rest[j]
        BY <1>5, <1>6, InsertAtPlace
      <3> HIDE DEF r
      <3>1. /\ IsPlace(rest, armed, p)
            /\ Len(queue') = Len(rest) + 1
            /\ queue'[p] = armed
            /\ \A j \in 1 .. Len(rest) : j < p => queue'[j] = rest[j]
            /\ \A j \in 1 .. Len(rest) : j >= p => queue'[j + 1] = rest[j]
        <4>1. queue' = r
          BY <1>3, <2>6 DEF r
        <4> QED BY <3>0, <4>1
      <3>2. /\ DOMAIN queue' = 1 .. Len(queue) /\ Len(queue') = Len(queue)
            /\ Len(rest) = Len(queue) - 1 /\ p \in 1 .. Len(queue)
            /\ \A j \in 1 .. Len(queue) : queue'[j] \in Timers /\ queue'[j].clock \in Nat
        <4>1. queue' \in Seq(Timers)
          BY <1>10
        <4>2. Len(queue') = Len(queue)
          BY <1>10, <2>6
        <4> QED BY <1>1, <1>6, <3>1, <4>1, <4>2, ListElements
      <3>3. armed.clock > tClock
        BY <1>5, <2>6
      <3>4. p > d - 1
        <4> SUFFICES ASSUME p <= d - 1 PROVE FALSE
          BY <2>2, <3>2
        <4>1. p \in 1 .. Len(queue) - 1 /\ rest[p].clock <= tClock
          BY <2>2, <2>4, <3>2
        <4>2. rest[p].clock > armed.clock
          BY <3>1, <3>2, <4>1 DEF IsPlace
        <4>3. rest[p].clock \in Nat
          BY <1>6, <4>1, ListElements
        <4> QED BY <1>1, <1>5, <3>3, <4>1, <4>2, <4>3
      <3>5. \A j \in 1 .. Len(queue) : queue'[j].clock <= tClock <=> j <= d - 1
        <4> TAKE j \in 1 .. Len(queue)
        <4>1. CASE j < p
          <5>1. j \in 1 .. Len(rest) /\ j \in 1 .. Len(queue) - 1 /\ queue'[j] = rest[j]
            BY <1>1, <3>1, <3>2, <4>1
          <5> QED BY <2>4, <5>1
        <4>2. CASE j = p
          BY <1>1, <1>5, <2>2, <3>1, <3>2, <3>3, <3>4, <4>2
        <4>3. CASE j > p
          <5>1. j - 1 \in 1 .. Len(rest) /\ j - 1 >= p /\ (j - 1) + 1 = j
            BY <1>1, <3>2, <4>3
          <5>2. queue'[j] = rest[j - 1]
            BY <3>1, <5>1
          <5>3. rest[j - 1].clock <= tClock <=> j - 1 <= d - 1
            BY <2>4, <3>2, <5>1
          <5>4. ~(j - 1 <= d - 1) /\ ~(j <= d - 1)
            BY <2>2, <3>2, <3>4, <5>1, <4>3
          <5> QED BY <5>2, <5>3, <5>4
        <4> QED BY <3>2, <4>1, <4>2, <4>3
      <3>6. d - 1 \in 0 .. Len(queue')
        BY <1>1, <2>2, <3>2
      <3> QED BY <2>3, <3>2, <3>5, <3>6
    <2> QED BY <2>5, <2>6
  <1>18. BatchFits'
    <2>1. Len(deal') <= PoolSize
      <3>1. PICK d \in 0 .. Len(queue') : Len(deal') + d <= PoolSize
        BY <1>17
      <3>2. Len(queue') \in Nat
        BY <1>10, ListElements
      <3> QED BY <1>12, <3>1, <3>2
    <2>2. \A j, h \in 1 .. Len(deal) + 1 : j < h /\ deal'[j] = deal'[h] => deal'[j] = NoKey
      <3> SUFFICES ASSUME NEW j \in 1 .. Len(deal) + 1, NEW h \in 1 .. Len(deal) + 1,
                          j < h, deal'[j] = deal'[h]
                   PROVE  deal'[j] = NoKey
        OBVIOUS
      <3>1. j \in 1 .. Len(deal) /\ deal'[j] = deal[j]
        BY <1>12
      <3>2. h = Len(deal) + 1 \/ (h \in 1 .. Len(deal) /\ deal'[h] = deal[h])
        BY <1>12
      <3> QED BY <1>12, <1>16, <3>1, <3>2 DEF BatchFits
    <2> QED BY <1>12, <2>1, <2>2 DEF BatchFits
  <1>19. Collected'
    <2>1. \A j \in 1 .. Len(deal) + 1, e \in Elems(queue)' : e.key = deal'[j] => e.clock > tClock
      <3> SUFFICES ASSUME NEW j \in 1 .. Len(deal) + 1, NEW e \in Elems(queue)', e.key = deal'[j]
                   PROVE  e.clock > tClock
        OBVIOUS
      <3>1. CASE e = armed /\ timer.loops # 1
        BY <1>5, <3>1
      <3>2. CASE e \in Elems(queue) /\ e.key # timer.key
        <4>1. j \in 1 .. Len(deal) /\ deal'[j] = deal[j]
          BY <1>12, <3>2
        <4> QED BY <1>3, <1>12, <3>2, <4>1 DEF Collected
      <3> QED BY <1>10, <3>1, <3>2
    <2> QED BY <1>3, <1>12, <1>17, <2>1 DEF Collected
  <1>20. Promised'
    <2>1. promise[timer.key] # "none"
      BY <1>2 DEF Promised
    <2>2. \A e \in Elems(queue)' : promise[e.key] # "none"
      BY <1>5, <1>10, <2>1 DEF Promised
    <2>3. \A j \in DOMAIN deal' : j >= i /\ deal'[j] # NoKey => promise[deal'[j]] # "none"
      BY <1>12, <2>1 DEF Promised
    <2> QED BY <1>3, <2>2, <2>3 DEF Promised
  <1>21. Periodic'
    <2> SUFFICES ASSUME NEW k \in Keys, promise[k] = "forever", purge # k[1]
                 PROVE  \E e \in Elems(queue)' : e.key = k /\ e.loops = 0
      BY <1>3 DEF Periodic
    <2>1. PICK e \in Elems(queue) : e.key = k /\ e.loops = 0
      BY DEF Periodic
    <2>2. CASE k # timer.key
      BY <1>10, <2>1, <2>2
    <2>3. CASE k = timer.key
      <3>1. e = timer
        BY <1>1, <1>2, <2>1, <2>3 DEF ListSound, Ordered, Elems
      <3>2. armed.loops = 0 /\ timer.loops # 1
        BY <1>5, <2>1, <3>1 DEF left
      <3> QED BY <1>5, <1>10, <2>3, <3>2
    <2> QED BY <2>2, <2>3
  <1> QED BY <1>11, <1>13, <1>14, <1>15, <1>18, <1>19, <1>20, <1>21

-----------------------------------------------------------------------------
(* The theorems.                                                            *)

LEMMA StutterStep == IInv /\ UNCHANGED vars => IInv'
  BY SameList DEF vars, IInv, TypeOK, ListSound, BatchFits, Elements, Purging, Collected,
                  Wakes, Promised, Periodic, Late

LEMMA NextStep == IInv /\ [Next]_vars => IInv'
  <1> SUFFICES ASSUME IInv, Next PROVE IInv'
    BY StutterStep
  <1>1. CASE TimerThread
    BY <1>1, DealBeginStep, CollectOneStep, CollectDoneStep, DispatchStep, SelectStep
       DEF TimerThread
  <1>2. CASE Tick
    BY <1>2, TickStep
  <1>3. CASE \E c \in Clients : Client(c)
    <2>1. PICK c \in Clients : Client(c)
      BY <1>3
    <2> QED BY <2>1, CreateStep, DeleteStep, DeleteAllBeginStep, RefreshStep,
               DeleteAllOneStep, DeleteAllEndStep DEF Client, DeleteAllStep
  <1> QED BY <1>1, <1>2, <1>3 DEF Next

THEOREM Invariance == Spec => []IInv
  BY InitIInv, NextStep, PTL DEF Spec

\* Every variable keeps its type; in particular the pool never holds more than
\* PoolSize timers and the round's charged ticks stay within their bound.
THEOREM TypeCorrect == Spec => []TypeOK
  BY Invariance, PTL DEF IInv

\* The list and the pool of mid_timer.c partition the timers, and the list is
\* sorted and free of duplicates.
THEOREM ListIsSound == Spec => []ListSound
  BY Invariance, PTL DEF IInv

\* msg_timer_deal never writes past g_deal_funcs and deals with no timer twice.
THEOREM BatchAlwaysFits == Spec => []BatchFits
  BY Invariance, PTL DEF IInv

\* A deleted timer is neither armed nor will the dispatch loop take it: only a
\* copy made before the delete had the mutex may still be called.
THEOREM DeletedTimersAreNotTaken == Spec => []DeletedNeverTaken
  <1>1. IInv => DeletedNeverTaken
    BY DEF IInv, Promised, DeletedNeverTaken, Elems, Pending
  <1> QED BY <1>1, Invariance, PTL

\* A periodic timer stays armed until it is deleted.
THEOREM PeriodicTimersStay == Spec => []PeriodicStays
  <1>1. IInv => PeriodicStays
    BY DEF IInv, Periodic, PeriodicStays, Elems, Queued
  <1> QED BY <1>1, Invariance, PTL

\* The wake-up byte and the computed sleep together cover every new timer.
THEOREM WakeupsAreNotLost == Spec => []NoLostWakeup
  <1>1. IInv => NoLostWakeup
    <2> SUFFICES ASSUME IInv, queue # <<>>
                 PROVE  Head(queue) \in Elems(queue)
      BY DEF IInv, Wakes, NoLostWakeup
    <2>1. Len(queue) \in Nat /\ DOMAIN queue = 1 .. Len(queue) /\ queue \in Seq(Timers)
      BY ListElements DEF IInv, TypeOK
    <2>2. Head(queue) = queue[1] /\ 1 \in 1 .. Len(queue)
      BY <2>1
    <2> QED BY <2>1, <2>2 DEF Elems
  <1> QED BY <1>1, Invariance, PTL

\* No timer is late by more than the thread's own delay in one round.
THEOREM LatenessIsBounded == Spec => []BoundedLateness
  <1>1. IInv => BoundedLateness
    BY DEF IInv, Late, BoundedLateness, Elems
  <1> QED BY <1>1, Invariance, PTL
=============================================================================
